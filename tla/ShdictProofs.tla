---------------------------- MODULE ShdictProofs ----------------------------
EXTENDS Shdict, SequenceTheorems, TLAPS

LEMMA MinSingleton == ASSUME NEW p \in Int PROVE Min({p}) = p
  BY DEF Min

LEMMA RemoveAtElements ==
  ASSUME NEW S, NEW s \in Seq(S), NEW p \in 1 .. Len(s)
  PROVE  /\ RemoveAt(s, p) \in Seq(S)
         /\ Len(RemoveAt(s, p)) = Len(s) - 1
         /\ \A i \in 1 .. Len(s) - 1 :
              RemoveAt(s, p)[i] = IF i < p THEN s[i] ELSE s[i + 1]
<1> DEFINE a == SubSeq(s, 1, p - 1)
           b == SubSeq(s, p + 1, Len(s))
<1>1. a \in Seq(S) /\ Len(a) = p - 1 /\ \A i \in 1 .. p - 1 : a[i] = s[i]
  BY SubSeqProperties
<1>2. /\ b \in Seq(S) /\ Len(b) = Len(s) - p
      /\ \A i \in 1 .. Len(s) - p : b[i] = s[p + i]
  BY SubSeqProperties
<1>3. RemoveAt(s, p) = a \o b
  BY DEF RemoveAt
<1> HIDE DEF a, b
<1>4. /\ a \o b \in Seq(S) /\ Len(a \o b) = Len(a) + Len(b)
      /\ \A i \in 1 .. Len(a) + Len(b) :
           (a \o b)[i] = IF i <= Len(a) THEN a[i] ELSE b[i - Len(a)]
  BY <1>1, <1>2, ConcatProperties
<1>5. Len(s) \in Nat /\ Len(a) + Len(b) = Len(s) - 1
  BY <1>1, <1>2
<1>6. ASSUME NEW i \in 1 .. Len(s) - 1
      PROVE  RemoveAt(s, p)[i] = IF i < p THEN s[i] ELSE s[i + 1]
  <2>1. CASE i < p
    <3>1. (a \o b)[i] = a[i] /\ a[i] = s[i]
      BY <2>1, <1>1, <1>2, <1>4, <1>5
    <3> QED
      BY <2>1, <3>1, <1>3
  <2>3. CASE ~(i < p)
    <3>1. (a \o b)[i] = b[i - (p - 1)]
      BY <2>3, <1>1, <1>2, <1>4, <1>5
    <3>2. i - (p - 1) \in 1 .. Len(s) - p /\ p + (i - (p - 1)) = i + 1
      BY <2>3, <1>5
    <3>3. b[i - (p - 1)] = s[i + 1]
      BY <3>2, <1>2
    <3> QED
      BY <2>3, <3>1, <3>3, <1>3
  <2> QED
    BY <2>1, <2>3
<1>7. RemoveAt(s, p) \in Seq(S) /\ Len(RemoveAt(s, p)) = Len(s) - 1
  BY <1>3, <1>4, <1>5
<1> QED
  BY <1>6, <1>7

LEMMA RemoveFirstIsAt ==
  ASSUME NEW S, NEW s \in Seq(S), IsInjective(s), NEW p \in 1 .. Len(s)
  PROVE  RemoveFirst(s, s[p]) = RemoveAt(s, p)
<1>1. {i \in 1 .. Len(s) : s[i] = s[p]} = {p}
  BY DEF IsInjective
<1>2. SelectInSeq(s, LAMBDA v : v = s[p]) = p
  BY <1>1, MinSingleton DEF SelectInSeq
<1> QED
  BY <1>2 DEF RemoveFirst

\* Taking an entry out of the LRU queue.
LEMMA RemoveFirstExact ==
  ASSUME NEW S, NEW s \in Seq(S), IsInjective(s), NEW e
  PROVE  /\ RemoveFirst(s, e) \in Seq(S)
         /\ IsInjective(RemoveFirst(s, e))
         /\ ToSet(RemoveFirst(s, e)) = ToSet(s) \ {e}
<1>1. CASE \A i \in 1 .. Len(s) : s[i] # e
  <2>1. RemoveFirst(s, e) = s
    BY <1>1 DEF RemoveFirst
  <2> QED
    BY <2>1, <1>1 DEF ToSet
<1>2. CASE \E i \in 1 .. Len(s) : s[i] = e
  <2>1. PICK p \in 1 .. Len(s) : s[p] = e
    BY <1>2
  <2> DEFINE r == RemoveAt(s, p)
  <2>2. RemoveFirst(s, e) = r
    BY <2>1, RemoveFirstIsAt
  <2>3. /\ r \in Seq(S) /\ Len(r) = Len(s) - 1
        /\ \A i \in 1 .. Len(s) - 1 : r[i] = IF i < p THEN s[i] ELSE s[i + 1]
    BY RemoveAtElements
  <2> HIDE DEF r
  <2>4. DOMAIN r = 1 .. Len(s) - 1 /\ DOMAIN s = 1 .. Len(s) /\ Len(s) \in Nat
    BY <2>3
  <2>5. ASSUME NEW i \in DOMAIN r, NEW j \in DOMAIN r, r[i] = r[j] PROVE i = j
    <3> DEFINE m(x) == IF x < p THEN x ELSE x + 1
    <3>1. m(i) \in DOMAIN s /\ m(j) \in DOMAIN s /\ s[m(i)] = s[m(j)]
      BY <2>3, <2>4, <2>5
    <3>2. m(i) = m(j)
      BY <3>1 DEF IsInjective
    <3> QED
      BY <2>4, <3>2
  <2>6. ToSet(r) \subseteq ToSet(s) \ {e}
    BY <2>1, <2>3, <2>4 DEF ToSet, IsInjective
  <2>7. ASSUME NEW i \in 1 .. Len(s), i # p PROVE s[i] \in ToSet(r)
    <3>1. CASE i < p
      BY <3>1, <2>3, <2>4 DEF ToSet
    <3>2. CASE i > p
      <4>1. i - 1 \in 1 .. Len(s) - 1 /\ r[i - 1] = s[i]
        BY <3>2, <2>3, <2>4
      <4> QED
        BY <4>1, <2>4 DEF ToSet
    <3> QED
      BY <2>7, <3>1, <3>2
  <2>8. ToSet(s) \ {e} \subseteq ToSet(r)
    BY <2>1, <2>4, <2>7 DEF ToSet
  <2> QED
    BY <2>2, <2>3, <2>5, <2>6, <2>8 DEF IsInjective
<1> QED
  BY <1>1, <1>2

\* Putting one at its head.
LEMMA ConsExact ==
  ASSUME NEW S, NEW s \in Seq(S), IsInjective(s), NEW e \in S, e \notin ToSet(s)
  PROVE  /\ Cons(e, s) \in Seq(S)
         /\ IsInjective(Cons(e, s))
         /\ ToSet(Cons(e, s)) = ToSet(s) \cup {e}
<1> DEFINE c == Cons(e, s)
<1>1. /\ c \in Seq(S) /\ Len(c) = Len(s) + 1 /\ Len(s) \in Nat
      /\ \A i \in 1 .. Len(s) + 1 : c[i] = IF i = 1 THEN e ELSE s[i - 1]
  BY DEF Cons
<1> HIDE DEF c
<1>2. DOMAIN c = 1 .. Len(s) + 1 /\ DOMAIN s = 1 .. Len(s)
  BY <1>1
<1>3. ASSUME NEW i \in DOMAIN c, NEW j \in DOMAIN c, c[i] = c[j] PROVE i = j
  <2>1. ASSUME NEW n \in DOMAIN c, n # 1
        PROVE  n - 1 \in DOMAIN s /\ c[n] = s[n - 1] /\ c[n] # e
    <3>1. n - 1 \in DOMAIN s /\ c[n] = s[n - 1]
      BY <2>1, <1>1, <1>2
    <3> QED
      BY <3>1 DEF ToSet
  <2>2. c[1] = e
    BY <1>1
  <2>3. CASE i = 1 \/ j = 1
    BY <1>3, <2>1, <2>2, <2>3
  <2>4. CASE i # 1 /\ j # 1
    <3>1. i - 1 = j - 1
      BY <1>3, <2>1, <2>4 DEF IsInjective
    <3> QED
      BY <1>2, <3>1
  <2> QED
    BY <2>3, <2>4
<1>4. ToSet(c) \subseteq ToSet(s) \cup {e}
  BY <1>1, <1>2 DEF ToSet
<1>5. ASSUME NEW i \in DOMAIN s PROVE s[i] \in ToSet(c)
  <2>1. i + 1 \in DOMAIN c /\ c[i + 1] = s[i]
    BY <1>1, <1>2
  <2> QED
    BY <2>1 DEF ToSet
<1>6. e \in ToSet(c)
  BY <1>1, <1>2 DEF ToSet
<1>7. ToSet(s) \subseteq ToSet(c)
  BY <1>5 DEF ToSet
<1> QED
  BY <1>1, <1>3, <1>4, <1>6, <1>7 DEF c, IsInjective

-----------------------------------------------------------------------------
(* The dictionary stays consistent under each operator on it *)

\* What holds of the dictionary at every point of a call, also of the
\* intermediate values between two of its steps.
Consistent(d) ==
    /\ IsDict(d)
    /\ LruExact(d)
    /\ UsedExact(d)
    /\ \A k \in DOMAIN d.tree : LenExact(d.tree[k]) /\ FitsItsBlocks(d.tree[k])

LEMMA TouchConsistent ==
  ASSUME NEW d, Consistent(d), NEW k \in DOMAIN d.tree
  PROVE  /\ Consistent(Touch(d, k))
         /\ Touch(d, k).tree = d.tree
<1> DEFINE r == RemoveFirst(d.lru, k)
           q == Cons(k, r)
<1>1. d.lru \in Seq(Key) /\ k \in Key
  BY DEF Consistent, IsDict
<1>2. r \in Seq(Key) /\ IsInjective(r) /\ ToSet(r) = DOMAIN d.tree \ {k}
  BY <1>1, RemoveFirstExact DEF Consistent, LruExact
<1> HIDE DEF r
<1>3. q \in Seq(Key) /\ IsInjective(q) /\ ToSet(q) = ToSet(r) \cup {k}
  <2>1. k \notin ToSet(r)
    BY <1>2
  <2> QED
    BY <1>1, <1>2, <2>1, ConsExact
<1>4. Touch(d, k) = [tree |-> d.tree, lru |-> q, used |-> d.used]
  BY DEF Touch, Consistent, IsDict, r
<1> DEFINE n == Touch(d, k)
<1>5. /\ n = [tree |-> n.tree, lru |-> n.lru, used |-> n.used]
      /\ n.tree = d.tree /\ n.lru = q /\ n.used = d.used
  BY <1>4
<1> HIDE DEF q, n
<1>6. IsDict(n)
  BY <1>3, <1>5 DEF Consistent, IsDict
<1>7. LruExact(n)
  BY <1>2, <1>3, <1>5 DEF LruExact
<1>8. UsedExact(n)
  BY <1>5 DEF Consistent, UsedExact
<1> QED
  BY <1>5, <1>6, <1>7, <1>8 DEF Consistent, n

\* n has some of the entries of d, as they are.
Keeps(n, d) ==
    /\ DOMAIN n.tree \subseteq DOMAIN d.tree
    /\ \A x \in DOMAIN n.tree : n.tree[x] = d.tree[x]

\* Freeing an entry with its list nodes.
LEMMA FreeEntryConsistent ==
  ASSUME NEW d, Consistent(d), NEW k \in DOMAIN d.tree
  PROVE  /\ Consistent(FreeEntry(d, k))
         /\ Keeps(FreeEntry(d, k), d)
         /\ k \notin DOMAIN FreeEntry(d, k).tree
<1> DEFINE n == FreeEntry(d, k)
<1>1. n = [tree |-> [x \in DOMAIN d.tree \ {k} |-> d.tree[x]],
           lru |-> RemoveFirst(d.lru, k),
           used |-> d.used \ EntryBlocks(d.tree[k])]
  <2>1. FreeItems(d, k) = [tree |-> d.tree, lru |-> d.lru,
                           used |-> d.used \ ItemBlocks(d.tree[k])]
    <3>1. d = [tree |-> d.tree, lru |-> d.lru, used |-> d.used]
      BY DEF Consistent, IsDict
    <3>2. FreeItems(d, k) = [d EXCEPT !.used = d.used \ ItemBlocks(d.tree[k])]
      BY DEF FreeItems, Release
    <3> DEFINE u == d.used \ ItemBlocks(d.tree[k])
    <3> HIDE DEF u
    <3>3. [d EXCEPT !.used = u] = [tree |-> d.tree, lru |-> d.lru, used |-> u]
      BY <3>1
    <3> QED
      BY <3>2, <3>3 DEF u
  <2>2. (d.used \ ItemBlocks(d.tree[k])) \ {d.tree[k].block}
          = d.used \ EntryBlocks(d.tree[k])
    BY DEF EntryBlocks
  <2>3. PICK f : f = FreeItems(d, k)
    OBVIOUS
  <2>4. f.tree = d.tree /\ f.lru = d.lru /\ f.used = d.used \ ItemBlocks(d.tree[k])
    BY <2>1, <2>3
  <2>5. n = [tree |-> [x \in DOMAIN f.tree \ {k} |-> f.tree[x]],
             lru |-> RemoveFirst(f.lru, k),
             used |-> f.used \ {f.tree[k].block}]
    BY <2>3, Zenon DEF FreeEntry, DropNode, Release
  <2> QED
    BY <2>2, <2>4, <2>5, Zenon
<1>2. /\ n = [tree |-> n.tree, lru |-> n.lru, used |-> n.used]
      /\ n.tree = [x \in DOMAIN d.tree \ {k} |-> d.tree[x]]
      /\ n.lru = RemoveFirst(d.lru, k)
      /\ n.used = d.used \ EntryBlocks(d.tree[k])
  BY <1>1
<1> HIDE DEF n
<1>3. DOMAIN n.tree = DOMAIN d.tree \ {k} /\ \A x \in DOMAIN n.tree : n.tree[x] = d.tree[x]
  BY <1>2
<1>4. n.lru \in Seq(Key) /\ LruExact(n)
  BY <1>2, <1>3, RemoveFirstExact DEF Consistent, IsDict, LruExact
<1>5. IsDict(n)
  <2>1. DOMAIN n.tree \subseteq Key /\ n.tree \in [DOMAIN n.tree -> Entry]
    BY <1>2, <1>3 DEF Consistent, IsDict
  <2>2. n.used \subseteq Block
    BY <1>2 DEF Consistent, IsDict
  <2> QED
    BY <1>2, <1>4, <2>1, <2>2 DEF IsDict
<1>6. UsedExact(n)
  <2> DEFINE B(x) == EntryBlocks(d.tree[x])
  <2>2. /\ \A b : b \in d.used <=> b = Root \/ \E x \in DOMAIN d.tree : b \in B(x)
        /\ Root \notin B(k)
        /\ \A x \in DOMAIN d.tree : x # k => B(x) \cap B(k) = {}
    BY DEF Consistent, UsedExact, OwnsItsBlocks
  <2>3. \A x \in DOMAIN n.tree : EntryBlocks(n.tree[x]) = B(x)
    BY <1>3
  <2> HIDE DEF B
  <2>4. \A b : b \in n.used <=> b = Root \/ \E x \in DOMAIN n.tree : b \in B(x)
    BY <1>2, <1>3, <2>2 DEF B
  <2>1. n.used = {Root} \cup UNION {EntryBlocks(n.tree[x]) : x \in DOMAIN n.tree}
    BY <2>3, <2>4
  <2> QED
    BY <1>3, <2>1 DEF Consistent, UsedExact
<1>7. \A x \in DOMAIN n.tree : LenExact(n.tree[x]) /\ FitsItsBlocks(n.tree[x])
  BY <1>3 DEF Consistent
<1> QED
  BY <1>3, <1>5, <1>4, <1>6, <1>7 DEF Consistent, Keeps, n

LEMMA KeepsTransitive ==
  ASSUME NEW a, NEW b, NEW c, Keeps(a, b), Keeps(b, c) PROVE Keeps(a, c)
  BY DEF Keeps

LEMMA LastInTree ==
  ASSUME NEW d, Consistent(d), d.lru # <<>> PROVE Last(d.lru) \in DOMAIN d.tree
<1>1. d.lru \in Seq(Key)
  BY DEF Consistent, IsDict
<1>2. Len(d.lru) \in DOMAIN d.lru
  BY <1>1
<1> QED
  BY <1>2 DEF Last, Consistent, LruExact, ToSet

\* Whatever mps_shdict_expire frees, the rest is consistent and unchanged.
LEMMA ReclaimTailConsistent ==
  ASSUME NEW d, Consistent(d), NEW t
  PROVE  Consistent(ReclaimTail(d, t)) /\ Keeps(ReclaimTail(d, t), d)
<1>1. CASE d.lru # <<>> /\ Reclaimable(d.tree[Last(d.lru)], t)
  BY <1>1, LastInTree, FreeEntryConsistent DEF ReclaimTail
<1>2. CASE ~(d.lru # <<>> /\ Reclaimable(d.tree[Last(d.lru)], t))
  BY <1>2 DEF ReclaimTail, Keeps
<1> QED
  BY <1>1, <1>2

LEMMA ExpireTwoConsistent ==
  ASSUME NEW d, Consistent(d), NEW t
  PROVE  Consistent(ExpireTwo(d, t)) /\ Keeps(ExpireTwo(d, t), d)
  BY ReclaimTailConsistent, KeepsTransitive DEF ExpireTwo

LEMMA ExpireForcedConsistent ==
  ASSUME NEW d, Consistent(d), NEW t
  PROVE  Consistent(ExpireForced(d, t)) /\ Keeps(ExpireForced(d, t), d)
<1>1. CASE d.lru = <<>>
  BY <1>1 DEF ExpireForced, Keeps
<1>2. CASE d.lru # <<>>
  <2> DEFINE f == FreeEntry(d, Last(d.lru))
  <2>1. Consistent(f) /\ Keeps(f, d)
    BY <1>2, LastInTree, FreeEntryConsistent
  <2>2. ExpireForced(d, t) = ExpireTwo(f, t)
    BY <1>2 DEF ExpireForced
  <2> HIDE DEF f
  <2> QED
    BY <2>1, <2>2, ExpireTwoConsistent, KeepsTransitive
<1> QED
  BY <1>1, <1>2

LEMMA LookupConsistent ==
  ASSUME NEW d, Consistent(d), NEW k
  PROVE  Consistent(Lookup(d, k)) /\ Lookup(d, k).tree = d.tree
  BY TouchConsistent DEF Lookup

LEMMA WithoutConsistent ==
  ASSUME NEW d, Consistent(d), NEW k
  PROVE  /\ Consistent(Without(d, k)) /\ Keeps(Without(d, k), d)
         /\ k \notin DOMAIN Without(d, k).tree
<1>1. CASE k \in DOMAIN d.tree
  <2>1. Without(d, k) = FreeEntry(d, k)
    BY <1>1 DEF Without
  <2> QED
    BY <1>1, <2>1, FreeEntryConsistent
<1>2. CASE k \notin DOMAIN d.tree
  BY <1>2 DEF Without, Keeps
<1> QED
  BY <1>1, <1>2

\* A node without list nodes: freeing the node alone frees the entry.
LEMMA DropNodeConsistent ==
  ASSUME NEW d, Consistent(d), NEW k \in DOMAIN d.tree, d.tree[k].items = <<>>
  PROVE  /\ Consistent(DropNode(d, k)) /\ Keeps(DropNode(d, k), d)
         /\ k \notin DOMAIN DropNode(d, k).tree
<1>1. ItemBlocks(d.tree[k]) = {}
  BY DEF ItemBlocks
<1>2. FreeItems(d, k) = d
  <2>1. d = [tree |-> d.tree, lru |-> d.lru, used |-> d.used]
    BY DEF Consistent, IsDict
  <2>2. [d EXCEPT !.used = d.used] = d
    BY <2>1
  <2>3. d.used \ ItemBlocks(d.tree[k]) = d.used
    BY <1>1
  <2> QED
    BY <2>2, <2>3 DEF FreeItems, Release
<1>3. DropNode(d, k) = FreeEntry(d, k)
  BY <1>2 DEF FreeEntry
<1> QED
  BY <1>3, FreeEntryConsistent

\* What an entry must be to stand in the tree.
GoodEntry(e) ==
    e \in Entry /\ LenExact(e) /\ FitsItsBlocks(e) /\ OwnsItsBlocks(e)

\* n has the keys of d, and their entries but for k, which has e.
Changes(n, d, k, e) ==
    /\ DOMAIN n.tree = DOMAIN d.tree
    /\ n.tree[k] = e
    /\ \A x \in DOMAIN d.tree \ {k} : n.tree[x] = d.tree[x]

\* An entry is rewritten in place; it may give blocks back and take free ones.
LEMMA RewriteConsistent ==
  ASSUME NEW d, Consistent(d), NEW k \in DOMAIN d.tree, NEW e, GoodEntry(e),
         EntryBlocks(e) \subseteq Block,
         EntryBlocks(e) \cap (d.used \ EntryBlocks(d.tree[k])) = {}, NEW n,
         n = [tree |-> [d.tree EXCEPT ![k] = e], lru |-> d.lru,
              used |-> (d.used \ EntryBlocks(d.tree[k])) \cup EntryBlocks(e)]
  PROVE  Consistent(n) /\ Changes(n, d, k, e)
<1> DEFINE B(x) == EntryBlocks(d.tree[x])
<1>1. /\ n = [tree |-> n.tree, lru |-> n.lru, used |-> n.used]
      /\ n.tree = [d.tree EXCEPT ![k] = e] /\ n.lru = d.lru
      /\ n.used = (d.used \ B(k)) \cup EntryBlocks(e)
  OBVIOUS
<1>2. d.tree \in [DOMAIN d.tree -> Entry]
  BY DEF Consistent, IsDict
<1>3. /\ DOMAIN n.tree = DOMAIN d.tree /\ n.tree[k] = e
      /\ \A x \in DOMAIN d.tree \ {k} : n.tree[x] = d.tree[x]
      /\ n.tree \in [DOMAIN d.tree -> Entry]
  BY <1>1, <1>2 DEF GoodEntry
<1>4. IsDict(n)
  BY <1>1, <1>3 DEF Consistent, IsDict
<1>5. LruExact(n)
  BY <1>1, <1>3 DEF Consistent, LruExact
<1>6. UsedExact(n)
  <2>1. /\ \A b : b \in d.used <=> b = Root \/ \E x \in DOMAIN d.tree : b \in B(x)
        /\ Root \notin B(k)
        /\ \A x \in DOMAIN d.tree : OwnsItsBlocks(d.tree[x])
        /\ \A x, y \in DOMAIN d.tree : x # y => B(x) \cap B(y) = {}
    BY DEF Consistent, UsedExact, OwnsItsBlocks
  <2>2. EntryBlocks(n.tree[k]) = EntryBlocks(e)
        /\ \A x \in DOMAIN d.tree \ {k} : EntryBlocks(n.tree[x]) = B(x)
    BY <1>3
  <2>3. EntryBlocks(e) \cap (d.used \ B(k)) = {}
    OBVIOUS
  <2> DEFINE C(x) == EntryBlocks(n.tree[x])
  <2> HIDE DEF B, C
  <2>4. C(k) = EntryBlocks(e) /\ \A x \in DOMAIN d.tree \ {k} : C(x) = B(x)
    BY <2>2 DEF C
  <2>5. \A b : b \in n.used <=> b = Root \/ \E x \in DOMAIN n.tree : b \in C(x)
    BY <1>1, <1>3, <2>1, <2>4 DEF B
  <2>6. \A x, y \in DOMAIN n.tree : x # y => C(x) \cap C(y) = {}
    BY <1>3, <2>1, <2>3, <2>4
  <2>7. n.used = {Root} \cup UNION {EntryBlocks(n.tree[x]) : x \in DOMAIN n.tree}
    BY <2>5 DEF C
  <2>8. \A x \in DOMAIN n.tree : OwnsItsBlocks(n.tree[x])
    BY <1>3, <2>1 DEF GoodEntry
  <2> QED
    BY <2>6, <2>7, <2>8 DEF UsedExact, C
<1>7. \A x \in DOMAIN n.tree : LenExact(n.tree[x]) /\ FitsItsBlocks(n.tree[x])
  BY <1>3 DEF Consistent, GoodEntry
<1> QED
  BY <1>3, <1>4, <1>5, <1>6, <1>7 DEF Consistent, Changes

\* A new entry, in blocks that were free, under a key that was absent.
LEMMA InsertConsistent ==
  ASSUME NEW d, Consistent(d), NEW k \in Key, k \notin DOMAIN d.tree,
         NEW e, GoodEntry(e), e.items = <<>>, e.block \in Block, e.block \notin d.used
  PROVE  LET n == Insert(d, k, e)
         IN /\ Consistent(n) /\ DOMAIN n.tree = DOMAIN d.tree \cup {k}
            /\ n.tree[k] = e /\ \A x \in DOMAIN d.tree : n.tree[x] = d.tree[x]
<1> DEFINE n == Insert(d, k, e)
           B(x) == EntryBlocks(d.tree[x])
           C(x) == EntryBlocks(n.tree[x])
<1>1. /\ n = [tree |-> n.tree, lru |-> n.lru, used |-> n.used]
      /\ n.tree = [x \in DOMAIN d.tree \cup {k} |-> IF x = k THEN e ELSE d.tree[x]]
      /\ n.lru = Cons(k, d.lru)
      /\ n.used = d.used \cup {e.block}
  BY DEF Insert
<1> HIDE DEF n
<1>2. d.tree \in [DOMAIN d.tree -> Entry]
  BY DEF Consistent, IsDict
<1>3. /\ DOMAIN n.tree = DOMAIN d.tree \cup {k} /\ n.tree[k] = e
      /\ \A x \in DOMAIN d.tree : n.tree[x] = d.tree[x]
      /\ n.tree \in [DOMAIN n.tree -> Entry]
  BY <1>1, <1>2 DEF GoodEntry
<1>4. n.lru \in Seq(Key) /\ LruExact(n)
  BY <1>1, <1>3, ConsExact DEF Consistent, IsDict, LruExact
<1>5. IsDict(n)
  BY <1>1, <1>3, <1>4 DEF Consistent, IsDict
<1>6. UsedExact(n)
  <2>1. /\ \A b : b \in d.used <=> b = Root \/ \E x \in DOMAIN d.tree : b \in B(x)
        /\ \A x \in DOMAIN d.tree : OwnsItsBlocks(d.tree[x])
        /\ \A x, y \in DOMAIN d.tree : x # y => B(x) \cap B(y) = {}
    BY DEF Consistent, UsedExact
  <2>2. EntryBlocks(e) = {e.block}
    BY DEF EntryBlocks, ItemBlocks
  <2>3. C(k) = {e.block} /\ \A x \in DOMAIN d.tree : C(x) = B(x)
    BY <1>3, <2>2
  <2> HIDE DEF B, C
  <2>4. \A b : b \in n.used <=> b = Root \/ \E x \in DOMAIN n.tree : b \in C(x)
    BY <1>1, <1>3, <2>1, <2>3
  <2>5. \A x \in DOMAIN d.tree : B(x) \subseteq d.used
    BY <2>1
  <2>6. \A x, y \in DOMAIN n.tree : x # y => C(x) \cap C(y) = {}
    BY <1>3, <2>1, <2>3, <2>5
  <2>7. n.used = {Root} \cup UNION {EntryBlocks(n.tree[x]) : x \in DOMAIN n.tree}
    BY <2>4 DEF C
  <2>8. \A x \in DOMAIN n.tree : OwnsItsBlocks(n.tree[x])
    BY <1>3, <2>1 DEF GoodEntry
  <2> QED
    BY <2>6, <2>7, <2>8 DEF UsedExact, C
<1>7. \A x \in DOMAIN n.tree : LenExact(n.tree[x]) /\ FitsItsBlocks(n.tree[x])
  BY <1>3 DEF Consistent, GoodEntry
<1> QED
  BY <1>3, <1>4, <1>5, <1>6, <1>7 DEF Consistent, n

-----------------------------------------------------------------------------
(* The inductive invariant *)

HasNoEmptyList(d) ==
    \A k \in DOMAIN d.tree : d.tree[k].type = "list" => d.tree[k].items # <<>>

\* A dictionary as it is between two steps.
Sound(d) == Consistent(d) /\ HasNoEmptyList(d)

\* A call in its eviction loop: its key is absent, its value well formed, and
\* it is not one of those that promise not to evict.
CallSound ==
    /\ call \in Call \cup {None}
    /\ call # None => WellSized(call.val) /\ call.op \notin SafeOps
    /\ EvictingKeyAbsent

IInv ==
    /\ Sound(dict)
    /\ now \in Time
    /\ CallSound
    /\ ret \in Ret

LEMMA KeepsSound ==
  ASSUME NEW n, NEW d, Sound(d), Consistent(n), Keeps(n, d) PROVE Sound(n)
  BY DEF Sound, Keeps, HasNoEmptyList

\* A free block overlaps no allocated one, so it is none of them.
LEMMA FreeIsNew ==
  ASSUME NEW used, NEW c \in Class, NEW b \in Free(used, c)
  PROVE  b \in Block /\ b.class = c /\ b \notin used
<1>1. b \in BlocksOf(c) /\ \A u \in used : Compatible(b, u)
  BY DEF Free
<1>2. b.lo \in Int /\ b.class = c /\ Span[c] \in Nat \ {0}
  BY <1>1, SlabAssumption DEF BlocksOf
<1>3. b.lo \in Pages(b)
  BY <1>2 DEF Pages
<1>4. ~Compatible(b, b)
  BY <1>3 DEF Compatible
<1> QED
  BY <1>1, <1>2, <1>4 DEF Block

LEMMA ReturnSound ==
  ASSUME NEW op \in Api, NEW k \in Key \cup {None},
         NEW rc \in {"OK", "DECLINED", "ERROR", "NOMEM"},
         NEW val \in Returned, NEW num \in Int,
         NEW forcible \in BOOLEAN, Return(op, k, rc, val, num, forcible)
  PROVE  CallSound' /\ ret' \in Ret
  BY DEF Return, CallSound, EvictingKeyAbsent, Ret

LEMMA FailSound ==
  ASSUME NEW op \in Api, NEW k \in Key \cup {None},
         NEW rc \in {"OK", "DECLINED", "ERROR", "NOMEM"}, Fail(op, k, rc)
  PROVE  CallSound' /\ ret' \in Ret
<1>1. Nil \in Returned
  BY DEF Nil, Returned
<1>2. 0 \in Int /\ FALSE \in BOOLEAN
  OBVIOUS
<1>3. Return(op, k, rc, Nil, 0, FALSE)
  BY DEF Fail
<1> QED
  BY <1>1, <1>2, <1>3, ReturnSound, Zenon

Storable == [type : {"boolean", "number", "string"}, len : Nat, data : Int]

\* An entry made for a well-formed value in a block of the right class.
LEMMA NewEntryGood ==
  ASSUME NEW v \in Storable, WellSized(v), NEW x \in Nat, NEW b \in Block,
         b.class = NodeClass[v.len], b # Root,
         NEW e, e = NewEntry(v, x, b)
  PROVE  /\ GoodEntry(e) /\ e.items = <<>> /\ e.block = b /\ e.type # "list"
         /\ EntryBlocks(e) = {b}
<1>1. /\ e.type = v.type /\ e.len = v.len /\ e.data = v.data /\ e.expires = x
      /\ e.block = b /\ e.items = <<>> /\ e \in Entry
  BY DEF NewEntry, Entry, Storable
<1>2. ItemBlocks(e) = {} /\ DOMAIN e.items = {} /\ e.type # "list"
  BY <1>1 DEF ItemBlocks, Storable
<1>3. LenExact(e)
  BY <1>1, <1>2 DEF LenExact, WellSized
<1>4. FitsItsBlocks(e)
  BY <1>1, <1>2 DEF FitsItsBlocks
<1>5. OwnsItsBlocks(e) /\ EntryBlocks(e) = {b}
  BY <1>1, <1>2 DEF OwnsItsBlocks, EntryBlocks
<1> QED
  BY <1>1, <1>2, <1>3, <1>4, <1>5 DEF GoodEntry

LEMMA ExpiresNat ==
  ASSUME NEW t \in Nat, NEW ttl \in Nat PROVE Expires(t, ttl) \in Nat
  BY DEF Expires

-----------------------------------------------------------------------------
(* Each action preserves the invariant *)

\* What a step of a call establishes.
Served == Sound(dict)' /\ CallSound' /\ ret' \in Ret

LEMMA ClassesOK ==
  ASSUME NEW n \in Lengths
  PROVE  n \in Nat /\ NodeClass[n] \in Class /\ ItemClass[n] \in Class
<1>1. SizeofDouble \in Nat /\ \A v \in Value : v.len \in Nat
  BY ShdictAssumption DEF SizeofDouble
<1> QED
  BY <1>1, ShdictAssumption DEF Lengths

LEMMA InsertSound ==
  ASSUME NEW d, Sound(d), NEW k \in Key, k \notin DOMAIN d.tree,
         NEW v \in Storable, WellSized(v), v.len \in Lengths, NEW x \in Nat,
         NEW b \in Free(d.used, NodeClass[v.len])
  PROVE  Sound(Insert(d, k, NewEntry(v, x, b)))
<1>1. b \in Block /\ b.class = NodeClass[v.len] /\ b \notin d.used
  BY ClassesOK, FreeIsNew
<1>2. b # Root
  BY <1>1 DEF Sound, Consistent, UsedExact
<1>3. PICK e : e = NewEntry(v, x, b)
  OBVIOUS
<1>4. GoodEntry(e) /\ e.items = <<>> /\ e.block = b /\ e.type # "list"
  BY <1>1, <1>2, <1>3, NewEntryGood
<1> DEFINE n == Insert(d, k, e)
<1>5. /\ Consistent(n) /\ DOMAIN n.tree = DOMAIN d.tree \cup {k}
      /\ n.tree[k] = e /\ \A y \in DOMAIN d.tree : n.tree[y] = d.tree[y]
  BY <1>1, <1>4, InsertConsistent DEF Sound
<1> HIDE DEF n
<1>6. HasNoEmptyList(n)
  BY <1>4, <1>5 DEF Sound, HasNoEmptyList
<1> QED
  BY <1>3, <1>5, <1>6 DEF Sound, n

LEMMA AllocateServed ==
  ASSUME NEW c \in Call, WellSized(c.val), NEW d, Sound(d),
         c.key \notin DOMAIN d.tree, NEW t \in Nat, ret \in Ret, Allocate(c, d, t)
  PROVE  Served
<1> DEFINE free == Free(d.used, NodeClass[c.val.len])
           base == IF c.op = "incr" THEN c.base ELSE t
<1>1. /\ c.op \in Api /\ c.key \in Key /\ c.val \in Storable /\ c.val \in Returned
      /\ c.val.len \in Lengths /\ c.ttl \in Nat /\ base \in Nat
  <2>1. c.val.len \in Lengths /\ c.val.len \in Nat
    BY ClassesOK DEF Call
  <2>2. c.val \in Storable /\ c.val \in Returned
    BY <2>1 DEF Call, Storable, Returned
  <2>3. c.op \in Api /\ c.key \in Key /\ c.ttl \in Nat /\ c.base \in Nat
    BY DEF Call, Api
  <2> QED
    BY <2>1, <2>2, <2>3
<1>2. ASSUME NEW b \in free,
             dict' = Insert(d, c.key, NewEntry(c.val, Expires(base, c.ttl), b)),
             Return(c.op, c.key, "OK", c.val, 0, c.tries > 0)
      PROVE  Served
  <2>1. Expires(base, c.ttl) \in Nat
    BY <1>1, ExpiresNat
  <2> HIDE DEF base
  <2>2. Sound(dict')
    BY <1>1, <1>2, <2>1, InsertSound
  <2>3. (c.tries > 0) \in BOOLEAN
    BY DEF Call
  <2>4. CallSound' /\ ret' \in Ret
    <3>1. 0 \in Int /\ "OK" \in {"OK", "DECLINED", "ERROR", "NOMEM"}
      OBVIOUS
    <3> QED
      BY <1>1, <1>2, <2>3, <3>1, ReturnSound, Zenon
  <2> QED
    BY <2>2, <2>4 DEF Served
<1>3. ASSUME dict' = d, Fail(c.op, c.key, "NOMEM") PROVE Served
  BY <1>1, <1>3, FailSound DEF Served
<1>4. ASSUME c.op \notin SafeOps, dict' = d, call' = c, UNCHANGED ret PROVE Served
  BY <1>1, <1>4 DEF Served, CallSound, EvictingKeyAbsent
<1> HIDE DEF free, base
<1> QED
  BY <1>2, <1>3, <1>4 DEF Allocate, free, base

LEMMA EvictServed ==
  ASSUME IInv, NEW t \in Nat, Evict(t) PROVE Served
<1>1. /\ call \in Call /\ WellSized(call.val) /\ call.key \notin DOMAIN dict.tree
      /\ Sound(dict) /\ ret \in Ret
  BY DEF IInv, CallSound, EvictingKeyAbsent, Evict
<1>2. CASE dict' = dict /\ Return(call.op, call.key, "NOMEM", Nil, 0, call.tries > 0)
  <2>1. call.op \in Api /\ call.key \in Key /\ (call.tries > 0) \in BOOLEAN
    BY <1>1 DEF Call, Api
  <2>2. Nil \in Returned
    BY DEF Nil, Returned
  <2>3. CallSound' /\ ret' \in Ret
    <3>1. 0 \in Int /\ "NOMEM" \in {"OK", "DECLINED", "ERROR", "NOMEM"}
      OBVIOUS
    <3> QED
      BY <1>2, <2>1, <2>2, <3>1, ReturnSound, Zenon
  <2> QED
    BY <1>1, <1>2, <2>3 DEF Served
<1>3. CASE /\ call.tries < MaxEvict
           /\ Allocate([call EXCEPT !.tries = call.tries + 1], ExpireForced(dict, now), t)
  <2> DEFINE c == [call EXCEPT !.tries = call.tries + 1]
             d == ExpireForced(dict, now)
  <2>1. c \in Call /\ c.val = call.val /\ c.key = call.key
    BY <1>1, <1>3, ShdictAssumption DEF Call
  <2>2. Consistent(d) /\ Keeps(d, dict)
    BY <1>1, ExpireForcedConsistent DEF Sound
  <2>3. Allocate(c, d, t)
    BY <1>3
  <2> HIDE DEF c, d
  <2>4. Sound(d) /\ c.key \notin DOMAIN d.tree
    BY <1>1, <2>1, <2>2, KeepsSound DEF Keeps
  <2> QED
    BY <1>1, <2>1, <2>3, <2>4, AllocateServed
<1> QED
  BY <1>2, <1>3 DEF Evict

LEMMA ReturnServed ==
  ASSUME NEW op \in Api, NEW k \in Key \cup {None}, NEW val \in Returned,
         NEW num \in Int, Return(op, k, "OK", val, num, FALSE), Sound(dict)'
  PROVE  Served
<1>1. "OK" \in {"OK", "DECLINED", "ERROR", "NOMEM"} /\ FALSE \in BOOLEAN
  OBVIOUS
<1> QED
  BY <1>1, ReturnSound, Zenon DEF Served

LEMMA NilOK == Nil \in Returned /\ 0 \in Int
  BY DEF Nil, Returned

LEMMA NilServed ==
  ASSUME NEW op \in Api, NEW k \in Key \cup {None},
         Return(op, k, "OK", Nil, 0, FALSE), Sound(dict)'
  PROVE  Served
  BY NilOK, ReturnServed, Zenon

\* Whatever the late reading of a length finds, it is a number.
LEMMA LateInt ==
  ASSUME NEW n \in Nat, NEW r \in ReadUnlocked(n) PROVE r \in Int
<1>1. Late \subseteq Nat
  BY ShdictAssumption, Zenon
<1>2. r = n \/ r \in Late
  BY Zenon DEF ReadUnlocked
<1>3. r \in Nat
  BY <1>1, <1>2, Zenon
<1> QED
  BY <1>3

LEMMA FailServed ==
  ASSUME NEW op \in Api, NEW k \in Key \cup {None},
         NEW rc \in {"OK", "DECLINED", "ERROR", "NOMEM"}, Fail(op, k, rc), Sound(dict)'
  PROVE  Served
  BY FailSound DEF Served

LEMMA EntryParts ==
  ASSUME NEW d, Consistent(d), NEW k \in DOMAIN d.tree
  PROVE  /\ d.tree[k] \in Entry /\ GoodEntry(d.tree[k])
         /\ EntryBlocks(d.tree[k]) \subseteq d.used
         /\ EntryBlocks(d.tree[k]) \subseteq Block
<1>1. d.tree[k] \in Entry /\ d.used \subseteq Block
  BY DEF Consistent, IsDict
<1>2. EntryBlocks(d.tree[k]) \subseteq d.used /\ OwnsItsBlocks(d.tree[k])
  BY DEF Consistent, UsedExact
<1> QED
  BY <1>1, <1>2 DEF Consistent, GoodEntry

\* An entry changed in place that keeps its blocks.
LEMMA UpdateConsistent ==
  ASSUME NEW d, Consistent(d), NEW k \in DOMAIN d.tree, NEW e, GoodEntry(e),
         EntryBlocks(e) = EntryBlocks(d.tree[k])
  PROVE  Consistent(Update(d, k, e)) /\ Changes(Update(d, k, e), d, k, e)
<1> DEFINE u == (d.used \ EntryBlocks(d.tree[k])) \cup EntryBlocks(e)
<1>1. u = d.used
  BY EntryParts
<1>2. d = [tree |-> d.tree, lru |-> d.lru, used |-> d.used]
  BY DEF Consistent, IsDict
<1>3. Update(d, k, e) = [tree |-> [d.tree EXCEPT ![k] = e], lru |-> d.lru,
                         used |-> d.used]
  BY <1>2 DEF Update
<1>4. Update(d, k, e) = [tree |-> [d.tree EXCEPT ![k] = e], lru |-> d.lru, used |-> u]
  BY <1>1, <1>3
<1>5. EntryBlocks(e) \subseteq Block
  BY EntryParts
<1> QED
  BY <1>4, <1>5, RewriteConsistent

LEMMA UpdateSound ==
  ASSUME NEW d, Sound(d), NEW k \in DOMAIN d.tree, NEW e, GoodEntry(e),
         EntryBlocks(e) = EntryBlocks(d.tree[k]), e.type = "list" => e.items # <<>>
  PROVE  Sound(Update(d, k, e))
<1> DEFINE n == Update(d, k, e)
<1>1. Consistent(n) /\ Changes(n, d, k, e)
  BY UpdateConsistent DEF Sound
<1> HIDE DEF n
<1> QED
  BY <1>1 DEF Sound, HasNoEmptyList, Changes, n

\* store and incr write a value over a scalar of its length.
LEMMA ReuseSound ==
  ASSUME NEW d, Sound(d), NEW k, NEW v, Reusable(d, k, v), v \in Storable,
         WellSized(v), NEW x \in Nat
  PROVE  Sound(Update(d, k, NewEntry(v, x, d.tree[k].block)))
<1>1. k \in DOMAIN d.tree /\ d.tree[k].type # "list" /\ d.tree[k].len = v.len
  BY DEF Reusable
<1>2. GoodEntry(d.tree[k]) /\ EntryBlocks(d.tree[k]) \subseteq Block
  BY <1>1, EntryParts DEF Sound
<1> DEFINE b == d.tree[k].block
<1>3. /\ b \in Block /\ b.class = NodeClass[v.len] /\ b # Root
      /\ EntryBlocks(d.tree[k]) = {b}
  BY <1>1, <1>2 DEF GoodEntry, FitsItsBlocks, LenExact, OwnsItsBlocks, EntryBlocks, ItemBlocks
<1> HIDE DEF b
<1>4. PICK e : e = NewEntry(v, x, b)
  OBVIOUS
<1>5. GoodEntry(e) /\ e.items = <<>> /\ e.type # "list" /\ EntryBlocks(e) = {b}
  BY <1>3, <1>4, NewEntryGood
<1>6. Sound(Update(d, k, e))
  BY <1>1, <1>3, <1>5, UpdateSound
<1> QED
  BY <1>4, <1>6 DEF b

LEMMA TouchSound ==
  ASSUME NEW d, Sound(d), NEW k \in DOMAIN d.tree
  PROVE  Sound(Touch(d, k)) /\ Touch(d, k).tree = d.tree
  BY TouchConsistent DEF Sound, HasNoEmptyList

LEMMA LookupSound ==
  ASSUME NEW d, Sound(d), NEW k
  PROVE  Sound(Lookup(d, k)) /\ Lookup(d, k).tree = d.tree
  BY LookupConsistent DEF Sound, HasNoEmptyList

LEMMA ExpireTwoSound ==
  ASSUME NEW d, Sound(d), NEW t PROVE Sound(ExpireTwo(d, t))
  BY ExpireTwoConsistent, KeepsSound DEF Sound

LEMMA WithoutSound ==
  ASSUME NEW d, Sound(d), NEW k
  PROVE  Sound(Without(d, k)) /\ k \notin DOMAIN Without(d, k).tree
  BY WithoutConsistent, KeepsSound DEF Sound

LEMMA ValueOK ==
  ASSUME NEW v \in Value
  PROVE  v \in Storable /\ v \in Returned /\ WellSized(v) /\ v.len \in Lengths
<1>1. v \in Storable /\ WellSized(v)
  BY ShdictAssumption DEF Storable
<1> QED
  BY <1>1 DEF Storable, Returned, Lengths


\* Between two calls: what an action that begins a call starts from.
LEMMA AtRest ==
  ASSUME IInv, NEW op, NEW t, Begin(op, t)
  PROVE  Sound(dict) /\ call = None /\ ret \in Ret /\ op \in Api
  BY ShdictAssumption DEF IInv, Begin

LEMMA StoreServed ==
  ASSUME IInv, NEW op \in StoreOps, NEW k \in Key, NEW v \in Value \cup {Nil},
         NEW ttl \in Ttl, NEW t \in Time, Store(op, k, v, ttl, t)
  PROVE  Served
<1> DEFINE e == ExpireTwo(dict, now)
           rc == LookupRc(e, k, t)
           d == Lookup(e, k)
<1>1. Begin(op, t)
  BY DEF Store
<1>2. Sound(dict) /\ ret \in Ret /\ op \in Api
  BY <1>1, AtRest
<1>3. t \in Nat /\ ttl \in Nat
  BY ShdictAssumption
<1>4. Sound(d)
  BY <1>2, ExpireTwoSound, LookupSound
<1>a. \/ dict' = dict /\ Fail(op, k, "ERROR")
      \/ dict' = d /\ Fail(op, k, "DECLINED")
      \/ /\ Reusable(d, k, v)
         /\ dict' = Update(Touch(d, k), k, NewEntry(v, Expires(t, ttl), d.tree[k].block))
         /\ Return(op, k, "OK", v, 0, FALSE)
      \/ dict' = Without(d, k) /\ Return(op, k, "OK", Nil, 0, FALSE)
      \/ /\ v # Nil
         /\ Allocate([op |-> op, key |-> k, val |-> v, ttl |-> ttl, base |-> 0,
                      tries |-> 0], Without(d, k), t)
  BY DEF Store
<1> HIDE DEF d, rc
<1>5. CASE dict' = dict /\ Fail(op, k, "ERROR")
  BY <1>2, <1>5, FailServed
<1>6. CASE dict' = d /\ Fail(op, k, "DECLINED")
  BY <1>2, <1>4, <1>6, FailServed
<1>7. CASE /\ Reusable(d, k, v)
           /\ dict' = Update(Touch(d, k), k, NewEntry(v, Expires(t, ttl), d.tree[k].block))
           /\ Return(op, k, "OK", v, 0, FALSE)
  <2>1. k \in DOMAIN d.tree /\ v \in Value
    BY <1>7 DEF Reusable
  <2>2. Sound(Touch(d, k)) /\ Touch(d, k).tree = d.tree
    BY <1>4, <2>1, TouchSound
  <2>3. Reusable(Touch(d, k), k, v)
    BY <1>7, <2>2 DEF Reusable
  <2>4. PICK x \in Nat : x = Expires(t, ttl)
    BY <1>3, ExpiresNat
  <2>5. Sound(Update(Touch(d, k), k, NewEntry(v, x, d.tree[k].block)))
    BY <2>1, <2>2, <2>3, ValueOK, ReuseSound
  <2>6. Sound(dict)'
    BY <1>7, <2>1, <2>4, <2>5
  <2>7. v \in Returned /\ 0 \in Int /\ k \in Key \cup {None}
    BY <2>1, ValueOK
  <2> QED
    BY <1>2, <1>7, <2>6, <2>7, ReturnServed, Zenon
<1>8. CASE dict' = Without(d, k) /\ Return(op, k, "OK", Nil, 0, FALSE)
  BY <1>2, <1>4, <1>8, WithoutSound, NilServed
<1>9. CASE /\ v # Nil
           /\ Allocate([op |-> op, key |-> k, val |-> v, ttl |-> ttl, base |-> 0,
                        tries |-> 0], Without(d, k), t)
  <2> DEFINE c == [op |-> op, key |-> k, val |-> v, ttl |-> ttl, base |-> 0, tries |-> 0]
  <2>1. v \in Value
    BY <1>9
  <2>2. c \in Call
    BY <1>3, <2>1, ValueOK, ShdictAssumption DEF Call, Storable
  <2>3. WellSized(c.val) /\ c.key = k /\ Allocate(c, Without(d, k), t)
    BY <1>9, <2>1, ValueOK
  <2> HIDE DEF c
  <2>4. PICK w : w = Without(d, k)
    OBVIOUS
  <2>5. Sound(w) /\ c.key \notin DOMAIN w.tree /\ Allocate(c, w, t)
    BY <1>4, <2>3, <2>4, WithoutSound
  <2> QED
    BY <1>2, <1>3, <2>2, <2>3, <2>5, AllocateServed
<1> QED
  BY <1>a, <1>5, <1>6, <1>7, <1>8, <1>9

LEMMA GetServed ==
  ASSUME IInv, NEW k \in Key, NEW stale, NEW room, NEW t \in Time, Get(k, stale, room, t)
  PROVE  Served
<1> DEFINE rc == LookupRc(dict, k, t)
           hit == rc = "OK" \/ (rc = "DONE" /\ stale)
           e == dict.tree[k]
           out == [type |-> e.type, len |-> e.len, data |-> e.data]
           num == IF rc = "DONE" THEN 1 ELSE 0
<1>1. Begin("get", t) /\ dict' = Lookup(dict, k)
  BY DEF Get
<1>2. Sound(dict) /\ "get" \in Api
  BY <1>1, AtRest
<1>3. Sound(dict)'
  BY <1>1, <1>2, LookupSound
<1>4. CASE Return("get", k, "OK", Nil, 0, FALSE)
  BY <1>2, <1>3, <1>4, NilServed
<1>5. CASE Fail("get", k, "ERROR")
  BY <1>2, <1>3, <1>5, FailServed
<1>6. CASE hit /\ e.type # "list" /\ Return("get", k, "OK", out, num, FALSE)
  <2>1. k \in DOMAIN dict.tree
    BY <1>6 DEF LookupRc
  <2>2. e \in Entry
    BY <1>2, <2>1, EntryParts DEF Sound
  <2>3. out \in Returned
    BY <1>6, <2>2 DEF Entry, Returned
  <2>4. num \in Int
    OBVIOUS
  <2> HIDE DEF out, num
  <2> QED
    BY <1>2, <1>3, <1>6, <2>3, <2>4, ReturnServed, Zenon
<1>7. \/ Return("get", k, "OK", Nil, 0, FALSE)
      \/ Fail("get", k, "ERROR")
      \/ hit /\ e.type # "list" /\ Return("get", k, "OK", out, num, FALSE)
  BY DEF Get
<1> QED
  BY <1>4, <1>5, <1>6, <1>7

\* The data and the expiry of an entry do not matter to its memory.
LEMMA RetimeGood ==
  ASSUME NEW e, GoodEntry(e), NEW x \in Nat, NEW i \in Int, NEW f,
         f = [e EXCEPT !.expires = x] \/ f = [e EXCEPT !.data = i]
  PROVE  /\ GoodEntry(f) /\ EntryBlocks(f) = EntryBlocks(e)
         /\ f.type = e.type /\ f.items = e.items /\ f.len = e.len /\ f.block = e.block
<1>1. /\ f \in Entry /\ f.type = e.type /\ f.items = e.items /\ f.len = e.len
      /\ f.block = e.block
  BY DEF GoodEntry, Entry
<1>2. EntryBlocks(f) = EntryBlocks(e)
  BY <1>1 DEF EntryBlocks, ItemBlocks
<1> QED
  BY <1>1, <1>2 DEF GoodEntry, LenExact, WellSized, FitsItsBlocks, OwnsItsBlocks, ItemBlocks

LEMMA NumberOK ==
  ASSUME NEW n \in Int
  PROVE  /\ Number(n) \in Storable /\ Number(n) \in Returned /\ WellSized(Number(n))
         /\ Number(n).len \in Lengths /\ Number(n).type = "number"
  BY DEF Number, Storable, Returned, WellSized, Lengths, SizeofDouble

LEMMA IncrServed ==
  ASSUME IInv, NEW k \in Key, NEW by \in By, NEW init \in By \cup {None},
         NEW ttl \in Ttl, NEW t0 \in Time, NEW t \in Time,
         Incr(k, by, init, ttl, t0, t)
  PROVE  Served
<1> DEFINE e == ExpireTwo(dict, now)
           rc == LookupRc(e, k, t)
           d == Lookup(e, k)
           old == d.tree[k]
           sum == Number(by + init)
           new == Number(old.data + by)
           c == [op |-> "incr", key |-> k, val |-> sum, ttl |-> ttl, base |-> t0,
                 tries |-> 0]
<1>1. Begin("incr", t)
  BY DEF Incr
<1>2. Sound(dict) /\ ret \in Ret /\ "incr" \in Api
  BY <1>1, AtRest
<1>3. t \in Nat /\ t0 \in Nat /\ ttl \in Nat /\ by \in Int
  BY ShdictAssumption
<1>a. init # None => by + init \in Int
  BY <1>3, ShdictAssumption
<1>4. Sound(d) /\ d.tree = e.tree
  BY <1>2, ExpireTwoSound, LookupSound
<1>5. \/ dict' = d /\ Fail("incr", k, "ERROR")
      \/ /\ init # None /\ Reusable(d, k, sum)
         /\ dict' = Update(Touch(d, k), k, NewEntry(sum, Expires(t0, ttl), old.block))
         /\ Return("incr", k, "OK", sum, 0, FALSE)
      \/ init # None /\ Allocate(c, Without(d, k), t)
      \/ /\ k \in DOMAIN e.tree /\ old.type = "number"
         /\ dict' = Update(Touch(d, k), k, [old EXCEPT !.data = old.data + by])
         /\ Return("incr", k, "OK", new, 0, FALSE)
  BY DEF Incr, LookupRc
<1> HIDE DEF d, e, rc
<1>6. CASE dict' = d /\ Fail("incr", k, "ERROR")
  BY <1>2, <1>4, <1>6, FailServed
<1>7. CASE /\ init # None /\ Reusable(d, k, sum)
           /\ dict' = Update(Touch(d, k), k, NewEntry(sum, Expires(t0, ttl), old.block))
           /\ Return("incr", k, "OK", sum, 0, FALSE)
  <2>1. by + init \in Int
    BY <1>a, <1>7
  <2> HIDE DEF sum
  <2>2. sum \in Storable /\ sum \in Returned /\ WellSized(sum)
    BY <2>1, NumberOK DEF sum
  <2>3. Sound(Touch(d, k)) /\ Touch(d, k).tree = d.tree
    BY <1>4, <1>7, TouchSound DEF Reusable
  <2>4. Reusable(Touch(d, k), k, sum)
    BY <1>7, <2>3 DEF Reusable
  <2>5. PICK x \in Nat : x = Expires(t0, ttl)
    BY <1>3, ExpiresNat
  <2>6. Sound(Update(Touch(d, k), k, NewEntry(sum, x, old.block)))
    BY <2>2, <2>3, <2>4, ReuseSound
  <2>7. Sound(dict)'
    BY <1>7, <2>5, <2>6
  <2> QED
    BY <1>2, <1>7, <2>2, <2>7, NilOK, ReturnServed, Zenon
<1>8. CASE init # None /\ Allocate(c, Without(d, k), t)
  <2>1. by + init \in Int
    BY <1>a, <1>8
  <2>2. sum \in Storable /\ WellSized(sum) /\ sum.len \in Lengths
    BY <2>1, NumberOK
  <2> HIDE DEF sum
  <2>3. c \in Call /\ WellSized(c.val) /\ c.key = k
    BY <1>3, <2>2, ShdictAssumption DEF Call, Storable
  <2> HIDE DEF c
  <2>4. PICK w : w = Without(d, k)
    OBVIOUS
  <2>5. Sound(w) /\ c.key \notin DOMAIN w.tree /\ Allocate(c, w, t)
    BY <1>4, <1>8, <2>3, <2>4, WithoutSound
  <2> QED
    BY <1>2, <1>3, <2>3, <2>5, AllocateServed
<1>9. CASE /\ k \in DOMAIN e.tree /\ old.type = "number"
           /\ dict' = Update(Touch(d, k), k, [old EXCEPT !.data = old.data + by])
           /\ Return("incr", k, "OK", new, 0, FALSE)
  <2>1. k \in DOMAIN d.tree
    BY <1>4, <1>9
  <2>2. Sound(Touch(d, k)) /\ Touch(d, k).tree = d.tree
    BY <1>4, <2>1, TouchSound
  <2>3. GoodEntry(old) /\ old.data \in Int
    BY <1>4, <2>1, EntryParts DEF Sound, Entry
  <2>4. old.data + by \in Int /\ 0 \in Nat
    BY <1>3, <2>3
  <2>5. PICK f : f = [old EXCEPT !.data = old.data + by]
    OBVIOUS
  <2> HIDE DEF old
  <2>6. GoodEntry(f) /\ EntryBlocks(f) = EntryBlocks(old) /\ f.type = "number"
    BY <1>9, <2>3, <2>4, <2>5, RetimeGood
  <2>7. Sound(Update(Touch(d, k), k, f))
    BY <2>1, <2>2, <2>6, UpdateSound DEF old
  <2>8. new \in Returned
    BY <2>4, NumberOK
  <2>9. Sound(dict)'
    BY <1>9, <2>5, <2>7
  <2> HIDE DEF new
  <2> QED
    BY <1>2, <1>9, <2>8, <2>9, NilOK, ReturnServed, Zenon
<1> QED
  BY <1>5, <1>6, <1>7, <1>8, <1>9

LEMMA SetExpireServed ==
  ASSUME IInv, NEW k \in Key, NEW ttl \in Ttl, NEW t0 \in Time, NEW t \in Time,
         SetExpire(k, ttl, t0, t)
  PROVE  Served
<1>1. Begin("set_expire", t)
  BY DEF SetExpire
<1>2. Sound(dict) /\ "set_expire" \in Api
  BY <1>1, AtRest
<1>3. t0 \in Nat /\ ttl \in Nat
  BY ShdictAssumption
<1>4. \/ dict' = dict /\ Fail("set_expire", k, "DECLINED")
      \/ /\ k \in DOMAIN dict.tree
         /\ dict' = Update(dict, k, [dict.tree[k] EXCEPT !.expires = Expires(t0, ttl)])
         /\ Return("set_expire", k, "OK", Nil, 0, FALSE)
  BY DEF SetExpire
<1>5. CASE dict' = dict /\ Fail("set_expire", k, "DECLINED")
  BY <1>2, <1>5, FailServed
<1>6. CASE /\ k \in DOMAIN dict.tree
           /\ dict' = Update(dict, k, [dict.tree[k] EXCEPT !.expires = Expires(t0, ttl)])
           /\ Return("set_expire", k, "OK", Nil, 0, FALSE)
  <2>1. PICK x \in Nat : x = Expires(t0, ttl)
    BY <1>3, ExpiresNat
  <2>2. PICK f : f = [dict.tree[k] EXCEPT !.expires = x]
    OBVIOUS
  <2>3. GoodEntry(dict.tree[k])
    BY <1>2, <1>6, EntryParts DEF Sound
  <2>4. GoodEntry(f) /\ EntryBlocks(f) = EntryBlocks(dict.tree[k])
        /\ f.type = dict.tree[k].type /\ f.items = dict.tree[k].items
    BY <2>2, <2>3, RetimeGood
  <2>5. Sound(Update(dict, k, f))
    BY <1>2, <1>6, <2>4, UpdateSound DEF Sound, HasNoEmptyList
  <2>6. Sound(dict)'
    BY <1>6, <2>1, <2>2, <2>5
  <2> QED
    BY <1>2, <1>6, <2>6, NilServed
<1> QED
  BY <1>4, <1>5, <1>6

LEMMA GetTtlServed ==
  ASSUME IInv, NEW k \in Key, NEW t \in Time, GetTtl(k, t)
  PROVE  Served
<1>1. Begin("get_ttl", t) /\ dict' = dict
  BY DEF GetTtl
<1>2. Sound(dict) /\ "get_ttl" \in Api
  BY <1>1, AtRest
<1>3. PICK ttl : /\ Return("get_ttl", k, "OK", Nil, ttl, FALSE)
                 /\ ttl = IF k \notin DOMAIN dict.tree THEN NGX_DECLINED
                          ELSE IF dict.tree[k].expires = 0 THEN 0
                          ELSE dict.tree[k].expires - t
  BY DEF GetTtl
<1>4. k \in DOMAIN dict.tree => dict.tree[k].expires \in Nat
  BY <1>2, EntryParts DEF Sound, Entry
<1>5. ttl \in Int
  BY <1>3, <1>4, ShdictAssumption DEF NGX_DECLINED
<1> QED
  BY <1>1, <1>2, <1>3, <1>5, NilOK, ReturnServed

\* flush_all changes the expiry of every entry at once.
Retimed(n, d) ==
    n = [tree |-> [k \in DOMAIN d.tree |-> [d.tree[k] EXCEPT !.expires = 1]],
         lru |-> d.lru, used |-> d.used]

LEMMA RetimeAllSound ==
  ASSUME NEW d, Sound(d), NEW n, Retimed(n, d)
  PROVE  Sound(n)
<1>1. /\ n = [tree |-> n.tree, lru |-> n.lru, used |-> n.used]
      /\ n.lru = d.lru /\ n.used = d.used /\ DOMAIN n.tree = DOMAIN d.tree
      /\ \A k \in DOMAIN d.tree : n.tree[k] = [d.tree[k] EXCEPT !.expires = 1]
  BY DEF Retimed
<1>2. ASSUME NEW k \in DOMAIN d.tree
      PROVE  /\ GoodEntry(n.tree[k]) /\ EntryBlocks(n.tree[k]) = EntryBlocks(d.tree[k])
             /\ n.tree[k].type = d.tree[k].type /\ n.tree[k].items = d.tree[k].items
  <2>1. GoodEntry(d.tree[k])
    BY EntryParts DEF Sound
  <2>2. PICK f : f = [d.tree[k] EXCEPT !.expires = 1]
    OBVIOUS
  <2>3. 1 \in Nat /\ 1 \in Int
    OBVIOUS
  <2>4. /\ GoodEntry(f) /\ EntryBlocks(f) = EntryBlocks(d.tree[k])
        /\ f.type = d.tree[k].type /\ f.items = d.tree[k].items
    BY <2>1, <2>2, <2>3, RetimeGood
  <2> QED
    BY <1>1, <2>2, <2>4
<1>3. n.tree \in [DOMAIN n.tree -> Entry]
  <2>1. n.tree = [k \in DOMAIN n.tree |-> n.tree[k]]
    BY DEF Retimed
  <2> QED
    BY <1>1, <1>2, <2>1 DEF GoodEntry
<1>4. IsDict(n)
  BY <1>1, <1>3 DEF Sound, Consistent, IsDict
<1>5. LruExact(n)
  BY <1>1 DEF Sound, Consistent, LruExact
<1>6. UsedExact(n)
  <2> DEFINE B(x) == EntryBlocks(d.tree[x])
             C(x) == EntryBlocks(n.tree[x])
  <2>1. /\ \A b : b \in d.used <=> b = Root \/ \E x \in DOMAIN d.tree : b \in B(x)
        /\ \A x, y \in DOMAIN d.tree : x # y => B(x) \cap B(y) = {}
    BY DEF Sound, Consistent, UsedExact
  <2>2. \A x \in DOMAIN d.tree : C(x) = B(x)
    BY <1>2
  <2> HIDE DEF B, C
  <2>3. \A b : b \in n.used <=> b = Root \/ \E x \in DOMAIN n.tree : b \in C(x)
    BY <1>1, <2>1, <2>2
  <2>4. \A x, y \in DOMAIN n.tree : x # y => C(x) \cap C(y) = {}
    BY <1>1, <2>1, <2>2
  <2>5. n.used = {Root} \cup UNION {EntryBlocks(n.tree[x]) : x \in DOMAIN n.tree}
    BY <2>3 DEF C
  <2>6. \A x \in DOMAIN n.tree : OwnsItsBlocks(n.tree[x])
    BY <1>1, <1>2 DEF GoodEntry
  <2> QED
    BY <2>4, <2>5, <2>6 DEF UsedExact, C
<1>7. \A k \in DOMAIN n.tree : LenExact(n.tree[k]) /\ FitsItsBlocks(n.tree[k])
  BY <1>1, <1>2 DEF GoodEntry
<1>8. HasNoEmptyList(n)
  BY <1>1, <1>2 DEF Sound, HasNoEmptyList
<1> QED
  BY <1>4, <1>5, <1>6, <1>7, <1>8 DEF Sound, Consistent

LEMMA FlushAllServed ==
  ASSUME IInv, NEW t \in Time, FlushAll(t)
  PROVE  Served
<1> DEFINE tree == [k \in DOMAIN dict.tree |-> [dict.tree[k] EXCEPT !.expires = 1]]
           n == [dict EXCEPT !.tree = tree]
<1>1. /\ Begin("flush_all", t) /\ dict' = ExpireForced(n, now)
      /\ Return("flush_all", None, "OK", Nil, 0, FALSE)
  BY DEF FlushAll
<1>2. Sound(dict) /\ "flush_all" \in Api
  BY <1>1, AtRest
<1>3. n = [tree |-> tree, lru |-> dict.lru, used |-> dict.used]
  <2>1. dict = [tree |-> dict.tree, lru |-> dict.lru, used |-> dict.used]
    BY <1>2 DEF Sound, Consistent, IsDict
  <2> HIDE DEF tree
  <2> QED
    BY <2>1
<1>4. Sound(n)
  <2> HIDE DEF n
  <2> QED
    BY <1>2, <1>3, RetimeAllSound DEF Retimed
<1> HIDE DEF n
<1>5. Sound(dict)'
  <2>1. Sound(ExpireForced(n, now))
    BY <1>4, ExpireForcedConsistent, KeepsSound DEF Sound
  <2> QED
    BY <1>1, <2>1
<1> QED
  BY <1>1, <1>2, <1>5, NilServed

\* The sequence w is s with one more element, at q; m leads from the other
\* indices of w to those of s.
Splice(w, s, q, m) ==
    /\ q \in DOMAIN w
    /\ \A i \in DOMAIN w \ {q} : m[i] \in DOMAIN s /\ w[i] = s[m[i]]
    /\ \A i, j \in DOMAIN w \ {q} : m[i] = m[j] => i = j
    /\ \A j \in DOMAIN s : \E i \in DOMAIN w \ {q} : m[i] = j

LEMMA ConsSplice ==
  ASSUME NEW S, NEW s \in Seq(S), NEW x \in S
  PROVE  /\ Cons(x, s) \in Seq(S) /\ Len(Cons(x, s)) = Len(s) + 1
         /\ Cons(x, s)[1] = x
         /\ Splice(Cons(x, s), s, 1, [i \in Int |-> i - 1])
<1>1. PICK w : w = Cons(x, s)
  OBVIOUS
<1>2. /\ w \in Seq(S) /\ Len(w) = Len(s) + 1 /\ Len(s) \in Nat
      /\ \A i \in 1 .. Len(s) + 1 : w[i] = IF i = 1 THEN x ELSE s[i - 1]
  BY <1>1 DEF Cons
<1>3. DOMAIN w = 1 .. Len(s) + 1 /\ DOMAIN s = 1 .. Len(s)
  BY <1>2
<1>4. \A j \in DOMAIN s : j + 1 \in DOMAIN w \ {1} /\ (j + 1) - 1 = j
  BY <1>2, <1>3
<1>5. Splice(w, s, 1, [i \in Int |-> i - 1])
  BY <1>2, <1>3, <1>4 DEF Splice
<1> QED
  BY <1>1, <1>2, <1>5

LEMMA AppendSplice ==
  ASSUME NEW S, NEW s \in Seq(S), NEW x \in S
  PROVE  /\ Append(s, x) \in Seq(S) /\ Len(Append(s, x)) = Len(s) + 1
         /\ Append(s, x)[Len(s) + 1] = x
         /\ Splice(Append(s, x), s, Len(s) + 1, [i \in Int |-> i])
<1>1. PICK w : w = Append(s, x)
  OBVIOUS
<1>2. /\ w \in Seq(S) /\ Len(w) = Len(s) + 1 /\ Len(s) \in Nat
      /\ \A i \in 1 .. Len(s) : w[i] = s[i]
      /\ w[Len(s) + 1] = x
  BY <1>1
<1>3. DOMAIN w = 1 .. Len(s) + 1 /\ DOMAIN s = 1 .. Len(s)
  BY <1>2
<1>4. \A j \in DOMAIN s : j \in DOMAIN w \ {Len(s) + 1}
  BY <1>2, <1>3
<1>5. Splice(w, s, Len(s) + 1, [i \in Int |-> i])
  BY <1>2, <1>3, <1>4 DEF Splice
<1> QED
  BY <1>1, <1>2, <1>5

LEMMA TailSplice ==
  ASSUME NEW S, NEW w \in Seq(S), w # <<>>
  PROVE  /\ Tail(w) \in Seq(S) /\ Len(Tail(w)) = Len(w) - 1 /\ Head(w) = w[1]
         /\ Splice(w, Tail(w), 1, [i \in Int |-> i - 1])
<1>1. PICK s : s = Tail(w)
  OBVIOUS
<1>2. /\ s \in Seq(S) /\ Len(s) = Len(w) - 1 /\ Len(w) \in Nat /\ Len(w) >= 1
      /\ \A i \in 1 .. Len(w) - 1 : s[i] = w[i + 1]
      /\ Head(w) = w[1]
  BY <1>1
<1>3. DOMAIN w = 1 .. Len(w) /\ DOMAIN s = 1 .. Len(w) - 1
  BY <1>2
<1>4. \A j \in DOMAIN s : j + 1 \in DOMAIN w \ {1} /\ (j + 1) - 1 = j
  BY <1>2, <1>3
<1>5. \A i \in DOMAIN w \ {1} : i - 1 \in DOMAIN s /\ w[i] = s[i - 1]
  BY <1>2, <1>3
<1>6. Splice(w, s, 1, [i \in Int |-> i - 1])
  BY <1>2, <1>3, <1>4, <1>5 DEF Splice
<1> QED
  BY <1>1, <1>2, <1>6

LEMMA FrontSplice ==
  ASSUME NEW S, NEW w \in Seq(S), w # <<>>
  PROVE  /\ Front(w) \in Seq(S) /\ Len(Front(w)) = Len(w) - 1
         /\ Splice(w, Front(w), Len(w), [i \in Int |-> i])
<1>1. PICK s : s = Front(w)
  OBVIOUS
<1>2. /\ s \in Seq(S) /\ Len(s) = Len(w) - 1 /\ Len(w) \in Nat /\ Len(w) >= 1
      /\ \A i \in 1 .. Len(w) - 1 : s[i] = w[i]
  <2>1. PICK n : n = Len(w) - 1
    OBVIOUS
  <2>2. /\ Len(w) \in Nat /\ Len(w) >= 1 /\ s = SubSeq(w, 1, n) /\ n \in Int
        /\ \A i \in 1 .. n : w[i] \in S
    BY <1>1, <2>1 DEF Front
  <2>3. /\ s \in Seq(S) /\ Len(s) = IF 1 <= n THEN n - 1 + 1 ELSE 0
        /\ \A i \in 1 .. n - 1 + 1 : s[i] = w[1 + i - 1]
    BY <2>2, SubSeqProperties
  <2> QED
    BY <2>1, <2>2, <2>3
<1>3. DOMAIN w = 1 .. Len(w) /\ DOMAIN s = 1 .. Len(w) - 1
  BY <1>2
<1>4. Splice(w, s, Len(w), [i \in Int |-> i])
  BY <1>2, <1>3 DEF Splice
<1> QED
  BY <1>1, <1>2, <1>4

\* What one more node means for the blocks of a list.
LEMMA SpliceBlocks ==
  ASSUME NEW e, NEW f, NEW q, NEW m, Splice(f.items, e.items, q, m),
         f.block = e.block
  PROVE  /\ EntryBlocks(f) = EntryBlocks(e) \cup {f.items[q].block}
         /\ OwnsItsBlocks(e) /\ f.items[q].block \notin EntryBlocks(e) \cup {Root}
              => OwnsItsBlocks(f)
         /\ OwnsItsBlocks(f)
              => OwnsItsBlocks(e) /\ f.items[q].block \notin EntryBlocks(e)
<1>1. ItemBlocks(f) = ItemBlocks(e) \cup {f.items[q].block}
  BY DEF Splice, ItemBlocks
<1>2. ASSUME OwnsItsBlocks(e), f.items[q].block \notin EntryBlocks(e) \cup {Root}
      PROVE  OwnsItsBlocks(f)
  <2>1. ASSUME NEW i \in DOMAIN f.items \ {q} PROVE f.items[i].block # f.items[q].block
    BY <1>2, <2>1 DEF Splice, EntryBlocks, ItemBlocks
  <2>2. ASSUME NEW i \in DOMAIN f.items, NEW j \in DOMAIN f.items,
               f.items[i].block = f.items[j].block
        PROVE  i = j
    BY <1>2, <2>1, <2>2 DEF Splice, OwnsItsBlocks
  <2> QED
    BY <1>1, <1>2, <2>2 DEF OwnsItsBlocks, EntryBlocks
<1>3. ASSUME OwnsItsBlocks(f)
      PROVE  OwnsItsBlocks(e) /\ f.items[q].block \notin EntryBlocks(e)
  <2>1. f.items[q].block \notin ItemBlocks(e)
    BY <1>3 DEF Splice, OwnsItsBlocks, ItemBlocks
  <2>2. ASSUME NEW i \in DOMAIN e.items, NEW j \in DOMAIN e.items,
               e.items[i].block = e.items[j].block
        PROVE  i = j
    <3>1. PICK x \in DOMAIN f.items \ {q} : m[x] = i
      BY DEF Splice
    <3>2. PICK y \in DOMAIN f.items \ {q} : m[y] = j
      BY DEF Splice
    <3>3. f.items[x].block = f.items[y].block
      BY <2>2, <3>1, <3>2 DEF Splice
    <3> QED
      BY <1>3, <3>1, <3>2, <3>3 DEF OwnsItsBlocks
  <2> QED
    BY <1>1, <1>3, <2>1, <2>2 DEF OwnsItsBlocks, EntryBlocks
<1> QED
  BY <1>1, <1>2, <1>3 DEF EntryBlocks

\* A list entry with one node more or less is still good.
LEMMA AddItemGood ==
  ASSUME NEW e, GoodEntry(e), e.type = "list", NEW dir \in PushOps,
         NEW item \in Item, WellSized(item), item.block \notin EntryBlocks(e),
         item.block # Root, item.block.class = ItemClass[item.len],
         NEW f, f = AddItem(dir, e, item)
  PROVE  /\ GoodEntry(f) /\ EntryBlocks(f) = EntryBlocks(e) \cup {item.block}
         /\ f.type = "list" /\ f.len = e.len + 1 /\ f.items # <<>>
<1>1. e \in Entry /\ e.items \in Seq(Item) /\ e.len \in Nat /\ e.len = Len(e.items)
  BY DEF GoodEntry, LenExact, Entry
<1>2. PICK w : w = IF dir = "lpush" THEN Cons(item, e.items) ELSE Append(e.items, item)
  OBVIOUS
<1>3. PICK q, m : /\ w \in Seq(Item) /\ Len(w) = Len(e.items) + 1
                  /\ w[q] = item /\ Splice(w, e.items, q, m)
  <2>1. CASE dir = "lpush"
    BY <1>1, <1>2, <2>1, ConsSplice
  <2>2. CASE dir # "lpush"
    BY <1>1, <1>2, <2>2, AppendSplice
  <2> QED
    BY <2>1, <2>2
<1>4. /\ f.items = w /\ f.len = e.len + 1 /\ f.block = e.block /\ f.type = "list"
      /\ f \in Entry
  <2>1. PICK g : g = [e EXCEPT !.len = e.len + 1]
    OBVIOUS
  <2>2. g \in Entry /\ g.len = e.len + 1 /\ g.block = e.block /\ g.type = "list"
    BY <1>1, <2>1 DEF Entry
  <2>3. f = [g EXCEPT !.items = w]
    BY <1>2, <2>1, Zenon DEF AddItem
  <2> QED
    BY <1>3, <2>2, <2>3 DEF Entry
<1>5. w # <<>>
  BY <1>3 DEF Splice
<1>6. OwnsItsBlocks(f) /\ EntryBlocks(f) = EntryBlocks(e) \cup {item.block}
  <2>1. Splice(f.items, e.items, q, m) /\ f.items[q].block = item.block
    BY <1>3, <1>4
  <2>2. OwnsItsBlocks(e) /\ f.items[q].block \notin EntryBlocks(e) \cup {Root}
    BY <2>1 DEF GoodEntry
  <2>3. f.block = e.block
    BY <1>4
  <2>4. EntryBlocks(f) = EntryBlocks(e) \cup {f.items[q].block}
    BY <2>1, <2>3, SpliceBlocks
  <2>5. OwnsItsBlocks(f)
    BY <2>1, <2>2, <2>3, SpliceBlocks
  <2> QED
    BY <2>1, <2>4, <2>5
<1>a. ASSUME NEW i \in DOMAIN w
      PROVE  w[i] = item \/ \E j \in DOMAIN e.items : w[i] = e.items[j]
  BY <1>3 DEF Splice
<1>7. LenExact(f)
  <2>1. \A i \in DOMAIN e.items : WellSized(e.items[i])
    BY DEF GoodEntry, LenExact
  <2>2. \A i \in DOMAIN w : WellSized(w[i])
    BY <1>a, <2>1
  <2> QED
    BY <1>1, <1>3, <1>4, <2>2 DEF LenExact
<1>8. FitsItsBlocks(f)
  BY <1>4, <1>a DEF GoodEntry, FitsItsBlocks
<1> QED
  BY <1>4, <1>5, <1>6, <1>7, <1>8 DEF GoodEntry

LEMMA RestGood ==
  ASSUME NEW e, GoodEntry(e), e.type = "list", NEW dir \in PopOps, e.len > 0,
         NEW f, f = RemoveItem(dir, e)
  PROVE  /\ GoodEntry(f) /\ f.type = "list" /\ f.len = e.len - 1
         /\ EntryBlocks(e) = EntryBlocks(f) \cup {Pick(dir, e.items).block}
         /\ Pick(dir, e.items).block \notin EntryBlocks(f)
         /\ Pick(dir, e.items) \in Item
<1>1. /\ e \in Entry /\ e.items \in Seq(Item) /\ e.len \in Nat
      /\ e.len = Len(e.items) /\ e.items # <<>>
  BY DEF GoodEntry, LenExact, Entry
<1>2. PICK s : s = Rest(dir, e.items)
  OBVIOUS
<1>3. PICK q, m : /\ s \in Seq(Item) /\ Len(s) = Len(e.items) - 1
                  /\ e.items[q] = Pick(dir, e.items) /\ Splice(e.items, s, q, m)
  <2>1. CASE dir = "lpop"
    BY <1>1, <1>2, <2>1, TailSplice DEF Rest, Pick
  <2>2. CASE dir # "lpop"
    <3>1. Last(e.items) = e.items[Len(e.items)]
      BY DEF Last
    <3> QED
      BY <1>1, <1>2, <2>2, <3>1, FrontSplice DEF Rest, Pick
  <2> QED
    BY <2>1, <2>2
<1>4. /\ f.items = s /\ f.len = e.len - 1 /\ f.block = e.block /\ f.type = "list"
      /\ f \in Entry
  <2>1. PICK g : g = [e EXCEPT !.len = e.len - 1]
    OBVIOUS
  <2>2. g \in Entry /\ g.len = e.len - 1 /\ g.block = e.block /\ g.type = "list"
    BY <1>1, <2>1 DEF Entry
  <2>3. f = [g EXCEPT !.items = s]
    BY <1>2, <2>1, Zenon DEF RemoveItem
  <2> QED
    BY <1>3, <2>2, <2>3 DEF Entry
<1>5. /\ EntryBlocks(e) = EntryBlocks(f) \cup {e.items[q].block}
      /\ OwnsItsBlocks(f) /\ e.items[q].block \notin EntryBlocks(f)
  BY <1>3, <1>4, SpliceBlocks DEF GoodEntry
<1>6. ASSUME NEW j \in DOMAIN s PROVE \E i \in DOMAIN e.items : s[j] = e.items[i]
  BY <1>3 DEF Splice
<1>7. LenExact(f)
  BY <1>1, <1>3, <1>4, <1>6 DEF GoodEntry, LenExact
<1>8. FitsItsBlocks(f)
  BY <1>4, <1>6 DEF GoodEntry, FitsItsBlocks
<1>9. Pick(dir, e.items) \in Item
  BY <1>1, <1>3 DEF Splice
<1> QED
  BY <1>3, <1>4, <1>5, <1>7, <1>8, <1>9 DEF GoodEntry

\* An empty list in a block of its class.
LEMMA EmptyListGood ==
  ASSUME NEW b \in Block, b.class = ListClass, b # Root, NEW e, e = EmptyList(b)
  PROVE  /\ GoodEntry(e) /\ e.type = "list" /\ e.items = <<>> /\ e.block = b
         /\ e.len = 0 /\ EntryBlocks(e) = {b}
<1>1. /\ e.type = "list" /\ e.len = 0 /\ e.items = <<>> /\ e.block = b /\ e \in Entry
  BY DEF EmptyList, NewEntry, Entry
<1>2. ItemBlocks(e) = {} /\ DOMAIN e.items = {}
  BY <1>1 DEF ItemBlocks
<1>3. LenExact(e) /\ FitsItsBlocks(e)
  BY <1>1, <1>2 DEF LenExact, FitsItsBlocks
<1>4. OwnsItsBlocks(e) /\ EntryBlocks(e) = {b}
  BY <1>1, <1>2 DEF OwnsItsBlocks, EntryBlocks
<1> QED
  BY <1>1, <1>3, <1>4 DEF GoodEntry

\* A dictionary a push works on: the list of its key, alone, may be empty.
Pushable(d, k) ==
    /\ Consistent(d)
    /\ k \in DOMAIN d.tree /\ d.tree[k].type = "list"
    /\ \A x \in DOMAIN d.tree \ {k} : d.tree[x].type = "list" => d.tree[x].items # <<>>

LEMMA PushNodeServed ==
  ASSUME NEW d, NEW k, Pushable(d, k), NEW dir \in PushOps, NEW v \in Value,
         v.type \in {"number", "string"}, PushNode(dir, k, v, d)
  PROVE  Served
<1> DEFINE free == Free(d.used, ItemClass[v.len])
           e == d.tree[k]
           item(b) == [type |-> v.type, len |-> v.len, data |-> v.data, block |-> b]
           took(f, b) == [Update(d, k, f) EXCEPT !.used = Update(d, k, f).used \cup {b}]
<1>1. /\ Consistent(d) /\ k \in DOMAIN d.tree /\ e.type = "list" /\ k \in Key
      /\ dir \in Api
  BY DEF Pushable, Consistent, IsDict, Api
<1>2. /\ e \in Entry /\ GoodEntry(e) /\ EntryBlocks(e) \subseteq d.used
      /\ EntryBlocks(e) \subseteq Block
  BY <1>1, EntryParts
<1>3. /\ v \in Returned /\ v \in Storable /\ WellSized(v) /\ v.len \in Lengths
      /\ ItemClass[v.len] \in Class
  BY ValueOK, ClassesOK
<1>4. ASSUME NEW b \in free, NEW num \in ReadUnlocked(e.len + 1),
             dict' = took(AddItem(dir, e, item(b)), b),
             Return(dir, k, "OK", v, num, FALSE)
      PROVE  Served
  <2>1. b \in Block /\ b.class = ItemClass[v.len] /\ b \notin d.used
    BY <1>3, FreeIsNew
  <2>2. b # Root /\ b \notin EntryBlocks(e)
    BY <1>1, <1>2, <2>1 DEF Consistent, UsedExact
  <2>3. PICK i : i = item(b)
    OBVIOUS
  <2>4. i \in Item /\ WellSized(i) /\ i.block = b /\ i.len = v.len
    BY <1>3, <2>1, <2>3 DEF Item, WellSized, Storable
  <2>5. PICK f : f = AddItem(dir, e, i)
    OBVIOUS
  <2>6. /\ GoodEntry(f) /\ EntryBlocks(f) = EntryBlocks(e) \cup {b}
        /\ f.type = "list" /\ f.len = e.len + 1 /\ f.items # <<>>
    BY <1>1, <1>2, <2>1, <2>2, <2>4, <2>5, AddItemGood
  <2>7. PICK n : n = took(f, b)
    OBVIOUS
  <2>8. n = [tree |-> [d.tree EXCEPT ![k] = f], lru |-> d.lru,
             used |-> (d.used \ EntryBlocks(e)) \cup EntryBlocks(f)]
    <3>1. d = [tree |-> d.tree, lru |-> d.lru, used |-> d.used]
      BY <1>1 DEF Consistent, IsDict
    <3>2. Update(d, k, f) = [tree |-> [d.tree EXCEPT ![k] = f], lru |-> d.lru,
                             used |-> d.used]
      BY <3>1 DEF Update
    <3>3. n = [tree |-> [d.tree EXCEPT ![k] = f], lru |-> d.lru, used |-> d.used \cup {b}]
      BY <2>7, <3>2
    <3>4. (d.used \ EntryBlocks(e)) \cup EntryBlocks(f) = d.used \cup {b}
      BY <1>2, <2>6
    <3> QED
      BY <3>3, <3>4
  <2>9. EntryBlocks(f) \subseteq Block /\ EntryBlocks(f) \cap (d.used \ EntryBlocks(e)) = {}
    BY <1>2, <2>1, <2>6
  <2>10. Consistent(n) /\ Changes(n, d, k, f)
    BY <1>1, <2>6, <2>8, <2>9, RewriteConsistent
  <2>11. Sound(n)
    BY <2>6, <2>10 DEF Sound, HasNoEmptyList, Changes, Pushable
  <2>12. Sound(dict)'
    BY <1>4, <2>3, <2>5, <2>7, <2>11
  <2>13. num \in Int /\ k \in Key \cup {None}
    <3>1. e.len + 1 \in Nat
      BY <1>2 DEF Entry
    <3>2. num \in ReadUnlocked(e.len + 1)
      BY <1>4
    <3> QED
      BY <1>1, <3>1, <3>2, LateInt, Zenon
  <2> QED
    BY <1>1, <1>3, <1>4, <2>12, <2>13, ReturnServed, Zenon
<1>5. ASSUME dict' = IF e.len = 0 THEN DropNode(d, k) ELSE d, Fail(dir, k, "NOMEM")
      PROVE  Served
  <2>1. CASE e.len = 0
    <3>1. e.items = <<>>
      BY <1>1, <1>2, <2>1 DEF GoodEntry, LenExact, Entry
    <3>2. PICK n : n = DropNode(d, k)
      OBVIOUS
    <3>3. Consistent(n) /\ Keeps(n, d) /\ k \notin DOMAIN n.tree
      BY <1>1, <3>1, <3>2, DropNodeConsistent
    <3>4. Sound(n)
      BY <3>3 DEF Sound, HasNoEmptyList, Keeps, Pushable
    <3> QED
      BY <1>1, <1>5, <2>1, <3>2, <3>4, FailServed
  <2>2. CASE e.len # 0
    <3>1. e.items # <<>>
      BY <1>1, <1>2, <2>2 DEF GoodEntry, LenExact
    <3>2. Sound(d)
      BY <1>1, <3>1 DEF Sound, HasNoEmptyList, Pushable
    <3> QED
      BY <1>1, <1>5, <2>2, <3>2, FailServed
  <2> QED
    BY <2>1, <2>2
<1> HIDE DEF free
<1> QED
  BY <1>4, <1>5 DEF PushNode, free

\* The list of an expired key is emptied in its place.
LEMMA ResetListPushable ==
  ASSUME NEW d, Sound(d), NEW k \in DOMAIN d.tree, d.tree[k].type = "list"
  PROVE  Pushable(ResetList(d, k), k)
<1>1. PICK t : t = Touch(d, k)
  OBVIOUS
<1>2. Consistent(t) /\ t.tree = d.tree
  BY <1>1, TouchConsistent DEF Sound
<1>3. /\ GoodEntry(d.tree[k]) /\ EntryBlocks(d.tree[k]) \subseteq d.used
      /\ EntryBlocks(d.tree[k]) \subseteq Block
  BY EntryParts DEF Sound
<1>4. PICK b : b = d.tree[k].block
  OBVIOUS
<1>5. /\ b \in Block /\ b.class = ListClass /\ b # Root
      /\ EntryBlocks(d.tree[k]) = {b} \cup ItemBlocks(d.tree[k])
      /\ b \notin ItemBlocks(d.tree[k])
  BY <1>3, <1>4 DEF GoodEntry, FitsItsBlocks, OwnsItsBlocks, EntryBlocks
<1>6. PICK e : e = EmptyList(b)
  OBVIOUS
<1>7. /\ GoodEntry(e) /\ e.type = "list" /\ EntryBlocks(e) = {b}
  BY <1>5, <1>6, EmptyListGood
<1>8. PICK n : n = ResetList(d, k)
  OBVIOUS
<1>9. n = [tree |-> [t.tree EXCEPT ![k] = e], lru |-> t.lru,
           used |-> (t.used \ EntryBlocks(t.tree[k])) \cup EntryBlocks(e)]
  <2>1. d = [tree |-> d.tree, lru |-> d.lru, used |-> d.used]
    BY DEF Sound, Consistent, IsDict
  <2>2. PICK u : u = d.used \ ItemBlocks(d.tree[k])
    OBVIOUS
  <2>3. PICK q : q = Cons(k, RemoveFirst(d.lru, k))
    OBVIOUS
  <2>4. FreeItems(d, k) = [tree |-> d.tree, lru |-> d.lru, used |-> u]
    BY <2>1, <2>2 DEF FreeItems, Release
  <2>5. Touch(FreeItems(d, k), k) = [tree |-> d.tree, lru |-> q, used |-> u]
    BY <2>3, <2>4 DEF Touch
  <2>6. n = [tree |-> [d.tree EXCEPT ![k] = e], lru |-> q, used |-> u]
    BY <1>4, <1>6, <1>8, <2>5 DEF ResetList, Update
  <2>7. t = [tree |-> d.tree, lru |-> q, used |-> d.used]
    BY <1>1, <2>1, <2>3 DEF Touch
  <2>8. (d.used \ EntryBlocks(d.tree[k])) \cup EntryBlocks(e) = u
    BY <1>3, <1>5, <1>7, <2>2
  <2> QED
    BY <2>6, <2>7, <2>8
<1>10. /\ EntryBlocks(e) \subseteq Block
       /\ EntryBlocks(e) \cap (t.used \ EntryBlocks(t.tree[k])) = {}
  BY <1>2, <1>5, <1>7
<1>11. Consistent(n) /\ Changes(n, t, k, e)
  BY <1>2, <1>7, <1>9, <1>10, RewriteConsistent
<1>12. Pushable(n, k)
  BY <1>2, <1>7, <1>11 DEF Pushable, Changes, Sound, HasNoEmptyList
<1> QED
  BY <1>8, <1>12

\* A list just created.
LEMMA NewListPushable ==
  ASSUME NEW d, Sound(d), NEW k \in Key, k \notin DOMAIN d.tree,
         NEW b \in Free(d.used, ListClass)
  PROVE  Pushable(Insert(d, k, EmptyList(b)), k)
<1>1. b \in Block /\ b.class = ListClass /\ b \notin d.used
  BY ShdictAssumption, FreeIsNew
<1>2. b # Root
  BY <1>1 DEF Sound, Consistent, UsedExact
<1>3. PICK e : e = EmptyList(b)
  OBVIOUS
<1>4. /\ GoodEntry(e) /\ e.type = "list" /\ e.items = <<>> /\ e.block = b
  BY <1>1, <1>2, <1>3, EmptyListGood
<1>5. PICK n : n = Insert(d, k, e)
  OBVIOUS
<1>6. /\ Consistent(n) /\ DOMAIN n.tree = DOMAIN d.tree \cup {k}
      /\ n.tree[k] = e /\ \A x \in DOMAIN d.tree : n.tree[x] = d.tree[x]
  BY <1>1, <1>4, <1>5, InsertConsistent DEF Sound
<1>7. Pushable(n, k)
  BY <1>4, <1>6 DEF Pushable, Sound, HasNoEmptyList
<1> QED
  BY <1>3, <1>5, <1>7

LEMMA PushServed ==
  ASSUME IInv, NEW dir \in PushOps, NEW k \in Key, NEW v \in Value, NEW t \in Time,
         Push(dir, k, v, t)
  PROVE  Served
<1> DEFINE e == ExpireTwo(dict, now)
           rc == LookupRc(e, k, t)
           d == Lookup(e, k)
           bare == IF rc = "DONE" THEN DropNode(d, k) ELSE d
           free == Free(bare.used, ListClass)
<1>1. Begin(dir, t)
  BY DEF Push
<1>2. Sound(dict) /\ dir \in Api
  BY <1>1, AtRest
<1>3. Sound(d) /\ d.tree = e.tree
  BY <1>2, ExpireTwoSound, LookupSound
<1>4. rc \in {"OK", "DONE"} <=> k \in DOMAIN e.tree
  BY DEF LookupRc
<1>5. \/ dict' = dict /\ Fail(dir, k, "ERROR")
      \/ /\ v.type \in {"number", "string"}
         /\ \/ dict' = d /\ Fail(dir, k, "ERROR")
            \/ rc = "OK" /\ d.tree[k].type = "list" /\ PushNode(dir, k, v, Touch(d, k))
            \/ rc = "DONE" /\ d.tree[k].type = "list" /\ PushNode(dir, k, v, ResetList(d, k))
            \/ /\ rc = "DECLINED" \/ (rc = "DONE" /\ d.tree[k].type # "list")
               /\ \/ \E b \in free : PushNode(dir, k, v, Insert(bare, k, EmptyList(b)))
                  \/ dict' = bare /\ Fail(dir, k, "NOMEM")
  BY DEF Push
<1> HIDE DEF d, e, rc
<1>6. CASE dict' = dict /\ Fail(dir, k, "ERROR")
  BY <1>2, <1>6, FailServed
<1>7. CASE dict' = d /\ Fail(dir, k, "ERROR")
  BY <1>2, <1>3, <1>7, FailServed
<1>8. CASE /\ v.type \in {"number", "string"} /\ rc = "OK" /\ d.tree[k].type = "list"
           /\ PushNode(dir, k, v, Touch(d, k))
  <2>1. PICK n : n = Touch(d, k)
    OBVIOUS
  <2>2. Sound(n) /\ n.tree = d.tree /\ k \in DOMAIN d.tree
    BY <1>3, <1>4, <1>8, <2>1, TouchSound
  <2>3. Pushable(n, k)
    BY <1>8, <2>2 DEF Pushable, Sound, HasNoEmptyList
  <2> QED
    BY <1>8, <2>1, <2>3, PushNodeServed
<1>9. CASE /\ v.type \in {"number", "string"} /\ rc = "DONE" /\ d.tree[k].type = "list"
           /\ PushNode(dir, k, v, ResetList(d, k))
  <2>1. PICK n : n = ResetList(d, k)
    OBVIOUS
  <2>2. k \in DOMAIN d.tree
    BY <1>3, <1>4, <1>9
  <2>3. Pushable(n, k)
    BY <1>3, <1>9, <2>1, <2>2, ResetListPushable
  <2> QED
    BY <1>9, <2>1, <2>3, PushNodeServed
<1>10. CASE /\ v.type \in {"number", "string"}
            /\ rc = "DECLINED" \/ (rc = "DONE" /\ d.tree[k].type # "list")
            /\ \/ \E b \in free : PushNode(dir, k, v, Insert(bare, k, EmptyList(b)))
               \/ dict' = bare /\ Fail(dir, k, "NOMEM")
  <2>1. Sound(bare) /\ k \notin DOMAIN bare.tree
    <3>1. CASE rc = "DECLINED"
      BY <1>3, <1>4, <3>1
    <3>2. CASE rc = "DONE" /\ d.tree[k].type # "list"
      <4>1. k \in DOMAIN d.tree
        BY <1>3, <1>4, <3>2
      <4>2. d.tree[k].items = <<>>
        BY <1>3, <3>2, <4>1 DEF Sound, Consistent, LenExact
      <4>3. PICK n : n = DropNode(d, k)
        OBVIOUS
      <4>4. Consistent(n) /\ Keeps(n, d) /\ k \notin DOMAIN n.tree
        BY <1>3, <4>1, <4>2, <4>3, DropNodeConsistent DEF Sound
      <4> QED
        BY <1>3, <3>2, <4>3, <4>4, KeepsSound
    <3> QED
      BY <1>10, <3>1, <3>2
  <2> HIDE DEF bare
  <2>2. ASSUME NEW b \in free, PushNode(dir, k, v, Insert(bare, k, EmptyList(b)))
        PROVE  Served
    <3>1. PICK n : n = Insert(bare, k, EmptyList(b))
      OBVIOUS
    <3>2. Pushable(n, k)
      BY <2>1, <3>1, NewListPushable
    <3> QED
      BY <1>10, <2>2, <3>1, <3>2, PushNodeServed
  <2>3. CASE dict' = bare /\ Fail(dir, k, "NOMEM")
    BY <1>2, <2>1, <2>3, FailServed
  <2> QED
    BY <1>10, <2>2, <2>3
<1> HIDE DEF bare, free
<1> QED
  BY <1>5, <1>6, <1>7, <1>8, <1>9, <1>10

\* Freeing the node that is popped, and the entry with the last one.
LEMMA PopSound ==
  ASSUME NEW d, Sound(d), NEW k \in DOMAIN d.tree, d.tree[k].type = "list",
         d.tree[k].len > 0, NEW dir \in PopOps, NEW left,
         left = [d EXCEPT !.used = Release(d.used, {Pick(dir, d.tree[k].items).block})]
  PROVE  /\ d.tree[k].len = 1 => Sound(DropNode(left, k))
         /\ d.tree[k].len # 1 =>
              Sound(Update(Touch(left, k), k, RemoveItem(dir, d.tree[k])))
<1> DEFINE e == d.tree[k]
<1>1. PICK f : f = RemoveItem(dir, e)
  OBVIOUS
<1>2. PICK b : b = Pick(dir, e.items).block
  OBVIOUS
<1>3. /\ e \in Entry /\ GoodEntry(e) /\ EntryBlocks(e) \subseteq d.used
      /\ EntryBlocks(e) \subseteq Block
  BY EntryParts DEF Sound
<1>4. /\ GoodEntry(f) /\ f.type = "list" /\ f.len = e.len - 1
      /\ EntryBlocks(e) = EntryBlocks(f) \cup {b} /\ b \notin EntryBlocks(f)
  BY <1>1, <1>2, <1>3, RestGood
<1>5. d = [tree |-> d.tree, lru |-> d.lru, used |-> d.used]
  BY DEF Sound, Consistent, IsDict
<1>6. left = [tree |-> d.tree, lru |-> d.lru, used |-> d.used \ {b}]
  BY <1>2, <1>5 DEF Release
<1>7. ASSUME e.len = 1 PROVE Sound(DropNode(left, k))
  <2>1. f.items = <<>>
    BY <1>4, <1>7 DEF GoodEntry, LenExact, Entry
  <2>2. /\ EntryBlocks(f) = {f.block} /\ e.block \in EntryBlocks(e)
        /\ e.block \notin ItemBlocks(e) /\ b \in ItemBlocks(e)
        /\ EntryBlocks(e) = {e.block} \cup ItemBlocks(e)
    <3>1. EntryBlocks(f) = {f.block}
      BY <2>1 DEF EntryBlocks, ItemBlocks
    <3>2. b \in ItemBlocks(e)
      <4>1. e.items \in Seq(Item) /\ Len(e.items) = 1
        BY <1>3, <1>7 DEF GoodEntry, LenExact, Entry
      <4>2. Pick(dir, e.items) = e.items[1]
        BY <4>1 DEF Pick, Last
      <4> QED
        BY <1>2, <4>1, <4>2 DEF ItemBlocks
    <3> QED
      BY <1>3, <3>1, <3>2 DEF GoodEntry, OwnsItsBlocks, EntryBlocks
  <2>3. ItemBlocks(e) = {b}
    BY <1>4, <2>2
  <2>4. FreeItems(d, k) = left
    BY <1>5, <1>6, <2>3 DEF FreeItems, Release
  <2>5. DropNode(left, k) = FreeEntry(d, k)
    BY <2>4 DEF FreeEntry
  <2>6. PICK n : n = FreeEntry(d, k)
    OBVIOUS
  <2>7. Consistent(n) /\ Keeps(n, d)
    BY <2>6, FreeEntryConsistent DEF Sound
  <2> QED
    BY <2>5, <2>6, <2>7, KeepsSound
<1>8. ASSUME e.len # 1 PROVE Sound(Update(Touch(left, k), k, f))
  <2>1. PICK t : t = Touch(d, k)
    OBVIOUS
  <2>2. Consistent(t) /\ t.tree = d.tree
    BY <2>1, TouchConsistent DEF Sound
  <2>3. PICK n : n = Update(Touch(left, k), k, f)
    OBVIOUS
  <2>4. n = [tree |-> [t.tree EXCEPT ![k] = f], lru |-> t.lru,
             used |-> (t.used \ EntryBlocks(t.tree[k])) \cup EntryBlocks(f)]
    <3>1. PICK q : q = Cons(k, RemoveFirst(d.lru, k))
      OBVIOUS
    <3>2. PICK u : u = d.used \ {b}
      OBVIOUS
    <3>3. Touch(left, k) = [tree |-> d.tree, lru |-> q, used |-> u]
      <4>1. PICK l : l = [tree |-> d.tree, lru |-> d.lru, used |-> u]
        OBVIOUS
      <4>2. Touch(l, k) = [tree |-> d.tree, lru |-> q, used |-> u]
        BY <3>1, <4>1 DEF Touch
      <4>3. left = l
        BY <1>6, <3>2, <4>1
      <4> QED
        BY <4>2, <4>3, Zenon
    <3>4. n = [tree |-> [d.tree EXCEPT ![k] = f], lru |-> q, used |-> u]
      BY <2>3, <3>3 DEF Update
    <3>5. t = [tree |-> d.tree, lru |-> q, used |-> d.used]
      BY <1>5, <2>1, <3>1 DEF Touch
    <3>6. (d.used \ EntryBlocks(e)) \cup EntryBlocks(f) = u
      BY <1>3, <1>4, <3>2
    <3> QED
      BY <3>4, <3>5, <3>6
  <2>5. /\ EntryBlocks(f) \subseteq Block
        /\ EntryBlocks(f) \cap (t.used \ EntryBlocks(t.tree[k])) = {}
    BY <1>3, <1>4, <2>2
  <2>6. Consistent(n) /\ Changes(n, t, k, f)
    BY <1>4, <2>2, <2>4, <2>5, RewriteConsistent
  <2>7. f.items # <<>>
    BY <1>3, <1>4, <1>8 DEF GoodEntry, LenExact, Entry
  <2>8. Sound(n)
    BY <2>2, <2>6, <2>7 DEF Sound, HasNoEmptyList, Changes
  <2> QED
    BY <2>3, <2>8
<1> QED
  BY <1>1, <1>7, <1>8

LEMMA PopServed ==
  ASSUME IInv, NEW dir \in PopOps, NEW k \in Key, NEW room, NEW t \in Time,
         Pop(dir, k, room, t)
  PROVE  Served
<1> DEFINE e == ExpireTwo(dict, now)
           rc == LookupRc(e, k, t)
           d == Lookup(e, k)
           old == d.tree[k]
           item == Pick(dir, old.items)
           left == [d EXCEPT !.used = Release(d.used, {item.block})]
           out == [type |-> item.type, len |-> item.len, data |-> item.data]
<1>1. Begin(dir, t)
  BY DEF Pop
<1>2. Sound(dict) /\ dir \in Api
  BY <1>1, AtRest
<1>3. Sound(d) /\ d.tree = e.tree
  BY <1>2, ExpireTwoSound, LookupSound
<1>4. rc = "OK" => k \in DOMAIN e.tree
  BY DEF LookupRc
<1>5. \/ dict' = d /\ Return(dir, k, "OK", Nil, 0, FALSE)
      \/ dict' = d /\ Fail(dir, k, "ERROR")
      \/ /\ rc = "OK" /\ old.type = "list" /\ old.len > 0
         /\ dict' = IF old.len = 1 THEN DropNode(left, k)
                    ELSE Update(Touch(left, k), k, RemoveItem(dir, old))
         /\ Return(dir, k, "OK", out, 0, FALSE)
  BY DEF Pop
<1> HIDE DEF d, e, rc
<1>6. CASE dict' = d /\ Return(dir, k, "OK", Nil, 0, FALSE)
  BY <1>2, <1>3, <1>6, NilServed
<1>7. CASE dict' = d /\ Fail(dir, k, "ERROR")
  BY <1>2, <1>3, <1>7, FailServed
<1>8. CASE /\ rc = "OK" /\ old.type = "list" /\ old.len > 0
           /\ dict' = IF old.len = 1 THEN DropNode(left, k)
                      ELSE Update(Touch(left, k), k, RemoveItem(dir, old))
           /\ Return(dir, k, "OK", out, 0, FALSE)
  <2>1. k \in DOMAIN d.tree
    BY <1>3, <1>4, <1>8
  <2>2. PICK l : l = left
    OBVIOUS
  <2>3. /\ old.len = 1 => Sound(DropNode(l, k))
        /\ old.len # 1 => Sound(Update(Touch(l, k), k, RemoveItem(dir, old)))
    BY <1>3, <1>8, <2>1, <2>2, PopSound
  <2>4. dict' = IF old.len = 1 THEN DropNode(l, k)
                ELSE Update(Touch(l, k), k, RemoveItem(dir, old))
    BY <1>8, <2>2
  <2>5. Sound(dict)'
    BY <2>3, <2>4
  <2>6. GoodEntry(old)
    BY <1>3, <2>1, EntryParts DEF Sound
  <2>7. PICK f : f = RemoveItem(dir, old)
    OBVIOUS
  <2>8. item \in Item
    BY <1>8, <2>6, <2>7, RestGood
  <2> HIDE DEF item
  <2>9. out \in Returned
    BY <2>8 DEF Item, Returned
  <2> HIDE DEF out
  <2> QED
    BY <1>2, <1>8, <2>5, <2>9, NilOK, ReturnServed, Zenon
<1> QED
  BY <1>5, <1>6, <1>7, <1>8

LEMMA LlenServed ==
  ASSUME IInv, NEW k \in Key, NEW t \in Time, Llen(k, t)
  PROVE  Served
<1> DEFINE e == ExpireTwo(dict, now)
           rc == LookupRc(e, k, t)
           d == Lookup(e, k)
           old == d.tree[k]
<1>1. Begin("llen", t) /\ dict' = d
  BY DEF Llen
<1>2. Sound(dict) /\ "llen" \in Api
  BY <1>1, AtRest
<1>3. Sound(d) /\ d.tree = e.tree
  BY <1>2, ExpireTwoSound, LookupSound
<1>4. rc = "OK" => k \in DOMAIN e.tree
  BY DEF LookupRc
<1>5. \/ Return("llen", k, "OK", Nil, 0, FALSE)
      \/ Fail("llen", k, "ERROR")
      \/ rc = "OK" /\ \E n \in ReadUnlocked(old.len) : Return("llen", k, "OK", Nil, n, FALSE)
  BY DEF Llen
<1>6. Sound(dict)'
  BY <1>1, <1>3
<1> HIDE DEF d, e, rc
<1>7. CASE Return("llen", k, "OK", Nil, 0, FALSE)
  BY <1>2, <1>6, <1>7, NilServed
<1>8. CASE Fail("llen", k, "ERROR")
  BY <1>2, <1>6, <1>8, FailServed
<1>9. ASSUME rc = "OK", NEW n \in ReadUnlocked(old.len), Return("llen", k, "OK", Nil, n, FALSE)
      PROVE  Served
  <2>1. old \in Entry
    BY <1>3, <1>4, <1>9, EntryParts DEF Sound
  <2>2. old.len \in Nat
    BY <2>1 DEF Entry
  <2> HIDE DEF old
  <2>3. n \in Int
    BY <1>9, <2>2, LateInt
  <2> QED
    BY <1>2, <1>6, <1>9, <2>3, NilOK, ReturnServed
<1> QED
  BY <1>5, <1>7, <1>8, <1>9

-----------------------------------------------------------------------------
(* The invariant holds of every behaviour *)

LEMMA InitIInv == ASSUME Init PROVE IInv
<1> DEFINE tree == [k \in {} |-> Nil]
<1>1. dict = [tree |-> tree, lru |-> <<>>, used |-> {Root}]
  BY DEF Init
<1>2. /\ dict = [tree |-> dict.tree, lru |-> dict.lru, used |-> dict.used]
      /\ dict.tree = tree /\ dict.lru = <<>> /\ dict.used = {Root}
      /\ DOMAIN dict.tree = {}
  BY <1>1
<1> HIDE DEF tree
<1>3. dict.tree \in [DOMAIN dict.tree -> Entry]
  BY <1>2 DEF tree
<1>4. IsDict(dict)
  BY <1>2, <1>3, ShdictAssumption DEF IsDict
<1>5. LruExact(dict)
  BY <1>2 DEF LruExact, IsInjective, ToSet
<1>6. UsedExact(dict)
  BY <1>2 DEF UsedExact
<1>7. Sound(dict)
  BY <1>2, <1>4, <1>5, <1>6 DEF Sound, Consistent, HasNoEmptyList
<1>8. now \in Time /\ call = None /\ ret \in Ret
  BY NilOK DEF Init, Ret
<1> QED
  BY <1>7, <1>8 DEF IInv, CallSound, EvictingKeyAbsent

LEMMA NextIInv == ASSUME IInv, [Next]_vars PROVE IInv'
<1>1. ASSUME Served, now' \in Time PROVE IInv'
  BY <1>1 DEF Served, IInv
<1>2. ASSUME NEW t \in Reads PROVE t \in Time /\ t \in Nat
  BY <1>2, ShdictAssumption DEF Reads
<1>3. ASSUME NEW t0 \in Before PROVE t0 \in Time
  BY <1>3 DEF Before
<1>4. ASSUME NEW op, NEW t \in Reads, Begin(op, t) PROVE now' \in Time
  BY <1>2, <1>4 DEF Begin
<1>5. ASSUME NEW k \in Key, NEW t \in Reads, ScalarStep(k, t) PROVE IInv'
  <2>1. ASSUME NEW op \in StoreOps, NEW v \in Value \cup {Nil}, NEW ttl \in Ttl,
               Store(op, k, v, ttl, t)
        PROVE  IInv'
    <3>1. Begin(op, t)
      BY <2>1 DEF Store
    <3> QED
      BY <2>1, <3>1, <1>1, <1>2, <1>4, StoreServed
  <2>2. ASSUME NEW stale \in BOOLEAN, NEW room \in BOOLEAN, Get(k, stale, room, t)
        PROVE  IInv'
    <3>1. Begin("get", t)
      BY <2>2 DEF Get
    <3> QED
      BY <2>2, <3>1, <1>1, <1>2, <1>4, GetServed
  <2>3. ASSUME NEW by \in By, NEW init \in By \cup {None}, NEW ttl \in Ttl,
               NEW t0 \in Before, Incr(k, by, init, ttl, t0, t)
        PROVE  IInv'
    <3>1. Begin("incr", t)
      BY <2>3 DEF Incr
    <3> QED
      BY <2>3, <3>1, <1>1, <1>2, <1>3, <1>4, IncrServed
  <2>4. ASSUME NEW ttl \in Ttl, NEW t0 \in Before, SetExpire(k, ttl, t0, t)
        PROVE  IInv'
    <3>1. Begin("set_expire", t)
      BY <2>4 DEF SetExpire
    <3> QED
      BY <2>4, <3>1, <1>1, <1>2, <1>3, <1>4, SetExpireServed
  <2>5. ASSUME GetTtl(k, t) PROVE IInv'
    <3>1. Begin("get_ttl", t)
      BY <2>5 DEF GetTtl
    <3> QED
      BY <2>5, <3>1, <1>1, <1>2, <1>4, GetTtlServed
  <2> QED
    BY <1>5, <2>1, <2>2, <2>3, <2>4, <2>5 DEF ScalarStep
<1>6. ASSUME NEW k \in Key, NEW t \in Reads, ListStep(k, t) PROVE IInv'
  <2>1. ASSUME NEW dir \in PushOps, NEW v \in Value, Push(dir, k, v, t) PROVE IInv'
    <3>1. Begin(dir, t)
      BY <2>1 DEF Push
    <3> QED
      BY <2>1, <3>1, <1>1, <1>2, <1>4, PushServed
  <2>2. ASSUME NEW dir \in PopOps, NEW room \in BOOLEAN, Pop(dir, k, room, t)
        PROVE  IInv'
    <3>1. Begin(dir, t)
      BY <2>2 DEF Pop
    <3> QED
      BY <2>2, <3>1, <1>1, <1>2, <1>4, PopServed
  <2>3. ASSUME Llen(k, t) PROVE IInv'
    <3>1. Begin("llen", t)
      BY <2>3 DEF Llen
    <3> QED
      BY <2>3, <3>1, <1>1, <1>2, <1>4, LlenServed
  <2> QED
    BY <1>6, <2>1, <2>2, <2>3 DEF ListStep
<1>7. ASSUME NEW t \in Reads, FlushAll(t) PROVE IInv'
  <2>1. Begin("flush_all", t)
    BY <1>7 DEF FlushAll
  <2> QED
    BY <1>7, <2>1, <1>1, <1>2, <1>4, FlushAllServed
<1>8. ASSUME EvictStep PROVE IInv'
  <2>1. PICK t \in Reads : Evict(t)
    BY <1>8 DEF EvictStep
  <2>2. now' = t
    BY <2>1 DEF Evict
  <2> QED
    BY <2>1, <2>2, <1>1, <1>2, EvictServed
<1>9. ASSUME Tick PROVE IInv'
  BY <1>9 DEF Tick, IInv, Sound, CallSound, EvictingKeyAbsent
<1>10. ASSUME UNCHANGED vars PROVE IInv'
  BY <1>10 DEF vars, IInv, CallSound, EvictingKeyAbsent
<1> QED
  BY <1>5, <1>6, <1>7, <1>8, <1>9, <1>10 DEF Next

\* No path of the code leaves the dictionary other than IInv describes.
THEOREM Invariance == Spec => []IInv
<1>1. Init => IInv
  BY InitIInv
<1>2. IInv /\ [Next]_vars => IInv'
  BY NextIInv
<1> QED
  BY <1>1, <1>2, PTL DEF Spec

\* What the variables hold is what the C structures can hold.
THEOREM TypeCorrect == Spec => []TypeOK
<1>1. IInv => TypeOK
  BY DEF IInv, Sound, Consistent, CallSound, TypeOK
<1> QED
  BY <1>1, Invariance, PTL

\* mps_rbtree_delete and mps_queue_remove always go together, and so do the
\* two insertions.
THEOREM LruMatches == Spec => []LruMatchesTree
<1>1. IInv => LruMatchesTree
  BY DEF IInv, Sound, Consistent, LruMatchesTree
<1> QED
  BY <1>1, Invariance, PTL

\* Every mps_slab_alloc_locked is matched by one mps_slab_free_locked, and no
\* pointer to a freed block is left in the tree, the queue or a list.
THEOREM NoLeak == Spec => []MemoryExact
<1>1. IInv => MemoryExact
  BY DEF IInv, Sound, Consistent, MemoryExact
<1> QED
  BY <1>1, Invariance, PTL

\* Storing over an entry of the same length stays inside its block.
THEOREM NoOverrun == Spec => []BlocksFit
<1>1. IInv => BlocksFit
  BY DEF IInv, Sound, Consistent, BlocksFit
<1> QED
  BY <1>1, Invariance, PTL

\* The checks of get and pop on the length of what they return never fail, and
\* a push that finds no memory leaves no empty list behind.
THEOREM ListsCorrect == Spec => []ListsExact
<1>1. IInv => ListsExact
  BY DEF IInv, Sound, Consistent, HasNoEmptyList, ListsExact
<1> QED
  BY <1>1, Invariance, PTL

\* The eviction loop of store and incr inserts no key twice.
THEOREM NoDuplicate == Spec => []EvictingKeyAbsent
<1>1. IInv => EvictingKeyAbsent
  BY DEF IInv, CallSound
<1> QED
  BY <1>1, Invariance, PTL

-----------------------------------------------------------------------------
(* What a step loses *)

\* From d to n, only entries whose time had come at t were lost.
LosesReclaimable(n, d, t) ==
    \A x \in DOMAIN d.tree \ DOMAIN n.tree : Reclaimable(d.tree[x], t)

LEMMA ReclaimTailLoses ==
  ASSUME NEW d, Consistent(d), NEW t
  PROVE  LosesReclaimable(ReclaimTail(d, t), d, t)
<1>1. CASE d.lru # <<>> /\ Reclaimable(d.tree[Last(d.lru)], t)
  <2>1. PICK k : k = Last(d.lru)
    OBVIOUS
  <2>2. DOMAIN FreeEntry(d, k).tree = DOMAIN d.tree \ {k}
    <3>1. FreeItems(d, k).tree = d.tree
      <4>1. d = [tree |-> d.tree, lru |-> d.lru, used |-> d.used]
        BY DEF Consistent, IsDict
      <4>2. PICK u : u = Release(d.used, ItemBlocks(d.tree[k]))
        OBVIOUS
      <4>3. [d EXCEPT !.used = u].tree = d.tree
        BY <4>1
      <4> QED
        BY <4>2, <4>3 DEF FreeItems
    <3> QED
      BY <3>1 DEF FreeEntry, DropNode
  <2>3. ReclaimTail(d, t) = FreeEntry(d, k)
    BY <1>1, <2>1 DEF ReclaimTail
  <2> QED
    BY <1>1, <2>1, <2>2, <2>3 DEF LosesReclaimable
<1>2. CASE ~(d.lru # <<>> /\ Reclaimable(d.tree[Last(d.lru)], t))
  BY <1>2 DEF ReclaimTail, LosesReclaimable
<1> QED
  BY <1>1, <1>2

LEMMA ExpireTwoLoses ==
  ASSUME NEW d, Consistent(d), NEW t
  PROVE  LosesReclaimable(ExpireTwo(d, t), d, t)
<1>1. PICK r : r = ReclaimTail(d, t)
  OBVIOUS
<1>2. Consistent(r) /\ Keeps(r, d) /\ LosesReclaimable(r, d, t)
  BY <1>1, ReclaimTailConsistent, ReclaimTailLoses
<1>3. LosesReclaimable(ReclaimTail(r, t), r, t)
  BY <1>2, ReclaimTailLoses
<1> QED
  BY <1>1, <1>2, <1>3 DEF ExpireTwo, LosesReclaimable, Keeps

LEMMA TreeOfDrop ==
  ASSUME NEW d, NEW k
  PROVE  DOMAIN DropNode(d, k).tree = DOMAIN d.tree \ {k}
  BY DEF DropNode

LEMMA TreeOfUpdate ==
  ASSUME NEW d, Consistent(d), NEW k, NEW e
  PROVE  DOMAIN Update(d, k, e).tree = DOMAIN d.tree
<1>1. d = [tree |-> d.tree, lru |-> d.lru, used |-> d.used]
  BY DEF Consistent, IsDict
<1>2. d.tree \in [DOMAIN d.tree -> Entry]
  BY DEF Consistent, IsDict
<1> QED
  BY <1>1, <1>2 DEF Update

\* The step keeps every entry of e but that of k.
Spares(n, e, k) == DOMAIN e.tree \ {k} \subseteq DOMAIN n.tree

LEMMA WithoutSpares ==
  ASSUME NEW d, Consistent(d), NEW k PROVE Spares(Without(d, k), d, k)
<1>1. CASE k \in DOMAIN d.tree
  <2>1. d = [tree |-> d.tree, lru |-> d.lru, used |-> d.used]
    BY DEF Consistent, IsDict
  <2>2. PICK u : u = Release(d.used, ItemBlocks(d.tree[k]))
    OBVIOUS
  <2>3. FreeItems(d, k) = [tree |-> d.tree, lru |-> d.lru, used |-> u]
    BY <2>1, <2>2 DEF FreeItems
  <2>4. PICK f : f = FreeItems(d, k)
    OBVIOUS
  <2>5. DOMAIN DropNode(f, k).tree = DOMAIN d.tree \ {k}
    BY <2>3, <2>4, TreeOfDrop
  <2> QED
    BY <1>1, <2>4, <2>5 DEF Without, FreeEntry, Spares
<1>2. CASE k \notin DOMAIN d.tree
  BY <1>2 DEF Without, Spares
<1> QED
  BY <1>1, <1>2

\* A call of key k that first expired what it could.
LEMMA CallExplained ==
  ASSUME Sound(dict), call = None, NEW k, NEW e, LosesReclaimable(e, dict, now),
         Spares(dict', e, k),
         \/ call' = None /\ ret'.key = k
         \/ call' # None /\ call'.key = k
  PROVE  LossExplained
<1>1. k = StepKey
  BY DEF StepKey
<1> QED
  BY <1>1 DEF LossExplained, LosesReclaimable, Spares

LEMMA ReturnKey ==
  ASSUME NEW op, NEW k, NEW rc, NEW val, NEW num, NEW forcible,
         Return(op, k, rc, val, num, forcible)
  PROVE  call' = None /\ ret'.key = k /\ ret'.op = op /\ ret'.forcible = forcible
  BY DEF Return

LEMMA FailKey ==
  ASSUME NEW op, NEW k, NEW rc, Fail(op, k, rc)
  PROVE  call' = None /\ ret'.key = k
  BY ReturnKey DEF Fail

LEMMA AllocateSpares ==
  ASSUME NEW c \in Call, NEW d, NEW t, Allocate(c, d, t)
  PROVE  /\ DOMAIN d.tree \subseteq DOMAIN dict'.tree
         /\ \/ /\ call' = None /\ ret'.key = c.key
               /\ c.op \in SafeOps \/ (ret'.forcible = (c.tries > 0) /\ ret'.op = c.op)
            \/ call' = c
<1> DEFINE base == IF c.op = "incr" THEN c.base ELSE t
<1>1. ASSUME NEW b, dict' = Insert(d, c.key, NewEntry(c.val, Expires(base, c.ttl), b)),
             Return(c.op, c.key, "OK", c.val, 0, c.tries > 0)
      PROVE  /\ DOMAIN d.tree \subseteq DOMAIN dict'.tree
             /\ call' = None /\ ret'.key = c.key
             /\ ret'.forcible = (c.tries > 0) /\ ret'.op = c.op
  <2> HIDE DEF base
  <2>1. PICK e : e = NewEntry(c.val, Expires(base, c.ttl), b)
    OBVIOUS
  <2>2. DOMAIN Insert(d, c.key, e).tree = DOMAIN d.tree \cup {c.key}
    BY DEF Insert
  <2>3. DOMAIN d.tree \subseteq DOMAIN dict'.tree
    BY <1>1, <2>1, <2>2
  <2>4. /\ call' = None /\ ret'.key = c.key
        /\ ret'.forcible = (c.tries > 0) /\ ret'.op = c.op
    BY <1>1, ReturnKey, Zenon
  <2> QED
    BY <2>3, <2>4
<1>2. ASSUME c.op \in SafeOps, dict' = d, Fail(c.op, c.key, "NOMEM")
      PROVE  DOMAIN d.tree \subseteq DOMAIN dict'.tree /\ call' = None /\ ret'.key = c.key
  BY <1>2, FailKey
<1>3. \/ \E b : /\ dict' = Insert(d, c.key, NewEntry(c.val, Expires(base, c.ttl), b))
                /\ Return(c.op, c.key, "OK", c.val, 0, c.tries > 0)
      \/ c.op \in SafeOps /\ dict' = d /\ Fail(c.op, c.key, "NOMEM")
      \/ dict' = d /\ call' = c
  BY DEF Allocate
<1> HIDE DEF base
<1> QED
  BY <1>1, <1>2, <1>3

LEMMA EvictExplained ==
  ASSUME IInv, NEW t \in Nat, Evict(t) PROVE LossExplained
<1>1. call \in Call /\ call # None /\ call.op \notin SafeOps /\ Sound(dict)
  BY DEF IInv, CallSound, Evict
<1>2. CASE dict' = dict
  BY <1>2 DEF LossExplained
<1>3. CASE /\ call.tries < MaxEvict
           /\ Allocate([call EXCEPT !.tries = call.tries + 1], ExpireForced(dict, now), t)
  <2>1. PICK c : c = [call EXCEPT !.tries = call.tries + 1]
    OBVIOUS
  <2>2. c \in Call /\ c.op = call.op /\ c.tries > 0
    BY <1>1, <1>3, <2>1, ShdictAssumption DEF Call
  <2>3. c # None /\ c.op \in {"set", "add", "replace", "incr"}
    BY <1>1, <2>2, NoneAssumption DEF Call, StoreOps, SafeOps, AddOps
  <2>4. PICK d : d = ExpireForced(dict, now)
    OBVIOUS
  <2>5. Allocate(c, d, t)
    BY <1>3, <2>1, <2>4
  <2>6. \/ call' = None /\ ret'.forcible = (c.tries > 0) /\ ret'.op = c.op
        \/ call' = c
    BY <1>1, <2>2, <2>5, AllocateSpares
  <2>7. Announced
    <3>1. CASE call' = None /\ ret'.forcible = (c.tries > 0) /\ ret'.op = c.op
      <4>1. ret'.forcible
        BY <2>2, <3>1
      <4> QED
        BY <2>3, <3>1, <4>1 DEF Announced
    <3>2. CASE call' = c
      BY <2>2, <2>3, <3>2 DEF Announced
    <3> QED
      BY <2>6, <3>1, <3>2
  <2> QED
    BY <2>7 DEF LossExplained
<1> QED
  BY <1>2, <1>3 DEF Evict

\* What the calls that expire two entries and look their key up start from.
LEMMA AfterLookup ==
  ASSUME Sound(dict), NEW k, NEW e, e = ExpireTwo(dict, now), NEW d, d = Lookup(e, k)
  PROVE  Sound(e) /\ LosesReclaimable(e, dict, now) /\ Sound(d) /\ d.tree = e.tree
  BY ExpireTwoSound, ExpireTwoLoses, LookupSound DEF Sound

LEMMA StoreExplained ==
  ASSUME IInv, NEW op \in StoreOps, NEW k \in Key, NEW v \in Value \cup {Nil},
         NEW ttl \in Ttl, NEW t \in Time, Store(op, k, v, ttl, t)
  PROVE  LossExplained
<1>1. Sound(dict) /\ call = None
  BY AtRest DEF Store
<1>2. PICK e : e = ExpireTwo(dict, now)
  OBVIOUS
<1>3. PICK d : d = Lookup(e, k)
  OBVIOUS
<1>4. Sound(e) /\ LosesReclaimable(e, dict, now) /\ Sound(d) /\ d.tree = e.tree
  BY <1>1, <1>2, <1>3, AfterLookup
<1> DEFINE u == Update(Touch(d, k), k, NewEntry(v, Expires(t, ttl), d.tree[k].block))
           c == [op |-> op, key |-> k, val |-> v, ttl |-> ttl, base |-> 0, tries |-> 0]
<1>5. \/ dict' = dict /\ Fail(op, k, "ERROR")
      \/ dict' = d /\ Fail(op, k, "DECLINED")
      \/ /\ k \in DOMAIN d.tree /\ dict' = u
         /\ Return(op, k, "OK", v, 0, FALSE)
      \/ dict' = Without(d, k) /\ Return(op, k, "OK", Nil, 0, FALSE)
      \/ v # Nil /\ Allocate(c, Without(d, k), t)
  BY <1>2, <1>3 DEF Store, Reusable
<1>6. CASE dict' = dict
  BY <1>6 DEF LossExplained
<1>7. ASSUME dict' = d, Fail(op, k, "DECLINED") PROVE LossExplained
  BY <1>1, <1>4, <1>7, FailKey, CallExplained DEF Spares
<1>8. ASSUME k \in DOMAIN d.tree, dict' = u, Return(op, k, "OK", v, 0, FALSE)
      PROVE  LossExplained
  <2>1. Consistent(Touch(d, k)) /\ Touch(d, k).tree = d.tree
    BY <1>4, <1>8, TouchConsistent DEF Sound
  <2>2. DOMAIN u.tree = DOMAIN d.tree
    BY <2>1, TreeOfUpdate
  <2> HIDE DEF u
  <2>3. call' = None /\ ret'.key = k
    BY <1>8, ReturnKey, Zenon
  <2> QED
    BY <1>1, <1>4, <1>8, <2>2, <2>3, CallExplained DEF Spares
<1>9. ASSUME dict' = Without(d, k), Return(op, k, "OK", Nil, 0, FALSE)
      PROVE  LossExplained
  <2>1. call' = None /\ ret'.key = k
    BY <1>9, ReturnKey, Zenon
  <2>2. Spares(dict', e, k)
    BY <1>4, <1>9, WithoutSpares DEF Sound, Spares
  <2> QED
    BY <1>1, <1>4, <2>1, <2>2, CallExplained
<1>10. ASSUME v # Nil, Allocate(c, Without(d, k), t) PROVE LossExplained
  <2>1. c \in Call /\ c.key = k
    <3>1. v \in Value
      BY <1>10
    <3> QED
      BY <3>1, ValueOK, ShdictAssumption DEF Call, Storable
  <2>2. PICK w : w = Without(d, k)
    OBVIOUS
  <2> HIDE DEF c
  <2>3. /\ DOMAIN w.tree \subseteq DOMAIN dict'.tree
        /\ (call' = None /\ ret'.key = k) \/ call' = c
    BY <1>10, <2>1, <2>2, AllocateSpares
  <2>4. call' = c => call' # None /\ call'.key = k
    BY <2>1, NoneAssumption
  <2>5. Spares(dict', e, k)
    BY <1>4, <2>2, <2>3, WithoutSpares DEF Sound, Spares
  <2> QED
    BY <1>1, <1>4, <2>3, <2>4, <2>5, CallExplained
<1> HIDE DEF u, c
<1> QED
  BY <1>5, <1>6, <1>7, <1>8, <1>9, <1>10

LEMMA GetExplained ==
  ASSUME IInv, NEW k \in Key, NEW stale, NEW room, NEW t \in Time, Get(k, stale, room, t)
  PROVE  LossExplained
<1>1. Sound(dict) /\ dict' = Lookup(dict, k)
  BY AtRest DEF Get
<1>2. dict'.tree = dict.tree
  BY <1>1, LookupSound
<1> QED
  BY <1>2 DEF LossExplained

LEMMA IncrExplained ==
  ASSUME IInv, NEW k \in Key, NEW by \in By, NEW init \in By \cup {None},
         NEW ttl \in Ttl, NEW t0 \in Time, NEW t \in Time,
         Incr(k, by, init, ttl, t0, t)
  PROVE  LossExplained
<1>1. Sound(dict) /\ call = None
  BY AtRest DEF Incr
<1>2. PICK e : e = ExpireTwo(dict, now)
  OBVIOUS
<1>3. PICK d : d = Lookup(e, k)
  OBVIOUS
<1>4. Sound(e) /\ LosesReclaimable(e, dict, now) /\ Sound(d) /\ d.tree = e.tree
  BY <1>1, <1>2, <1>3, AfterLookup
<1> DEFINE old == d.tree[k]
           sum == Number(by + init)
           c == [op |-> "incr", key |-> k, val |-> sum, ttl |-> ttl, base |-> t0,
                 tries |-> 0]
           u(f) == Update(Touch(d, k), k, f)
<1>5. \/ dict' = d /\ Fail("incr", k, "ERROR")
      \/ k \in DOMAIN d.tree /\ \E f, val : dict' = u(f) /\ Return("incr", k, "OK", val, 0, FALSE)
      \/ init # None /\ Allocate(c, Without(d, k), t)
  BY <1>2, <1>3, <1>4 DEF Incr, Reusable, LookupRc
<1>6. ASSUME dict' = d, Fail("incr", k, "ERROR") PROVE LossExplained
  BY <1>1, <1>4, <1>6, FailKey, CallExplained DEF Spares
<1>7. ASSUME k \in DOMAIN d.tree, NEW f, NEW val, dict' = u(f),
             Return("incr", k, "OK", val, 0, FALSE)
      PROVE  LossExplained
  <2>1. Consistent(Touch(d, k)) /\ Touch(d, k).tree = d.tree
    BY <1>4, <1>7, TouchConsistent DEF Sound
  <2>2. DOMAIN u(f).tree = DOMAIN d.tree
    BY <2>1, TreeOfUpdate
  <2> HIDE DEF u
  <2>3. call' = None /\ ret'.key = k
    BY <1>7, ReturnKey, Zenon
  <2> QED
    BY <1>1, <1>4, <1>7, <2>2, <2>3, CallExplained DEF Spares
<1>8. ASSUME init # None, Allocate(c, Without(d, k), t) PROVE LossExplained
  <2>1. c \in Call /\ c.key = k
    <3>1. by + init \in Int /\ ttl \in Nat /\ t0 \in Nat
      BY <1>8, ShdictAssumption
    <3>2. sum \in Storable /\ sum.len \in Lengths
      BY <3>1, NumberOK
    <3> HIDE DEF sum
    <3> QED
      BY <3>1, <3>2, ShdictAssumption DEF Call, Storable
  <2>2. PICK w : w = Without(d, k)
    OBVIOUS
  <2> HIDE DEF c
  <2>3. /\ DOMAIN w.tree \subseteq DOMAIN dict'.tree
        /\ (call' = None /\ ret'.key = k) \/ call' = c
    BY <1>8, <2>1, <2>2, AllocateSpares
  <2>4. call' = c => call' # None /\ call'.key = k
    BY <2>1, NoneAssumption
  <2>5. Spares(dict', e, k)
    BY <1>4, <2>2, <2>3, WithoutSpares DEF Sound, Spares
  <2> QED
    BY <1>1, <1>4, <2>3, <2>4, <2>5, CallExplained
<1> HIDE DEF u, c
<1> QED
  BY <1>5, <1>6, <1>7, <1>8

LEMMA SetExpireExplained ==
  ASSUME IInv, NEW k \in Key, NEW ttl \in Ttl, NEW t0 \in Time, NEW t \in Time,
         SetExpire(k, ttl, t0, t)
  PROVE  LossExplained
<1>1. Sound(dict)
  BY AtRest DEF SetExpire
<1>2. dict' = dict \/ \E f : dict' = Update(dict, k, f)
  BY DEF SetExpire
<1>3. DOMAIN dict'.tree = DOMAIN dict.tree
  BY <1>1, <1>2, TreeOfUpdate DEF Sound
<1> QED
  BY <1>3 DEF LossExplained

LEMMA PushNodeSpares ==
  ASSUME NEW d, NEW k, Pushable(d, k), NEW dir, NEW v, PushNode(dir, k, v, d)
  PROVE  Spares(dict', d, k) /\ call' = None /\ ret'.key = k
<1> DEFINE took(f, b) == [Update(d, k, f) EXCEPT !.used = Update(d, k, f).used \cup {b}]
<1>1. \/ \E f, b, val, num : dict' = took(f, b) /\ Return(dir, k, "OK", val, num, FALSE)
      \/ dict' \in {DropNode(d, k), d} /\ Fail(dir, k, "NOMEM")
  BY DEF PushNode
<1>2. ASSUME NEW f, NEW b, NEW val, NEW num, dict' = took(f, b),
             Return(dir, k, "OK", val, num, FALSE)
      PROVE  Spares(dict', d, k) /\ call' = None /\ ret'.key = k
  <2>1. d = [tree |-> d.tree, lru |-> d.lru, used |-> d.used]
    BY DEF Pushable, Consistent, IsDict
  <2>2. PICK tree : tree = [d.tree EXCEPT ![k] = f]
    OBVIOUS
  <2>3. Update(d, k, f) = [tree |-> tree, lru |-> d.lru, used |-> d.used]
    BY <2>1, <2>2 DEF Update
  <2>4. took(f, b).tree = tree
    BY <2>3
  <2>5. DOMAIN tree = DOMAIN d.tree
    BY <2>2 DEF Pushable, Consistent, IsDict
  <2> HIDE DEF took
  <2>6. call' = None /\ ret'.key = k
    BY <1>2, ReturnKey, Zenon
  <2> QED
    BY <1>2, <2>4, <2>5, <2>6 DEF Spares
<1>3. ASSUME dict' \in {DropNode(d, k), d}, Fail(dir, k, "NOMEM")
      PROVE  Spares(dict', d, k) /\ call' = None /\ ret'.key = k
  BY <1>3, FailKey, TreeOfDrop DEF Spares
<1> HIDE DEF took
<1> QED
  BY <1>1, <1>2, <1>3

LEMMA PushExplained ==
  ASSUME IInv, NEW dir \in PushOps, NEW k \in Key, NEW v \in Value, NEW t \in Time,
         Push(dir, k, v, t)
  PROVE  LossExplained
<1>1. Sound(dict) /\ call = None
  BY AtRest DEF Push
<1>2. PICK e : e = ExpireTwo(dict, now)
  OBVIOUS
<1>3. PICK d : d = Lookup(e, k)
  OBVIOUS
<1>4. Sound(e) /\ LosesReclaimable(e, dict, now) /\ Sound(d) /\ d.tree = e.tree
  BY <1>1, <1>2, <1>3, AfterLookup
<1>5. PICK rc : rc = LookupRc(e, k, t)
  OBVIOUS
<1>6. PICK bare : bare = IF rc = "DONE" THEN DropNode(d, k) ELSE d
  OBVIOUS
<1>7. \/ dict' = dict
      \/ dict' = d /\ Fail(dir, k, "ERROR")
      \/ /\ k \in DOMAIN d.tree /\ d.tree[k].type = "list"
         /\ PushNode(dir, k, v, Touch(d, k)) \/ PushNode(dir, k, v, ResetList(d, k))
      \/ /\ rc = "DECLINED" \/ (rc = "DONE" /\ d.tree[k].type # "list")
         /\ \/ \E b \in Free(bare.used, ListClass) :
                 PushNode(dir, k, v, Insert(bare, k, EmptyList(b)))
            \/ dict' = bare /\ Fail(dir, k, "NOMEM")
  BY <1>2, <1>3, <1>4, <1>5, <1>6 DEF Push, LookupRc
<1>8. CASE dict' = dict
  BY <1>8 DEF LossExplained
<1>9. ASSUME dict' = d, Fail(dir, k, "ERROR") PROVE LossExplained
  BY <1>1, <1>4, <1>9, FailKey, CallExplained DEF Spares
<1>10. ASSUME k \in DOMAIN d.tree, d.tree[k].type = "list", NEW n,
              n = Touch(d, k) \/ n = ResetList(d, k), PushNode(dir, k, v, n)
       PROVE  LossExplained
  <2>1. Pushable(n, k) /\ DOMAIN n.tree = DOMAIN d.tree
    <3>1. CASE n = Touch(d, k)
      <4>1. Sound(n) /\ n.tree = d.tree
        BY <1>4, <1>10, <3>1, TouchSound
      <4> QED
        BY <1>10, <4>1 DEF Pushable, Sound, HasNoEmptyList
    <3>2. CASE n = ResetList(d, k)
      <4>1. Pushable(n, k)
        BY <1>4, <1>10, <3>2, ResetListPushable
      <4>2. DOMAIN n.tree = DOMAIN d.tree
        <5>1. d = [tree |-> d.tree, lru |-> d.lru, used |-> d.used]
          BY <1>4 DEF Sound, Consistent, IsDict
        <5>2. PICK u : u = Release(d.used, ItemBlocks(d.tree[k]))
          OBVIOUS
        <5>3. PICK q : q = Cons(k, RemoveFirst(d.lru, k))
          OBVIOUS
        <5>4. FreeItems(d, k) = [tree |-> d.tree, lru |-> d.lru, used |-> u]
          BY <5>1, <5>2 DEF FreeItems
        <5>5. Touch(FreeItems(d, k), k) = [tree |-> d.tree, lru |-> q, used |-> u]
          BY <5>3, <5>4 DEF Touch
        <5>6. PICK f : f = EmptyList(d.tree[k].block)
          OBVIOUS
        <5>7. n = [tree |-> [d.tree EXCEPT ![k] = f], lru |-> q, used |-> u]
          BY <3>2, <5>5, <5>6 DEF ResetList, Update
        <5> QED
          BY <5>7
      <4> QED
        BY <4>1, <4>2
    <3> QED
      BY <1>10, <3>1, <3>2
  <2>2. Spares(dict', n, k) /\ call' = None /\ ret'.key = k
    BY <1>10, <2>1, PushNodeSpares
  <2>3. Spares(dict', e, k)
    BY <1>4, <2>1, <2>2 DEF Spares
  <2> QED
    BY <1>1, <1>4, <2>2, <2>3, CallExplained
<1>11. ASSUME \/ rc = "DECLINED"
              \/ rc = "DONE" /\ d.tree[k].type # "list",
              \/ \E b \in Free(bare.used, ListClass) :
                   PushNode(dir, k, v, Insert(bare, k, EmptyList(b)))
              \/ dict' = bare /\ Fail(dir, k, "NOMEM")
       PROVE  LossExplained
  <2>1. Sound(bare) /\ k \notin DOMAIN bare.tree /\ Spares(bare, d, k)
    <3>1. CASE rc = "DECLINED"
      BY <1>4, <1>5, <1>6, <3>1 DEF LookupRc, Spares
    <3>2. CASE rc = "DONE" /\ d.tree[k].type # "list"
      <4>1. k \in DOMAIN d.tree
        BY <1>4, <1>5, <3>2 DEF LookupRc
      <4>2. d.tree[k].items = <<>>
        BY <1>4, <3>2, <4>1 DEF Sound, Consistent, LenExact
      <4>3. bare = DropNode(d, k)
        BY <1>6, <3>2
      <4>4. Consistent(bare) /\ Keeps(bare, d) /\ k \notin DOMAIN bare.tree
        BY <1>4, <4>1, <4>2, <4>3, DropNodeConsistent DEF Sound
      <4>5. Spares(bare, d, k)
        BY <4>3, TreeOfDrop DEF Spares
      <4> QED
        BY <1>4, <4>4, <4>5, KeepsSound
    <3> QED
      BY <1>11, <3>1, <3>2
  <2>2. ASSUME NEW b \in Free(bare.used, ListClass),
               PushNode(dir, k, v, Insert(bare, k, EmptyList(b)))
        PROVE  LossExplained
    <3>1. PICK n : n = Insert(bare, k, EmptyList(b))
      OBVIOUS
    <3>2. Pushable(n, k)
      BY <2>1, <3>1, NewListPushable
    <3>3. Spares(dict', n, k) /\ call' = None /\ ret'.key = k
      BY <2>2, <3>1, <3>2, PushNodeSpares
    <3>4. DOMAIN n.tree = DOMAIN bare.tree \cup {k}
      <4>1. PICK f : f = EmptyList(b)
        OBVIOUS
      <4>2. n = Insert(bare, k, f)
        BY <3>1, <4>1
      <4> QED
        BY <4>2 DEF Insert
    <3>5. Spares(dict', e, k)
      BY <1>4, <2>1, <3>3, <3>4 DEF Spares
    <3> QED
      BY <1>1, <1>4, <3>3, <3>5, CallExplained
  <2>3. ASSUME dict' = bare, Fail(dir, k, "NOMEM") PROVE LossExplained
    BY <1>1, <1>4, <2>1, <2>3, FailKey, CallExplained DEF Spares
  <2> QED
    BY <1>11, <2>2, <2>3
<1> QED
  BY <1>7, <1>8, <1>9, <1>10, <1>11

LEMMA PopExplained ==
  ASSUME IInv, NEW dir \in PopOps, NEW k \in Key, NEW room, NEW t \in Time,
         Pop(dir, k, room, t)
  PROVE  LossExplained
<1>1. Sound(dict) /\ call = None
  BY AtRest DEF Pop
<1>2. PICK e : e = ExpireTwo(dict, now)
  OBVIOUS
<1>3. PICK d : d = Lookup(e, k)
  OBVIOUS
<1>4. Sound(e) /\ LosesReclaimable(e, dict, now) /\ Sound(d) /\ d.tree = e.tree
  BY <1>1, <1>2, <1>3, AfterLookup
<1> DEFINE item == Pick(dir, d.tree[k].items)
           left == [d EXCEPT !.used = Release(d.used, {item.block})]
           out == [type |-> item.type, len |-> item.len, data |-> item.data]
<1>5. \/ dict' = d /\ Return(dir, k, "OK", Nil, 0, FALSE)
      \/ dict' = d /\ Fail(dir, k, "ERROR")
      \/ /\ k \in DOMAIN d.tree
         /\ dict' = DropNode(left, k) \/ \E f : dict' = Update(Touch(left, k), k, f)
         /\ Return(dir, k, "OK", out, 0, FALSE)
  BY <1>2, <1>3, <1>4 DEF Pop, LookupRc
<1>6. ASSUME dict' = d, Return(dir, k, "OK", Nil, 0, FALSE) PROVE LossExplained
  <2>1. call' = None /\ ret'.key = k
    BY <1>6, ReturnKey, Zenon
  <2> QED
    BY <1>1, <1>4, <1>6, <2>1, CallExplained DEF Spares
<1>7. ASSUME dict' = d, Fail(dir, k, "ERROR") PROVE LossExplained
  BY <1>1, <1>4, <1>7, FailKey, CallExplained DEF Spares
<1>8. ASSUME k \in DOMAIN d.tree,
             dict' = DropNode(left, k) \/ \E f : dict' = Update(Touch(left, k), k, f),
             Return(dir, k, "OK", out, 0, FALSE)
      PROVE  LossExplained
  <2>1. PICK u : u = Release(d.used, {item.block})
    OBVIOUS
  <2>2. left = [tree |-> d.tree, lru |-> d.lru, used |-> u]
    <3>1. d = [tree |-> d.tree, lru |-> d.lru, used |-> d.used]
      BY <1>4 DEF Sound, Consistent, IsDict
    <3> QED
      BY <2>1, <3>1
  <2>3. PICK l : l = left
    OBVIOUS
  <2> HIDE DEF left
  <2>4. DOMAIN d.tree \ {k} \subseteq DOMAIN dict'.tree
    <3>1. CASE dict' = DropNode(l, k)
      BY <2>2, <2>3, <3>1, TreeOfDrop
    <3>2. CASE \E f : dict' = Update(Touch(l, k), k, f)
      <4>1. PICK q : q = Cons(k, RemoveFirst(d.lru, k))
        OBVIOUS
      <4>2. Touch(l, k) = [tree |-> d.tree, lru |-> q, used |-> u]
        <5>1. l = [tree |-> d.tree, lru |-> d.lru, used |-> u]
          BY <2>2, <2>3
        <5> QED
          BY <4>1, <5>1 DEF Touch
      <4>3. PICK f : dict' = Update(Touch(l, k), k, f)
        BY <3>2
      <4>4. dict' = [tree |-> [d.tree EXCEPT ![k] = f], lru |-> q, used |-> u]
        BY <4>2, <4>3 DEF Update
      <4> QED
        BY <4>4
    <3> QED
      BY <1>8, <2>3, <3>1, <3>2
  <2>5. call' = None /\ ret'.key = k
    BY <1>8, ReturnKey, Zenon
  <2> QED
    BY <1>1, <1>4, <2>4, <2>5, CallExplained DEF Spares
<1> HIDE DEF left, out
<1> QED
  BY <1>5, <1>6, <1>7, <1>8

LEMMA LlenExplained ==
  ASSUME IInv, NEW k \in Key, NEW t \in Time, Llen(k, t)
  PROVE  LossExplained
<1>1. Sound(dict) /\ call = None
  BY AtRest DEF Llen
<1>2. PICK e : e = ExpireTwo(dict, now)
  OBVIOUS
<1>3. PICK d : d = Lookup(e, k)
  OBVIOUS
<1>4. Sound(e) /\ LosesReclaimable(e, dict, now) /\ d.tree = e.tree
  BY <1>1, <1>2, <1>3, AfterLookup
<1>5. /\ dict' = d
      /\ \/ \E num : Return("llen", k, "OK", Nil, num, FALSE)
         \/ Fail("llen", k, "ERROR")
  BY <1>2, <1>3 DEF Llen
<1>6. call' = None /\ ret'.key = k
  <2>1. ASSUME NEW num, Return("llen", k, "OK", Nil, num, FALSE)
        PROVE  call' = None /\ ret'.key = k
    BY <2>1, ReturnKey, Zenon
  <2> QED
    BY <1>5, <2>1, FailKey
<1> QED
  BY <1>1, <1>4, <1>5, <1>6, CallExplained DEF Spares

LEMMA FlushAllExplained ==
  ASSUME NEW t, FlushAll(t) PROVE LossExplained
<1>1. Return("flush_all", None, "OK", Nil, 0, FALSE)
  BY DEF FlushAll
<1>2. call' = None /\ ret'.op = "flush_all"
  BY <1>1, ReturnKey, Zenon
<1>3. Announced
  BY <1>2 DEF Announced
<1> QED
  BY <1>3 DEF LossExplained

LEMMA NextExplained == ASSUME IInv, [Next]_vars PROVE LossExplained \/ UNCHANGED vars
<1>1. ASSUME NEW t \in Reads PROVE t \in Time /\ t \in Nat
  BY <1>1, ShdictAssumption DEF Reads
<1>2. ASSUME NEW t0 \in Before PROVE t0 \in Time
  BY <1>2 DEF Before
<1>3. ASSUME NEW k \in Key, NEW t \in Reads, ScalarStep(k, t) PROVE LossExplained
  <2>1. CASE GetTtl(k, t)
    BY <2>1 DEF GetTtl, LossExplained
  <2> QED
    BY <1>1, <1>2, <1>3, <2>1, StoreExplained, GetExplained, IncrExplained,
       SetExpireExplained DEF ScalarStep
<1>4. ASSUME NEW k \in Key, NEW t \in Reads, ListStep(k, t) PROVE LossExplained
  BY <1>1, <1>4, PushExplained, PopExplained, LlenExplained DEF ListStep
<1>5. ASSUME NEW t \in Reads, FlushAll(t) PROVE LossExplained
  BY <1>5, FlushAllExplained
<1>6. ASSUME EvictStep PROVE LossExplained
  BY <1>1, <1>6, EvictExplained DEF EvictStep
<1>7. ASSUME Tick PROVE LossExplained
  BY <1>7 DEF Tick, LossExplained
<1> QED
  BY <1>3, <1>4, <1>5, <1>6, <1>7 DEF Next

\* No call makes an unexpired entry of another key disappear unless it reports
\* forcible, and safe_set, safe_add, the list functions and get never do.
THEOREM NothingLostSilently == Spec => NoSilentLoss
<1>1. IInv /\ [Next]_vars => [LossExplained]_vars
  BY NextExplained
<1> QED
  BY <1>1, Invariance, PTL DEF Spec, NoSilentLoss
=============================================================================
