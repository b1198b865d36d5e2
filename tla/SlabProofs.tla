----------------------------- MODULE SlabProofs -----------------------------
(***************************************************************************)
(* Slab, for any pool and requests: the lists, runs and bitmaps of the     *)
(* allocator agree with each other and with the blocks that are in use,    *)
(* and the allocator keeps the contract that Shdict is built on.           *)
(***************************************************************************)
EXTENDS Slab, FiniteSetTheorems, TLAPS

-----------------------------------------------------------------------------
(* The structure of a table of descriptors *)

Word == [tag : {"length", "start", "busy", "bits"}, n : Nat, map : SUBSET Nat]
Link == [at : Int, type : {"PAGE", "SMALL", "EXACT", "BIG"}]
Desc == [slab : Word, next : Int, prev : Link]
Table == [Node -> Desc]

Runs(pg) == {p \in Page : pg[p].slab.tag = "length" /\ pg[p].slab.n > 0}
Starts(pg) == {p \in Page : pg[p].slab.tag = "start"}
Cut(pg, c) == {p \in Page : pg[p].slab.tag = "bits" /\ pg[p].slab.n = c}

\* The cut pages that have a chunk left.
Open(pg, c) == {p \in Cut(pg, c) : pg[p].slab.map # 0 .. Chunks(c) - 1}

End(pg, p) == p + pg[p].slab.n

\* Runs lie in the pool, and every page that is no head lies inside a run.
Tiled(pg) ==
    /\ \A p \in Starts(pg) : pg[p].slab.n > 0
    /\ \A p \in Runs(pg) \cup Starts(pg) : End(pg, p) <= NPages + 1
    /\ \A p \in Runs(pg) : \A q \in p + 1 .. End(pg, p) - 1 : pg[q].slab = PageFree
    /\ \A p \in Starts(pg) : \A q \in p + 1 .. End(pg, p) - 1 : pg[q].slab = Busy
    /\ \A q \in Page :
         /\ pg[q].slab.tag = "length" /\ pg[q].slab.n = 0 =>
              \E p \in Runs(pg) : p < q /\ q < End(pg, p)
         /\ pg[q].slab.tag = "busy" =>
              \E p \in Starts(pg) : p < q /\ q < End(pg, p)

CutSound(pg) ==
    \A p \in Page : pg[p].slab.tag = "bits" =>
        pg[p].slab.n \in ChunkClass /\ pg[p].slab.map \subseteq 0 .. Chunks(pg[p].slab.n) - 1

\* The list of h holds the pages S, linked both ways.  That every page of S is
\* reached from h is the rank r, which grows along next.
Ring(pg, h, S) ==
    \E r \in [S -> Nat] :
        /\ pg[h].next \in S \cup {h}
        /\ pg[h].next \in S => pg[pg[h].next].prev.at = h
        /\ \A p \in S :
             /\ pg[p].next \in S \cup {h} /\ pg[p].prev.at \in S \cup {h}
             /\ pg[pg[p].prev.at].next = p
             /\ pg[p].next \in S =>
                  pg[pg[p].next].prev.at = p /\ r[p] < r[pg[p].next]

\* What holds of every page but x, which a call has taken out of the lists.
Types(pg, x) ==
    \A q \in Page \ {x} :
        pg[q].prev.type = IF pg[q].slab.tag = "bits" THEN Tag(pg[q].slab.n) ELSE "PAGE"
Unlisted(pg, x) ==
    \A q \in Page \ {x} :
        q \notin Runs(pg) /\ q \notin Open(pg, pg[q].slab.n) => pg[q].next = Null
Lasts(pg, x) ==
    \A p \in Runs(pg) \ {x} :
        pg[p].slab.n > 1 /\ End(pg, p) <= NPages => pg[End(pg, p) - 1].prev.at = p
Apart(pg, x) == \A p, q \in Runs(pg) \ {x} : End(pg, p) # q

Kept(pg, x) ==
    /\ pg \in Table /\ Tiled(pg) /\ CutSound(pg)
    /\ Ring(pg, FreeHead, Runs(pg) \ {x})
    /\ \A c \in ChunkClass : Ring(pg, Slot(c), Open(pg, c))
    /\ Types(pg, x) /\ Unlisted(pg, x) /\ Lasts(pg, x) /\ Apart(pg, x)

-----------------------------------------------------------------------------
(* Lists *)

LEMMA RingFrame ==
  ASSUME NEW pg, NEW u, NEW h, NEW S, Ring(pg, h, S),
         u[h].next = pg[h].next,
         \A q \in S : u[q].next = pg[q].next /\ u[q].prev.at = pg[q].prev.at
  PROVE  Ring(u, h, S)
<1>1. PICK r \in [S -> Nat] :
        /\ pg[h].next \in S \cup {h}
        /\ pg[h].next \in S => pg[pg[h].next].prev.at = h
        /\ \A p \in S :
             /\ pg[p].next \in S \cup {h} /\ pg[p].prev.at \in S \cup {h}
             /\ pg[pg[p].prev.at].next = p
             /\ pg[p].next \in S =>
                  pg[pg[p].next].prev.at = p /\ r[p] < r[pg[p].next]
  BY DEF Ring
<1>2. /\ u[h].next \in S \cup {h}
      /\ u[h].next \in S => u[u[h].next].prev.at = h
  BY <1>1
<1>3. \A p \in S :
        /\ u[p].next \in S \cup {h} /\ u[p].prev.at \in S \cup {h}
        /\ u[u[p].prev.at].next = p
        /\ u[p].next \in S => u[u[p].next].prev.at = p /\ r[p] < r[u[p].next]
  BY <1>1
<1> QED  BY <1>2, <1>3 DEF Ring

\* A page leaves a list.
LEMMA RingRemove ==
  ASSUME NEW pg, NEW u, NEW h, NEW S, Ring(pg, h, S), NEW p \in S, h \notin S,
         \A q \in (S \ {p}) \cup {h} :
            /\ u[q].next = IF q = pg[p].prev.at THEN pg[p].next ELSE pg[q].next
            /\ u[q].prev.at = IF q = pg[p].next THEN pg[p].prev.at ELSE pg[q].prev.at
  PROVE  Ring(u, h, S \ {p})
<1>1. PICK r \in [S -> Nat] :
        /\ pg[h].next \in S \cup {h}
        /\ pg[h].next \in S => pg[pg[h].next].prev.at = h
        /\ \A q \in S :
             /\ pg[q].next \in S \cup {h} /\ pg[q].prev.at \in S \cup {h}
             /\ pg[pg[q].prev.at].next = q
             /\ pg[q].next \in S =>
                  pg[pg[q].next].prev.at = q /\ r[q] < r[pg[q].next]
  BY DEF Ring
<1>2. PICK a : a = pg[p].prev.at
  OBVIOUS
<1>3. PICK b : b = pg[p].next
  OBVIOUS
<1>4. /\ a \in S \cup {h} /\ b \in S \cup {h} /\ pg[a].next = p
      /\ b \in S => pg[b].prev.at = p /\ r[p] < r[b]
  BY <1>1, <1>2, <1>3
<1>5. a \in S => r[a] < r[p]
  BY <1>1, <1>4
<1>6. a # p /\ b # p
  BY <1>4, <1>5
<1>7. \A q \in S \cup {h} : pg[q].next = p => q = a
  BY <1>1, <1>2
<1>8. \A q \in S : pg[q].prev.at = p => q = b
  BY <1>1, <1>3
<1>9. PICK T : T = S \ {p}
  OBVIOUS
<1>10. PICK s : s = [q \in T |-> r[q]]
  OBVIOUS
<1>11. s \in [T -> Nat] /\ \A q \in T : s[q] = r[q]
  BY <1>9, <1>10
<1>12. \A q \in (S \ {p}) \cup {h} :
         /\ u[q].next = IF q = a THEN b ELSE pg[q].next
         /\ u[q].prev.at = IF q = b THEN a ELSE pg[q].prev.at
  BY <1>2, <1>3
<1>13. /\ u[h].next \in T \cup {h}
       /\ u[h].next \in T => u[u[h].next].prev.at = h
  <2>1. CASE h = a
    BY <1>4, <1>6, <1>9, <1>12, <2>1
  <2>2. CASE h # a
    <3>1. u[h].next = pg[h].next /\ pg[h].next # p
      BY <1>7, <1>12, <2>2
    <3>2. pg[h].next \in S => pg[h].next # b
      BY <1>1, <1>4, <3>1
    <3> QED  BY <1>1, <1>9, <1>12, <3>1, <3>2
  <2> QED  BY <2>1, <2>2
<1>14. ASSUME NEW q \in T
       PROVE  /\ u[q].next \in T \cup {h} /\ u[q].prev.at \in T \cup {h}
              /\ u[u[q].prev.at].next = q
              /\ u[q].next \in T =>
                   u[u[q].next].prev.at = q /\ s[q] < s[u[q].next]
  <2>1. q \in S /\ q # p /\ q # h
    BY <1>9, <1>14
  <2>2. /\ u[q].next \in T \cup {h}
        /\ u[q].next \in T => u[u[q].next].prev.at = q /\ s[q] < s[u[q].next]
    <3>1. CASE q = a
      <4>1. u[q].next = b
        BY <1>12, <2>1, <3>1
      <4>2. b \in T => u[b].prev.at = q /\ r[q] < r[p] /\ r[p] < r[b]
        BY <1>4, <1>5, <1>9, <1>12, <2>1, <3>1
      <4>3. b \in T => r[q] \in Nat /\ r[p] \in Nat /\ r[b] \in Nat /\ s[b] = r[b] /\ s[q] = r[q]
        BY <1>9, <1>11, <2>1
      <4>4. b \in T => s[q] < s[b]
        BY <4>2, <4>3
      <4> QED  BY <1>4, <1>6, <1>9, <4>1, <4>2, <4>4
    <3>2. CASE q # a
      <4>1. u[q].next = pg[q].next /\ pg[q].next # p
        BY <1>7, <1>12, <2>1, <3>2
      <4>2. pg[q].next \in S => pg[pg[q].next].prev.at = q /\ r[q] < r[pg[q].next]
        BY <1>1, <2>1
      <4>3. pg[q].next \in S => pg[q].next # b
        BY <1>4, <2>1, <4>2
      <4> QED  BY <1>1, <1>9, <1>11, <1>12, <2>1, <4>1, <4>2, <4>3
    <3> QED  BY <3>1, <3>2
  <2>3. u[q].prev.at \in T \cup {h} /\ u[u[q].prev.at].next = q
    <3>1. CASE q = b
      BY <1>4, <1>6, <1>9, <1>12, <2>1, <3>1
    <3>2. CASE q # b
      <4>1. u[q].prev.at = pg[q].prev.at /\ pg[q].prev.at # p
        BY <1>8, <1>12, <2>1, <3>2
      <4>2. pg[q].prev.at \in S \cup {h} /\ pg[pg[q].prev.at].next = q
        BY <1>1, <2>1
      <4>3. pg[q].prev.at # a
        BY <1>4, <2>1, <4>2
      <4> QED  BY <1>9, <1>12, <4>1, <4>2, <4>3
    <3> QED  BY <3>1, <3>2
  <2> QED  BY <2>2, <2>3
<1> QED  BY <1>9, <1>11, <1>13, <1>14 DEF Ring

\* A page enters a list at its head.
LEMMA RingInsert ==
  ASSUME NEW pg, NEW u, NEW h, NEW S, Ring(pg, h, S), NEW p, p \notin S, p # h, h \notin S,
         u[h].next = p, u[p].next = pg[h].next, u[p].prev.at = h,
         \A q \in S : /\ u[q].next = pg[q].next
                      /\ u[q].prev.at = IF q = pg[h].next THEN p ELSE pg[q].prev.at
  PROVE  Ring(u, h, S \cup {p})
<1>1. PICK r \in [S -> Nat] :
        /\ pg[h].next \in S \cup {h}
        /\ pg[h].next \in S => pg[pg[h].next].prev.at = h
        /\ \A q \in S :
             /\ pg[q].next \in S \cup {h} /\ pg[q].prev.at \in S \cup {h}
             /\ pg[pg[q].prev.at].next = q
             /\ pg[q].next \in S =>
                  pg[pg[q].next].prev.at = q /\ r[q] < r[pg[q].next]
  BY DEF Ring
<1>2. PICK b : b = pg[h].next
  OBVIOUS
<1>3. PICK T : T = S \cup {p}
  OBVIOUS
<1>4. PICK s : s = [q \in T |-> IF q = p THEN 0 ELSE r[q] + 1]
  OBVIOUS
<1>5. s \in [T -> Nat] /\ s[p] = 0 /\ \A q \in S : s[q] = r[q] + 1 /\ r[q] \in Nat
  BY <1>3, <1>4
<1>6. /\ u[h].next \in T \cup {h}
      /\ u[h].next \in T => u[u[h].next].prev.at = h
  BY <1>3
<1>7. ASSUME NEW q \in T
      PROVE  /\ u[q].next \in T \cup {h} /\ u[q].prev.at \in T \cup {h}
             /\ u[u[q].prev.at].next = q
             /\ u[q].next \in T =>
                  u[u[q].next].prev.at = q /\ s[q] < s[u[q].next]
  <2>1. CASE q = p
    <3>1. u[p].next = b /\ b \in S \cup {h}
      BY <1>1, <1>2
    <3>2. b \in S => u[b].prev.at = p /\ s[p] < s[b]
      BY <1>2, <1>5
    <3>3. b \in T => b \in S
      BY <1>3, <3>1
    <3> QED  BY <1>3, <2>1, <3>1, <3>2, <3>3
  <2>2. CASE q # p
    <3>1. q \in S
      BY <1>3, <2>2
    <3>2. u[q].next = pg[q].next /\ pg[q].next \in S \cup {h}
      BY <1>1, <3>1
    <3>3. pg[q].next \in S => /\ pg[pg[q].next].prev.at = q /\ r[q] < r[pg[q].next]
                              /\ pg[q].next # b
      BY <1>1, <1>2, <3>1
    <3>4. pg[q].next \in S => u[pg[q].next].prev.at = q
      BY <1>2, <3>3
    <3>5. pg[q].next \in S => s[q] < s[pg[q].next]
      BY <1>5, <3>1, <3>3
    <3>6. pg[q].next \in T => pg[q].next \in S
      BY <1>3, <3>2
    <3>7. pg[q].prev.at \in S \cup {h} /\ pg[pg[q].prev.at].next = q
      BY <1>1, <3>1
    <3>8. u[q].prev.at \in T \cup {h} /\ u[u[q].prev.at].next = q
      <4>1. CASE q = b
        BY <1>2, <1>3, <3>1, <4>1
      <4>2. CASE q # b
        BY <1>2, <1>3, <3>1, <3>7, <4>2
      <4> QED  BY <4>1, <4>2
    <3> QED  BY <1>3, <3>2, <3>4, <3>5, <3>6, <3>8
  <2> QED  BY <2>1, <2>2
<1> QED  BY <1>3, <1>5, <1>6, <1>7 DEF Ring

\* A page takes another's place in a list.
LEMMA RingReplace ==
  ASSUME NEW pg, NEW u, NEW h, NEW S, Ring(pg, h, S), NEW p \in S, h \notin S,
         NEW z, z \notin S, z # h,
         u[z].next = pg[p].next, u[z].prev.at = pg[p].prev.at,
         \A q \in (S \ {p}) \cup {h} :
            /\ u[q].next = IF q = pg[p].prev.at THEN z ELSE pg[q].next
            /\ u[q].prev.at = IF q = pg[p].next THEN z ELSE pg[q].prev.at
  PROVE  Ring(u, h, (S \ {p}) \cup {z})
<1>1. PICK r \in [S -> Nat] :
        /\ pg[h].next \in S \cup {h}
        /\ pg[h].next \in S => pg[pg[h].next].prev.at = h
        /\ \A q \in S :
             /\ pg[q].next \in S \cup {h} /\ pg[q].prev.at \in S \cup {h}
             /\ pg[pg[q].prev.at].next = q
             /\ pg[q].next \in S =>
                  pg[pg[q].next].prev.at = q /\ r[q] < r[pg[q].next]
  BY DEF Ring
<1>2. PICK a : a = pg[p].prev.at
  OBVIOUS
<1>3. PICK b : b = pg[p].next
  OBVIOUS
<1>4. /\ a \in S \cup {h} /\ b \in S \cup {h} /\ pg[a].next = p
      /\ b \in S => pg[b].prev.at = p /\ r[p] < r[b]
  BY <1>1, <1>2, <1>3
<1>5. a \in S => r[a] < r[p]
  BY <1>1, <1>4
<1>6. a # p /\ b # p /\ a # z /\ b # z
  BY <1>4, <1>5
<1>7. \A q \in S \cup {h} : pg[q].next = p => q = a
  BY <1>1, <1>2
<1>8. \A q \in S : pg[q].prev.at = p => q = b
  BY <1>1, <1>3
<1>9. PICK T : T = (S \ {p}) \cup {z}
  OBVIOUS
<1>10. PICK s : s = [q \in T |-> IF q = z THEN r[p] ELSE r[q]]
  OBVIOUS
<1>11. s \in [T -> Nat] /\ s[z] = r[p] /\ \A q \in S \ {p} : s[q] = r[q]
  BY <1>9, <1>10
<1>12. /\ u[z].next = b /\ u[z].prev.at = a
       /\ \A q \in (S \ {p}) \cup {h} :
            /\ u[q].next = IF q = a THEN z ELSE pg[q].next
            /\ u[q].prev.at = IF q = b THEN z ELSE pg[q].prev.at
  BY <1>2, <1>3
<1>13. /\ u[h].next \in T \cup {h}
       /\ u[h].next \in T => u[u[h].next].prev.at = h
  <2>1. CASE h = a
    BY <1>9, <1>12, <2>1
  <2>2. CASE h # a
    <3>1. u[h].next = pg[h].next /\ pg[h].next # p
      BY <1>7, <1>12, <2>2
    <3>2. pg[h].next \in S => pg[h].next # b
      BY <1>1, <1>4, <3>1
    <3> QED  BY <1>1, <1>9, <1>12, <3>1, <3>2
  <2> QED  BY <2>1, <2>2
<1>14. ASSUME NEW q \in T
       PROVE  /\ u[q].next \in T \cup {h} /\ u[q].prev.at \in T \cup {h}
              /\ u[u[q].prev.at].next = q
              /\ u[q].next \in T =>
                   u[u[q].next].prev.at = q /\ s[q] < s[u[q].next]
  <2>1. CASE q = z
    <3>1. b \in T \cup {h} /\ a \in T \cup {h}
      BY <1>4, <1>6, <1>9
    <3>2. u[a].next = z
      BY <1>4, <1>6, <1>12
    <3>3. b \in T => b \in S \ {p} /\ u[b].prev.at = z
      BY <1>4, <1>6, <1>9, <1>12
    <3>4. b \in T => s[z] < s[b]
      BY <1>4, <1>11, <3>3
    <3> QED  BY <1>12, <2>1, <3>1, <3>2, <3>3, <3>4
  <2>2. CASE q # z
    <3>1. q \in S /\ q # p /\ q # h
      BY <1>9, <2>2
    <3>2. /\ u[q].next \in T \cup {h}
          /\ u[q].next \in T => u[u[q].next].prev.at = q /\ s[q] < s[u[q].next]
      <4>1. CASE q = a
        BY <1>5, <1>9, <1>11, <1>12, <3>1, <4>1
      <4>2. CASE q # a
        <5>1. u[q].next = pg[q].next /\ pg[q].next # p
          BY <1>7, <1>12, <3>1, <4>2
        <5>2. /\ pg[q].next \in S \cup {h}
              /\ pg[q].next \in S => pg[pg[q].next].prev.at = q /\ r[q] < r[pg[q].next]
          BY <1>1, <3>1
        <5>3. pg[q].next \in S => pg[q].next # b
          BY <1>4, <3>1, <5>2
        <5>4. pg[q].next \in T => pg[q].next \in S
          BY <1>9, <5>2
        <5> QED  BY <1>9, <1>11, <1>12, <3>1, <5>1, <5>2, <5>3, <5>4
      <4> QED  BY <4>1, <4>2
    <3>3. u[q].prev.at \in T \cup {h} /\ u[u[q].prev.at].next = q
      <4>1. CASE q = b
        BY <1>9, <1>12, <3>1, <4>1
      <4>2. CASE q # b
        <5>1. u[q].prev.at = pg[q].prev.at /\ pg[q].prev.at # p
          BY <1>8, <1>12, <3>1, <4>2
        <5>2. pg[q].prev.at \in S \cup {h} /\ pg[pg[q].prev.at].next = q
          BY <1>1, <3>1
        <5>3. pg[q].prev.at # a
          BY <1>4, <3>1, <5>2
        <5> QED  BY <1>9, <1>12, <5>1, <5>2, <5>3
      <4> QED  BY <4>1, <4>2
    <3> QED  BY <3>2, <3>3
  <2> QED  BY <2>1, <2>2
<1> QED  BY <1>9, <1>11, <1>13, <1>14 DEF Ring

-----------------------------------------------------------------------------
(* Walking along a list *)

LEMMA HasLeast ==
  ASSUME NEW T \in SUBSET Nat, T # {}
  PROVE  \E k \in T : \A j \in T : k <= j
<1>1. PICK r : r = OpToRel(<, Nat)
  BY Zenon
<1>2. \E k \in T : \A j \in T : ~(<<j, k>> \in r)
  BY <1>1, NatLessThanWellFounded, WFMin, Zenon
<1>3. \A j, k \in Nat : <<j, k>> \in OpToRel(<, Nat) <=> j < k
  BY DEF OpToRel
<1>4. \A j, k \in Nat : <<j, k>> \in r <=> j < k
  BY <1>1, <1>3, Zenon
<1>5. PICK k \in T : \A j \in T : ~(<<j, k>> \in r)
  BY <1>2
<1>6. k \in Nat /\ \A j \in T : j \in Nat
  OBVIOUS
<1>7. \A j \in T : ~(j < k)
  BY <1>4, <1>5, <1>6, Zenon
<1> QED  BY <1>6, <1>7

\* Where the walk goes from x.
Onward(pg, x) == IF x \in Page THEN pg[x].next ELSE x

IsChain(g, n, pg, h) ==
    g = [i \in 0 .. n |-> IF i = 0 THEN pg[h].next ELSE Onward(pg, g[i - 1])]

LEMMA ChainExists ==
  ASSUME NEW pg, NEW h
  PROVE  \A n \in Nat : \E g : IsChain(g, n, pg, h)
<1>1. PICK T : T = {n \in Nat : ~ \E g : IsChain(g, n, pg, h)}
  OBVIOUS
<1>2. SUFFICES ASSUME T # {} PROVE FALSE
  BY <1>1
<1>3. T \in SUBSET Nat
  BY <1>1
<1>4. PICK m \in T : \A j \in T : m <= j
  BY <1>2, <1>3, HasLeast
<1>5. m \in Nat /\ ~ \E g : IsChain(g, m, pg, h)
  BY <1>1, <1>3
<1>6. CASE m = 0
  <2>1. PICK g : g = [i \in 0 .. 0 |-> pg[h].next]
    OBVIOUS
  <2>2. IsChain(g, 0, pg, h)
    BY <2>1 DEF IsChain
  <2> QED  BY <1>5, <1>6, <2>2
<1>7. CASE m # 0
  <2>1. m - 1 \in Nat /\ m - 1 \notin T
    BY <1>4, <1>5, <1>7
  <2>2. PICK g : IsChain(g, m - 1, pg, h)
    BY <1>1, <2>1
  <2>3. \A i \in 0 .. m - 1 : g[i] = IF i = 0 THEN pg[h].next ELSE Onward(pg, g[i - 1])
    BY <2>2 DEF IsChain
  <2>4. PICK f : f = [i \in 0 .. m |-> IF i = m THEN Onward(pg, g[m - 1]) ELSE g[i]]
    OBVIOUS
  <2>5. ASSUME NEW i \in 0 .. m
        PROVE  f[i] = IF i = 0 THEN pg[h].next ELSE Onward(pg, f[i - 1])
    <3>1. i # 0 => i - 1 \in 0 .. m /\ i - 1 # m
      BY <1>5
    <3>2. i # 0 => f[i - 1] = g[i - 1]
      BY <2>4, <3>1
    <3>3. CASE i = m
      BY <1>7, <2>4, <3>2, <3>3
    <3>4. CASE i # m
      <4>1. i \in 0 .. m - 1
        BY <1>5, <3>4
      <4> QED  BY <2>3, <2>4, <3>2, <3>4, <4>1
    <3> QED  BY <3>3, <3>4
  <2>6. f = [i \in 0 .. m |-> IF i = 0 THEN pg[h].next ELSE Onward(pg, f[i - 1])]
    BY <2>4, <2>5
  <2> QED  BY <1>5, <2>6 DEF IsChain
<1> QED  BY <1>6, <1>7

LEMMA ChainIs ==
  ASSUME NEW pg, NEW h, NEW c, c = Chain(pg, h)
  PROVE  /\ DOMAIN c = 0 .. NPages /\ c[0] = pg[h].next
         /\ \A i \in 1 .. NPages : c[i] = Onward(pg, c[i - 1])
<1>1. NPages \in Nat \ {0}
  BY SlabSizes
<1>2. \E g : IsChain(g, NPages, pg, h)
  BY <1>1, ChainExists
<1>3. c = CHOOSE g : IsChain(g, NPages, pg, h)
  BY DEF Chain, IsChain, Onward
<1>4. IsChain(c, NPages, pg, h)
  BY <1>2, <1>3
<1>5. PICK n : n = NPages
  OBVIOUS
<1>6. c = [i \in 0 .. n |-> IF i = 0 THEN pg[h].next ELSE Onward(pg, c[i - 1])]
  BY <1>4, <1>5 DEF IsChain
<1>7. DOMAIN c = 0 .. n
  BY <1>6
<1>8. ASSUME NEW i \in 0 .. n
      PROVE  c[i] = IF i = 0 THEN pg[h].next ELSE Onward(pg, c[i - 1])
  BY <1>6
<1>9. n \in Nat /\ 0 \in 0 .. n /\ \A i \in 1 .. n : i \in 0 .. n /\ i # 0
  BY <1>1, <1>5
<1> QED  BY <1>5, <1>7, <1>8, <1>9

\* The walk along a list passes each of its pages, and ends at the head.
LEMMA WalkEnds ==
  ASSUME NEW pg, NEW h, NEW S, S \subseteq Page, h \notin Page, Ring(pg, h, S),
         NEW c, c = Chain(pg, h)
  PROVE  \E k \in 0 .. NPages :
            /\ \A i \in 0 .. k - 1 : c[i] \in S
            /\ \A i \in k .. NPages : c[i] = h
            /\ \A p \in S : \E i \in 0 .. k - 1 : c[i] = p
<1>1. PICK r \in [S -> Nat] :
        /\ pg[h].next \in S \cup {h}
        /\ pg[h].next \in S => pg[pg[h].next].prev.at = h
        /\ \A p \in S :
             /\ pg[p].next \in S \cup {h} /\ pg[p].prev.at \in S \cup {h}
             /\ pg[pg[p].prev.at].next = p
             /\ pg[p].next \in S =>
                  pg[pg[p].next].prev.at = p /\ r[p] < r[pg[p].next]
  BY DEF Ring
<1>2. PICK n : n = NPages
  OBVIOUS
<1>3. n \in Nat \ {0}
  BY <1>2, SlabSizes
<1>4. c[0] = pg[h].next /\ \A i \in 1 .. n : c[i] = Onward(pg, c[i - 1])
  <2>1. c = Chain(pg, h)
    OBVIOUS
  <2>2. c[0] = pg[h].next
    BY <2>1, ChainIs
  <2>3. \A i \in 1 .. NPages : c[i] = Onward(pg, c[i - 1])
    BY <2>1, ChainIs
  <2> QED  BY <1>2, <2>2, <2>3
<1>5. \A i \in 1 .. n : /\ c[i - 1] \in S => c[i] = pg[c[i - 1]].next
                        /\ c[i - 1] = h => c[i] = h
  BY <1>4 DEF Onward
<1>6. \A i \in 0 .. n : c[i] \in S \cup {h}
  <2>1. PICK T : T = {i \in 0 .. n : c[i] \notin S \cup {h}}
    OBVIOUS
  <2>2. T \in SUBSET Nat
    BY <1>3, <2>1
  <2>3. ASSUME T # {} PROVE FALSE
    <3>1. PICK i \in T : \A j \in T : i <= j
      BY <2>2, <2>3, HasLeast
    <3>2. i \in 0 .. n /\ c[i] \notin S \cup {h}
      BY <2>1
    <3>3. i # 0
      BY <1>1, <1>4, <3>2
    <3>4. i \in 1 .. n /\ i - 1 \in 0 .. n /\ i - 1 < i
      BY <1>3, <3>2, <3>3
    <3>5. c[i - 1] \in S \cup {h}
      BY <2>1, <3>1, <3>4
    <3> QED  BY <1>1, <1>5, <3>2, <3>4, <3>5
  <2> QED  BY <2>1, <2>3
<1>7. \A i, j \in 0 .. n : i <= j /\ c[i] = h => c[j] = h
  <2>1. PICK T : T = {j \in 0 .. n : c[j] # h /\ \E i \in 0 .. j : c[i] = h}
    OBVIOUS
  <2>2. T \in SUBSET Nat
    BY <1>3, <2>1
  <2>3. ASSUME T # {} PROVE FALSE
    <3>1. PICK j \in T : \A l \in T : j <= l
      BY <2>2, <2>3, HasLeast
    <3>2. j \in 0 .. n /\ c[j] # h /\ \E i \in 0 .. j : c[i] = h
      BY <2>1
    <3>3. PICK i \in 0 .. j : c[i] = h
      BY <3>2
    <3>4. j \in 1 .. n /\ j - 1 \in 0 .. n /\ j - 1 < j /\ i \in 0 .. j - 1
      BY <1>3, <3>2, <3>3
    <3>5. c[j - 1] = h
      BY <2>1, <3>1, <3>3, <3>4
    <3> QED  BY <1>5, <3>2, <3>4, <3>5
  <2>4. ASSUME NEW i \in 0 .. n, NEW j \in 0 .. n, i <= j, c[i] = h, c[j] # h PROVE FALSE
    <3>1. i \in 0 .. j
      BY <1>3, <2>4
    <3> QED  BY <2>1, <2>3, <2>4, <3>1
  <2> QED  BY <2>4
<1>8. \A i, j \in 0 .. n : i < j /\ c[j] \in S => c[i] \in S /\ r[c[i]] < r[c[j]]
  <2>1. PICK T : T = {j \in 0 .. n : c[j] \in S /\ \E i \in 0 .. j - 1 : ~(r[c[i]] < r[c[j]])}
    OBVIOUS
  <2>2. T \in SUBSET Nat
    BY <1>3, <2>1
  <2>3. h \notin S
    OBVIOUS
  <2>4. \A i, j \in 0 .. n : i < j /\ c[j] \in S => c[i] \in S
    BY <1>3, <1>6, <1>7, <2>3
  <2>5. ASSUME T # {} PROVE FALSE
    <3>1. PICK j \in T : \A l \in T : j <= l
      BY <2>2, <2>5, HasLeast
    <3>2. j \in 0 .. n /\ c[j] \in S /\ \E i \in 0 .. j - 1 : ~(r[c[i]] < r[c[j]])
      BY <2>1
    <3>3. PICK i \in 0 .. j - 1 : ~(r[c[i]] < r[c[j]])
      BY <3>2
    <3>4. j \in 1 .. n /\ j - 1 \in 0 .. n /\ j - 1 < j /\ i \in 0 .. n /\ i < j
      BY <1>3, <3>2, <3>3
    <3>5. c[j - 1] \in S /\ c[i] \in S
      BY <2>4, <3>2, <3>4
    <3>6. c[j] = pg[c[j - 1]].next
      BY <1>5, <3>4, <3>5
    <3>7. r[c[j - 1]] < r[c[j]]
      BY <1>1, <3>2, <3>5, <3>6
    <3>8. i # j - 1
      BY <3>3, <3>7
    <3>9. i \in 0 .. (j - 1) - 1
      BY <3>3, <3>4, <3>8
    <3>10. j - 1 \notin T
      BY <3>1, <3>4
    <3>11. r[c[i]] < r[c[j - 1]]
      BY <2>1, <3>4, <3>5, <3>9, <3>10
    <3>12. r[c[i]] \in Nat /\ r[c[j - 1]] \in Nat /\ r[c[j]] \in Nat
      BY <3>2, <3>5
    <3> QED  BY <3>3, <3>7, <3>11, <3>12
  <2>6. ASSUME NEW i \in 0 .. n, NEW j \in 0 .. n, i < j, c[j] \in S PROVE r[c[i]] < r[c[j]]
    <3>1. i \in 0 .. j - 1
      BY <1>3, <2>6
    <3>2. j \notin T
      BY <2>5
    <3> QED  BY <2>1, <2>6, <3>1, <3>2
  <2> QED  BY <2>4, <2>6
<1>9. \E k \in 0 .. n : c[k] = h
  <2>1. SUFFICES ASSUME \A k \in 0 .. n : c[k] # h PROVE FALSE
    OBVIOUS
  <2>2. \A k \in 0 .. n : c[k] \in S
    BY <1>6, <2>1
  <2>3. PICK f : f = [k \in 0 .. n |-> c[k]]
    OBVIOUS
  <2>4. f \in [0 .. n -> Page] /\ \A k \in 0 .. n : f[k] = c[k]
    BY <2>2, <2>3
  <2>5. IsFiniteSet(0 .. n) /\ Cardinality(0 .. n) = n + 1
    BY <1>3, FS_Interval
  <2>6. IsFiniteSet(Page) /\ Cardinality(Page) = n
    <3>1. IsFiniteSet(1 .. n) /\ Cardinality(1 .. n) = n
      BY <1>3, FS_Interval
    <3> QED  BY <1>2, <3>1 DEF Page
  <2>7. Cardinality(Page) < Cardinality(0 .. n)
    BY <1>3, <2>5, <2>6
  <2>8. PICK i, j \in 0 .. n : i # j /\ f[i] = f[j]
    <3>1. PICK D : D = 0 .. n
      OBVIOUS
    <3>2. IsFiniteSet(D) /\ Cardinality(Page) < Cardinality(D) /\ f \in [D -> Page]
      BY <2>4, <2>5, <2>7, <3>1
    <3>3. \E i, j \in D : i # j /\ f[i] = f[j]
      BY <2>6, <3>2, FS_PigeonHole
    <3> QED  BY <3>1, <3>3
  <2>9. c[i] = c[j] /\ c[i] \in S /\ c[j] \in S
    BY <2>2, <2>4, <2>8
  <2>10. r[c[i]] \in Nat
    BY <2>9
  <2>11. i < j \/ j < i
    BY <1>3, <2>8
  <2> QED  BY <1>8, <2>9, <2>10, <2>11
<1>10. PICK k \in 0 .. n : c[k] = h /\ \A i \in 0 .. n : c[i] = h => k <= i
  <2>1. PICK T : T = {i \in 0 .. n : c[i] = h}
    OBVIOUS
  <2>2. T \in SUBSET Nat /\ T # {}
    BY <1>3, <1>9, <2>1
  <2>3. \E i \in T : \A j \in T : i <= j
    BY <2>2, HasLeast
  <2> QED  BY <2>1, <2>3
<1>11. \A i \in 0 .. k - 1 : c[i] \in S
  BY <1>3, <1>6, <1>10
<1>12. \A i \in k .. n : c[i] = h
  BY <1>3, <1>7, <1>10
<1>13. \A p \in S : \E i \in 0 .. k - 1 : c[i] = p
  <2>1. PICK T : T = {r[p] : p \in {q \in S : \A i \in 0 .. k - 1 : c[i] # q}}
    OBVIOUS
  <2>2. T \in SUBSET Nat
    BY <2>1
  <2>3. ASSUME T # {} PROVE FALSE
    <3>1. PICK x \in T : \A y \in T : x <= y
      BY <2>2, <2>3, HasLeast
    <3>2. PICK p \in S : x = r[p] /\ \A i \in 0 .. k - 1 : c[i] # p
      BY <2>1
    <3>3. PICK a : a = pg[p].prev.at
      OBVIOUS
    <3>4. a \in S \cup {h} /\ pg[a].next = p
      BY <1>1, <3>3
    <3>5. CASE a = h
      <4>1. c[0] = p /\ p # h
        BY <1>4, <3>4, <3>5
      <4>2. 0 \in 0 .. k - 1
        BY <1>3, <1>10, <4>1
      <4> QED  BY <3>2, <4>1, <4>2
    <3>6. CASE a \in S
      <4>1. r[a] < r[p]
        BY <1>1, <3>4, <3>6
      <4>2. r[a] \in Nat /\ r[p] \in Nat
        BY <3>6
      <4>3. r[a] \notin T
        BY <3>1, <3>2, <4>1, <4>2
      <4>4. PICK i \in 0 .. k - 1 : c[i] = a
        BY <2>1, <3>6, <4>3
      <4>5. i + 1 \in 1 .. n /\ (i + 1) - 1 = i /\ i + 1 \in 0 .. k
        BY <1>3
      <4>6. c[i + 1] = p
        BY <1>5, <3>4, <3>6, <4>4, <4>5
      <4>7. p # h
        OBVIOUS
      <4>8. i + 1 \in 0 .. k - 1
        BY <1>3, <1>10, <4>5, <4>6, <4>7
      <4> QED  BY <3>2, <4>6, <4>8
    <3> QED  BY <3>4, <3>5, <3>6
  <2> QED  BY <2>1, <2>3
<1> QED  BY <1>2, <1>3, <1>10, <1>11, <1>12, <1>13

LEMMA ListedIs ==
  ASSUME NEW h, NEW S, S \subseteq Page, h \notin Page, Ring(page, h, S)
  PROVE  Listed(h) = S /\ LinkedBothWays(h)
<1>1. PICK c : c = Chain(page, h)
  OBVIOUS
<1>2. PICK k \in 0 .. NPages :
        /\ \A i \in 0 .. k - 1 : c[i] \in S
        /\ \A i \in k .. NPages : c[i] = h
        /\ \A p \in S : \E i \in 0 .. k - 1 : c[i] = p
  BY <1>1, WalkEnds
<1>3. NPages \in Nat
  BY SlabSizes
<1>4. \A i \in 0 .. NPages : i \in 0 .. k - 1 \/ i \in k .. NPages
  BY <1>3
<1>5. \A i \in 0 .. k - 1 : i \in 0 .. NPages
  BY <1>3
<1>6. Listed(h) = {c[i] : i \in 0 .. NPages} \ {h}
  BY <1>1 DEF Listed
<1>7. Listed(h) = S
  BY <1>2, <1>4, <1>5, <1>6
<1> QED  BY <1>7 DEF LinkedBothWays, Ring

LEMMA FirstFitIs ==
  ASSUME NEW pg, NEW S, S \subseteq Page, Ring(pg, FreeHead, S),
         \A p \in S : pg[p].slab.n \in Nat, NEW n \in Nat
  PROVE  LET p == FirstFit(pg, n)
         IN  \/ p \in S /\ pg[p].slab.n >= n
             \/ p = FreeHead /\ \A q \in S : pg[q].slab.n < n
<1>1. PICK c : c = Chain(pg, FreeHead)
  OBVIOUS
<1>2. NPages \in Nat /\ FreeHead \notin Page
  BY SlabSizes DEF FreeHead, Page
<1>3. PICK k \in 0 .. NPages :
        /\ \A i \in 0 .. k - 1 : c[i] \in S
        /\ \A i \in k .. NPages : c[i] = FreeHead
        /\ \A p \in S : \E i \in 0 .. k - 1 : c[i] = p
  BY <1>1, <1>2, WalkEnds
<1>4. PICK T : T = {i \in 0 .. NPages : c[i] = FreeHead \/ pg[c[i]].slab.n >= n}
  OBVIOUS
<1>5. T \in SUBSET Nat /\ k \in T
  BY <1>2, <1>3, <1>4
<1>6. \E i \in T : \A j \in T : i <= j
  BY <1>5, HasLeast
<1>7. \E i \in 0 .. NPages : i \in T /\ \A j \in 0 .. i - 1 : ~(j \in T)
  BY <1>2, <1>4, <1>6
<1>8. PICK l : l = CHOOSE i \in 0 .. NPages : i \in T /\ \A j \in 0 .. i - 1 : ~(j \in T)
  OBVIOUS
<1>9. l \in 0 .. NPages /\ l \in T /\ \A j \in 0 .. l - 1 : ~(j \in T)
  BY <1>7, <1>8
<1>10. FirstFit(pg, n) = c[CHOOSE i \in 0 .. NPages :
              /\ c[i] = FreeHead \/ pg[c[i]].slab.n >= n
              /\ \A j \in 0 .. i - 1 : ~(c[j] = FreeHead \/ pg[c[j]].slab.n >= n)]
  BY <1>1, Zenon DEF FirstFit
<1>11. \A i \in 0 .. NPages :
         (/\ c[i] = FreeHead \/ pg[c[i]].slab.n >= n
          /\ \A j \in 0 .. i - 1 : ~(c[j] = FreeHead \/ pg[c[j]].slab.n >= n))
         <=> (i \in T /\ \A j \in 0 .. i - 1 : ~(j \in T))
  BY <1>2, <1>4
<1>12. FirstFit(pg, n) = c[l]
  BY <1>8, <1>10, <1>11
<1>13. CASE c[l] = FreeHead
  <2>1. ASSUME NEW q \in S PROVE pg[q].slab.n < n
    <3>1. PICK i \in 0 .. k - 1 : c[i] = q
      BY <1>3
    <3>2. i \in 0 .. NPages /\ q # FreeHead
      BY <1>2
    <3>3. i < l
      BY <1>2, <1>3, <1>9, <1>13, <3>1, <3>2
    <3>4. i \notin T
      BY <1>9, <3>2, <3>3
    <3> QED  BY <1>4, <3>1, <3>2, <3>4
  <2> QED  BY <1>12, <1>13, <2>1
<1>14. CASE c[l] # FreeHead
  <2>1. c[l] \in S /\ pg[c[l]].slab.n >= n
    BY <1>2, <1>3, <1>4, <1>9, <1>14
  <2> QED  BY <1>12, <2>1
<1> QED  BY <1>13, <1>14

-----------------------------------------------------------------------------
(* Numbers *)

IsPow2(g, n) == g = [i \in 0 .. n |-> IF i = 0 THEN 1 ELSE 2 * g[i - 1]]

LEMMA Pow2Exists == \A n \in Nat : \E g : IsPow2(g, n)
<1>1. PICK T : T = {n \in Nat : ~ \E g : IsPow2(g, n)}
  OBVIOUS
<1>2. SUFFICES ASSUME T # {} PROVE FALSE
  BY <1>1
<1>3. T \in SUBSET Nat
  BY <1>1
<1>4. PICK m \in T : \A j \in T : m <= j
  BY <1>2, <1>3, HasLeast
<1>5. m \in Nat /\ ~ \E g : IsPow2(g, m)
  BY <1>1, <1>3
<1>6. CASE m = 0
  <2>1. PICK g : g = [i \in 0 .. 0 |-> 1]
    OBVIOUS
  <2>2. IsPow2(g, 0)
    BY <2>1 DEF IsPow2
  <2> QED  BY <1>5, <1>6, <2>2
<1>7. CASE m # 0
  <2>1. m - 1 \in Nat /\ m - 1 \notin T
    BY <1>4, <1>5, <1>7
  <2>2. PICK g : IsPow2(g, m - 1)
    BY <1>1, <2>1
  <2>3. \A i \in 0 .. m - 1 : g[i] = IF i = 0 THEN 1 ELSE 2 * g[i - 1]
    BY <2>2 DEF IsPow2
  <2>4. PICK f : f = [i \in 0 .. m |-> IF i = m THEN 2 * g[m - 1] ELSE g[i]]
    OBVIOUS
  <2>5. ASSUME NEW i \in 0 .. m
        PROVE  f[i] = IF i = 0 THEN 1 ELSE 2 * f[i - 1]
    <3>1. i # 0 => i - 1 \in 0 .. m /\ i - 1 # m
      BY <1>5
    <3>2. i # 0 => f[i - 1] = g[i - 1]
      BY <2>4, <3>1
    <3>3. CASE i = m
      BY <1>7, <2>4, <3>2, <3>3
    <3>4. CASE i # m
      <4>1. i \in 0 .. m - 1
        BY <1>5, <3>4
      <4> QED  BY <2>3, <2>4, <3>2, <3>4, <4>1
    <3> QED  BY <3>3, <3>4
  <2>6. f = [i \in 0 .. m |-> IF i = 0 THEN 1 ELSE 2 * f[i - 1]]
    BY <2>4, <2>5
  <2> QED  BY <1>5, <2>6 DEF IsPow2
<1> QED  BY <1>6, <1>7

LEMMA Pow2Is ==
  /\ PageSize \in Nat
  /\ \A i \in 0 .. PageSize :
       Pow2[i] \in Nat \ {0} /\ Pow2[i] = IF i = 0 THEN 1 ELSE 2 * Pow2[i - 1]
<1>1. PageSize \in Nat
  BY SlabSizes
<1>2. Pow2 = CHOOSE g : IsPow2(g, PageSize)
  BY DEF Pow2, IsPow2
<1>3. IsPow2(Pow2, PageSize)
  BY <1>1, <1>2, Pow2Exists
<1>4. PICK n, f : n = PageSize /\ f = Pow2
  OBVIOUS
<1>5. f = [i \in 0 .. n |-> IF i = 0 THEN 1 ELSE 2 * f[i - 1]]
  BY <1>3, <1>4 DEF IsPow2
<1>6. \A i \in 0 .. n : f[i] = IF i = 0 THEN 1 ELSE 2 * f[i - 1]
  BY <1>5
<1>7. PICK T : T = {i \in 0 .. n : f[i] \notin Nat \ {0}}
  OBVIOUS
<1>8. ASSUME T # {} PROVE FALSE
  <2>1. T \in SUBSET Nat
    BY <1>7
  <2>2. PICK m \in T : \A j \in T : m <= j
    BY <1>8, <2>1, HasLeast
  <2>3. m \in 0 .. n /\ f[m] \notin Nat \ {0} /\ n \in Nat
    BY <1>1, <1>4, <1>7, <2>2
  <2>4. m # 0
    BY <1>6, <2>3
  <2>5. m - 1 \in 0 .. n /\ m - 1 \notin T
    BY <2>2, <2>3, <2>4
  <2>6. f[m - 1] \in Nat \ {0}
    BY <1>7, <2>5
  <2>7. f[m] = 2 * f[m - 1]
    BY <1>6, <2>3, <2>4
  <2> QED  BY <2>3, <2>6, <2>7
<1> QED  BY <1>1, <1>4, <1>6, <1>7, <1>8

\* Powers of two grow.
LEMMA Pow2Grows ==
  ASSUME NEW i \in 0 .. PageSize, NEW j \in 0 .. PageSize, i <= j
  PROVE  Pow2[i] <= Pow2[j]
<1>1. PICK T : T = {k \in i .. PageSize : ~(Pow2[i] <= Pow2[k])}
  OBVIOUS
<1>2. PageSize \in Nat /\ i \in Nat
  BY Pow2Is
<1>3. ASSUME T # {} PROVE FALSE
  <2>1. T \in SUBSET Nat
    BY <1>1, <1>2
  <2>2. PICK m \in T : \A k \in T : m <= k
    BY <1>3, <2>1, HasLeast
  <2>3. m \in i .. PageSize /\ ~(Pow2[i] <= Pow2[m])
    BY <1>1, <2>2
  <2>4. m \in 0 .. PageSize /\ m # i
    BY <1>2, <2>3, Pow2Is
  <2>5. m - 1 \in i .. PageSize /\ m - 1 \notin T /\ m - 1 \in 0 .. PageSize /\ m # 0
    BY <1>2, <2>2, <2>3, <2>4
  <2>6. Pow2[i] <= Pow2[m - 1]
    BY <1>1, <2>5
  <2>7. Pow2[m] = 2 * Pow2[m - 1] /\ Pow2[m - 1] \in Nat /\ Pow2[i] \in Nat
    BY <2>4, <2>5, Pow2Is
  <2> QED  BY <2>3, <2>6, <2>7
<1>4. j \in i .. PageSize
  BY <1>2
<1> QED  BY <1>1, <1>3, <1>4

IsShift(g, n) == g = [i \in 0 .. n |-> IF i \div 2 = 0 THEN 1 ELSE 1 + g[i \div 2]]

LEMMA Halves ==
  \A i \in Nat : /\ i \div 2 \in Nat /\ 2 * (i \div 2) <= i /\ i <= 2 * (i \div 2) + 1
                 /\ i \div 2 <= i /\ (i \div 2 # 0 => i \div 2 < i)
  OBVIOUS

LEMMA ShiftExists == \A n \in Nat : \E g : IsShift(g, n)
<1>1. PICK T : T = {n \in Nat : ~ \E g : IsShift(g, n)}
  OBVIOUS
<1>2. SUFFICES ASSUME T # {} PROVE FALSE
  BY <1>1
<1>3. T \in SUBSET Nat
  BY <1>1
<1>4. PICK m \in T : \A j \in T : m <= j
  BY <1>2, <1>3, HasLeast
<1>5. m \in Nat /\ ~ \E g : IsShift(g, m)
  BY <1>1, <1>3
<1>6. CASE m = 0
  <2>1. PICK g : g = [i \in 0 .. 0 |-> 1]
    OBVIOUS
  <2>2. g = [i \in 0 .. 0 |-> IF i \div 2 = 0 THEN 1 ELSE 1 + g[i \div 2]]
    BY <2>1
  <2> QED  BY <1>5, <1>6, <2>2 DEF IsShift
<1>7. CASE m # 0
  <2>1. m - 1 \in Nat /\ m - 1 \notin T
    BY <1>4, <1>5, <1>7
  <2>2. PICK g : IsShift(g, m - 1)
    BY <1>1, <2>1
  <2>3. \A i \in 0 .. m - 1 : g[i] = IF i \div 2 = 0 THEN 1 ELSE 1 + g[i \div 2]
    BY <2>2 DEF IsShift
  <2>4. PICK f : f = [i \in 0 .. m |-> IF i = m
                        THEN (IF m \div 2 = 0 THEN 1 ELSE 1 + g[m \div 2]) ELSE g[i]]
    OBVIOUS
  <2>5. ASSUME NEW i \in 0 .. m
        PROVE  f[i] = IF i \div 2 = 0 THEN 1 ELSE 1 + f[i \div 2]
    <3>1. i \div 2 # 0 => i \div 2 \in 0 .. m /\ i \div 2 # m
      BY <1>5, Halves
    <3>2. i \div 2 # 0 => f[i \div 2] = g[i \div 2]
      BY <2>4, <3>1
    <3>3. CASE i = m
      BY <1>7, <2>4, <3>2, <3>3
    <3>4. CASE i # m
      <4>1. i \in 0 .. m - 1
        BY <1>5, <3>4
      <4> QED  BY <2>3, <2>4, <3>2, <3>4, <4>1
    <3> QED  BY <3>3, <3>4
  <2>6. f = [i \in 0 .. m |-> IF i \div 2 = 0 THEN 1 ELSE 1 + f[i \div 2]]
    BY <2>4, <2>5
  <2> QED  BY <1>5, <2>6 DEF IsShift
<1> QED  BY <1>6, <1>7

\* Shift[s] is the least power of two, but the zeroth, above s.
LEMMA ShiftIs ==
  ASSUME NEW k \in 1 .. PageSize, NEW s \in 0 .. PageSize, s < Pow2[k]
  PROVE  Shift[s] \in 1 .. k
<1>1. PageSize \in Nat
  BY Pow2Is
<1>2. Shift = CHOOSE g : IsShift(g, PageSize)
  BY DEF Shift, IsShift
<1>3. IsShift(Shift, PageSize)
  BY <1>1, <1>2, ShiftExists
<1>4. PICK n, f : n = PageSize /\ f = Shift
  OBVIOUS
<1>5. f = [i \in 0 .. n |-> IF i \div 2 = 0 THEN 1 ELSE 1 + f[i \div 2]]
  BY <1>3, <1>4 DEF IsShift
<1>6. \A i \in 0 .. n : f[i] = IF i \div 2 = 0 THEN 1 ELSE 1 + f[i \div 2]
  BY <1>5
<1>7. PICK T : T = {l \in 1 .. n : \E i \in 0 .. n : i < Pow2[l] /\ f[i] \notin 1 .. l}
  OBVIOUS
<1>8. ASSUME T # {} PROVE FALSE
  <2>1. T \in SUBSET Nat
    BY <1>7
  <2>2. PICK m \in T : \A j \in T : m <= j
    BY <1>8, <2>1, HasLeast
  <2>3. m \in 1 .. n /\ n \in Nat
    BY <1>1, <1>4, <1>7, <2>2
  <2>4. PICK i \in 0 .. n : i < Pow2[m] /\ f[i] \notin 1 .. m
    BY <1>7, <2>2
  <2>5. i \div 2 # 0
    BY <1>6, <2>3, <2>4
  <2>6. f[i] = 1 + f[i \div 2]
    BY <1>6, <2>4, <2>5
  <2>7. m \in 0 .. PageSize /\ m # 0 /\ m - 1 \in 0 .. PageSize /\ 0 \in 0 .. PageSize
    BY <1>4, <2>3
  <2>8. Pow2[m] = 2 * Pow2[m - 1] /\ Pow2[m - 1] \in Nat /\ Pow2[0] = 1
    BY <2>7, Pow2Is
  <2>9. i \in Nat /\ i \div 2 \in 0 .. n /\ i \div 2 < Pow2[m - 1]
    <3>1. i \in Nat /\ i \div 2 \in Nat /\ 2 * (i \div 2) <= i /\ i \div 2 <= i
      BY <2>3, <2>4, Halves
    <3>2. i < 2 * Pow2[m - 1]
      BY <2>4, <2>8
    <3>3. PICK d, e : d = i \div 2 /\ e = Pow2[m - 1]
      OBVIOUS
    <3>4. d \in Nat /\ e \in Nat /\ 2 * d <= i /\ i < 2 * e /\ d <= i
      BY <2>8, <3>1, <3>2, <3>3
    <3>5. d < e /\ d \in 0 .. n
      BY <2>3, <2>4, <3>1, <3>4
    <3> QED  BY <3>1, <3>3, <3>5
  <2>10. m # 1
    <3>1. ASSUME m = 1 PROVE FALSE
      <4>1. Pow2[m - 1] = 1
        BY <2>8, <3>1
      <4> QED  BY <2>3, <2>5, <2>9, <4>1
    <3> QED  BY <3>1
  <2>11. m - 1 \in 1 .. n /\ m - 1 \notin T
    BY <2>2, <2>3, <2>10
  <2>12. f[i \div 2] \in 1 .. m - 1
    BY <1>7, <2>9, <2>11
  <2> QED  BY <2>3, <2>4, <2>6, <2>12
<1>9. k \in 1 .. n /\ s \in 0 .. n
  BY <1>4
<1> QED  BY <1>4, <1>7, <1>8, <1>9

\* A page holds two chunks of the smallest size.
LEMMA PageIs ==
  /\ PageSize \in Nat /\ PageSize >= 2 /\ PageSize \div 2 \in Nat \ {0}
  /\ PageSize = 2 * (PageSize \div 2)
  /\ MinSize \in Nat \ {0} /\ MinSize <= PageSize \div 2
  /\ \E j \in 1 .. PageSize : PageSize \div 2 = Pow2[j - 1]
<1>1. PICK i, j \in 0 .. PageSize : i < j /\ MinSize = Pow2[i] /\ PageSize = Pow2[j]
  BY SlabSizes
<1>2. PageSize \in Nat /\ j \in 1 .. PageSize /\ j # 0 /\ j - 1 \in 0 .. PageSize /\ i <= j - 1
  BY <1>1, Pow2Is
<1>3. PageSize = 2 * Pow2[j - 1] /\ Pow2[j - 1] \in Nat \ {0}
  BY <1>1, <1>2, Pow2Is
<1>4. MinSize \in Nat \ {0} /\ MinSize <= Pow2[j - 1]
  BY <1>1, <1>2, Pow2Is, Pow2Grows
<1>5. PICK e : e = Pow2[j - 1]
  OBVIOUS
<1>6. e \in Nat \ {0} /\ (2 * e) \div 2 = e /\ 2 * e >= 2
  BY <1>3, <1>5
<1>7. PageSize \div 2 = e
  BY <1>3, <1>5, <1>6
<1> QED  BY <1>2, <1>3, <1>4, <1>5, <1>6, <1>7

\* The chunks that a request gets are at most half a page.
LEMMA ChunkFits ==
  ASSUME NEW size \in Request, ~IsLarge(size)
  PROVE  /\ ChunkFor(size) \in Nat \ {0} /\ ~IsLarge(ChunkFor(size))
         /\ ClassOf(size) = ChunkFor(size) /\ ChunkFor(size) \in ChunkClass
<1>1. size \in Nat \ {0}
  BY SlabSizes
<1>2. PICK j \in 1 .. PageSize : PageSize \div 2 = Pow2[j - 1]
  BY PageIs
<1>3. PICK c : c = ChunkFor(size)
  OBVIOUS
<1>4. PageSize \in Nat /\ PageSize >= 2 /\ PageSize \div 2 \in Nat /\ PageSize \div 2 <= PageSize
  BY PageIs
<1>5. size <= PageSize \div 2
  BY <1>1, <1>4 DEF IsLarge
<1>6. c \in Nat \ {0} /\ c <= PageSize \div 2
  <2>1. CASE size > MinSize
    <3>1. c = Pow2[Shift[size - 1]]
      BY <1>3, <2>1 DEF ChunkFor
    <3>2. size - 1 \in 0 .. PageSize /\ size - 1 < Pow2[j - 1] /\ j - 1 \in 0 .. PageSize
      BY <1>1, <1>2, <1>4, <1>5
    <3>3. j # 1
      <4>1. ASSUME j = 1 PROVE FALSE
        <5>1. Pow2[0] = 1
          BY <1>4, Pow2Is
        <5>2. MinSize \in Nat \ {0} /\ PageSize \div 2 = 1
          BY <1>2, <4>1, <5>1, PageIs
        <5> QED  BY <1>1, <1>5, <2>1, <5>2
      <4> QED  BY <4>1
    <3>4. j - 1 \in 1 .. PageSize
      BY <1>4, <3>3
    <3>5. Shift[size - 1] \in 1 .. j - 1
      BY <3>2, <3>4, ShiftIs
    <3>6. Shift[size - 1] \in 0 .. PageSize /\ Shift[size - 1] <= j - 1
      BY <1>4, <3>4, <3>5
    <3>7. Pow2[Shift[size - 1]] <= Pow2[j - 1] /\ Pow2[Shift[size - 1]] \in Nat \ {0}
      BY <3>2, <3>6, Pow2Grows, Pow2Is
    <3> QED  BY <1>2, <3>1, <3>7
  <2>2. CASE ~(size > MinSize)
    <3>1. c = MinSize
      BY <1>3, <2>2 DEF ChunkFor
    <3> QED  BY <3>1, PageIs
  <2> QED  BY <2>1, <2>2
<1>7. ~IsLarge(c)
  BY <1>4, <1>6 DEF IsLarge
<1>8. ClassOf(size) = c
  BY <1>3 DEF ClassOf
<1>9. c \in ChunkClass
  BY <1>7, <1>8 DEF ChunkClass, Class
<1> QED  BY <1>3, <1>6, <1>7, <1>8, <1>9

\* A block of pages is larger than half a page.
LEMMA PagesLarge == \A n \in Nat : n >= 1 => IsLarge(n * PageSize)
<1>1. PICK k, h : k = PageSize /\ h = PageSize \div 2
  OBVIOUS
<1>2. k \in Nat /\ h \in Nat /\ k = 2 * h /\ h > 0
  BY <1>1, PageIs
<1>3. ASSUME NEW n \in Nat, n >= 1 PROVE n * k > h
  <2>1. PICK e \in Nat : n = e + 1
    <3>1. n - 1 \in Nat /\ n = (n - 1) + 1
      BY <1>3
    <3> QED  BY <3>1
  <2>2. n * k = e * k + k /\ e * k \in Nat
    BY <1>2, <2>1
  <2> QED  BY <1>2, <2>2
<1> QED  BY <1>1, <1>3 DEF IsLarge

\* A request of more is rounded up to pages.
LEMMA LargeFits ==
  ASSUME NEW size \in Request, IsLarge(size)
  PROVE  /\ PagesFor(size) \in Nat \ {0} /\ IsLarge(PagesFor(size) * PageSize)
         /\ ClassOf(size) = PagesFor(size) * PageSize
         /\ ClassOf(size) \in Class
<1>1. size \in Nat \ {0}
  BY SlabSizes
<1>2. PICK k, d, m : k = PageSize /\ d = size \div PageSize /\ m = size % PageSize
  OBVIOUS
<1>3. k \in Nat /\ k > 0
  BY <1>2, PageIs
<1>4. d \in Nat /\ m \in Nat /\ size = k * d + m
  BY <1>1, <1>2, <1>3
<1>5. PICK n : n = d + (IF m # 0 THEN 1 ELSE 0)
  OBVIOUS
<1>6. n = PagesFor(size)
  BY <1>2, <1>5 DEF PagesFor
<1>7. n \in Nat \ {0}
  <2>1. d = 0 => k * d = 0
    BY <1>3
  <2>2. d = 0 => m # 0
    BY <1>1, <1>4, <2>1
  <2> QED  BY <1>4, <1>5, <2>2
<1>8. IsLarge(n * k)
  BY <1>2, <1>7, PagesLarge
<1>9. ClassOf(size) \in Class
  BY DEF Class
<1>10. ClassOf(size) = PagesFor(size) * PageSize
  BY DEF ClassOf
<1> QED  BY <1>2, <1>6, <1>7, <1>8, <1>9, <1>10

LEMMA Sizes ==
  /\ NPages \in Nat \ {0} /\ PageSize \in Nat /\ PageSize >= 2
  /\ \A c \in ChunkClass :
       /\ c \in Nat \ {0} /\ ~IsLarge(c)
       /\ Chunks(c) \in Nat /\ Reserved(c) \in Nat /\ Chunks(c) - Reserved(c) >= 2
<1>1. NPages \in Nat \ {0} /\ PageSize \in Nat /\ PageSize >= 2
  BY SlabSizes, PageIs
<1>2. ASSUME NEW c \in ChunkClass
      PROVE  /\ c \in Nat \ {0} /\ ~IsLarge(c)
             /\ Chunks(c) \in Nat /\ Reserved(c) \in Nat /\ Chunks(c) - Reserved(c) >= 2
  <2>1. PICK size \in Request : c = ClassOf(size) /\ ~IsLarge(c)
    BY DEF ChunkClass, Class
  <2>2. ~IsLarge(size)
    BY <2>1, LargeFits
  <2>3. c \in Nat \ {0}
    BY <2>1, <2>2, ChunkFits
  <2>4. Chunks(c) \in Nat
    BY <1>1, <2>3 DEF Chunks
  <2>5. Reserved(c) \in Nat
    <3>1. PICK k : k = Chunks(c)
      OBVIOUS
    <3>2. PICK e : e = 8 * c
      OBVIOUS
    <3>3. k \in Nat /\ e \in Nat \ {0} /\ k \div e \in Nat
      BY <2>3, <2>4, <3>1, <3>2
    <3> QED  BY <3>1, <3>2, <3>3 DEF Reserved
  <2> QED  BY <2>1, <2>3, <2>4, <2>5, ChunksLeft
<1> QED  BY <1>1, <1>2

LEMMA Nodes ==
  /\ Page \subseteq Node /\ Page \subseteq Nat /\ FreeHead \in Node /\ FreeHead \notin Page
  /\ Null \notin Node /\ Null \in Int /\ Node \subseteq Int
  /\ \A c \in ChunkClass : Slot(c) \in Node /\ Slot(c) \notin Page /\ Slot(c) # FreeHead
  /\ \A c, d \in ChunkClass : Slot(c) = Slot(d) => c = d
<1>1. NPages \in Nat /\ \A c \in ChunkClass : c \in Nat \ {0}
  BY Sizes
<1>2. \A c \in ChunkClass : Slot(c) \in Int /\ Slot(c) < 0
  BY <1>1 DEF Slot
<1>3. \A c, d \in ChunkClass : Slot(c) = Slot(d) => c = d
  BY <1>1 DEF Slot
<1>4. Page = 1 .. NPages /\ FreeHead = NPages + 1 /\ Null = 0
  BY DEF Page, FreeHead, Null
<1>5. Node = Page \cup {FreeHead} \cup {Slot(c) : c \in ChunkClass}
  BY DEF Node
<1> QED  BY <1>1, <1>2, <1>3, <1>4, <1>5

-----------------------------------------------------------------------------
(* Writes to the table *)

LEMMA UnlinkIs ==
  ASSUME NEW pg \in Table, NEW p \in Node, pg[p].prev.at \in Node, pg[p].next \in Node,
         NEW u, u = Unlink(pg, p)
  PROVE  /\ u \in Table
         /\ \A q \in Node :
              /\ u[q].slab = pg[q].slab
              /\ u[q].next = IF q = pg[p].prev.at THEN pg[p].next ELSE pg[q].next
              /\ u[q].prev = IF q = pg[p].next THEN pg[p].prev ELSE pg[q].prev
<1>1. PICK a : a = pg[p].prev.at
  OBVIOUS
<1>2. PICK b : b = pg[p].next
  OBVIOUS
<1>3. PICK l : l = pg[p].prev
  OBVIOUS
<1>4. a \in Node /\ b \in Node /\ b \in Int /\ l \in Link
  BY <1>1, <1>2, <1>3 DEF Table, Desc
<1>5. PICK v : v = [pg EXCEPT ![a].next = b]
  OBVIOUS
<1>6. /\ v \in Table
      /\ \A q \in Node : /\ v[q].slab = pg[q].slab /\ v[q].prev = pg[q].prev
                         /\ v[q].next = IF q = a THEN b ELSE pg[q].next
  BY <1>4, <1>5 DEF Table, Desc
<1>7. u = [v EXCEPT ![b].prev = l]
  BY <1>1, <1>2, <1>3, <1>5 DEF Unlink
<1>8. /\ u \in Table
      /\ \A q \in Node : /\ u[q].slab = v[q].slab /\ u[q].next = v[q].next
                         /\ u[q].prev = IF q = b THEN l ELSE v[q].prev
  BY <1>4, <1>6, <1>7 DEF Table, Desc
<1> QED  BY <1>1, <1>2, <1>3, <1>6, <1>8

LEMMA LinkFreeIs ==
  ASSUME NEW pg \in Table, NEW p \in Page, NEW b, b = pg[FreeHead].next, b \in Node, b # p,
         NEW u, u = LinkFree(pg, p)
  PROVE  /\ u \in Table
         /\ \A q \in Node :
              /\ u[q].slab = pg[q].slab
              /\ u[q].next = IF q = FreeHead THEN p ELSE IF q = p THEN b ELSE pg[q].next
              /\ u[q].prev = IF q = b THEN Untyped(p) ELSE IF q = p THEN Untyped(FreeHead)
                             ELSE pg[q].prev
<1>1. /\ p \in Node /\ p \in Int /\ b \in Int /\ FreeHead \in Node /\ FreeHead \in Int
      /\ FreeHead # p
  BY Nodes
<1>2. PICK x, y : x = Untyped(FreeHead) /\ y = Untyped(p)
  OBVIOUS
<1>3. x \in Link /\ y \in Link
  BY <1>1, <1>2 DEF Untyped, Link
<1>4. PICK v : v = [pg EXCEPT ![p].prev = x]
  OBVIOUS
<1>5. /\ v \in Table
      /\ \A q \in Node : /\ v[q].slab = pg[q].slab /\ v[q].next = pg[q].next
                         /\ v[q].prev = IF q = p THEN x ELSE pg[q].prev
  BY <1>1, <1>3, <1>4 DEF Table, Desc
<1>6. PICK w : w = [v EXCEPT ![p].next = b]
  OBVIOUS
<1>7. /\ w \in Table
      /\ \A q \in Node : /\ w[q].slab = v[q].slab /\ w[q].prev = v[q].prev
                         /\ w[q].next = IF q = p THEN b ELSE v[q].next
  BY <1>1, <1>5, <1>6 DEF Table, Desc
<1>8. PICK z : z = [w EXCEPT ![b].prev = y]
  OBVIOUS
<1>9. /\ z \in Table
      /\ \A q \in Node : /\ z[q].slab = w[q].slab /\ z[q].next = w[q].next
                         /\ z[q].prev = IF q = b THEN y ELSE w[q].prev
  BY <1>3, <1>7, <1>8 DEF Table, Desc
<1>10. u = [z EXCEPT ![FreeHead].next = p]
  BY <1>2, <1>4, <1>6, <1>8 DEF LinkFree
<1>11. /\ u \in Table
       /\ \A q \in Node : /\ u[q].slab = z[q].slab /\ u[q].prev = z[q].prev
                          /\ u[q].next = IF q = FreeHead THEN p ELSE z[q].next
  BY <1>1, <1>9, <1>10 DEF Table, Desc
<1> QED  BY <1>1, <1>2, <1>5, <1>7, <1>9, <1>11

LEMMA LinkSlotIs ==
  ASSUME NEW pg \in Table, NEW p \in Page, NEW c \in ChunkClass,
         NEW b, b = pg[Slot(c)].next, b \in Node, b # p,
         NEW u, u = LinkSlot(pg, p, c)
  PROVE  /\ u \in Table
         /\ \A q \in Node :
              /\ u[q].slab = pg[q].slab
              /\ u[q].next = IF q = Slot(c) THEN p ELSE IF q = p THEN b ELSE pg[q].next
              /\ u[q].prev = IF q = b THEN Typed(p, Tag(c))
                             ELSE IF q = p THEN Typed(Slot(c), Tag(c)) ELSE pg[q].prev
<1>1. /\ p \in Node /\ p \in Int /\ b \in Int /\ Slot(c) \in Node /\ Slot(c) \in Int
      /\ Slot(c) # p
  BY Nodes
<1>2. PICK x, y : x = Typed(Slot(c), Tag(c)) /\ y = Typed(p, Tag(c))
  OBVIOUS
<1>3. x \in Link /\ y \in Link
  BY <1>1, <1>2 DEF Typed, Link, Tag
<1>4. PICK h : h = Slot(c)
  OBVIOUS
<1>5. PICK v : v = [pg EXCEPT ![p].next = b]
  OBVIOUS
<1>6. /\ v \in Table
      /\ \A q \in Node : /\ v[q].slab = pg[q].slab /\ v[q].prev = pg[q].prev
                         /\ v[q].next = IF q = p THEN b ELSE pg[q].next
  BY <1>1, <1>5 DEF Table, Desc
<1>7. PICK w : w = [v EXCEPT ![p].prev = x]
  OBVIOUS
<1>8. /\ w \in Table
      /\ \A q \in Node : /\ w[q].slab = v[q].slab /\ w[q].next = v[q].next
                         /\ w[q].prev = IF q = p THEN x ELSE v[q].prev
  BY <1>1, <1>3, <1>6, <1>7 DEF Table, Desc
<1>9. PICK z : z = [w EXCEPT ![b].prev = y]
  OBVIOUS
<1>10. /\ z \in Table
       /\ \A q \in Node : /\ z[q].slab = w[q].slab /\ z[q].next = w[q].next
                          /\ z[q].prev = IF q = b THEN y ELSE w[q].prev
  BY <1>3, <1>8, <1>9 DEF Table, Desc
<1>11. u = [z EXCEPT ![h].next = p]
  BY <1>2, <1>4, <1>5, <1>7, <1>9 DEF LinkSlot
<1>12. /\ u \in Table
       /\ \A q \in Node : /\ u[q].slab = z[q].slab /\ u[q].prev = z[q].prev
                          /\ u[q].next = IF q = h THEN p ELSE z[q].next
  BY <1>1, <1>4, <1>10, <1>11 DEF Table, Desc
<1> QED  BY <1>1, <1>2, <1>4, <1>6, <1>8, <1>10, <1>12

\* A run that begins at p is cut after n pages.
LEMMA SplitRunIs ==
  ASSUME NEW pg \in Table, NEW p \in Page, NEW n \in Nat \ {0}, NEW m, m = pg[p].slab.n,
         n < m, p + m - 1 \in Page,
         NEW a, a = pg[p].prev.at, a \in Node, NEW b, b = pg[p].next, b \in Node,
         a # p + n, b # p + n,
         NEW u, u = SplitRun(pg, p, n)
  PROVE  /\ u \in Table
         /\ \A q \in Node :
              /\ u[q].slab = IF q = p + n THEN Length(m - n) ELSE pg[q].slab
              /\ u[q].next = IF q = a THEN p + n ELSE IF q = p + n THEN b ELSE pg[q].next
              /\ u[q].prev = IF q = b THEN Untyped(p + n)
                             ELSE IF q = p + n THEN pg[p].prev
                             ELSE IF q = p + m - 1 THEN Untyped(p + n) ELSE pg[q].prev
<1>1. /\ p \in Node /\ p \in Nat /\ m \in Nat /\ b \in Int
      /\ p + m - 1 \in Node
  BY Nodes DEF Table, Desc, Word
<1>2. PICK k : k = p + n
  OBVIOUS
<1>3. PICK l : l = p + m - 1
  OBVIOUS
<1>4. k \in Page /\ k \in Node /\ k \in Int /\ l \in Node /\ k # p
  <2>1. p + m - 1 <= NPages /\ NPages \in Nat /\ 1 <= p
    BY Sizes DEF Page
  <2>2. k \in Int /\ 1 <= k /\ k <= NPages /\ k # p
    BY <1>1, <1>2, <2>1
  <2>3. k \in Page
    BY <2>1, <2>2 DEF Page
  <2> QED  BY <1>1, <1>3, <2>2, <2>3, Nodes
<1>5. PICK x, y, s : x = Untyped(k) /\ y = pg[p].prev /\ s = Length(m - n)
  OBVIOUS
<1>6. x \in Link /\ y \in Link /\ s \in Word
  BY <1>1, <1>4, <1>5 DEF Untyped, Link, Table, Desc, Length, Word
<1>7. PICK t1 : t1 = [pg EXCEPT ![l].prev = x]
  OBVIOUS
<1>8. /\ t1 \in Table
      /\ \A q \in Node : /\ t1[q].slab = pg[q].slab /\ t1[q].next = pg[q].next
                         /\ t1[q].prev = IF q = l THEN x ELSE pg[q].prev
  BY <1>4, <1>6, <1>7 DEF Table, Desc
<1>9. PICK t2 : t2 = [t1 EXCEPT ![k].slab = s]
  OBVIOUS
<1>10. /\ t2 \in Table
       /\ \A q \in Node : /\ t2[q].prev = t1[q].prev /\ t2[q].next = t1[q].next
                          /\ t2[q].slab = IF q = k THEN s ELSE t1[q].slab
  BY <1>4, <1>6, <1>8, <1>9 DEF Table, Desc
<1>11. PICK t3 : t3 = [t2 EXCEPT ![k].next = b]
  OBVIOUS
<1>12. /\ t3 \in Table
       /\ \A q \in Node : /\ t3[q].prev = t2[q].prev /\ t3[q].slab = t2[q].slab
                          /\ t3[q].next = IF q = k THEN b ELSE t2[q].next
  BY <1>1, <1>4, <1>10, <1>11 DEF Table, Desc
<1>13. PICK t4 : t4 = [t3 EXCEPT ![k].prev = y]
  OBVIOUS
<1>14. /\ t4 \in Table
       /\ \A q \in Node : /\ t4[q].next = t3[q].next /\ t4[q].slab = t3[q].slab
                          /\ t4[q].prev = IF q = k THEN y ELSE t3[q].prev
  BY <1>4, <1>6, <1>12, <1>13 DEF Table, Desc
<1>15. PICK t5 : t5 = [t4 EXCEPT ![a].next = k]
  OBVIOUS
<1>16. /\ t5 \in Table
       /\ \A q \in Node : /\ t5[q].prev = t4[q].prev /\ t5[q].slab = t4[q].slab
                          /\ t5[q].next = IF q = a THEN k ELSE t4[q].next
  BY <1>4, <1>14, <1>15 DEF Table, Desc
<1>17. u = [t5 EXCEPT ![b].prev = x]
  BY <1>2, <1>3, <1>5, <1>7, <1>9, <1>11, <1>13, <1>15 DEF SplitRun
<1>18. /\ u \in Table
       /\ \A q \in Node : /\ u[q].next = t5[q].next /\ u[q].slab = t5[q].slab
                          /\ u[q].prev = IF q = b THEN x ELSE t5[q].prev
  BY <1>6, <1>16, <1>17 DEF Table, Desc
<1> QED  BY <1>2, <1>3, <1>5, <1>8, <1>10, <1>12, <1>14, <1>16, <1>18

-----------------------------------------------------------------------------
(* Runs *)

LEMMA Extent ==
  ASSUME NEW pg \in Table, Tiled(pg), NEW p \in Runs(pg) \cup Starts(pg)
  PROVE  /\ p \in Page /\ p \in Nat /\ p >= 1 /\ pg[p].slab.n \in Nat \ {0}
         /\ End(pg, p) \in Nat /\ End(pg, p) = p + pg[p].slab.n
         /\ p < End(pg, p) /\ End(pg, p) <= NPages + 1
         /\ \A q \in p + 1 .. End(pg, p) - 1 :
              /\ q \in Page /\ q \notin Runs(pg) /\ q \notin Starts(pg)
              /\ p \in Runs(pg) => pg[q].slab = PageFree
              /\ p \in Starts(pg) => pg[q].slab = Busy
              /\ pg[q].slab.tag # "bits"
<1>1. p \in Page /\ p \in Node
  BY Nodes DEF Runs, Starts
<1>2. pg[p].slab \in Word
  BY <1>1 DEF Table, Desc
<1>3. pg[p].slab.n \in Nat
  BY <1>2 DEF Word
<1>4. pg[p].slab.n > 0
  BY <1>3 DEF Runs, Starts, Tiled
<1>5. NPages \in Nat /\ p \in Nat /\ p >= 1
  BY <1>1, Sizes DEF Page
<1>6. End(pg, p) <= NPages + 1
  BY DEF Tiled
<1>7. End(pg, p) = p + pg[p].slab.n /\ End(pg, p) \in Nat /\ p < End(pg, p)
  BY <1>3, <1>4, <1>5 DEF End
<1>8. ASSUME NEW q \in p + 1 .. End(pg, p) - 1
      PROVE  /\ q \in Page /\ q \notin Runs(pg) /\ q \notin Starts(pg)
             /\ p \in Runs(pg) => pg[q].slab = PageFree
             /\ p \in Starts(pg) => pg[q].slab = Busy
             /\ pg[q].slab.tag # "bits"
  <2>1. q \in Page
    BY <1>5, <1>6, <1>7 DEF Page
  <2>2. /\ p \in Runs(pg) => pg[q].slab = PageFree
        /\ p \in Starts(pg) => pg[q].slab = Busy
    BY DEF Tiled
  <2>3. /\ PageFree.tag = "length" /\ PageFree.n = 0 /\ Busy.tag = "busy"
    BY DEF PageFree, Length, Busy
  <2>4. pg[q].slab = PageFree \/ pg[q].slab = Busy
    BY <2>2
  <2>5. q \notin Runs(pg) /\ q \notin Starts(pg) /\ pg[q].slab.tag # "bits"
    BY <2>3, <2>4 DEF Runs, Starts
  <2> QED  BY <2>1, <2>2, <2>5
<1> QED  BY <1>1, <1>3, <1>4, <1>5, <1>6, <1>7, <1>8

\* Two runs do not overlap, and no cut page lies in one.
LEMMA HeadsApart ==
  ASSUME NEW pg \in Table, Tiled(pg), NEW p \in Runs(pg) \cup Starts(pg),
         NEW q \in Page, q \in Runs(pg) \cup Starts(pg) \/ pg[q].slab.tag = "bits", p < q
  PROVE  End(pg, p) <= q
<1>1. p \in Nat /\ End(pg, p) \in Nat
  BY Extent
<1>2. q \in Nat
  BY Nodes
<1>3. q \notin p + 1 .. End(pg, p) - 1
  BY Extent
<1> QED  BY <1>1, <1>2, <1>3

\* From pg to t, the first n pages of the free run p are allocated.
Taken(pg, t, p, n) ==
    \A q \in Page :
        t[q].slab = IF q = p THEN Start(n) ELSE IF q \in p + 1 .. p + n - 1 THEN Busy
                    ELSE IF q = p + n /\ n < pg[p].slab.n THEN Length(pg[p].slab.n - n)
                    ELSE pg[q].slab

LEMMA TakenTiled ==
  ASSUME NEW pg \in Table, Tiled(pg), NEW p \in Runs(pg), NEW n \in 1 .. pg[p].slab.n,
         NEW t \in Table, Taken(pg, t, p, n)
  PROVE  /\ Tiled(t)
         /\ Runs(t) = (Runs(pg) \ {p}) \cup (IF n < pg[p].slab.n THEN {p + n} ELSE {})
         /\ Starts(t) = Starts(pg) \cup {p}
         /\ \A q \in (Runs(pg) \ {p}) \cup Starts(pg) :
              /\ End(t, q) = End(pg, q)
              /\ \A x \in q .. End(pg, q) - 1 : t[x].slab = pg[x].slab
         /\ End(t, p) = p + n
         /\ n < pg[p].slab.n => End(t, p + n) = End(pg, p)
<1>1. PICK m : m = pg[p].slab.n
  OBVIOUS
<1>2. PICK e : e = End(pg, p)
  OBVIOUS
<1>3. PICK k : k = p + n
  OBVIOUS
<1>4. /\ p \in Page /\ p \in Nat /\ p >= 1 /\ m \in Nat \ {0} /\ e \in Nat /\ e = p + m
      /\ p < e /\ e <= NPages + 1
      /\ \A q \in p + 1 .. e - 1 : q \in Page /\ q \notin Runs(pg) /\ q \notin Starts(pg)
                                   /\ pg[q].slab = PageFree
  BY <1>1, <1>2, Extent
<1>5. n \in Nat \ {0} /\ n <= m /\ k \in Nat /\ p < k /\ k <= e /\ (n < m <=> k < e)
      /\ (n < m => m - n \in Nat \ {0} /\ k + (m - n) = e)
  BY <1>1, <1>3, <1>4
<1>6. \A q \in Page :
        t[q].slab = IF q = p THEN Start(n) ELSE IF q \in p + 1 .. k - 1 THEN Busy
                    ELSE IF q = k /\ k < e THEN Length(m - n) ELSE pg[q].slab
  <2>1. \A q \in Page :
          t[q].slab = IF q = p THEN Start(n) ELSE IF q \in p + 1 .. p + n - 1 THEN Busy
                      ELSE IF q = p + n /\ n < pg[p].slab.n THEN Length(pg[p].slab.n - n)
                      ELSE pg[q].slab
    BY Zenon DEF Taken
  <2>2. \A q \in Page : q \in Nat
    BY Nodes
  <2>3. ASSUME NEW q \in Page
        PROVE  t[q].slab = IF q = p THEN Start(n) ELSE IF q \in p + 1 .. k - 1 THEN Busy
                           ELSE IF q = k /\ k < e THEN Length(m - n) ELSE pg[q].slab
    <3>1. CASE q = p
      BY <2>1, <3>1
    <3>2. CASE q # p /\ q \in p + 1 .. k - 1
      BY <1>3, <1>4, <1>5, <2>2, <2>1, <3>2
    <3>3. CASE q # p /\ q \notin p + 1 .. k - 1 /\ q = k /\ k < e
      <4>1. q = p + n /\ q \notin p + 1 .. p + n - 1 /\ n < pg[p].slab.n
        BY <1>1, <1>3, <1>4, <1>5, <3>3
      <4>2. t[q].slab = Length(pg[p].slab.n - n)
        BY <2>1, <3>3, <4>1
      <4> QED  BY <1>1, <3>3, <4>2
    <3>4. CASE q # p /\ q \notin p + 1 .. k - 1 /\ ~(q = k /\ k < e)
      <4>1. q \notin p + 1 .. p + n - 1 /\ ~(q = p + n /\ n < pg[p].slab.n)
        BY <1>1, <1>3, <1>4, <1>5, <2>2, <3>4
      <4> QED  BY <2>1, <3>4, <4>1
    <3> QED  BY <3>1, <3>2, <3>3, <3>4
  <2> QED  BY <2>3
<1>7. /\ Start(n).tag = "start" /\ Start(n).n = n /\ Busy.tag = "busy"
      /\ PageFree.tag = "length" /\ PageFree.n = 0
      /\ Length(m - n).tag = "length" /\ Length(m - n).n = m - n
  BY DEF Start, Busy, PageFree, Length
<1>8. NPages \in Nat /\ \A q \in Page : q \in Nat /\ q >= 1 /\ q <= NPages
  BY Sizes DEF Page
<1>9. k < e => k \in Page /\ k \in p + 1 .. e - 1
  BY <1>4, <1>5
<1>10. \A q \in p + 1 .. k - 1 : q \in p + 1 .. e - 1
  BY <1>4, <1>5
<1>11. \A q \in Runs(pg) \cup Starts(pg) : q \in Page
  BY DEF Runs, Starts
<1>12. ASSUME NEW q \in (Runs(pg) \ {p}) \cup Starts(pg)
       PROVE  /\ End(t, q) = End(pg, q) /\ q # p /\ t[q].slab = pg[q].slab
              /\ \A x \in q .. End(pg, q) - 1 : x \notin p .. e - 1 /\ x \in Page
                                                /\ t[x].slab = pg[x].slab
  <2>1. q \in Page /\ q \in Nat /\ End(pg, q) \in Nat /\ q < End(pg, q)
        /\ End(pg, q) <= NPages + 1 /\ q >= 1
    BY Extent
  <2>2. q # p
    BY DEF Runs, Starts
  <2>3. End(pg, q) <= p \/ e <= q
    <3>1. CASE q < p
      BY <1>4, <3>1, HeadsApart
    <3>2. CASE p < q
      BY <1>2, <2>1, <3>2, HeadsApart
    <3> QED  BY <1>4, <2>1, <2>2, <3>1, <3>2
  <2>4. \A x \in q .. End(pg, q) - 1 : x \in Nat /\ x \notin p .. e - 1 /\ x \in Page
    BY <1>4, <1>8, <2>1, <2>3 DEF Page
  <2>5. \A x \in q .. End(pg, q) - 1 : x # p /\ x \notin p + 1 .. k - 1 /\ ~(x = k /\ k < e)
    BY <1>4, <1>5, <2>4
  <2>6. \A x \in q .. End(pg, q) - 1 : t[x].slab = pg[x].slab
    BY <1>6, <2>4, <2>5
  <2>7. q \in q .. End(pg, q) - 1
    BY <2>1
  <2>8. t[q].slab = pg[q].slab
    BY <2>6, <2>7
  <2> QED  BY <2>2, <2>4, <2>6, <2>8 DEF End
<1>13. t[p].slab = Start(n) /\ End(t, p) = k
  BY <1>3, <1>4, <1>6, <1>7 DEF End
<1>14. k < e => t[k].slab = Length(m - n) /\ End(t, k) = e
  <2>1. k < e => t[k].slab = Length(m - n)
    BY <1>5, <1>6, <1>9
  <2> QED  BY <1>5, <1>7, <2>1 DEF End
<1>15. Runs(t) = (Runs(pg) \ {p}) \cup (IF k < e THEN {k} ELSE {})
  <2>1. ASSUME NEW q \in Runs(t) PROVE q \in (Runs(pg) \ {p}) \cup (IF k < e THEN {k} ELSE {})
    <3>1. q \in Page /\ t[q].slab.tag = "length" /\ t[q].slab.n > 0
      BY DEF Runs
    <3>2. q # p /\ q \notin p + 1 .. k - 1
      BY <1>6, <1>7, <3>1
    <3>3. (q = k /\ k < e) \/ t[q].slab = pg[q].slab
      BY <1>6, <3>1, <3>2
    <3> QED  BY <3>1, <3>2, <3>3 DEF Runs
  <2>2. ASSUME NEW q \in Runs(pg) \ {p} PROVE q \in Runs(t)
    BY <1>12 DEF Runs
  <2>3. k < e => k \in Runs(t)
    BY <1>5, <1>7, <1>9, <1>14 DEF Runs
  <2> QED  BY <2>1, <2>2, <2>3
<1>16. Starts(t) = Starts(pg) \cup {p}
  <2>1. ASSUME NEW q \in Starts(t) PROVE q \in Starts(pg) \cup {p}
    <3>1. q \in Page /\ t[q].slab.tag = "start"
      BY DEF Starts
    <3>2. q = p \/ t[q].slab = pg[q].slab
      BY <1>6, <1>7, <3>1
    <3> QED  BY <3>1, <3>2 DEF Starts
  <2>2. \A q \in Starts(pg) : q \in Starts(t)
    BY <1>12 DEF Starts
  <2>3. p \in Starts(t)
    BY <1>4, <1>7, <1>13 DEF Starts
  <2> QED  BY <2>1, <2>2, <2>3
<1>17. Tiled(t)
  <2>1. \A q \in Starts(t) : t[q].slab.n > 0
    <3>1. \A q \in Starts(pg) : t[q].slab.n > 0
      BY <1>12 DEF Tiled
    <3> QED  BY <1>5, <1>7, <1>13, <1>16, <3>1
  <2>2. \A q \in Runs(t) \cup Starts(t) : End(t, q) <= NPages + 1
    <3>1. \A q \in (Runs(pg) \ {p}) \cup Starts(pg) : End(t, q) <= NPages + 1
      BY <1>12 DEF Tiled
    <3> QED  BY <1>4, <1>5, <1>8, <1>13, <1>14, <1>15, <1>16, <3>1
  <2>3. ASSUME NEW x \in Runs(t), NEW q \in x + 1 .. End(t, x) - 1 PROVE t[q].slab = PageFree
    <3>1. CASE x \in Runs(pg) \ {p}
      <4>1. x \in Nat /\ q \in x + 1 .. End(pg, x) - 1
        BY <1>8, <1>11, <1>12, <3>1
      <4>2. q \in x .. End(pg, x) - 1 /\ pg[q].slab = PageFree
        BY <3>1, <4>1 DEF Tiled
      <4> QED  BY <1>12, <3>1, <4>2
    <3>2. CASE x = k /\ k < e
      <4>1. q \in k + 1 .. e - 1
        BY <1>14, <3>2
      <4>2. q \in p + 1 .. e - 1 /\ q \in Page /\ q # p /\ q # k /\ q \notin p + 1 .. k - 1
        BY <1>4, <1>5, <4>1
      <4> QED  BY <1>4, <1>6, <4>2
    <3> QED  BY <1>15, <3>1, <3>2
  <2>4. ASSUME NEW x \in Starts(t), NEW q \in x + 1 .. End(t, x) - 1 PROVE t[q].slab = Busy
    <3>1. CASE x \in Starts(pg)
      <4>1. x \in Nat /\ q \in x + 1 .. End(pg, x) - 1
        BY <1>8, <1>11, <1>12, <3>1
      <4>2. q \in x .. End(pg, x) - 1 /\ pg[q].slab = Busy
        BY <3>1, <4>1 DEF Tiled
      <4> QED  BY <1>12, <3>1, <4>2
    <3>2. CASE x = p
      <4>1. q \in p + 1 .. k - 1 /\ q # p
        BY <1>4, <1>13, <3>2
      <4>2. q \in Page
        BY <1>4, <1>10, <4>1
      <4> QED  BY <1>6, <4>1, <4>2
    <3> QED  BY <1>16, <3>1, <3>2
  <2>5. ASSUME NEW q \in Page, t[q].slab.tag = "length", t[q].slab.n = 0
        PROVE  \E x \in Runs(t) : x < q /\ q < End(t, x)
    <3>1. q # p /\ q \notin p + 1 .. k - 1 /\ ~(q = k /\ k < e)
      BY <1>5, <1>6, <1>7, <2>5
    <3>2. t[q].slab = pg[q].slab
      BY <1>6, <3>1
    <3>3. PICK x \in Runs(pg) : x < q /\ q < End(pg, x)
      BY <2>5, <3>2 DEF Tiled
    <3>4. CASE x = p
      <4>1. k < e /\ k < q /\ q < e
        <5>1. q \in Nat /\ p < q /\ q < e
          BY <1>2, <1>8, <3>3, <3>4
        <5>2. k <= q
          BY <1>4, <1>5, <3>1, <5>1
        <5>3. k < e
          BY <1>4, <1>5, <5>1, <5>2
        <5>4. q # k
          BY <3>1, <5>3
        <5> QED  BY <1>5, <5>1, <5>2, <5>3, <5>4
      <4> QED  BY <1>14, <1>15, <4>1
    <3>5. CASE x # p
      BY <1>12, <1>15, <3>3, <3>5
    <3> QED  BY <3>4, <3>5
  <2>6. ASSUME NEW q \in Page, t[q].slab.tag = "busy"
        PROVE  \E x \in Starts(t) : x < q /\ q < End(t, x)
    <3>1. CASE q \in p + 1 .. k - 1
      BY <1>4, <1>5, <1>13, <1>16, <3>1
    <3>2. CASE q \notin p + 1 .. k - 1
      <4>1. t[q].slab = pg[q].slab
        BY <1>6, <1>7, <2>6, <3>2
      <4>2. PICK x \in Starts(pg) : x < q /\ q < End(pg, x)
        BY <2>6, <4>1 DEF Tiled
      <4> QED  BY <1>12, <1>16, <4>2
    <3> QED  BY <3>1, <3>2
  <2> QED  BY <2>1, <2>2, <2>3, <2>4, <2>5, <2>6 DEF Tiled
<1> QED  BY <1>1, <1>2, <1>3, <1>5, <1>12, <1>13, <1>14, <1>15, <1>16, <1>17

-----------------------------------------------------------------------------
(* mps_slab_alloc_pages *)

LEMMA NullIsNone == \A S : S \subseteq Page => S \ {Null} = S
  BY Nodes

\* The neighbours of a free run in the list.
LEMMA Neighbours ==
  ASSUME NEW pg, NEW h, NEW S, Ring(pg, h, S), NEW p \in S
  PROVE  pg[p].prev.at \in S \cup {h} /\ pg[p].next \in S \cup {h}
  BY DEF Ring

LEMMA TakeIs ==
  ASSUME NEW pg, Kept(pg, Null), NEW p \in Runs(pg), NEW n \in 1 .. pg[p].slab.n,
         NEW t, t = TakePages(pg, p, n),
         NEW a, a = pg[p].prev.at, NEW b, b = pg[p].next,
         NEW k, k = p + n, NEW e, e = End(pg, p)
  PROVE  /\ t \in Table /\ Taken(pg, t, p, n)
         /\ \A q \in p .. k - 1 : t[q].next = Null /\ t[q].prev = Untyped(Null)
         /\ \A q \in Node \ (p .. k - 1) :
              /\ t[q].next = IF q = a THEN (IF k < e THEN k ELSE b)
                             ELSE IF q = k /\ k < e THEN b ELSE pg[q].next
              /\ t[q].prev = IF q = b THEN (IF k < e THEN Untyped(k) ELSE pg[p].prev)
                             ELSE IF q = k /\ k < e THEN pg[p].prev
                             ELSE IF q = e - 1 /\ k < e THEN Untyped(k) ELSE pg[q].prev
<1>1. /\ pg \in Table /\ Tiled(pg) /\ Ring(pg, FreeHead, Runs(pg))
  <2>1. Runs(pg) \ {Null} = Runs(pg)
    BY NullIsNone DEF Runs
  <2> QED  BY <2>1 DEF Kept
<1>2. /\ p \in Page /\ p \in Node /\ p \in Nat /\ p >= 1 /\ pg[p].slab.n \in Nat \ {0}
      /\ e \in Nat /\ e = p + pg[p].slab.n /\ e <= NPages + 1
      /\ \A q \in p + 1 .. e - 1 : q \in Page /\ q \notin Runs(pg)
  BY <1>1, Extent, Nodes
<1>3. PICK m : m = pg[p].slab.n
  OBVIOUS
<1>4. /\ n \in Nat \ {0} /\ n <= m /\ m \in Nat \ {0} /\ k \in Nat /\ p < k /\ k <= e
      /\ e = p + m /\ (n < m <=> k < e) /\ NPages \in Nat
  BY <1>2, <1>3, Sizes
<1>5. a \in Runs(pg) \cup {FreeHead} /\ b \in Runs(pg) \cup {FreeHead}
  BY <1>1, Neighbours
<1>6. a \in Node /\ b \in Node
  BY <1>5, Nodes DEF Runs
<1>7. PICK r : r = IF m > n THEN SplitRun(pg, p, n) ELSE Unlink(pg, p)
  OBVIOUS
<1>8. r \in Table /\ \A q \in Node :
        /\ r[q].slab = IF q = k /\ k < e THEN Length(m - n) ELSE pg[q].slab
        /\ r[q].next = IF q = a THEN (IF k < e THEN k ELSE b)
                       ELSE IF q = k /\ k < e THEN b ELSE pg[q].next
        /\ r[q].prev = IF q = b THEN (IF k < e THEN Untyped(k) ELSE pg[p].prev)
                       ELSE IF q = k /\ k < e THEN pg[p].prev
                       ELSE IF q = e - 1 /\ k < e THEN Untyped(k) ELSE pg[q].prev
  <2>1. CASE k < e
    <3>1. r = SplitRun(pg, p, n) /\ n < m
      BY <1>4, <1>7, <2>1
    <3>2. k \in p + 1 .. e - 1 /\ e - 1 \in p + 1 .. e - 1
      BY <1>2, <1>4, <2>1
    <3>3. k \notin Runs(pg) /\ k # FreeHead /\ e - 1 \in Page
      BY <1>2, <3>2, Nodes
    <3>4. a # p + n /\ b # p + n /\ p + m - 1 = e - 1 /\ p + m - 1 \in Page
      <4>1. a # k /\ b # k
        BY <1>5, <3>3
      <4>2. p + m - 1 = e - 1
        BY <1>2, <1>4
      <4> QED  BY <3>3, <4>1, <4>2
    <3>5. /\ r \in Table
          /\ \A q \in Node :
               /\ r[q].slab = IF q = p + n THEN Length(m - n) ELSE pg[q].slab
               /\ r[q].next = IF q = a THEN p + n ELSE IF q = p + n THEN b ELSE pg[q].next
               /\ r[q].prev = IF q = b THEN Untyped(p + n)
                              ELSE IF q = p + n THEN pg[p].prev
                              ELSE IF q = p + m - 1 THEN Untyped(p + n) ELSE pg[q].prev
      BY <1>1, <1>2, <1>3, <1>4, <1>6, <3>1, <3>4, SplitRunIs
    <3>6. /\ r \in Table
          /\ \A q \in Node :
               /\ r[q].slab = IF q = k THEN Length(m - n) ELSE pg[q].slab
               /\ r[q].next = IF q = a THEN k ELSE IF q = k THEN b ELSE pg[q].next
               /\ r[q].prev = IF q = b THEN Untyped(k)
                              ELSE IF q = k THEN pg[p].prev
                              ELSE IF q = e - 1 THEN Untyped(k) ELSE pg[q].prev
      BY <1>2, <1>4, <3>4, <3>5
    <3> QED  BY <2>1, <3>6
  <2>2. CASE ~(k < e)
    <3>1. r = Unlink(pg, p)
      BY <1>4, <1>7, <2>2
    <3>2. /\ r \in Table
          /\ \A q \in Node :
               /\ r[q].slab = pg[q].slab
               /\ r[q].next = IF q = a THEN b ELSE pg[q].next
               /\ r[q].prev = IF q = b THEN pg[p].prev ELSE pg[q].prev
      BY <1>1, <1>2, <1>6, <3>1, UnlinkIs
    <3> QED  BY <2>2, <3>2
  <2> QED  BY <2>1, <2>2
<1>9. PICK x, y : x = [Cleared EXCEPT !.slab = Start(n)] /\ y = [Cleared EXCEPT !.slab = Busy]
  OBVIOUS
<1>10. /\ x \in Desc /\ x.slab = Start(n) /\ x.next = Null /\ x.prev = Untyped(Null)
       /\ y \in Desc /\ y.slab = Busy /\ y.next = Null /\ y.prev = Untyped(Null)
  <2>1. Start(n) \in Word /\ Busy \in Word /\ Untyped(Null) \in Link /\ Null \in Int
    BY <1>4, Nodes DEF Start, Busy, Word, Untyped, Link
  <2> QED  BY <1>9, <2>1 DEF Cleared, Desc
<1>11. t = [q \in Node |-> IF q = p THEN x ELSE IF q \in p + 1 .. p + n - 1 THEN y ELSE r[q]]
  BY <1>3, <1>7, <1>9 DEF TakePages
<1>12. /\ t \in [Node -> Desc] /\ t[p] = x /\ \A q \in Node : q \in p + 1 .. k - 1 => t[q] = y
       /\ \A q \in Node \ (p .. k - 1) : t[q] = r[q]
  <2>1. \A q \in Node : q \in p + 1 .. p + n - 1 <=> q \in p + 1 .. k - 1
    BY <1>2, <1>4
  <2>2. r \in [Node -> Desc]
    BY <1>8 DEF Table
  <2>3. t \in [Node -> Desc]
    BY <1>10, <1>11, <2>2
  <2>4. p \notin p + 1 .. k - 1 /\ p \in p .. k - 1
    BY <1>2, <1>4
  <2>5. \A q \in Node : q \in p + 1 .. k - 1 => q \in p .. k - 1
    BY <1>2, <1>4
  <2>6. \A q \in Node : q \in p + 1 .. k - 1 => t[q] = y
    BY <1>11, <2>1, <2>4
  <2>7. \A q \in Node \ (p .. k - 1) : t[q] = r[q]
    BY <1>11, <2>1, <2>4, <2>5
  <2> QED  BY <1>2, <1>11, <2>3, <2>6, <2>7
<1>13. \A q \in p .. k - 1 : q \in Node /\ (q = p \/ q \in p + 1 .. k - 1)
  <2>1. \A q \in p .. k - 1 : q = p \/ q \in p + 1 .. k - 1
    BY <1>2, <1>4
  <2>2. \A q \in p + 1 .. k - 1 : q \in p + 1 .. e - 1
    BY <1>2, <1>4
  <2> QED  BY <1>2, <2>1, <2>2, Nodes
<1>14. Taken(pg, t, p, n)
  <2>1. \A q \in Page : q \in Node /\ q \in Nat
    BY Nodes
  <2>2. ASSUME NEW q \in Page
        PROVE  t[q].slab = IF q = p THEN Start(n) ELSE IF q \in p + 1 .. p + n - 1 THEN Busy
                           ELSE IF q = p + n /\ n < pg[p].slab.n THEN Length(pg[p].slab.n - n)
                           ELSE pg[q].slab
    <3>1. CASE q = p
      BY <1>10, <1>12, <3>1
    <3>2. CASE q # p /\ q \in p + 1 .. k - 1
      BY <1>2, <1>4, <1>10, <1>12, <2>1, <3>2
    <3>3. CASE q # p /\ q \notin p + 1 .. k - 1
      <4>1. q \notin p .. k - 1 /\ q \notin p + 1 .. p + n - 1
        BY <1>13, <1>2, <1>4, <2>1, <3>3
      <4>2. t[q].slab = IF q = k /\ k < e THEN Length(m - n) ELSE pg[q].slab
        BY <1>8, <1>12, <2>1, <4>1
      <4>3. q = k /\ k < e <=> q = p + n /\ n < pg[p].slab.n
        BY <1>3, <1>4
      <4>4. Length(m - n) = Length(pg[p].slab.n - n)
        BY <1>3
      <4> QED  BY <3>3, <4>1, <4>2, <4>3, <4>4
    <3> QED  BY <3>1, <3>2, <3>3
  <2> QED  BY <2>2 DEF Taken
<1>15. \A q \in p .. k - 1 : t[q].next = Null /\ t[q].prev = Untyped(Null)
  BY <1>10, <1>12, <1>13
<1> QED  BY <1>8, <1>12, <1>14, <1>15 DEF Table

\* A list never leads from a page to itself.
LEMMA NoLoop ==
  ASSUME NEW pg, NEW h, NEW S, Ring(pg, h, S), h \notin S, NEW p \in S
  PROVE  pg[p].next # p /\ pg[p].prev.at # p
<1>1. PICK r \in [S -> Nat] :
        \A q \in S :
          /\ pg[q].prev.at \in S \cup {h} /\ pg[pg[q].prev.at].next = q
          /\ pg[q].next \in S => r[q] < r[pg[q].next]
  BY DEF Ring
<1>2. \A q \in S : r[q] \in Nat
  OBVIOUS
<1>3. pg[p].next # p
  BY <1>1, <1>2
<1>4. pg[p].prev.at # p
  BY <1>1, <1>3
<1> QED  BY <1>3, <1>4

LEMMA TakeKept ==
  ASSUME NEW pg, Kept(pg, Null), NEW p \in Runs(pg), NEW n \in 1 .. pg[p].slab.n,
         NEW t, t = TakePages(pg, p, n)
  PROVE  /\ Kept(t, Null)
         /\ t[p].next = Null /\ t[p].prev = Untyped(Null)
         /\ \A c \in ChunkClass : t[Slot(c)].next = pg[Slot(c)].next
<1>1. PICK a, b, k, e, m :
        a = pg[p].prev.at /\ b = pg[p].next /\ k = p + n /\ e = End(pg, p) /\ m = pg[p].slab.n
  OBVIOUS
<1>2. /\ pg \in Table /\ Tiled(pg) /\ CutSound(pg) /\ Ring(pg, FreeHead, Runs(pg))
      /\ \A c \in ChunkClass : Ring(pg, Slot(c), Open(pg, c))
      /\ Runs(pg) \subseteq Page /\ Runs(pg) \ {Null} = Runs(pg)
  <2>1. Runs(pg) \subseteq Page
    BY DEF Runs
  <2>2. Runs(pg) \ {Null} = Runs(pg)
    BY <2>1, NullIsNone
  <2> QED  BY <2>1, <2>2 DEF Kept
<1>3. /\ p \in Page /\ p \in Node /\ p \in Nat /\ p >= 1 /\ m \in Nat \ {0}
      /\ e \in Nat /\ e = p + m /\ e <= NPages + 1
      /\ \A q \in p + 1 .. e - 1 : /\ q \in Page /\ q \notin Runs(pg) /\ q \notin Starts(pg)
                                   /\ pg[q].slab = PageFree /\ pg[q].slab.tag # "bits"
  BY <1>1, <1>2, Extent, Nodes
<1>4. /\ n \in Nat \ {0} /\ n <= m /\ k \in Nat /\ p < k /\ k <= e /\ (n < m <=> k < e)
      /\ NPages \in Nat
  BY <1>1, <1>3, Sizes
<1>5. a \in Runs(pg) \cup {FreeHead} /\ b \in Runs(pg) \cup {FreeHead}
  BY <1>1, <1>2, Neighbours
<1>6. a \in Node /\ b \in Node
  BY <1>2, <1>5, Nodes
<1>7. t \in Table /\ Taken(pg, t, p, n)
  BY <1>1, TakeIs
<1>8. \A q \in p .. k - 1 : t[q].next = Null /\ t[q].prev = Untyped(Null)
  BY <1>1, TakeIs
<1>9. \A q \in Node \ (p .. k - 1) :
        /\ t[q].next = IF q = a THEN (IF k < e THEN k ELSE b)
                       ELSE IF q = k /\ k < e THEN b ELSE pg[q].next
        /\ t[q].prev = IF q = b THEN (IF k < e THEN Untyped(k) ELSE pg[p].prev)
                       ELSE IF q = k /\ k < e THEN pg[p].prev
                       ELSE IF q = e - 1 /\ k < e THEN Untyped(k) ELSE pg[q].prev
  BY <1>1, TakeIs
<1>10. /\ Tiled(t)
       /\ Runs(t) = (Runs(pg) \ {p}) \cup (IF k < e THEN {k} ELSE {})
       /\ Starts(t) = Starts(pg) \cup {p}
       /\ \A q \in (Runs(pg) \ {p}) \cup Starts(pg) :
            /\ End(t, q) = End(pg, q)
            /\ \A x \in q .. End(pg, q) - 1 : t[x].slab = pg[x].slab
       /\ End(t, p) = k /\ (k < e => End(t, k) = e)
  <2>1. /\ Tiled(t)
        /\ Runs(t) = (Runs(pg) \ {p}) \cup (IF n < pg[p].slab.n THEN {p + n} ELSE {})
        /\ Starts(t) = Starts(pg) \cup {p}
        /\ \A q \in (Runs(pg) \ {p}) \cup Starts(pg) :
             /\ End(t, q) = End(pg, q)
             /\ \A x \in q .. End(pg, q) - 1 : t[x].slab = pg[x].slab
        /\ End(t, p) = p + n
        /\ n < pg[p].slab.n => End(t, p + n) = End(pg, p)
    BY <1>2, <1>7, TakenTiled
  <2>2. n < pg[p].slab.n <=> k < e
    BY <1>1, <1>4
  <2>3. (IF n < pg[p].slab.n THEN {p + n} ELSE {}) = (IF k < e THEN {k} ELSE {})
    BY <1>1, <2>2
  <2> QED  BY <1>1, <2>1, <2>2, <2>3
<1>11. \A q \in Page :
         /\ q = p => t[q].slab = Start(n)
         /\ q \in p + 1 .. k - 1 => t[q].slab = Busy
         /\ q = k /\ k < e => t[q].slab = Length(e - k)
         /\ q \notin p .. k - 1 /\ ~(q = k /\ k < e) => t[q].slab = pg[q].slab
  <2>1. ASSUME NEW q \in Page
        PROVE  t[q].slab = IF q = p THEN Start(n) ELSE IF q \in p + 1 .. p + n - 1 THEN Busy
                           ELSE IF q = p + n /\ n < pg[p].slab.n THEN Length(pg[p].slab.n - n)
                           ELSE pg[q].slab
    BY <1>7 DEF Taken
  <2>2. \A q \in Page : q \in Nat
    BY Nodes
  <2>3. pg[p].slab.n - n = e - k
    BY <1>1, <1>3, <1>4
  <2>4. ASSUME NEW q \in Page
        PROVE  /\ q = p => t[q].slab = Start(n)
               /\ q \in p + 1 .. k - 1 => t[q].slab = Busy
               /\ q = k /\ k < e => t[q].slab = Length(e - k)
               /\ q \notin p .. k - 1 /\ ~(q = k /\ k < e) => t[q].slab = pg[q].slab
    <3>1. q \in p + 1 .. k - 1 <=> q \in p + 1 .. p + n - 1
      BY <1>1, <1>3, <1>4, <2>2
    <3>2. q = k /\ k < e <=> q = p + n /\ n < pg[p].slab.n
      BY <1>1, <1>4
    <3>3. p \notin p + 1 .. k - 1 /\ k \notin p + 1 .. k - 1 /\ k # p
          /\ (q \notin p .. k - 1 => q # p /\ q \notin p + 1 .. k - 1)
      BY <1>3, <1>4, <2>2
    <3>4. t[q].slab = IF q = p THEN Start(n) ELSE IF q \in p + 1 .. k - 1 THEN Busy
                      ELSE IF q = k /\ k < e THEN Length(e - k) ELSE pg[q].slab
      BY <2>1, <2>3, <3>1, <3>2
    <3> QED  BY <3>3, <3>4
  <2> QED  BY <2>4
<1>12. \A q \in Page : q \notin p .. e - 1 =>
         t[q].slab = pg[q].slab /\ q \notin p .. k - 1 /\ ~(q = k /\ k < e)
  <2>1. ASSUME NEW q \in Page, q \notin p .. e - 1
        PROVE  q \notin p .. k - 1 /\ ~(q = k /\ k < e)
    <3>1. q \in Nat
      BY Nodes
    <3> QED  BY <1>3, <1>4, <2>1, <3>1
  <2> QED  BY <1>11, <2>1
<1>13. FreeHead \notin Page /\ \A q \in Page : q \in Nat /\ q \in Node
  BY Nodes
<1>14. \A q \in p .. e - 1 : q = p \/ q \in p + 1 .. e - 1
  BY <1>3
<1>15. a # p /\ b # p
  BY <1>1, <1>2, <1>13, NoLoop
<1>16. \A q \in p .. e - 1 : q # a /\ q # b /\ q \in Page
  BY <1>2, <1>3, <1>5, <1>13, <1>14, <1>15
<1>17. \A q \in Node : q \notin p .. e - 1 /\ q \notin Runs(pg) /\ q # FreeHead =>
         t[q].next = pg[q].next /\ t[q].prev = pg[q].prev
  <2>1. ASSUME NEW q \in Node, q \notin p .. e - 1, q \notin Runs(pg), q # FreeHead
        PROVE  t[q].next = pg[q].next /\ t[q].prev = pg[q].prev
    <3>1. q # a /\ q # b
      BY <1>5, <2>1
    <3>2. q \in Int
      BY Nodes
    <3>3. q \notin p .. k - 1 /\ ~(q = k /\ k < e) /\ ~(q = e - 1 /\ k < e)
      BY <1>3, <1>4, <2>1, <3>2
    <3> QED  BY <1>9, <3>1, <3>3
  <2> QED  BY <2>1
<1>18. \A c : Cut(t, c) = Cut(pg, c) /\ Open(t, c) = Open(pg, c)
  <2>1. /\ Start(n).tag # "bits" /\ Busy.tag # "bits" /\ Length(e - k).tag # "bits"
        /\ PageFree.tag # "bits"
    BY DEF Start, Busy, Length, PageFree
  <2>2. \A q \in Page : q \in p .. e - 1 => pg[q].slab.tag # "bits"
    BY <1>3, <1>14 DEF Runs
  <2>3. \A q \in Page : q \in p .. e - 1 => t[q].slab.tag # "bits"
    <3>1. ASSUME NEW q \in Page, q \in p .. e - 1 PROVE t[q].slab.tag # "bits"
      <4>1. q = p \/ q \in p + 1 .. k - 1 \/ (q = k /\ k < e)
            \/ (q \notin p .. k - 1 /\ ~(q = k /\ k < e))
        BY <1>3, <1>4, <1>13, <3>1
      <4> QED  BY <1>11, <2>1, <2>2, <3>1, <4>1
    <3> QED  BY <3>1
  <2>4. \A q \in Page : t[q].slab = pg[q].slab
                        \/ (t[q].slab.tag # "bits" /\ pg[q].slab.tag # "bits")
    BY <1>12, <2>2, <2>3
  <2> QED  BY <2>4 DEF Cut, Open
<1>19. CutSound(t)
  <2>1. \A q \in Page : t[q].slab.tag = "bits" => t[q].slab = pg[q].slab
    <3>1. ASSUME NEW q \in Page, t[q].slab.tag = "bits" PROVE t[q].slab = pg[q].slab
      <4>1. q \in Cut(t, t[q].slab.n)
        BY <3>1 DEF Cut
      <4>2. q \in Cut(pg, t[q].slab.n)
        BY <1>18, <4>1
      <4>3. pg[q].slab.tag = "bits"
        BY <4>2 DEF Cut
      <4>4. q \notin p .. e - 1
        BY <1>3, <1>14, <4>3 DEF Runs
      <4> QED  BY <1>12, <4>4
    <3> QED  BY <3>1
  <2> QED  BY <1>2, <2>1 DEF CutSound
<1>20. ASSUME NEW q \in (Runs(pg) \ {p}) \cup {FreeHead}
       PROVE  /\ q \in Node /\ q \notin p .. e - 1
              /\ t[q].next = IF q = a THEN (IF k < e THEN k ELSE b) ELSE pg[q].next
              /\ t[q].prev = IF q = b THEN (IF k < e THEN Untyped(k) ELSE pg[p].prev)
                             ELSE pg[q].prev
  <2>1. q \in Node /\ q \in Int
    BY <1>2, <1>13, Nodes
  <2>2. q \notin p .. e - 1
    BY <1>3, <1>13, <1>14
  <2>3. q \notin p .. k - 1 /\ ~(q = k /\ k < e) /\ ~(q = e - 1 /\ k < e)
    BY <1>3, <1>4, <2>1, <2>2
  <2> QED  BY <1>9, <2>1, <2>2, <2>3
<1>21. Ring(t, FreeHead, Runs(t))
  <2>1. \A q : Untyped(q).at = q
    BY DEF Untyped
  <2>2. CASE k < e
    <3>1. k \in p + 1 .. e - 1
      BY <1>3, <1>4, <2>2
    <3>2. k \notin Runs(pg) /\ k # FreeHead /\ k \in Node /\ k # a /\ k # b /\ k \notin p .. k - 1
      <4>1. k \in p .. e - 1 /\ k \notin p .. k - 1
        BY <1>3, <1>4, <2>2
      <4> QED  BY <1>3, <1>13, <1>16, <3>1, <4>1
    <3>3. t[k].next = b /\ t[k].prev.at = a
      BY <1>1, <1>9, <2>2, <3>2
    <3>4. \A q \in (Runs(pg) \ {p}) \cup {FreeHead} :
            /\ t[q].next = IF q = pg[p].prev.at THEN k ELSE pg[q].next
            /\ t[q].prev.at = IF q = pg[p].next THEN k ELSE pg[q].prev.at
      BY <1>1, <1>20, <2>1, <2>2
    <3>5. FreeHead \notin Runs(pg)
      BY <1>2, <1>13
    <3>6. Ring(t, FreeHead, (Runs(pg) \ {p}) \cup {k})
      BY <1>1, <1>2, <3>2, <3>3, <3>4, <3>5, RingReplace
    <3> QED  BY <1>10, <2>2, <3>6
  <2>3. CASE ~(k < e)
    <3>1. \A q \in (Runs(pg) \ {p}) \cup {FreeHead} :
            /\ t[q].next = IF q = pg[p].prev.at THEN pg[p].next ELSE pg[q].next
            /\ t[q].prev.at = IF q = pg[p].next THEN pg[p].prev.at ELSE pg[q].prev.at
      BY <1>1, <1>20, <2>3
    <3>2. FreeHead \notin Runs(pg)
      BY <1>2, <1>13
    <3>3. Ring(t, FreeHead, Runs(pg) \ {p})
      BY <1>2, <3>1, <3>2, RingRemove
    <3>4. Runs(t) = Runs(pg) \ {p}
      BY <1>10, <2>3
    <3> QED  BY <3>3, <3>4
  <2> QED  BY <2>2, <2>3
<1>22. ASSUME NEW c \in ChunkClass
       PROVE  Ring(t, Slot(c), Open(t, c)) /\ t[Slot(c)].next = pg[Slot(c)].next
  <2>1. \A q \in Open(pg, c) : q \in Page /\ pg[q].slab.tag = "bits"
    BY DEF Open, Cut
  <2>2. \A q \in Open(pg, c) : q \notin p .. e - 1 /\ q \notin Runs(pg) /\ q # FreeHead
    BY <1>3, <1>13, <1>14, <2>1 DEF Runs
  <2>3. Slot(c) \in Node /\ Slot(c) \notin Page /\ Slot(c) # FreeHead
    BY Nodes
  <2>4. Slot(c) \notin p .. e - 1 /\ Slot(c) \notin Runs(pg)
    BY <1>2, <1>16, <2>3
  <2>5. \A q \in Open(pg, c) : t[q].next = pg[q].next /\ t[q].prev.at = pg[q].prev.at
    BY <1>13, <1>17, <2>1, <2>2
  <2>6. t[Slot(c)].next = pg[Slot(c)].next
    BY <1>17, <2>3, <2>4
  <2>7. Ring(pg, Slot(c), Open(pg, c))
    BY <1>2
  <2>8. Ring(t, Slot(c), Open(pg, c))
    BY <2>5, <2>6, <2>7, RingFrame
  <2> QED  BY <1>18, <2>6, <2>8
<1>23. Types(t, Null)
  <2>1. \A q \in Page : pg[q].slab.tag # "bits" => pg[q].prev.type = "PAGE"
    BY <1>2, NullIsNone DEF Kept, Types
  <2>2. \A q \in Page : pg[q].slab.tag = "bits" => pg[q].prev.type = Tag(pg[q].slab.n)
    BY <1>2, NullIsNone DEF Kept, Types
  <2>3. \A q : Untyped(q).type = "PAGE"
    BY DEF Untyped
  <2>4. pg[p].slab.tag # "bits" /\ pg[p].prev.type = "PAGE"
    BY <1>3, <2>1 DEF Runs
  <2>5. ASSUME NEW q \in Page, t[q].slab.tag = "bits" PROVE t[q].prev.type = Tag(t[q].slab.n)
    <3>1. q \in Cut(t, t[q].slab.n) /\ q \in Cut(pg, t[q].slab.n)
      BY <1>18, <2>5 DEF Cut
    <3>2. pg[q].slab.tag = "bits" /\ pg[q].slab.n = t[q].slab.n
      BY <3>1 DEF Cut
    <3>3. q \notin Runs(pg) /\ q \notin p .. e - 1 /\ q # FreeHead
      BY <1>3, <1>13, <1>14, <3>2 DEF Runs
    <3>4. t[q].prev = pg[q].prev
      BY <1>13, <1>17, <3>3
    <3> QED  BY <2>2, <3>2, <3>4
  <2>6. ASSUME NEW q \in Page, t[q].slab.tag # "bits" PROVE t[q].prev.type = "PAGE"
    <3>1. CASE q \in p .. k - 1
      BY <1>8, <2>3, <3>1
    <3>2. CASE q \notin p .. k - 1
      <4>1. pg[q].slab.tag # "bits"
        <5>1. q \notin Cut(t, pg[q].slab.n)
          BY <2>6 DEF Cut
        <5>2. q \notin Cut(pg, pg[q].slab.n)
          BY <1>18, <5>1
        <5> QED  BY <5>2 DEF Cut
      <4>2. pg[q].prev.type = "PAGE"
        BY <2>1, <4>1
      <4> QED  BY <1>9, <1>13, <2>3, <2>4, <3>2, <4>2
    <3> QED  BY <3>1, <3>2
  <2> QED  BY <2>5, <2>6 DEF Types
<1>24. Unlisted(t, Null)
  <2>1. \A q \in Page : q \notin Runs(pg) /\ q \notin Open(pg, pg[q].slab.n)
          => pg[q].next = Null
    BY NullIsNone DEF Kept, Unlisted
  <2>2. ASSUME NEW q \in Page, q \notin Runs(t), q \notin Open(t, t[q].slab.n)
        PROVE  t[q].next = Null
    <3>1. CASE q \in p .. k - 1
      BY <1>8, <3>1
    <3>2. CASE q \notin p .. k - 1 /\ q \in p .. e - 1
      <4>1. k < e => k \in Runs(t)
        BY <1>10
      <4>2. q # k
        BY <1>3, <1>4, <1>13, <2>2, <3>2, <4>1
      <4>3. q \in p + 1 .. e - 1 /\ q # a
        BY <1>3, <1>4, <1>13, <1>16, <3>2
      <4>4. pg[q].slab = PageFree /\ q \notin Runs(pg)
        BY <1>3, <4>3
      <4>5. q \notin Open(pg, pg[q].slab.n)
        BY <1>3, <4>3 DEF Open, Cut
      <4>6. pg[q].next = Null
        BY <2>1, <4>4, <4>5
      <4> QED  BY <1>9, <1>13, <3>2, <4>2, <4>3, <4>6
    <3>3. CASE q \notin p .. e - 1
      <4>1. q \notin Runs(pg) /\ q # FreeHead
        BY <1>10, <1>13, <1>3, <1>4, <2>2, <3>3
      <4>2. t[q].slab = pg[q].slab
        BY <1>12, <3>3
      <4>3. q \notin Open(pg, pg[q].slab.n)
        BY <1>18, <2>2, <4>2
      <4> QED  BY <1>13, <1>17, <2>1, <3>3, <4>1, <4>3
    <3> QED  BY <3>1, <3>2, <3>3
  <2> QED  BY <2>2 DEF Unlisted
<1>25. ASSUME NEW x \in Runs(pg) \ {p}
       PROVE  /\ x \in Page /\ x \in Nat /\ End(pg, x) \in Nat /\ x < End(pg, x)
              /\ End(t, x) = End(pg, x) /\ t[x].slab = pg[x].slab
              /\ End(pg, x) <= p \/ e <= x
  <2>1. x \in Page /\ x \in Nat /\ End(pg, x) \in Nat /\ x < End(pg, x)
    BY <1>2, Extent
  <2>2. x \in x .. End(pg, x) - 1
    BY <2>1
  <2>3. End(t, x) = End(pg, x) /\ t[x].slab = pg[x].slab
    BY <1>10, <2>2
  <2>4. End(pg, x) <= p \/ e <= x
    <3>1. CASE x < p
      BY <1>2, <1>3, <3>1, HeadsApart
    <3>2. CASE p < x
      BY <1>1, <1>2, <1>3, <2>1, <3>2, HeadsApart
    <3> QED  BY <1>3, <2>1, <3>1, <3>2
  <2> QED  BY <2>1, <2>3, <2>4
<1>26. Lasts(t, Null)
  <2>1. ASSUME NEW x \in Runs(t), t[x].slab.n > 1, End(t, x) <= NPages
        PROVE  t[End(t, x) - 1].prev.at = x
    <3>1. CASE x \in Runs(pg) \ {p}
      <4>1. PICK y : y = End(pg, x) - 1
        OBVIOUS
      <4>2. x \in Runs(pg) /\ pg[x].slab.n > 1 /\ End(pg, x) <= NPages
        BY <1>25, <2>1, <3>1
      <4>3. pg[y].prev.at = x
        BY <1>2, <4>1, <4>2 DEF Kept, Lasts
      <4>4. End(pg, x) = x + pg[x].slab.n /\ pg[x].slab.n \in Nat
        BY <1>2, <4>2, Extent
      <4>5. x \in Nat /\ End(pg, x) \in Nat /\ x < End(pg, x)
        BY <1>25, <3>1
      <4>6. y \in x + 1 .. End(pg, x) - 1
        BY <4>1, <4>2, <4>4, <4>5
      <4>7. y \in Page /\ y \notin Runs(pg)
        BY <1>2, <4>2, <4>6, Extent
      <4>8. y \notin p .. e - 1
        <5>1. End(pg, x) <= p \/ e <= x
          BY <1>25, <3>1
        <5> QED  BY <1>3, <4>1, <4>5, <4>6, <5>1
      <4>9. t[y].prev = pg[y].prev
        BY <1>13, <1>17, <4>7, <4>8
      <4>10. End(t, x) = End(pg, x)
        BY <1>25, <3>1
      <4> QED  BY <4>1, <4>3, <4>9, <4>10
    <3>2. CASE x = k /\ k < e
      <4>1. k \in Page /\ k \notin p .. k - 1
        BY <1>3, <1>4, <1>16, <3>2
      <4>2. t[k].slab = Length(e - k)
        BY <1>11, <3>2, <4>1
      <4>3. e - k > 1
        BY <2>1, <3>2, <4>2 DEF Length
      <4>4. e - 1 \in p .. e - 1 /\ e - 1 \notin p .. k - 1 /\ e - 1 # k
        BY <1>3, <1>4, <4>3
      <4>5. e - 1 # b /\ e - 1 \in Node
        BY <1>13, <1>16, <4>4
      <4>6. t[e - 1].prev = Untyped(k)
        BY <1>9, <3>2, <4>4, <4>5
      <4> QED  BY <1>10, <3>2, <4>6 DEF Untyped
    <3> QED  BY <1>10, <3>1, <3>2
  <2> QED  BY <2>1 DEF Lasts
<1>27. Apart(t, Null)
  <2>1. ASSUME NEW x \in Runs(t), NEW y \in Runs(t), End(t, x) = y PROVE FALSE
    <3>1. \A v, w \in Runs(pg) : End(pg, v) # w
      BY <1>2 DEF Kept, Apart
    <3>2. CASE x = k /\ k < e
      <4>1. y = e
        BY <1>10, <2>1, <3>2
      <4>2. y # k
        BY <3>2, <4>1, <1>3, <1>4
      <4>3. y \in Runs(pg)
        BY <1>10, <4>2
      <4> QED  BY <1>1, <3>1, <4>1, <4>3
    <3>3. CASE x \in Runs(pg) \ {p} /\ y = k /\ k < e
      <4>1. /\ x \in Nat /\ End(pg, x) \in Nat /\ x < End(pg, x)
            /\ End(t, x) = End(pg, x)
            /\ End(pg, x) <= p \/ e <= x
        BY <1>25, <3>3
      <4> QED  BY <1>3, <1>4, <2>1, <3>3, <4>1
    <3>4. CASE x \in Runs(pg) \ {p} /\ y \in Runs(pg) \ {p}
      BY <1>25, <2>1, <3>1, <3>4
    <3> QED  BY <1>10, <3>2, <3>3, <3>4
  <2> QED  BY <2>1 DEF Apart
<1>28. t[p].next = Null /\ t[p].prev = Untyped(Null)
  <2>1. p \in p .. k - 1
    BY <1>3, <1>4
  <2> QED  BY <1>8, <2>1
<1>29. Runs(t) \ {Null} = Runs(t)
  <2>1. Runs(t) \subseteq Page
    BY DEF Runs
  <2> QED  BY <2>1, NullIsNone
<1> QED  BY <1>7, <1>10, <1>19, <1>21, <1>22, <1>23, <1>24, <1>27, <1>28, <1>29, <1>26
         DEF Kept


-----------------------------------------------------------------------------
(* mps_slab_free_pages *)

\* From pg to u, the n pages at p become one free run.
Blanked(pg, u, p, n) ==
    \A q \in Page :
        u[q].slab = IF q = p THEN Length(n) ELSE IF q \in p + 1 .. p + n - 1 THEN PageFree
                    ELSE pg[q].slab

\* The pages p .. p + n - 1 are one allocated run, or one cut page.
OneBlock(pg, p, n) ==
    \/ p \in Starts(pg) /\ n = pg[p].slab.n
    \/ n = 1 /\ p \in Page /\ pg[p].slab.tag = "bits"

LEMMA BlockExtent ==
  ASSUME NEW pg \in Table, Tiled(pg), NEW p, NEW n, OneBlock(pg, p, n)
  PROVE  /\ p \in Page /\ p \in Nat /\ p >= 1 /\ n \in Nat \ {0} /\ p + n <= NPages + 1
         /\ \A q \in p + 1 .. p + n - 1 : q \in Page /\ pg[q].slab = Busy
         /\ pg[p].slab.tag # "length" /\ p \notin Runs(pg)
         /\ \A x \in Runs(pg) \cup (Starts(pg) \ {p}) : End(pg, x) <= p \/ p + n <= x
<1>1. NPages \in Nat /\ \A q \in Page : q \in Nat /\ q >= 1 /\ q <= NPages
  BY Sizes DEF Page
<1>2. CASE p \in Starts(pg) /\ n = pg[p].slab.n
  <2>1. /\ p \in Page /\ p \in Nat /\ p >= 1 /\ n \in Nat \ {0}
        /\ End(pg, p) = p + n /\ p + n <= NPages + 1
        /\ \A q \in p + 1 .. p + n - 1 : q \in Page /\ pg[q].slab = Busy
    BY <1>2, Extent
  <2>2. pg[p].slab.tag # "length" /\ p \notin Runs(pg)
    BY <1>2 DEF Starts, Runs
  <2>3. ASSUME NEW x \in Runs(pg) \cup (Starts(pg) \ {p})
        PROVE  End(pg, x) <= p \/ p + n <= x
    <3>1. x \in Page /\ x \in Nat /\ x # p
      BY <1>1, <2>2 DEF Runs, Starts
    <3>2. CASE x < p
      BY <1>2, <2>1, <3>2, HeadsApart
    <3>3. CASE p < x
      BY <1>2, <2>1, <3>1, <3>3, HeadsApart
    <3> QED  BY <2>1, <3>1, <3>2, <3>3
  <2> QED  BY <2>1, <2>2, <2>3
<1>3. CASE n = 1 /\ p \in Page /\ pg[p].slab.tag = "bits"
  <2>1. /\ p \in Nat /\ p >= 1 /\ n \in Nat \ {0} /\ p + n <= NPages + 1
        /\ \A q \in p + 1 .. p + n - 1 : FALSE
    BY <1>1, <1>3
  <2>2. pg[p].slab.tag # "length" /\ p \notin Runs(pg)
    BY <1>3 DEF Runs
  <2>3. ASSUME NEW x \in Runs(pg) \cup (Starts(pg) \ {p})
        PROVE  End(pg, x) <= p \/ p + n <= x
    <3>1. x \in Page /\ x \in Nat /\ x # p
      BY <1>1, <2>2 DEF Runs, Starts
    <3>2. CASE x < p
      BY <1>3, <3>2, HeadsApart
    <3>3. CASE p < x
      BY <1>3, <2>1, <3>1, <3>3
    <3> QED  BY <2>1, <3>1, <3>2, <3>3
  <2> QED  BY <1>3, <2>1, <2>2, <2>3
<1> QED  BY <1>2, <1>3 DEF OneBlock

LEMMA BlankTiled ==
  ASSUME NEW pg \in Table, Tiled(pg), NEW p, NEW n, OneBlock(pg, p, n),
         NEW u \in Table, Blanked(pg, u, p, n)
  PROVE  /\ Tiled(u)
         /\ Runs(u) = Runs(pg) \cup {p}
         /\ Starts(u) = Starts(pg) \ {p}
         /\ \A x \in Runs(pg) \cup (Starts(pg) \ {p}) :
              End(u, x) = End(pg, x) /\ u[x].slab = pg[x].slab
         /\ End(u, p) = p + n
<1>1. PICK e : e = p + n
  OBVIOUS
<1>2. /\ p \in Page /\ p \in Nat /\ p >= 1 /\ n \in Nat \ {0} /\ e \in Nat /\ p < e
      /\ e <= NPages + 1
      /\ \A q \in p + 1 .. e - 1 : q \in Page /\ pg[q].slab = Busy
      /\ pg[p].slab.tag # "length" /\ p \notin Runs(pg)
      /\ \A x \in Runs(pg) \cup (Starts(pg) \ {p}) : End(pg, x) <= p \/ e <= x
  BY <1>1, BlockExtent
<1>3. \A q \in Page :
        u[q].slab = IF q = p THEN Length(n) ELSE IF q \in p + 1 .. e - 1 THEN PageFree
                    ELSE pg[q].slab
  <2>1. \A q \in Page :
          u[q].slab = IF q = p THEN Length(n)
                      ELSE IF q \in p + 1 .. p + n - 1 THEN PageFree ELSE pg[q].slab
    BY Zenon DEF Blanked
  <2>2. p + n - 1 = e - 1
    BY <1>1, <1>2
  <2> QED  BY <2>1, <2>2
<1>4. /\ Length(n).tag = "length" /\ Length(n).n = n /\ Busy.tag = "busy"
      /\ PageFree.tag = "length" /\ PageFree.n = 0
  BY DEF Length, PageFree, Busy
<1>5. NPages \in Nat /\ \A q \in Page : q \in Nat /\ q >= 1 /\ q <= NPages
  BY Sizes DEF Page
<1>6. u[p].slab = Length(n) /\ End(u, p) = e
  BY <1>1, <1>2, <1>3, <1>4 DEF End
<1>7. ASSUME NEW x \in Runs(pg) \cup (Starts(pg) \ {p})
      PROVE  /\ x \in Page /\ x \in Nat /\ End(pg, x) \in Nat /\ x < End(pg, x)
             /\ End(u, x) = End(pg, x) /\ u[x].slab = pg[x].slab
             /\ \A q \in x .. End(pg, x) - 1 :
                  q \in Page /\ q \notin p .. e - 1 /\ u[q].slab = pg[q].slab
  <2>1. x \in Page /\ x \in Nat /\ End(pg, x) \in Nat /\ x < End(pg, x)
        /\ End(pg, x) <= NPages + 1 /\ x >= 1
    BY Extent
  <2>2. End(pg, x) <= p \/ e <= x
    BY <1>2
  <2>3. \A q \in x .. End(pg, x) - 1 :
          q \in Page /\ q \notin p .. e - 1 /\ q # p /\ q \notin p + 1 .. e - 1
    BY <1>2, <1>5, <2>1, <2>2 DEF Page
  <2>4. \A q \in x .. End(pg, x) - 1 : u[q].slab = pg[q].slab
    BY <1>3, <2>3
  <2>5. x \in x .. End(pg, x) - 1
    BY <2>1
  <2> QED  BY <2>1, <2>3, <2>4, <2>5 DEF End
<1>8. Runs(u) = Runs(pg) \cup {p}
  <2>1. ASSUME NEW q \in Runs(u) PROVE q \in Runs(pg) \cup {p}
    <3>1. q \in Page /\ u[q].slab.tag = "length" /\ u[q].slab.n > 0
      BY DEF Runs
    <3>2. q = p \/ u[q].slab = pg[q].slab
      BY <1>3, <1>4, <3>1
    <3> QED  BY <3>1, <3>2 DEF Runs
  <2>2. p \in Runs(u)
    BY <1>2, <1>4, <1>6 DEF Runs
  <2>3. \A q \in Runs(pg) : q \in Runs(u)
    BY <1>7 DEF Runs
  <2> QED  BY <2>1, <2>2, <2>3
<1>9. Starts(u) = Starts(pg) \ {p}
  <2>1. ASSUME NEW q \in Starts(u) PROVE q \in Starts(pg) \ {p}
    <3>1. q \in Page /\ u[q].slab.tag = "start"
      BY DEF Starts
    <3>2. q # p /\ u[q].slab = pg[q].slab
      BY <1>3, <1>4, <1>6, <3>1
    <3> QED  BY <3>1, <3>2 DEF Starts
  <2>2. \A q \in Starts(pg) \ {p} : q \in Starts(u)
    BY <1>7 DEF Starts
  <2> QED  BY <2>1, <2>2
<1>10. Tiled(u)
  <2>1. \A q \in Starts(u) : u[q].slab.n > 0
    BY <1>7, <1>9 DEF Tiled
  <2>2. \A q \in Runs(u) \cup Starts(u) : End(u, q) <= NPages + 1
    BY <1>2, <1>6, <1>7, <1>8, <1>9 DEF Tiled
  <2>3. ASSUME NEW x \in Runs(u), NEW q \in x + 1 .. End(u, x) - 1 PROVE u[q].slab = PageFree
    <3>1. CASE x = p
      <4>1. q \in p + 1 .. e - 1 /\ q # p
        BY <1>2, <1>6, <3>1
      <4> QED  BY <1>2, <1>3, <4>1
    <3>2. CASE x \in Runs(pg)
      <4>1. x \in Nat /\ q \in x + 1 .. End(pg, x) - 1
        BY <1>7, <3>2
      <4>2. q \in x .. End(pg, x) - 1 /\ pg[q].slab = PageFree
        BY <3>2, <4>1 DEF Tiled
      <4> QED  BY <1>7, <3>2, <4>2
    <3> QED  BY <1>8, <3>1, <3>2
  <2>4. ASSUME NEW x \in Starts(u), NEW q \in x + 1 .. End(u, x) - 1 PROVE u[q].slab = Busy
    <3>1. x \in Starts(pg) \ {p} /\ x \in Nat /\ q \in x + 1 .. End(pg, x) - 1
      BY <1>7, <1>9
    <3>2. q \in x .. End(pg, x) - 1 /\ pg[q].slab = Busy
      BY <3>1 DEF Tiled
    <3> QED  BY <1>7, <3>1, <3>2
  <2>5. ASSUME NEW q \in Page, u[q].slab.tag = "length", u[q].slab.n = 0
        PROVE  \E x \in Runs(u) : x < q /\ q < End(u, x)
    <3>1. q # p
      BY <1>2, <1>4, <1>6, <2>5
    <3>2. CASE q \in p + 1 .. e - 1
      BY <1>2, <1>6, <1>8, <3>2
    <3>3. CASE q \notin p + 1 .. e - 1
      <4>1. u[q].slab = pg[q].slab
        BY <1>3, <3>1, <3>3
      <4>2. PICK x \in Runs(pg) : x < q /\ q < End(pg, x)
        BY <2>5, <4>1 DEF Tiled
      <4> QED  BY <1>7, <1>8, <4>2
    <3> QED  BY <3>2, <3>3
  <2>6. ASSUME NEW q \in Page, u[q].slab.tag = "busy"
        PROVE  \E x \in Starts(u) : x < q /\ q < End(u, x)
    <3>1. q # p /\ q \notin p + 1 .. e - 1 /\ u[q].slab = pg[q].slab
      BY <1>3, <1>4, <2>6
    <3>2. PICK x \in Starts(pg) : x < q /\ q < End(pg, x)
      BY <2>6, <3>1 DEF Tiled
    <3>3. x # p
      <4>1. ASSUME x = p PROVE FALSE
        <5>1. OneBlock(pg, p, n) /\ p \in Starts(pg)
          BY <4>1
        <5>2. n = pg[p].slab.n
          BY <5>1 DEF OneBlock, Starts
        <5>3. End(pg, p) = e
          BY <1>1, <5>2 DEF End
        <5>4. q \in p + 1 .. e - 1
          BY <1>2, <1>5, <3>2, <4>1, <5>3
        <5> QED  BY <3>1, <5>4
      <4> QED  BY <4>1
    <3> QED  BY <1>7, <1>9, <3>2, <3>3
  <2> QED  BY <2>1, <2>2, <2>3, <2>4, <2>5, <2>6 DEF Tiled
<1> QED  BY <1>1, <1>6, <1>7, <1>8, <1>9, <1>10

\* An allocated run becomes a free one, that is in no list yet.
LEMMA BlankRun ==
  ASSUME NEW pg, Kept(pg, Null), NEW p \in Starts(pg), NEW n, n = pg[p].slab.n,
         NEW u \in Table, Blanked(pg, u, p, n),
         \A q \in Node : q \notin p + 1 .. p + n - 1 =>
            u[q].next = pg[q].next /\ u[q].prev = pg[q].prev,
         \A q \in p + 1 .. p + n - 1 : u[q].next = Null /\ u[q].prev = Untyped(Null)
  PROVE  Kept(u, p)
<1>1. PICK e : e = p + n
  OBVIOUS
<1>2. /\ pg \in Table /\ Tiled(pg) /\ CutSound(pg) /\ Ring(pg, FreeHead, Runs(pg))
      /\ \A c \in ChunkClass : Ring(pg, Slot(c), Open(pg, c))
      /\ Types(pg, Null) /\ Unlisted(pg, Null) /\ Lasts(pg, Null) /\ Apart(pg, Null)
      /\ Runs(pg) \ {Null} = Runs(pg)
  <2>1. Runs(pg) \ {Null} = Runs(pg)
    BY NullIsNone DEF Runs
  <2> QED  BY <2>1 DEF Kept
<1>3. OneBlock(pg, p, n)
  BY DEF OneBlock
<1>4. /\ p \in Page /\ p \in Nat /\ p >= 1 /\ n \in Nat \ {0} /\ p + n <= NPages + 1
      /\ \A q \in p + 1 .. p + n - 1 : q \in Page /\ pg[q].slab = Busy
      /\ pg[p].slab.tag # "length" /\ p \notin Runs(pg)
      /\ \A x \in Runs(pg) \cup (Starts(pg) \ {p}) : End(pg, x) <= p \/ p + n <= x
  BY <1>2, <1>3, BlockExtent
<1>5. /\ Tiled(u)
      /\ Runs(u) = Runs(pg) \cup {p}
      /\ Starts(u) = Starts(pg) \ {p}
      /\ \A x \in Runs(pg) \cup (Starts(pg) \ {p}) :
           End(u, x) = End(pg, x) /\ u[x].slab = pg[x].slab
      /\ End(u, p) = p + n
  BY <1>2, <1>3, BlankTiled
<1>6. /\ Busy.tag = "busy" /\ PageFree.tag = "length" /\ Length(n).tag = "length"
      /\ Untyped(Null).type = "PAGE"
  BY DEF Busy, PageFree, Length, Untyped
<1>7. \A q \in Page :
        /\ q = p => u[q].slab = Length(n) /\ pg[q].slab.tag = "start"
        /\ q \in p + 1 .. p + n - 1 => u[q].slab = PageFree /\ pg[q].slab = Busy
        /\ q # p /\ q \notin p + 1 .. p + n - 1 => u[q].slab = pg[q].slab
  <2>1. p \notin p + 1 .. p + n - 1 /\ pg[p].slab.tag = "start"
    BY <1>4 DEF Starts
  <2> QED  BY <1>4, <2>1 DEF Blanked
<1>8. \A q \in Page : u[q].slab = pg[q].slab
                      \/ (u[q].slab.tag = "length" /\ pg[q].slab.tag \in {"start", "busy"})
  BY <1>6, <1>7
<1>9. \A c : Cut(u, c) = Cut(pg, c) /\ Open(u, c) = Open(pg, c)
  BY <1>8 DEF Cut, Open
<1>10. \A q \in Page : q \notin p + 1 .. p + n - 1 =>
         u[q].next = pg[q].next /\ u[q].prev = pg[q].prev
  BY Nodes
<1>11. \A q \in p + 1 .. p + n - 1 : q \notin Runs(pg) /\ q \notin Open(pg, pg[q].slab.n)
         /\ u[q].slab = PageFree /\ q \in Page
  BY <1>4, <1>6, <1>7 DEF Runs, Open, Cut
<1>12. Runs(u) \ {p} = Runs(pg)
  BY <1>4, <1>5
<1>13. Ring(u, FreeHead, Runs(u) \ {p})
  <2>1. FreeHead \in Node /\ FreeHead \notin p + 1 .. p + n - 1
    BY <1>4, Nodes
  <2>2. u[FreeHead].next = pg[FreeHead].next
    BY <2>1
  <2>3. \A q \in Runs(pg) : u[q].next = pg[q].next /\ u[q].prev.at = pg[q].prev.at
    BY <1>10, <1>11 DEF Runs
  <2> QED  BY <1>2, <1>12, <2>2, <2>3, RingFrame
<1>14. ASSUME NEW c \in ChunkClass PROVE Ring(u, Slot(c), Open(u, c))
  <2>1. Slot(c) \in Node /\ Slot(c) \notin p + 1 .. p + n - 1
    BY <1>4, Nodes
  <2>2. u[Slot(c)].next = pg[Slot(c)].next
    BY <2>1
  <2>3. \A q \in Open(pg, c) : q \in Page /\ q \notin p + 1 .. p + n - 1
    BY <1>4, <1>6 DEF Open, Cut
  <2>4. \A q \in Open(pg, c) : u[q].next = pg[q].next /\ u[q].prev.at = pg[q].prev.at
    BY <1>10, <2>3
  <2>5. Ring(pg, Slot(c), Open(pg, c))
    BY <1>2
  <2> QED  BY <1>9, <2>2, <2>4, <2>5, RingFrame
<1>15. CutSound(u)
  BY <1>2, <1>8 DEF CutSound
<1>16. Types(u, p)
  <2>1. ASSUME NEW q \in Page, q # p
        PROVE  u[q].prev.type = IF u[q].slab.tag = "bits" THEN Tag(u[q].slab.n) ELSE "PAGE"
    <3>1. CASE q \in p + 1 .. p + n - 1
      BY <1>6, <1>11, <3>1
    <3>2. CASE q \notin p + 1 .. p + n - 1
      <4>1. u[q].slab = pg[q].slab /\ u[q].prev = pg[q].prev
        BY <1>7, <1>10, <2>1, <3>2
      <4> QED  BY <1>2, <4>1, NullIsNone DEF Types
    <3> QED  BY <3>1, <3>2
  <2> QED  BY <2>1 DEF Types
<1>17. Unlisted(u, p)
  <2>1. ASSUME NEW q \in Page, q # p, q \notin Runs(u), q \notin Open(u, u[q].slab.n)
        PROVE  u[q].next = Null
    <3>1. CASE q \in p + 1 .. p + n - 1
      BY <3>1
    <3>2. CASE q \notin p + 1 .. p + n - 1
      <4>1. u[q].slab = pg[q].slab /\ u[q].next = pg[q].next
        BY <1>7, <1>10, <2>1, <3>2
      <4>2. q \notin Runs(pg) /\ q \notin Open(pg, pg[q].slab.n)
        BY <1>5, <1>9, <2>1, <4>1
      <4> QED  BY <1>2, <4>1, <4>2, NullIsNone DEF Unlisted
    <3> QED  BY <3>1, <3>2
  <2> QED  BY <2>1 DEF Unlisted
<1>18. Lasts(u, p)
  <2>1. ASSUME NEW x \in Runs(u) \ {p}, u[x].slab.n > 1, End(u, x) <= NPages
        PROVE  u[End(u, x) - 1].prev.at = x
    <3>1. x \in Runs(pg) /\ End(u, x) = End(pg, x) /\ u[x].slab = pg[x].slab
      BY <1>5, <1>12
    <3>2. PICK y : y = End(pg, x) - 1
      OBVIOUS
    <3>3. pg[y].prev.at = x
      BY <1>2, <1>12, <2>1, <3>1, <3>2 DEF Lasts
    <3>4. x \in Nat /\ End(pg, x) \in Nat /\ x < End(pg, x) /\ End(pg, x) = x + pg[x].slab.n
          /\ pg[x].slab.n \in Nat
      BY <1>2, <3>1, Extent
    <3>5. y \in x + 1 .. End(pg, x) - 1
      BY <2>1, <3>1, <3>2, <3>4
    <3>6. y \in Page
      BY <1>2, <3>1, <3>5, Extent
    <3>7. End(pg, x) <= p \/ p + n <= x
      BY <1>4, <3>1
    <3>8. y \notin p + 1 .. p + n - 1
      BY <1>4, <3>2, <3>4, <3>5, <3>7
    <3> QED  BY <1>10, <3>1, <3>2, <3>3, <3>6, <3>8
  <2> QED  BY <2>1 DEF Lasts
<1>19. Apart(u, p)
  BY <1>2, <1>5, <1>12 DEF Apart
<1> QED  BY <1>5, <1>13, <1>14, <1>15, <1>16, <1>17, <1>18, <1>19 DEF Kept

\* A cut page becomes a free one, and leaves the list of its chunk size.
LEMMA BlankCut ==
  ASSUME NEW pg, Kept(pg, Null), NEW c \in ChunkClass, NEW p \in Open(pg, c),
         NEW v \in Table, Blanked(pg, v, p, 1),
         \A q \in Node : v[q].next = pg[q].next /\ v[q].prev = pg[q].prev,
         NEW u, u = Unlink(v, p)
  PROVE  u \in Table /\ Blanked(pg, u, p, 1) /\ Kept(u, p)
<1>1. PICK a, b : a = pg[p].prev.at /\ b = pg[p].next
  OBVIOUS
<1>2. /\ pg \in Table /\ Tiled(pg) /\ CutSound(pg) /\ Ring(pg, FreeHead, Runs(pg))
      /\ \A d \in ChunkClass : Ring(pg, Slot(d), Open(pg, d))
      /\ Types(pg, Null) /\ Unlisted(pg, Null) /\ Lasts(pg, Null) /\ Apart(pg, Null)
      /\ Runs(pg) \ {Null} = Runs(pg)
  <2>1. Runs(pg) \ {Null} = Runs(pg)
    BY NullIsNone DEF Runs
  <2> QED  BY <2>1 DEF Kept
<1>3. /\ p \in Page /\ p \in Node /\ p \in Nat /\ pg[p].slab.tag = "bits" /\ pg[p].slab.n = c
      /\ p \notin Starts(pg)
  BY Nodes DEF Open, Cut, Starts
<1>4. OneBlock(pg, p, 1) /\ p \notin Runs(pg)
  BY <1>3 DEF OneBlock, Runs
<1>5. a \in Open(pg, c) \cup {Slot(c)} /\ b \in Open(pg, c) \cup {Slot(c)}
  BY <1>1, <1>2, Neighbours
<1>6. \A q \in Open(pg, c) : q \in Page /\ q \in Node /\ pg[q].slab.tag = "bits"
                             /\ pg[q].slab.n = c /\ q \notin Runs(pg)
  BY Nodes DEF Open, Cut, Runs
<1>7. Slot(c) \in Node /\ Slot(c) \notin Page /\ Slot(c) # FreeHead /\ FreeHead \notin Page
  BY Nodes
<1>8. a \in Node /\ b \in Node /\ a # FreeHead /\ b # FreeHead /\ a \notin Runs(pg)
      /\ b \notin Runs(pg)
  BY <1>5, <1>6, <1>7 DEF Runs
<1>9. v[p].prev.at = a /\ v[p].next = b
  BY <1>1, <1>3
<1>10. /\ u \in Table
       /\ \A q \in Node :
            /\ u[q].slab = v[q].slab
            /\ u[q].next = IF q = a THEN b ELSE pg[q].next
            /\ u[q].prev = IF q = b THEN pg[p].prev ELSE pg[q].prev
  <2>1. /\ u \in Table
        /\ \A q \in Node :
             /\ u[q].slab = v[q].slab
             /\ u[q].next = IF q = v[p].prev.at THEN v[p].next ELSE v[q].next
             /\ u[q].prev = IF q = v[p].next THEN v[p].prev ELSE v[q].prev
    BY <1>3, <1>8, <1>9, UnlinkIs
  <2> QED  BY <1>3, <1>9, <2>1
<1>11. Blanked(pg, u, p, 1)
  <2>1. \A q \in Page : u[q].slab = v[q].slab
    BY <1>10, Nodes
  <2> QED  BY <2>1 DEF Blanked
<1>12. /\ Tiled(u)
       /\ Runs(u) = Runs(pg) \cup {p}
       /\ \A x \in Runs(pg) : End(u, x) = End(pg, x) /\ u[x].slab = pg[x].slab
       /\ End(u, p) = p + 1
  BY <1>2, <1>4, <1>10, <1>11, BlankTiled
<1>13. \A q \in Page :
         /\ q = p => u[q].slab = Length(1)
         /\ q # p => u[q].slab = pg[q].slab
  <2>1. p + 1 .. p + 1 - 1 = {}
    BY <1>3
  <2> QED  BY <1>11, <2>1 DEF Blanked
<1>14. Length(1).tag = "length"
  BY DEF Length
<1>15. \A d : d # c => Open(u, d) = Open(pg, d)
  BY <1>3, <1>13, <1>14 DEF Cut, Open
<1>16. Open(u, c) = Open(pg, c) \ {p}
  BY <1>3, <1>13, <1>14 DEF Cut, Open
<1>17. Runs(u) \ {p} = Runs(pg)
  BY <1>4, <1>12
<1>18. \A q \in Node : q # a /\ q # b => u[q].next = pg[q].next /\ u[q].prev = pg[q].prev
  BY <1>10
<1>19. Ring(u, FreeHead, Runs(u) \ {p})
  <2>1. u[FreeHead].next = pg[FreeHead].next
    BY <1>8, <1>18, Nodes
  <2>2. \A q \in Runs(pg) : q \in Node /\ q # a /\ q # b
    BY <1>8, Nodes DEF Runs
  <2>3. \A q \in Runs(pg) : u[q].next = pg[q].next /\ u[q].prev.at = pg[q].prev.at
    BY <1>18, <2>2
  <2>4. Ring(pg, FreeHead, Runs(pg))
    BY <1>2
  <2>5. Ring(u, FreeHead, Runs(pg))
    BY <2>1, <2>3, <2>4, RingFrame
  <2> QED  BY <1>17, <2>5
<1>20. Ring(u, Slot(c), Open(u, c))
  <2>1. \A q \in (Open(pg, c) \ {p}) \cup {Slot(c)} :
          /\ u[q].next = IF q = pg[p].prev.at THEN pg[p].next ELSE pg[q].next
          /\ u[q].prev.at = IF q = pg[p].next THEN pg[p].prev.at ELSE pg[q].prev.at
    BY <1>1, <1>6, <1>7, <1>10
  <2>2. Slot(c) \notin Open(pg, c) /\ Ring(pg, Slot(c), Open(pg, c))
    BY <1>2, <1>6, <1>7
  <2>3. Ring(u, Slot(c), Open(pg, c) \ {p})
    BY <2>1, <2>2, RingRemove
  <2> QED  BY <1>16, <2>3
<1>21. ASSUME NEW d \in ChunkClass, d # c PROVE Ring(u, Slot(d), Open(u, d))
  <2>1. Slot(d) \in Node /\ Slot(d) \notin Page /\ Slot(d) # Slot(c)
    BY <1>21, Nodes
  <2>2. Slot(d) # a /\ Slot(d) # b
    BY <1>5, <1>6, <2>1
  <2>3. \A q \in Open(pg, d) : q \in Page /\ q \in Node /\ pg[q].slab.n # c
    BY <1>21, Nodes DEF Open, Cut
  <2>4. \A q \in Open(pg, d) : q # a /\ q # b
    BY <1>5, <1>6, <1>7, <2>3
  <2>5. \A q \in Open(pg, d) : u[q].next = pg[q].next /\ u[q].prev.at = pg[q].prev.at
    BY <1>18, <2>3, <2>4
  <2>6. u[Slot(d)].next = pg[Slot(d)].next
    BY <1>18, <2>1, <2>2
  <2>7. Ring(pg, Slot(d), Open(pg, d))
    BY <1>2
  <2>8. Ring(u, Slot(d), Open(pg, d))
    BY <2>5, <2>6, <2>7, RingFrame
  <2> QED  BY <1>15, <1>21, <2>8
<1>22. CutSound(u)
  BY <1>2, <1>13, <1>14 DEF CutSound
<1>23. Types(u, p)
  <2>1. \A q \in Page :
          pg[q].prev.type = IF pg[q].slab.tag = "bits" THEN Tag(pg[q].slab.n) ELSE "PAGE"
    BY <1>2, NullIsNone DEF Types
  <2>2. ASSUME NEW q \in Page, q # p PROVE u[q].prev.type = pg[q].prev.type
    <3>1. CASE q = b
      <4>1. pg[q].slab.tag = "bits" /\ pg[q].slab.n = c
        BY <1>5, <1>6, <1>7, <3>1
      <4>2. pg[q].prev.type = Tag(c) /\ pg[p].prev.type = Tag(c)
        BY <1>3, <2>1, <4>1
      <4> QED  BY <1>8, <1>10, <3>1, <4>2
    <3>2. CASE q # b
      BY <1>10, <3>2, Nodes
    <3> QED  BY <3>1, <3>2
  <2> QED  BY <1>13, <2>1, <2>2 DEF Types
<1>24. Unlisted(u, p)
  <2>1. ASSUME NEW q \in Page, q # p, q \notin Runs(u), q \notin Open(u, u[q].slab.n)
        PROVE  u[q].next = Null
    <3>1. u[q].slab = pg[q].slab /\ q \notin Runs(pg)
      BY <1>12, <1>13, <2>1
    <3>2. q \notin Open(pg, pg[q].slab.n)
      BY <1>15, <1>16, <2>1, <3>1
    <3>3. pg[q].next = Null
      BY <1>2, <3>1, <3>2, NullIsNone DEF Unlisted
    <3>4. q # a
      BY <1>5, <1>6, <1>7, <3>2
    <3> QED  BY <1>10, <3>3, <3>4, Nodes
  <2> QED  BY <2>1 DEF Unlisted
<1>25. Lasts(u, p)
  <2>1. ASSUME NEW x \in Runs(u) \ {p}, u[x].slab.n > 1, End(u, x) <= NPages
        PROVE  u[End(u, x) - 1].prev.at = x
    <3>1. x \in Runs(pg) /\ End(u, x) = End(pg, x) /\ u[x].slab = pg[x].slab
      BY <1>12, <1>17
    <3>2. PICK y : y = End(pg, x) - 1
      OBVIOUS
    <3>3. pg[y].prev.at = x
      BY <1>2, <1>17, <2>1, <3>1, <3>2 DEF Lasts
    <3>4. x \in Nat /\ End(pg, x) \in Nat /\ x < End(pg, x) /\ End(pg, x) = x + pg[x].slab.n
          /\ pg[x].slab.n \in Nat
      BY <1>2, <3>1, Extent
    <3>5. y \in x + 1 .. End(pg, x) - 1
      BY <2>1, <3>1, <3>2, <3>4
    <3>6. y \in Page /\ pg[y].slab.tag # "bits"
      BY <1>2, <3>1, <3>5, Extent
    <3>7. y # b
      BY <1>5, <1>6, <1>7, <3>6
    <3> QED  BY <1>10, <3>1, <3>2, <3>3, <3>6, <3>7, Nodes
  <2> QED  BY <2>1 DEF Lasts
<1>26. Apart(u, p)
  BY <1>2, <1>12, <1>17 DEF Apart
<1> QED  BY <1>10, <1>11, <1>12, <1>19, <1>20, <1>21, <1>22, <1>23, <1>24, <1>25, <1>26 DEF Kept

\* From pg to u, the free run b becomes the end of the run a.
Absorbed(pg, u, a, b) ==
    \A q \in Page :
        u[q].slab = IF q = a THEN Length(pg[a].slab.n + pg[b].slab.n)
                    ELSE IF q = b THEN PageFree ELSE pg[q].slab

LEMMA AbsorbTiled ==
  ASSUME NEW pg \in Table, Tiled(pg), NEW a \in Runs(pg), NEW b \in Runs(pg), End(pg, a) = b,
         NEW u \in Table, Absorbed(pg, u, a, b)
  PROVE  /\ Tiled(u)
         /\ Runs(u) = Runs(pg) \ {b}
         /\ Starts(u) = Starts(pg)
         /\ \A x \in (Runs(pg) \ {a, b}) \cup Starts(pg) :
              End(u, x) = End(pg, x) /\ u[x].slab = pg[x].slab
         /\ End(u, a) = End(pg, b)
<1>1. PICK e, m, n : e = End(pg, b) /\ m = pg[a].slab.n /\ n = pg[b].slab.n
  OBVIOUS
<1>2. /\ a \in Page /\ a \in Nat /\ a >= 1 /\ m \in Nat \ {0} /\ b = a + m /\ a < b
      /\ b \in Page /\ b \in Nat /\ n \in Nat \ {0} /\ e = b + n /\ b < e /\ e <= NPages + 1
      /\ e \in Nat
      /\ \A q \in a + 1 .. b - 1 : q \in Page /\ pg[q].slab = PageFree
      /\ \A q \in b + 1 .. e - 1 : q \in Page /\ pg[q].slab = PageFree
  <2>1. /\ a \in Page /\ a \in Nat /\ a >= 1 /\ pg[a].slab.n \in Nat \ {0}
        /\ End(pg, a) = a + pg[a].slab.n /\ a < End(pg, a)
        /\ \A q \in a + 1 .. End(pg, a) - 1 : q \in Page /\ pg[q].slab = PageFree
    BY Extent
  <2>2. /\ b \in Page /\ b \in Nat /\ b >= 1 /\ pg[b].slab.n \in Nat \ {0}
        /\ End(pg, b) = b + pg[b].slab.n /\ b < End(pg, b) /\ End(pg, b) \in Nat
        /\ End(pg, b) <= NPages + 1
        /\ \A q \in b + 1 .. End(pg, b) - 1 : q \in Page /\ pg[q].slab = PageFree
    BY Extent
  <2> QED  BY <1>1, <2>1, <2>2
<1>3. \A q \in Page :
        u[q].slab = IF q = a THEN Length(m + n) ELSE IF q = b THEN PageFree ELSE pg[q].slab
  BY <1>1 DEF Absorbed
<1>4. /\ Length(m + n).tag = "length" /\ Length(m + n).n = m + n /\ Busy.tag = "busy"
      /\ PageFree.tag = "length" /\ PageFree.n = 0
  BY DEF Length, PageFree, Busy
<1>5. NPages \in Nat /\ \A q \in Page : q \in Nat /\ q >= 1 /\ q <= NPages
  BY Sizes DEF Page
<1>6. u[a].slab = Length(m + n) /\ End(u, a) = e
  <2>1. a + (m + n) = e
    BY <1>2
  <2> QED  BY <1>2, <1>3, <1>4, <2>1 DEF End
<1>7. ASSUME NEW x \in (Runs(pg) \ {a, b}) \cup Starts(pg)
      PROVE  /\ x \in Page /\ x \in Nat /\ End(pg, x) \in Nat /\ x < End(pg, x)
             /\ End(u, x) = End(pg, x) /\ u[x].slab = pg[x].slab /\ x # a /\ x # b
             /\ \A q \in x .. End(pg, x) - 1 :
                  q \in Page /\ u[q].slab = pg[q].slab
  <2>1. /\ x \in Page /\ x \in Nat /\ End(pg, x) \in Nat /\ x < End(pg, x)
        /\ \A q \in x + 1 .. End(pg, x) - 1 : q \in Page /\ q \notin Runs(pg)
    BY Extent
  <2>2. x # a /\ x # b
    BY DEF Runs, Starts
  <2>3. \A q \in x .. End(pg, x) - 1 : q = x \/ q \in x + 1 .. End(pg, x) - 1
    BY <2>1
  <2>4. \A q \in x .. End(pg, x) - 1 : q \in Page /\ q # a /\ q # b
    BY <2>1, <2>2, <2>3
  <2>5. \A q \in x .. End(pg, x) - 1 : u[q].slab = pg[q].slab
    BY <1>3, <2>4
  <2>6. u[x].slab = pg[x].slab
    BY <1>3, <2>1, <2>2
  <2> QED  BY <2>1, <2>2, <2>4, <2>5, <2>6 DEF End
<1>8. Runs(u) = Runs(pg) \ {b}
  <2>1. ASSUME NEW q \in Runs(u) PROVE q \in Runs(pg) \ {b}
    <3>1. q \in Page /\ u[q].slab.tag = "length" /\ u[q].slab.n > 0
      BY DEF Runs
    <3>2. u[b].slab = PageFree
      BY <1>2, <1>3
    <3>3. q # b
      BY <1>4, <3>1, <3>2
    <3>4. q = a \/ u[q].slab = pg[q].slab
      BY <1>3, <3>1, <3>3
    <3> QED  BY <3>1, <3>3, <3>4 DEF Runs
  <2>2. a \in Runs(u)
    BY <1>2, <1>4, <1>6 DEF Runs
  <2>3. \A q \in Runs(pg) \ {a, b} : q \in Runs(u)
    BY <1>7 DEF Runs
  <2> QED  BY <1>2, <2>1, <2>2, <2>3
<1>9. Starts(u) = Starts(pg)
  <2>1. ASSUME NEW q \in Starts(u) PROVE q \in Starts(pg)
    <3>1. q \in Page /\ u[q].slab.tag = "start"
      BY DEF Starts
    <3>2. u[q].slab = pg[q].slab
      BY <1>3, <1>4, <3>1
    <3> QED  BY <3>1, <3>2 DEF Starts
  <2>2. \A q \in Starts(pg) : q \in Starts(u)
    BY <1>7 DEF Starts
  <2> QED  BY <2>1, <2>2
<1>10. Tiled(u)
  <2>1. \A q \in Starts(u) : u[q].slab.n > 0
    BY <1>7, <1>9 DEF Tiled
  <2>2. \A q \in Runs(u) \cup Starts(u) : End(u, q) <= NPages + 1
    BY <1>2, <1>6, <1>7, <1>8, <1>9 DEF Tiled
  <2>3. ASSUME NEW x \in Runs(u), NEW q \in x + 1 .. End(u, x) - 1 PROVE u[q].slab = PageFree
    <3>1. CASE x = a
      <4>1. q \in a + 1 .. b - 1 \/ q = b \/ q \in b + 1 .. e - 1
        BY <1>2, <1>6, <3>1
      <4>2. q # a /\ q \in Page
        BY <1>2, <4>1
      <4> QED  BY <1>2, <1>3, <4>1, <4>2
    <3>2. CASE x \in Runs(pg) \ {a, b}
      <4>1. x \in Nat /\ q \in x + 1 .. End(pg, x) - 1
        BY <1>7, <3>2
      <4>2. q \in x .. End(pg, x) - 1 /\ pg[q].slab = PageFree
        BY <3>2, <4>1 DEF Tiled
      <4> QED  BY <1>7, <3>2, <4>2
    <3> QED  BY <1>8, <3>1, <3>2
  <2>4. ASSUME NEW x \in Starts(u), NEW q \in x + 1 .. End(u, x) - 1 PROVE u[q].slab = Busy
    <3>1. x \in Starts(pg) /\ x \in Nat /\ q \in x + 1 .. End(pg, x) - 1
      BY <1>7, <1>9
    <3>2. q \in x .. End(pg, x) - 1 /\ pg[q].slab = Busy
      BY <3>1 DEF Tiled
    <3> QED  BY <1>7, <3>1, <3>2
  <2>5. ASSUME NEW q \in Page, u[q].slab.tag = "length", u[q].slab.n = 0
        PROVE  \E x \in Runs(u) : x < q /\ q < End(u, x)
    <3>1. a \in Runs(u)
      BY <1>2, <1>8
    <3>2. q # a
      BY <1>2, <1>4, <1>6, <2>5
    <3>3. CASE q = b
      BY <1>2, <1>6, <3>1, <3>3
    <3>4. CASE q # b
      <4>1. u[q].slab = pg[q].slab
        BY <1>3, <3>2, <3>4
      <4>2. PICK x \in Runs(pg) : x < q /\ q < End(pg, x)
        BY <2>5, <4>1 DEF Tiled
      <4>3. CASE x = a \/ x = b
        <5>1. a < q /\ q < e
          BY <1>1, <1>2, <1>5, <4>2, <4>3
        <5> QED  BY <1>6, <3>1, <5>1
      <4>4. CASE x # a /\ x # b
        BY <1>7, <1>8, <4>2, <4>4
      <4> QED  BY <4>3, <4>4
    <3> QED  BY <3>3, <3>4
  <2>6. ASSUME NEW q \in Page, u[q].slab.tag = "busy"
        PROVE  \E x \in Starts(u) : x < q /\ q < End(u, x)
    <3>1. u[q].slab = pg[q].slab
      BY <1>3, <1>4, <2>6
    <3>2. PICK x \in Starts(pg) : x < q /\ q < End(pg, x)
      BY <2>6, <3>1 DEF Tiled
    <3> QED  BY <1>7, <1>9, <3>2
  <2> QED  BY <2>1, <2>2, <2>3, <2>4, <2>5, <2>6 DEF Tiled
<1> QED  BY <1>1, <1>6, <1>7, <1>8, <1>9, <1>10

\* One of two free runs that touch has been taken out of the list; the other, y,
\* leaves it too, and they become one.
LEMMA AbsorbIs ==
  ASSUME NEW pg \in Table, NEW y \in Node, NEW a \in Node, NEW b \in Node, a # b,
         pg[a].slab.n \in Nat, pg[b].slab.n \in Nat,
         NEW c \in Node, c = pg[y].prev.at, NEW d \in Node, d = pg[y].next, b # c, b # d,
         NEW u, u = Absorb(pg, y, a, b)
  PROVE  /\ u \in Table
         /\ u[b].slab = PageFree /\ u[b].next = Null /\ u[b].prev = Untyped(Null)
         /\ \A q \in Node : q # b =>
              /\ u[q].slab = IF q = a THEN Length(pg[a].slab.n + pg[b].slab.n) ELSE pg[q].slab
              /\ u[q].next = IF q = c THEN d ELSE pg[q].next
              /\ u[q].prev = IF q = d THEN pg[y].prev ELSE pg[q].prev
<1>1. PICK s, z : s = Length(pg[a].slab.n + pg[b].slab.n) /\ z = Cleared
  OBVIOUS
<1>2. PICK v : v = Unlink(pg, y)
  OBVIOUS
<1>3. /\ v \in Table
      /\ \A q \in Node :
           /\ v[q].slab = pg[q].slab
           /\ v[q].next = IF q = c THEN d ELSE pg[q].next
           /\ v[q].prev = IF q = d THEN pg[y].prev ELSE pg[q].prev
  <2>1. pg[y].prev.at \in Node /\ pg[y].next \in Node
    OBVIOUS
  <2>2. /\ v \in Table
        /\ \A q \in Node :
             /\ v[q].slab = pg[q].slab
             /\ v[q].next = IF q = pg[y].prev.at THEN pg[y].next ELSE pg[q].next
             /\ v[q].prev = IF q = pg[y].next THEN pg[y].prev ELSE pg[q].prev
    BY <1>2, <2>1, UnlinkIs
  <2> QED  BY <2>2
<1>4. /\ s \in Word /\ z \in Desc
      /\ z.slab = PageFree /\ z.next = Null /\ z.prev = Untyped(Null)
  <2>1. s \in Word
    BY <1>1 DEF Length, Word
  <2>2. PageFree \in Word /\ Untyped(Null) \in Link /\ Null \in Int
    BY Nodes DEF PageFree, Length, Word, Untyped, Link
  <2> QED  BY <1>1, <2>1, <2>2 DEF Cleared, Desc
<1>5. PICK w : w = [v EXCEPT ![a].slab = s]
  OBVIOUS
<1>6. /\ w \in Table
      /\ \A q \in Node : /\ w[q].next = v[q].next /\ w[q].prev = v[q].prev
                         /\ w[q].slab = IF q = a THEN s ELSE v[q].slab
  BY <1>3, <1>4, <1>5 DEF Table, Desc
<1>7. u = [w EXCEPT ![b] = z]
  BY <1>1, <1>2, <1>5 DEF Absorb
<1>8. u \in Table /\ u[b] = z /\ \A q \in Node : q # b => u[q] = w[q]
  BY <1>4, <1>6, <1>7 DEF Table
<1> QED  BY <1>1, <1>3, <1>4, <1>6, <1>8

LEMMA AbsorbKept ==
  ASSUME NEW pg, NEW x, Kept(pg, x), NEW a \in Runs(pg), NEW b \in Runs(pg), End(pg, a) = b,
         NEW y, \/ x = a /\ y = b
                \/ x = b /\ y = a,
         NEW v, v = Absorb(pg, y, a, b)
  PROVE  v \in Table /\ Absorbed(pg, v, a, b) /\ Kept(v, a)
<1>1. PICK c, d : c = pg[y].prev.at /\ d = pg[y].next
  OBVIOUS
<1>2. PICK S : S = Runs(pg) \ {x}
  OBVIOUS
<1>3. /\ pg \in Table /\ Tiled(pg) /\ CutSound(pg) /\ Ring(pg, FreeHead, S)
      /\ \A k \in ChunkClass : Ring(pg, Slot(k), Open(pg, k))
      /\ Types(pg, x) /\ Unlisted(pg, x) /\ Lasts(pg, x) /\ Apart(pg, x)
  BY <1>2 DEF Kept
<1>4. /\ a \in Page /\ a \in Nat /\ pg[a].slab.n \in Nat \ {0}
      /\ b \in Page /\ b \in Nat /\ pg[b].slab.n \in Nat \ {0}
      /\ a < b /\ b < End(pg, b) /\ End(pg, b) \in Nat
  <2>1. /\ a \in Page /\ a \in Nat /\ pg[a].slab.n \in Nat \ {0} /\ a < End(pg, a)
    BY <1>3, Extent
  <2>2. /\ b \in Page /\ b \in Nat /\ pg[b].slab.n \in Nat \ {0}
        /\ b < End(pg, b) /\ End(pg, b) \in Nat
    BY <1>3, Extent
  <2> QED  BY <2>1, <2>2
<1>5. /\ a # b /\ y \in S /\ y \in Page /\ y \in Node /\ {x, y} = {a, b} /\ y # x
      /\ a \in Node /\ b \in Node
  BY <1>2, <1>4, Nodes
<1>6. \A q \in Runs(pg) : q \in Page /\ q \in Node /\ pg[q].slab.tag = "length"
  BY Nodes DEF Runs
<1>7. c \in S \cup {FreeHead} /\ d \in S \cup {FreeHead}
  BY <1>1, <1>3, <1>5, Neighbours
<1>8. c # y /\ d # y
  <2>1. FreeHead \notin S
    BY <1>2, <1>6, Nodes
  <2> QED  BY <1>1, <1>3, <1>5, <2>1, NoLoop
<1>9. c \in Node /\ d \in Node /\ FreeHead \in Node /\ FreeHead \notin Page
  BY <1>2, <1>6, <1>7, Nodes
<1>10. c # a /\ c # b /\ d # a /\ d # b
  BY <1>2, <1>4, <1>5, <1>7, <1>8, <1>9
<1>11. /\ v \in Table
       /\ v[b].slab = PageFree /\ v[b].next = Null /\ v[b].prev = Untyped(Null)
       /\ \A q \in Node : q # b =>
            /\ v[q].slab = IF q = a THEN Length(pg[a].slab.n + pg[b].slab.n) ELSE pg[q].slab
            /\ v[q].next = IF q = c THEN d ELSE pg[q].next
            /\ v[q].prev = IF q = d THEN pg[y].prev ELSE pg[q].prev
  <2>1. /\ pg \in Table /\ y \in Node /\ a \in Node /\ b \in Node /\ a # b
        /\ pg[a].slab.n \in Nat /\ pg[b].slab.n \in Nat
        /\ c \in Node /\ c = pg[y].prev.at /\ d \in Node /\ d = pg[y].next /\ b # c /\ b # d
        /\ v = Absorb(pg, y, a, b)
    BY <1>1, <1>3, <1>4, <1>5, <1>9, <1>10
  <2> QED  BY <2>1, AbsorbIs
<1>12. PICK s : s = Length(pg[a].slab.n + pg[b].slab.n)
  OBVIOUS
<1>13. PICK u : u = v
  OBVIOUS
<1>14. /\ u \in Table
       /\ u[b].slab = PageFree /\ u[b].next = Null /\ u[b].prev = Untyped(Null)
       /\ \A q \in Node : q # b =>
            /\ u[q].slab = IF q = a THEN s ELSE pg[q].slab
            /\ u[q].next = IF q = c THEN d ELSE pg[q].next
            /\ u[q].prev = IF q = d THEN pg[y].prev ELSE pg[q].prev
  BY <1>11, <1>12, <1>13
<1>15. Absorbed(pg, u, a, b)
  <2>1. \A q \in Page : q \in Node
    BY Nodes
  <2> QED  BY <1>5, <1>12, <1>14, <2>1 DEF Absorbed
<1>16. /\ Tiled(u)
       /\ Runs(u) = Runs(pg) \ {b}
       /\ Starts(u) = Starts(pg)
       /\ \A q \in (Runs(pg) \ {a, b}) \cup Starts(pg) :
            End(u, q) = End(pg, q) /\ u[q].slab = pg[q].slab
       /\ End(u, a) = End(pg, b)
  BY <1>3, <1>14, <1>15, AbsorbTiled
<1>17. Runs(u) \ {a} = S \ {y} /\ S \ {y} = Runs(pg) \ {a, b}
  BY <1>2, <1>5, <1>16
<1>18. \A q \in Page : q \in Node /\ (q # a /\ q # b => u[q].slab = pg[q].slab)
  BY <1>14, Nodes
<1>19. /\ pg[a].slab.tag = "length" /\ pg[b].slab.tag = "length"
       /\ u[a].slab.tag = "length" /\ u[b].slab.tag = "length"
  BY <1>5, <1>6, <1>12, <1>14 DEF PageFree, Length
<1>20. \A k : Open(u, k) = Open(pg, k)
  BY <1>18, <1>19 DEF Open, Cut
<1>21. \A q \in Node : q \notin Runs(pg) /\ q # FreeHead =>
         u[q].next = pg[q].next /\ u[q].prev = pg[q].prev
  BY <1>2, <1>7, <1>14
<1>22. Ring(u, FreeHead, Runs(u) \ {a})
  <2>1. \A q \in (S \ {y}) \cup {FreeHead} : q \in Node /\ q # b
    BY <1>4, <1>6, <1>9, <1>17
  <2>2. \A q \in (S \ {y}) \cup {FreeHead} :
          /\ u[q].next = IF q = pg[y].prev.at THEN pg[y].next ELSE pg[q].next
          /\ u[q].prev.at = IF q = pg[y].next THEN pg[y].prev.at ELSE pg[q].prev.at
    BY <1>1, <1>14, <2>1
  <2>3. FreeHead \notin S
    BY <1>2, <1>6, <1>9
  <2>4. Ring(u, FreeHead, S \ {y})
    BY <1>3, <1>5, <2>2, <2>3, RingRemove
  <2> QED  BY <1>17, <2>4
<1>23. ASSUME NEW k \in ChunkClass PROVE Ring(u, Slot(k), Open(u, k))
  <2>1. Slot(k) \in Node /\ Slot(k) \notin Runs(pg) /\ Slot(k) # FreeHead
    BY <1>6, Nodes
  <2>2. u[Slot(k)].next = pg[Slot(k)].next
    BY <1>21, <2>1
  <2>3. \A q \in Open(pg, k) : q \in Page /\ q \notin Runs(pg)
    BY DEF Open, Cut, Runs
  <2>4. \A q \in Open(pg, k) : u[q].next = pg[q].next /\ u[q].prev.at = pg[q].prev.at
    BY <1>9, <1>18, <1>21, <2>3
  <2>5. Ring(pg, Slot(k), Open(pg, k))
    BY <1>3
  <2> QED  BY <1>20, <2>2, <2>4, <2>5, RingFrame
<1>24. CutSound(u)
  BY <1>3, <1>18, <1>19 DEF CutSound
<1>25. Types(u, a)
  <2>1. pg[y].prev.type = "PAGE"
    BY <1>3, <1>5, <1>19 DEF Types
  <2>2. ASSUME NEW q \in Page, q # a
        PROVE  u[q].prev.type = IF u[q].slab.tag = "bits" THEN Tag(u[q].slab.n) ELSE "PAGE"
    <3>1. CASE q = b
      BY <1>14, <1>19, <3>1 DEF Untyped
    <3>2. CASE q # b
      <4>1. pg[q].prev.type = IF pg[q].slab.tag = "bits" THEN Tag(pg[q].slab.n) ELSE "PAGE"
        BY <1>3, <1>5, <2>2, <3>2 DEF Types
      <4>2. u[q].slab = pg[q].slab
        BY <1>18, <2>2, <3>2
      <4>3. CASE q = d
        <5>1. pg[q].slab.tag = "length"
          BY <1>2, <1>6, <1>7, <1>9, <4>3
        <5> QED  BY <1>14, <1>18, <2>1, <3>2, <4>2, <4>3, <5>1
      <4>4. CASE q # d
        BY <1>14, <1>18, <3>2, <4>1, <4>2, <4>4
      <4> QED  BY <4>3, <4>4
    <3> QED  BY <3>1, <3>2
  <2> QED  BY <2>2 DEF Types
<1>26. Unlisted(u, a)
  <2>1. ASSUME NEW q \in Page, q # a, q \notin Runs(u), q \notin Open(u, u[q].slab.n)
        PROVE  u[q].next = Null
    <3>1. CASE q = b
      BY <1>14, <3>1
    <3>2. CASE q # b
      <4>1. u[q].slab = pg[q].slab /\ q \notin Runs(pg) /\ q # x
        BY <1>5, <1>16, <1>18, <2>1, <3>2
      <4>2. pg[q].next = Null
        BY <1>3, <1>20, <2>1, <4>1 DEF Unlisted
      <4> QED  BY <1>9, <1>18, <1>21, <4>1, <4>2
    <3> QED  BY <3>1, <3>2
  <2> QED  BY <2>1 DEF Unlisted
<1>27. Lasts(u, a)
  <2>1. ASSUME NEW p \in Runs(u) \ {a}, u[p].slab.n > 1, End(u, p) <= NPages
        PROVE  u[End(u, p) - 1].prev.at = p
    <3>1. p \in Runs(pg) /\ p # x /\ End(u, p) = End(pg, p) /\ u[p].slab = pg[p].slab
      BY <1>5, <1>16, <1>17
    <3>2. PICK l : l = End(pg, p) - 1
      OBVIOUS
    <3>3. pg[l].prev.at = p
      BY <1>3, <2>1, <3>1, <3>2 DEF Lasts
    <3>4. p \in Nat /\ End(pg, p) \in Nat /\ p < End(pg, p) /\ End(pg, p) = p + pg[p].slab.n
          /\ pg[p].slab.n \in Nat
      BY <1>3, <3>1, Extent
    <3>5. l \in p + 1 .. End(pg, p) - 1
      BY <2>1, <3>1, <3>2, <3>4
    <3>6. l \in Page /\ l \notin Runs(pg)
      BY <1>3, <3>1, <3>5, Extent
    <3> QED  BY <1>9, <1>18, <1>21, <3>1, <3>2, <3>3, <3>6
  <2> QED  BY <2>1 DEF Lasts
<1>28. Apart(u, a)
  BY <1>3, <1>5, <1>16, <1>17 DEF Apart
<1> QED  BY <1>13, <1>14, <1>15, <1>16, <1>22, <1>23, <1>24, <1>25, <1>26, <1>27, <1>28 DEF Kept

\* From pg to u, nothing changes but how the free pages form runs.
SameTaken(pg, u) ==
    \A q \in Page : \/ u[q].slab = pg[q].slab
                    \/ u[q].slab.tag = "length" /\ pg[q].slab.tag = "length"

\* How the code tells that a free run begins at a page.
LEMMA RunSeen ==
  ASSUME NEW pg, NEW x, Kept(pg, x), NEW q \in Page, q # x
  PROVE  (pg[q].prev.type = "PAGE" /\ pg[q].next # Null) <=> q \in Runs(pg)
<1>1. /\ Types(pg, x) /\ Unlisted(pg, x) /\ Ring(pg, FreeHead, Runs(pg) \ {x})
  BY DEF Kept
<1>2. pg[q].prev.type = IF pg[q].slab.tag = "bits" THEN Tag(pg[q].slab.n) ELSE "PAGE"
  BY <1>1 DEF Types
<1>3. \A c : Tag(c) # "PAGE"
  BY DEF Tag
<1>4. ASSUME q \in Runs(pg) PROVE pg[q].prev.type = "PAGE" /\ pg[q].next # Null
  <2>1. pg[q].prev.type = "PAGE"
    BY <1>2, <1>4 DEF Runs
  <2>2. pg[q].next \in (Runs(pg) \ {x}) \cup {FreeHead}
    BY <1>1, <1>4, Neighbours
  <2>3. \A z \in (Runs(pg) \ {x}) \cup {FreeHead} : z # Null
    BY Nodes DEF Runs
  <2> QED  BY <2>1, <2>2, <2>3
<1>5. ASSUME pg[q].prev.type = "PAGE", pg[q].next # Null PROVE q \in Runs(pg)
  <2>1. pg[q].slab.tag # "bits"
    BY <1>2, <1>3, <1>5
  <2>2. q \notin Open(pg, pg[q].slab.n)
    BY <2>1 DEF Open, Cut
  <2> QED  BY <1>1, <1>5, <2>2 DEF Unlisted
<1> QED  BY <1>4, <1>5

LEMMA JoinIs ==
  ASSUME NEW pg, NEW p, Kept(pg, p), p \in Runs(pg), NEW u, u = JoinNext(pg, p)
  PROVE  /\ Kept(u, p) /\ p \in Runs(u) /\ SameTaken(pg, u) /\ End(u, p) \notin Runs(u)
<1>1. PICK j : j = End(pg, p)
  OBVIOUS
<1>2. pg \in Table /\ Tiled(pg) /\ Apart(pg, p)
  BY DEF Kept
<1>3. p \in Page /\ p \in Nat /\ j \in Nat /\ p < j
  BY <1>1, <1>2, Extent
<1>4. u = IF j \in Page /\ pg[j].prev.type = "PAGE" /\ pg[j].next # Null
          THEN Absorb(pg, j, p, j) ELSE pg
  BY <1>1, Zenon DEF JoinNext, Absorb, End
<1>5. \A q \in Runs(pg) : q \in Page
  BY DEF Runs
<1>6. (j \in Page /\ pg[j].prev.type = "PAGE" /\ pg[j].next # Null) <=> j \in Runs(pg)
  BY <1>3, <1>5, RunSeen
<1>7. CASE j \notin Runs(pg)
  BY <1>1, <1>4, <1>6, <1>7 DEF SameTaken
<1>8. CASE j \in Runs(pg)
  <2>1. u = Absorb(pg, j, p, j)
    BY <1>4, <1>6, <1>8
  <2>2. u \in Table /\ Absorbed(pg, u, p, j) /\ Kept(u, p)
    BY <1>1, <1>8, <2>1, AbsorbKept
  <2>3. /\ Runs(u) = Runs(pg) \ {j}
        /\ End(u, p) = End(pg, j)
    BY <1>1, <1>2, <1>8, <2>2, AbsorbTiled
  <2>4. p \in Runs(u)
    BY <1>3, <2>3
  <2>5. SameTaken(pg, u)
    <3>1. pg[p].slab.tag = "length" /\ pg[j].slab.tag = "length"
      BY <1>8 DEF Runs
    <3>2. \A n : Length(n).tag = "length" /\ PageFree.tag = "length"
      BY DEF Length, PageFree
    <3> QED  BY <2>2, <3>1, <3>2 DEF Absorbed, SameTaken
  <2>6. End(u, p) \notin Runs(u)
    <3>1. End(pg, j) \in Nat /\ j < End(pg, j)
      BY <1>2, <1>8, Extent
    <3>2. End(pg, j) # p
      BY <1>3, <3>1
    <3>3. \A q \in Runs(pg) \ {p} : End(pg, j) # q
      BY <1>2, <1>3, <1>8 DEF Apart
    <3> QED  BY <2>3, <3>2, <3>3
  <2> QED  BY <2>2, <2>4, <2>5, <2>6
<1> QED  BY <1>7, <1>8

LEMMA RunBeforeIs ==
  ASSUME NEW pg, NEW p, Kept(pg, p), p \in Runs(pg), NEW r, r = RunBefore(pg, p)
  PROVE  \/ r = Null /\ \A z \in Runs(pg) : End(pg, z) # p
         \/ r \in Runs(pg) \ {p} /\ End(pg, r) = p
<1>1. pg \in Table /\ Tiled(pg) /\ Lasts(pg, p)
  BY DEF Kept
<1>2. p \in Page /\ p \in Nat /\ p >= 1 /\ p <= NPages /\ NPages \in Nat
  BY <1>1, Extent, Sizes DEF Page
<1>3. \A z \in Runs(pg) : z \in Page /\ z \in Nat /\ z >= 1 /\ End(pg, z) \in Nat /\ z < End(pg, z)
                          /\ (z < p => End(pg, z) <= p)
  <2>1. ASSUME NEW z \in Runs(pg)
        PROVE  z \in Page /\ z \in Nat /\ z >= 1 /\ End(pg, z) \in Nat /\ z < End(pg, z)
    BY <1>1, Extent
  <2>2. ASSUME NEW z \in Runs(pg), z < p PROVE End(pg, z) <= p
    BY <1>1, <1>2, <2>2, HeadsApart
  <2> QED  BY <2>1, <2>2
<1>4. PICK l, h : /\ l = p - 1
                  /\ h = IF pg[l].slab = PageFree THEN pg[l].prev.at ELSE l
  OBVIOUS
<1>5. r = IF p > 1 /\ pg[l].prev.type = "PAGE" /\ pg[h].next # Null THEN h ELSE Null
  BY <1>4, Zenon DEF RunBefore
<1>6. CASE p = 1
  <2>1. \A z \in Runs(pg) : End(pg, z) # p
    BY <1>3, <1>6
  <2> QED  BY <1>5, <1>6, <2>1
<1>7. CASE p # 1
  <2>1. p > 1 /\ l \in Page /\ l \in Nat /\ l # p /\ l < p /\ l + 1 = p
    BY <1>2, <1>4, <1>7 DEF Page
  <2>2. CASE pg[l].slab = PageFree
    <3>1. pg[l].slab.tag = "length" /\ pg[l].slab.n = 0
      BY <2>2 DEF PageFree, Length
    <3>2. PICK z \in Runs(pg) : z < l /\ l < End(pg, z)
      BY <1>1, <2>1, <3>1 DEF Tiled
    <3>3. z # p /\ End(pg, z) = p
      BY <1>2, <1>3, <2>1, <3>2
    <3>4. pg[z].slab.n > 1
      BY <1>1, <1>3, <2>1, <3>2, <3>3, Extent
    <3>5. pg[l].prev.at = z
      <4>1. z \in Runs(pg) \ {p} /\ End(pg, z) <= NPages
        BY <1>2, <3>3
      <4>2. pg[End(pg, z) - 1].prev.at = z
        BY <1>1, <3>4, <4>1 DEF Lasts
      <4> QED  BY <1>4, <3>3, <4>2
    <3>6. pg[l].prev.type = "PAGE"
      BY <2>1, <3>1 DEF Kept, Types
    <3>7. pg[z].next # Null
      BY <1>3, <3>3, RunSeen
    <3>8. r = z
      BY <1>4, <1>5, <2>1, <2>2, <3>5, <3>6, <3>7
    <3> QED  BY <3>3, <3>8
  <2>3. CASE pg[l].slab # PageFree
    <3>1. h = l
      BY <1>4, <2>3
    <3>2. (pg[l].prev.type = "PAGE" /\ pg[l].next # Null) <=> l \in Runs(pg)
      BY <2>1, RunSeen
    <3>3. CASE l \in Runs(pg)
      <4>1. r = l
        BY <1>5, <2>1, <3>1, <3>2, <3>3
      <4>2. End(pg, l) = p
        BY <1>2, <1>3, <2>1, <3>3
      <4> QED  BY <2>1, <3>3, <4>1, <4>2
    <3>4. CASE l \notin Runs(pg)
      <4>1. r = Null
        BY <1>5, <3>1, <3>2, <3>4
      <4>2. ASSUME NEW z \in Runs(pg), End(pg, z) = p PROVE FALSE
        <5>1. z \in Nat /\ z < p /\ z # l
          BY <1>3, <3>4, <4>2
        <5>2. l \in z + 1 .. End(pg, z) - 1
          BY <1>2, <2>1, <4>2, <5>1
        <5>3. pg[l].slab = PageFree
          BY <1>1, <5>2 DEF Tiled
        <5> QED  BY <2>3, <5>3
      <4> QED  BY <4>1, <4>2
    <3> QED  BY <3>3, <3>4
  <2> QED  BY <2>2, <2>3
<1> QED  BY <1>6, <1>7

\* A maximal free run, in no list yet, enters the list of free runs.
LEMMA LinkRunIs ==
  ASSUME NEW pg, NEW p, Kept(pg, p), p \in Runs(pg),
         \A z \in Runs(pg) : End(pg, z) # p /\ End(pg, p) # z,
         NEW u, u = LinkRun(pg, p)
  PROVE  Kept(u, Null) /\ \A q \in Page : u[q].slab = pg[q].slab
<1>1. PICK l, e : e = End(pg, p) /\ l = e - 1
  OBVIOUS
<1>2. PICK S : S = Runs(pg) \ {p}
  OBVIOUS
<1>3. /\ pg \in Table /\ Tiled(pg) /\ CutSound(pg) /\ Ring(pg, FreeHead, S)
      /\ \A c \in ChunkClass : Ring(pg, Slot(c), Open(pg, c))
      /\ Types(pg, p) /\ Unlisted(pg, p) /\ Lasts(pg, p) /\ Apart(pg, p)
  BY <1>2 DEF Kept
<1>4. /\ p \in Page /\ p \in Nat /\ e \in Nat /\ p < e /\ e = p + pg[p].slab.n
      /\ pg[p].slab.n \in Nat
      /\ \A q \in p + 1 .. e - 1 : q \in Page /\ q \notin Runs(pg) /\ pg[q].slab.tag # "bits"
  BY <1>1, <1>3, Extent
<1>5. l \in Nat /\ (l = p \/ l \in p + 1 .. e - 1) /\ l \in Page
  BY <1>1, <1>4
<1>6. /\ FreeHead \in Node /\ FreeHead \notin Page /\ p \in Node /\ l \in Node
      /\ \A q \in Page : q \in Node
      /\ \A q \in Runs(pg) : q \in Page
  BY <1>4, <1>5, Nodes DEF Runs
<1>7. l # p => l \notin Runs(pg)
  BY <1>4, <1>5
<1>8. PICK x : x = Untyped(p)
  OBVIOUS
<1>9. x \in Link /\ x.at = p /\ x.type = "PAGE"
  BY <1>4, <1>8, Nodes DEF Link, Untyped
<1>10. PICK f : f = IF l = p THEN pg ELSE [pg EXCEPT ![l].prev = x]
  OBVIOUS
<1>11. /\ f \in Table
       /\ \A q \in Node : /\ f[q].slab = pg[q].slab /\ f[q].next = pg[q].next
                          /\ f[q].prev = IF q = l /\ l # p THEN x ELSE pg[q].prev
  <2>1. CASE l = p
    BY <1>3, <1>10, <2>1
  <2>2. CASE l # p
    <3>1. f = [pg EXCEPT ![l].prev = x]
      BY <1>10, <2>2
    <3> QED  BY <1>3, <1>6, <1>9, <2>2, <3>1 DEF Table, Desc
  <2> QED  BY <2>1, <2>2
<1>12. u = LinkFree(f, p)
  <2>1. l = p + pg[p].slab.n - 1
    BY <1>1, <1>4
  <2> QED  BY <1>8, <1>10, <2>1 DEF LinkRun
<1>13. PICK b : b = f[FreeHead].next
  OBVIOUS
<1>14. b = pg[FreeHead].next /\ b \in S \cup {FreeHead} /\ b \in Node /\ b # p /\ (l # p => b # l)
  <2>1. b = pg[FreeHead].next
    BY <1>6, <1>11, <1>13
  <2>2. b \in S \cup {FreeHead}
    BY <1>3, <2>1 DEF Ring
  <2> QED  BY <1>2, <1>4, <1>5, <1>6, <1>7, <2>1, <2>2
<1>15. /\ u \in Table
       /\ \A q \in Node :
            /\ u[q].slab = f[q].slab
            /\ u[q].next = IF q = FreeHead THEN p ELSE IF q = p THEN b ELSE f[q].next
            /\ u[q].prev = IF q = b THEN Untyped(p) ELSE IF q = p THEN Untyped(FreeHead)
                           ELSE f[q].prev
  <2>1. f \in Table /\ p \in Page /\ b = f[FreeHead].next /\ b \in Node /\ b # p
        /\ u = LinkFree(f, p)
    BY <1>4, <1>11, <1>12, <1>13, <1>14
  <2> QED  BY <2>1, LinkFreeIs
<1>16. \A q \in Node :
            /\ u[q].slab = pg[q].slab
            /\ u[q].next = IF q = FreeHead THEN p ELSE IF q = p THEN b ELSE pg[q].next
            /\ u[q].prev = IF q = b THEN x ELSE IF q = p THEN Untyped(FreeHead)
                           ELSE IF q = l THEN x ELSE pg[q].prev
  BY <1>8, <1>11, <1>15
<1>17. \A q \in Page : u[q].slab = pg[q].slab
  BY <1>6, <1>16
<1>18. /\ Runs(u) = Runs(pg) /\ Starts(u) = Starts(pg)
       /\ \A c : Cut(u, c) = Cut(pg, c) /\ Open(u, c) = Open(pg, c)
       /\ \A q \in Page : End(u, q) = End(pg, q)
       /\ CutSound(u)
  BY <1>3, <1>17 DEF Runs, Starts, Cut, Open, End, CutSound
<1>19. Tiled(u)
  <2>1. \A q \in Starts(pg) : q \in Page
    BY DEF Starts
  <2>2. ASSUME NEW r \in Runs(pg) \cup Starts(pg), NEW q \in r + 1 .. End(pg, r) - 1
        PROVE  u[q].slab = pg[q].slab
    BY <1>3, <1>17, <2>2, Extent
  <2>3. \A r \in Runs(pg) : \A q \in r + 1 .. End(u, r) - 1 : u[q].slab = PageFree
    <3>1. ASSUME NEW r \in Runs(pg), NEW q \in r + 1 .. End(u, r) - 1 PROVE u[q].slab = PageFree
      <4>1. q \in r + 1 .. End(pg, r) - 1
        BY <1>6, <1>18, <3>1
      <4>2. pg[q].slab = PageFree
        BY <1>3, <4>1 DEF Tiled
      <4> QED  BY <2>2, <4>1, <4>2
    <3> QED  BY <3>1
  <2>4. \A r \in Starts(pg) : \A q \in r + 1 .. End(u, r) - 1 : u[q].slab = Busy
    <3>1. ASSUME NEW r \in Starts(pg), NEW q \in r + 1 .. End(u, r) - 1 PROVE u[q].slab = Busy
      <4>1. q \in r + 1 .. End(pg, r) - 1
        BY <1>18, <2>1, <3>1
      <4>2. pg[q].slab = Busy
        BY <1>3, <4>1 DEF Tiled
      <4> QED  BY <2>2, <4>1, <4>2
    <3> QED  BY <3>1
  <2>5. \A r \in Runs(pg) \cup Starts(pg) : End(u, r) = End(pg, r) /\ End(u, r) <= NPages + 1
    BY <1>3, <1>6, <1>18, <2>1 DEF Tiled
  <2>6. \A q \in Starts(pg) : u[q].slab.n > 0
    BY <1>3, <1>17, <2>1 DEF Tiled
  <2>7. \A q \in Page :
         /\ u[q].slab.tag = "length" /\ u[q].slab.n = 0 =>
              \E r \in Runs(pg) : r < q /\ q < End(u, r)
         /\ u[q].slab.tag = "busy" =>
              \E r \in Starts(pg) : r < q /\ q < End(u, r)
    BY <1>3, <1>17, <2>5 DEF Tiled
  <2> QED  BY <1>18, <2>3, <2>4, <2>5, <2>6, <2>7 DEF Tiled
<1>20. Runs(pg) \ {Null} = Runs(pg) /\ Runs(pg) = S \cup {p}
  <2>1. Runs(pg) \subseteq Page
    BY <1>6
  <2> QED  BY <1>2, <2>1, NullIsNone
<1>21. Ring(u, FreeHead, Runs(u) \ {Null})
  <2>1. p \notin S /\ p # FreeHead /\ FreeHead \notin S
    BY <1>2, <1>4, <1>6
  <2>2. u[FreeHead].next = p /\ u[p].next = pg[FreeHead].next /\ u[p].prev.at = FreeHead
    BY <1>6, <1>14, <1>16, <2>1 DEF Untyped
  <2>3. \A q \in S : /\ u[q].next = pg[q].next
                     /\ u[q].prev.at = IF q = pg[FreeHead].next THEN p ELSE pg[q].prev.at
    <3>1. ASSUME NEW q \in S
          PROVE  /\ u[q].next = pg[q].next
                 /\ u[q].prev.at = IF q = pg[FreeHead].next THEN p ELSE pg[q].prev.at
      <4>1. q \in Node /\ q # p /\ q # FreeHead /\ q # l
        BY <1>2, <1>5, <1>6, <1>7, <2>1
      <4> QED  BY <1>9, <1>14, <1>16, <4>1
    <3> QED  BY <3>1
  <2>4. Ring(u, FreeHead, S \cup {p})
    BY <1>3, <2>1, <2>2, <2>3, RingInsert
  <2> QED  BY <1>18, <1>20, <2>4
<1>22. ASSUME NEW c \in ChunkClass PROVE Ring(u, Slot(c), Open(u, c))
  <2>1. Slot(c) \in Node /\ Slot(c) \notin Page /\ Slot(c) # FreeHead
    BY Nodes
  <2>2. u[Slot(c)].next = pg[Slot(c)].next
    BY <1>4, <1>16, <2>1
  <2>3. \A q \in Open(pg, c) : q \in Page /\ q \in Node /\ pg[q].slab.tag = "bits"
    BY <1>6 DEF Open, Cut
  <2>4. \A q \in Open(pg, c) : q \notin Runs(pg) /\ q # p /\ q # b /\ q # l /\ q # FreeHead
    BY <1>2, <1>4, <1>5, <1>6, <1>14, <2>3 DEF Runs
  <2>5. \A q \in Open(pg, c) : u[q].next = pg[q].next /\ u[q].prev.at = pg[q].prev.at
    BY <1>16, <2>3, <2>4
  <2>6. Ring(pg, Slot(c), Open(pg, c))
    BY <1>3
  <2>7. Ring(u, Slot(c), Open(pg, c))
    BY <2>2, <2>5, <2>6, RingFrame
  <2> QED  BY <1>18, <2>7
<1>23. Types(u, Null)
  <2>1. ASSUME NEW q \in Page
        PROVE  u[q].prev.type = IF pg[q].slab.tag = "bits" THEN Tag(pg[q].slab.n) ELSE "PAGE"
    <3>1. CASE q = p \/ q = l \/ q = b
      <4>1. pg[q].slab.tag # "bits"
        BY <1>2, <1>4, <1>5, <1>6, <1>14, <3>1 DEF Runs
      <4>2. Untyped(FreeHead).type = "PAGE"
        BY DEF Untyped
      <4> QED  BY <1>6, <1>9, <1>16, <3>1, <4>1, <4>2
    <3>2. CASE q # p /\ q # l /\ q # b
      BY <1>3, <1>6, <1>16, <3>2 DEF Types
    <3> QED  BY <3>1, <3>2
  <2> QED  BY <1>17, <2>1 DEF Types
<1>24. Unlisted(u, Null)
  <2>1. ASSUME NEW q \in Page, q \notin Runs(u), q \notin Open(u, u[q].slab.n)
        PROVE  u[q].next = Null
    <3>1. q # p /\ q \notin Runs(pg) /\ q \notin Open(pg, pg[q].slab.n)
      BY <1>17, <1>18, <1>20, <2>1
    <3>2. pg[q].next = Null
      BY <1>3, <3>1 DEF Unlisted
    <3> QED  BY <1>6, <1>16, <3>1, <3>2
  <2> QED  BY <2>1 DEF Unlisted
<1>25. Lasts(u, Null)
  <2>1. ASSUME NEW r \in Runs(pg), pg[r].slab.n > 1, End(pg, r) <= NPages
        PROVE  u[End(pg, r) - 1].prev.at = r
    <3>1. CASE r = p
      <4>1. l # p
        BY <1>1, <1>4, <2>1, <3>1
      <4> QED  BY <1>1, <1>6, <1>9, <1>14, <1>16, <3>1, <4>1
    <3>2. CASE r # p
      <4>1. PICK y : y = End(pg, r) - 1
        OBVIOUS
      <4>2. pg[y].prev.at = r
        BY <1>3, <2>1, <3>2, <4>1 DEF Lasts
      <4>3. r \in Nat /\ r \in Page /\ End(pg, r) \in Nat /\ End(pg, r) = r + pg[r].slab.n
            /\ pg[r].slab.n \in Nat /\ r < End(pg, r)
        BY <1>3, Extent
      <4>4. y \in r + 1 .. End(pg, r) - 1
        BY <2>1, <4>1, <4>3
      <4>5. y \in Page /\ y \notin Runs(pg)
        BY <1>3, <4>4, Extent
      <4>6. y # l
        <5>1. CASE r < p
          <6>1. End(pg, r) <= p
            BY <1>3, <1>4, <5>1, HeadsApart
          <6> QED  BY <1>1, <1>4, <4>1, <4>3, <6>1
        <5>2. CASE p < r
          <6>1. e <= r
            BY <1>1, <1>3, <4>3, <5>2, HeadsApart
          <6> QED  BY <1>1, <1>4, <4>1, <4>3, <6>1
        <5> QED  BY <1>4, <3>2, <4>3, <5>1, <5>2
      <4>7. y # p /\ y # b
        BY <1>2, <1>6, <1>14, <4>5
      <4> QED  BY <1>6, <1>16, <4>1, <4>2, <4>5, <4>6, <4>7
    <3> QED  BY <3>1, <3>2
  <2>2. \A r \in Runs(pg) : End(u, r) = End(pg, r) /\ u[r].slab = pg[r].slab
    BY <1>6, <1>17, <1>18
  <2> QED  BY <1>18, <2>1, <2>2 DEF Lasts
<1>26. Apart(u, Null)
  <2>1. \A y, z \in Runs(pg) : End(pg, y) # z
    BY <1>3 DEF Apart
  <2>2. \A r \in Runs(pg) : End(u, r) = End(pg, r)
    BY <1>6, <1>18
  <2> QED  BY <1>18, <2>1, <2>2 DEF Apart
<1> QED  BY <1>15, <1>17, <1>18, <1>19, <1>21, <1>22, <1>23, <1>24, <1>25, <1>26 DEF Kept

\* From pg to t, the n pages at p become free, and nothing else does.
Freed(pg, t, p, n) ==
    \A q \in Page :
        IF q \in p .. p + n - 1 THEN t[q].slab.tag = "length"
        ELSE \/ t[q].slab = pg[q].slab
             \/ t[q].slab.tag = "length" /\ pg[q].slab.tag = "length"

LEMMA FreePagesIs ==
  ASSUME NEW pg, Kept(pg, Null), NEW p, NEW n,
         \/ p \in Starts(pg) /\ n = pg[p].slab.n
         \/ n = 1 /\ \E c \in ChunkClass : p \in Open(pg, c),
         NEW t, t = FreePages(pg, p, n)
  PROVE  Kept(t, Null) /\ Freed(pg, t, p, n)
<1>1. PICK b : b = [q \in Node |->
                      IF q = p THEN [pg[p] EXCEPT !.slab = Length(n)]
                      ELSE IF q \in p + 1 .. p + n - 1 THEN Cleared ELSE pg[q]]
  OBVIOUS
<1>2. PICK a : a = IF pg[p].next # Null THEN Unlink(b, p) ELSE b
  OBVIOUS
<1>3. PICK j : j = JoinNext(a, p)
  OBVIOUS
<1>4. PICK r : r = RunBefore(j, p)
  OBVIOUS
<1>5. PICK x, m : /\ x = IF r = Null THEN p ELSE r
                  /\ m = IF r = Null THEN j ELSE Absorb(j, r, r, p)
  OBVIOUS
<1>6. t = LinkRun(m, x)
  <2>1. Blank(pg, p, n) = a
    BY <1>1, <1>2 DEF Blank
  <2> QED  BY <1>3, <1>4, <1>5, <2>1 DEF FreePages
<1>7. pg \in Table /\ Tiled(pg) /\ OneBlock(pg, p, n)
  <2>1. \A c : p \in Open(pg, c) => p \in Page /\ pg[p].slab.tag = "bits"
    BY DEF Open, Cut
  <2> QED  BY <2>1 DEF Kept, OneBlock
<1>8. /\ p \in Page /\ p \in Nat /\ p >= 1 /\ n \in Nat \ {0} /\ p + n <= NPages + 1
      /\ \A q \in p + 1 .. p + n - 1 : q \in Page /\ pg[q].slab = Busy
      /\ pg[p].slab.tag # "length" /\ p \notin Runs(pg)
  BY <1>7, BlockExtent
<1>9. /\ b \in Table /\ Blanked(pg, b, p, n)
      /\ \A q \in Node : q \notin p + 1 .. p + n - 1 =>
            b[q].next = pg[q].next /\ b[q].prev = pg[q].prev
      /\ \A q \in p + 1 .. p + n - 1 : b[q].next = Null /\ b[q].prev = Untyped(Null)
  <2>1. PICK y, z : y = [pg[p] EXCEPT !.slab = Length(n)] /\ z = Cleared
    OBVIOUS
  <2>2. /\ p \in Node /\ \A q \in Page : q \in Node
        /\ p \notin p + 1 .. p + n - 1
    BY <1>8, Nodes
  <2>3. pg[p] \in Desc /\ pg \in [Node -> Desc]
    BY <1>7, <2>2 DEF Table
  <2>4. y \in Desc /\ y.slab = Length(n) /\ y.next = pg[p].next /\ y.prev = pg[p].prev
    <3>1. Length(n) \in Word
      BY <1>8 DEF Length, Word
    <3> QED  BY <2>1, <2>3, <3>1 DEF Desc
  <2>5. z \in Desc /\ z.slab = PageFree /\ z.next = Null /\ z.prev = Untyped(Null)
    <3>1. PageFree \in Word /\ Untyped(Null) \in Link /\ Null \in Int
      BY Nodes DEF PageFree, Length, Word, Untyped, Link
    <3> QED  BY <2>1, <3>1 DEF Cleared, Desc
  <2>6. b = [q \in Node |-> IF q = p THEN y ELSE IF q \in p + 1 .. p + n - 1 THEN z ELSE pg[q]]
    BY <1>1, <2>1
  <2>7. /\ b \in [Node -> Desc] /\ b[p] = y
        /\ \A q \in Node : q \in p + 1 .. p + n - 1 => b[q] = z
        /\ \A q \in Node : q # p /\ q \notin p + 1 .. p + n - 1 => b[q] = pg[q]
    BY <2>2, <2>3, <2>4, <2>5, <2>6
  <2>8. Blanked(pg, b, p, n)
    <3>1. ASSUME NEW q \in Page
          PROVE  b[q].slab = IF q = p THEN Length(n)
                             ELSE IF q \in p + 1 .. p + n - 1 THEN PageFree ELSE pg[q].slab
      BY <2>2, <2>4, <2>5, <2>7
    <3> QED  BY <3>1 DEF Blanked
  <2>9. \A q \in Node : q \notin p + 1 .. p + n - 1 =>
            b[q].next = pg[q].next /\ b[q].prev = pg[q].prev
    BY <2>4, <2>7
  <2>10. \A q \in p + 1 .. p + n - 1 : b[q].next = Null /\ b[q].prev = Untyped(Null)
    BY <1>8, <2>2, <2>5, <2>7
  <2> QED  BY <2>7, <2>8, <2>9, <2>10 DEF Table
<1>10. a \in Table /\ Blanked(pg, a, p, n) /\ Kept(a, p)
  <2>1. CASE p \in Starts(pg) /\ n = pg[p].slab.n
    <3>1. p \notin Open(pg, pg[p].slab.n)
      BY <2>1 DEF Open, Cut, Starts
    <3>2. pg[p].next = Null
      BY <1>8, <3>1, NullIsNone DEF Kept, Unlisted
    <3>3. a = b
      BY <1>2, <3>2
    <3>4. Kept(b, p)
      <4>1. p \in Starts(pg) /\ n = pg[p].slab.n
        BY <2>1
      <4>2. /\ b \in Table /\ Blanked(pg, b, p, n)
            /\ \A q \in Node : q \notin p + 1 .. p + n - 1 =>
                  b[q].next = pg[q].next /\ b[q].prev = pg[q].prev
            /\ \A q \in p + 1 .. p + n - 1 : b[q].next = Null /\ b[q].prev = Untyped(Null)
        BY <1>9
      <4> QED  BY <4>1, <4>2, BlankRun
    <3> QED  BY <1>9, <3>3, <3>4
  <2>2. CASE n = 1 /\ \E c \in ChunkClass : p \in Open(pg, c)
    <3>1. PICK c \in ChunkClass : p \in Open(pg, c)
      BY <2>2
    <3>2. pg[p].next # Null
      <4>1. Ring(pg, Slot(c), Open(pg, c))
        BY DEF Kept
      <4>2. pg[p].next \in Open(pg, c) \cup {Slot(c)}
        BY <3>1, <4>1, Neighbours
      <4>3. \A q \in Open(pg, c) \cup {Slot(c)} : q \in Node
        BY Nodes DEF Open, Cut
      <4> QED  BY <4>2, <4>3, Nodes
    <3>3. a = Unlink(b, p)
      BY <1>2, <3>2
    <3>4. \A q \in Node : b[q].next = pg[q].next /\ b[q].prev = pg[q].prev
      <4>1. p + 1 .. p + n - 1 = {}
        BY <1>8, <2>2
      <4> QED  BY <1>9, <4>1
    <3>5. Blanked(pg, b, p, 1)
      BY <1>9, <2>2
    <3>6. a \in Table /\ Blanked(pg, a, p, 1) /\ Kept(a, p)
      BY <1>9, <3>1, <3>3, <3>4, <3>5, BlankCut
    <3> QED  BY <2>2, <3>6
  <2> QED  BY <2>1, <2>2
<1>11. p \in Runs(a)
  BY <1>7, <1>10, BlankTiled
<1>12. Kept(j, p) /\ p \in Runs(j) /\ SameTaken(a, j) /\ End(j, p) \notin Runs(j)
  BY <1>3, <1>10, <1>11, JoinIs
<1>13. \/ r = Null /\ \A z \in Runs(j) : End(j, z) # p
       \/ r \in Runs(j) \ {p} /\ End(j, r) = p
  BY <1>4, <1>12, RunBeforeIs
<1>14. /\ Kept(m, x) /\ x \in Runs(m) /\ SameTaken(j, m)
       /\ \A z \in Runs(m) : End(m, z) # x /\ End(m, x) # z
  <2>1. p # Null /\ \A z \in Runs(j) : z # Null
    BY <1>8, Nodes DEF Runs
  <2>2. j \in Table /\ Tiled(j) /\ Apart(j, p)
    BY <1>12 DEF Kept
  <2>3. CASE r = Null
    <3>1. x = p /\ m = j /\ \A z \in Runs(j) : End(j, z) # p
      BY <1>5, <1>13, <2>1, <2>3
    <3> QED  BY <1>12, <3>1 DEF SameTaken
  <2>4. CASE r # Null
    <3>1. r \in Runs(j) /\ r # p /\ End(j, r) = p /\ x = r /\ m = Absorb(j, r, r, p)
      BY <1>5, <1>13, <2>4
    <3>2. m \in Table /\ Absorbed(j, m, r, p) /\ Kept(m, r)
      BY <1>12, <3>1, AbsorbKept
    <3>3. /\ Runs(m) = Runs(j) \ {p}
          /\ \A q \in Runs(j) \ {r, p} : End(m, q) = End(j, q)
          /\ End(m, r) = End(j, p)
      BY <1>12, <2>2, <3>1, <3>2, AbsorbTiled
    <3>4. SameTaken(j, m)
      <4>1. j[p].slab.tag = "length" /\ j[r].slab.tag = "length"
        BY <1>12, <3>1 DEF Runs
      <4>2. \A i : Length(i).tag = "length" /\ PageFree.tag = "length"
        BY DEF Length, PageFree
      <4> QED  BY <3>2, <4>1, <4>2 DEF Absorbed, SameTaken
    <3>5. r \in Nat /\ r < p /\ p \in Nat /\ End(j, p) \in Nat /\ p < End(j, p)
      <4>1. r \in Nat /\ r < End(j, r)
        BY <2>2, <3>1, Extent
      <4>2. p \in Nat /\ End(j, p) \in Nat /\ p < End(j, p)
        BY <1>12, <2>2, Extent
      <4> QED  BY <3>1, <4>1, <4>2
    <3>6. ASSUME NEW z \in Runs(m) PROVE End(m, z) # r /\ End(m, r) # z
      <4>1. z \in Runs(j) /\ z # p
        BY <3>3
      <4>2. End(m, r) # z
        BY <1>12, <3>3, <4>1
      <4>3. CASE z = r
        BY <3>3, <3>5, <4>2, <4>3
      <4>4. CASE z # r
        <5>1. End(m, z) = End(j, z)
          BY <3>3, <4>1, <4>4
        <5>2. End(j, z) # r
          BY <2>2, <3>1, <4>1 DEF Apart
        <5> QED  BY <4>2, <5>1, <5>2
      <4> QED  BY <4>3, <4>4
    <3> QED  BY <3>1, <3>2, <3>3, <3>4, <3>6
  <2> QED  BY <2>3, <2>4
<1>15. Kept(t, Null) /\ \A q \in Page : t[q].slab = m[q].slab
  BY <1>6, <1>14, LinkRunIs
<1>16. Freed(pg, t, p, n)
  <2>1. \A q \in Page : \/ t[q].slab = a[q].slab
                        \/ t[q].slab.tag = "length" /\ a[q].slab.tag = "length"
    BY <1>12, <1>14, <1>15 DEF SameTaken
  <2>2. \A q \in Page : q \in p .. p + n - 1 => a[q].slab.tag = "length"
    <3>1. \A q \in p .. p + n - 1 : q = p \/ q \in p + 1 .. p + n - 1
      BY <1>8
    <3>2. Length(n).tag = "length" /\ PageFree.tag = "length"
      BY DEF Length, PageFree
    <3> QED  BY <1>10, <3>1, <3>2 DEF Blanked
  <2>3. \A q \in Page : q \notin p .. p + n - 1 => a[q].slab = pg[q].slab
    <3>1. p \in p .. p + n - 1 /\ \A q \in p + 1 .. p + n - 1 : q \in p .. p + n - 1
      BY <1>8
    <3> QED  BY <1>10, <3>1 DEF Blanked
  <2> QED  BY <2>1, <2>2, <2>3 DEF Freed
<1> QED  BY <1>15, <1>16

-----------------------------------------------------------------------------
(* Cut pages *)

LEMMA RingEmpty ==
  ASSUME NEW pg, NEW h, NEW S, Ring(pg, h, S), h \notin S
  PROVE  pg[h].next = h <=> S = {}
<1>1. PICK r \in [S -> Nat] :
        /\ pg[h].next \in S \cup {h}
        /\ \A q \in S :
             /\ pg[q].prev.at \in S \cup {h}
             /\ pg[pg[q].prev.at].next = q
             /\ pg[q].next \in S => r[q] < r[pg[q].next]
  BY DEF Ring
<1>2. ASSUME pg[h].next = h, S # {} PROVE FALSE
  <2>1. PICK T : T = {r[q] : q \in S}
    OBVIOUS
  <2>2. T \in SUBSET Nat /\ T # {}
    BY <1>2, <2>1
  <2>3. PICK k \in T : \A i \in T : k <= i
    BY <2>2, HasLeast
  <2>4. PICK q \in S : k = r[q]
    BY <2>1
  <2>5. pg[q].prev.at \in S
    BY <1>1, <1>2
  <2>6. r[pg[q].prev.at] < r[q]
    BY <1>1, <2>5
  <2>7. r[pg[q].prev.at] \in Nat /\ r[q] \in Nat /\ r[pg[q].prev.at] \in T
    BY <2>1, <2>5
  <2> QED  BY <2>3, <2>4, <2>6, <2>7
<1> QED  BY <1>1, <1>2

LEMMA BitsTiled ==
  ASSUME NEW pg \in Table, Tiled(pg), NEW p, OneBlock(pg, p, 1),
         NEW u \in Table, u[p].slab.tag = "bits",
         \A q \in Page \ {p} : u[q].slab = pg[q].slab
  PROVE  /\ Tiled(u)
         /\ Runs(u) = Runs(pg)
         /\ Starts(u) = Starts(pg) \ {p}
         /\ \A x \in Runs(pg) \cup (Starts(pg) \ {p}) :
              End(u, x) = End(pg, x) /\ u[x].slab = pg[x].slab
<1>1. /\ p \in Page /\ p \in Nat
      /\ pg[p].slab.tag # "length" /\ p \notin Runs(pg)
      /\ \A x \in Runs(pg) \cup (Starts(pg) \ {p}) : End(pg, x) <= p \/ p + 1 <= x
  BY BlockExtent
<1>2. \A x \in Runs(pg) \cup (Starts(pg) \ {p}) : x \in Page /\ x # p
  BY <1>1 DEF Runs, Starts
<1>3. \A x \in Runs(pg) \cup (Starts(pg) \ {p}) :
        End(u, x) = End(pg, x) /\ u[x].slab = pg[x].slab
  BY <1>2 DEF End
<1>4. ASSUME NEW x \in Runs(pg) \cup (Starts(pg) \ {p}), NEW q \in x + 1 .. End(pg, x) - 1
      PROVE  u[q].slab = pg[q].slab
  <2>1. x \in Nat /\ End(pg, x) \in Nat /\ q \in Page
    BY Extent
  <2>2. End(pg, x) <= p \/ p + 1 <= x
    BY <1>1
  <2>3. q # p
    BY <1>1, <1>4, <2>1, <2>2
  <2> QED  BY <2>1, <2>3
<1>5. Runs(u) = Runs(pg) /\ Starts(u) = Starts(pg) \ {p}
  BY <1>1 DEF Runs, Starts
<1>6. \A x \in Runs(pg) : \A q \in x + 1 .. End(u, x) - 1 : u[q].slab = PageFree
  BY <1>3, <1>4 DEF Tiled
<1>7. \A x \in Starts(pg) \ {p} : \A q \in x + 1 .. End(u, x) - 1 : u[q].slab = Busy
  BY <1>3, <1>4 DEF Tiled
<1>8. ASSUME NEW q \in Page, u[q].slab.tag = "length", u[q].slab.n = 0
      PROVE  \E x \in Runs(pg) : x < q /\ q < End(u, x)
  <2>1. u[q].slab = pg[q].slab
    BY <1>8
  <2> QED  BY <1>3, <1>8, <2>1 DEF Tiled
<1>9. ASSUME NEW q \in Page, u[q].slab.tag = "busy"
      PROVE  \E x \in Starts(pg) \ {p} : x < q /\ q < End(u, x)
  <2>1. u[q].slab = pg[q].slab /\ pg[q].slab.tag = "busy"
    BY <1>9
  <2>2. PICK x \in Starts(pg) : x < q /\ q < End(pg, x)
    BY <2>1 DEF Tiled
  <2>3. x # p
    <3>1. ASSUME x = p PROVE FALSE
      <4>1. pg[p].slab.n = 1
        BY <3>1 DEF OneBlock, Starts
      <4>2. q \in Nat /\ p < q /\ q < p + 1
        BY <2>2, <3>1, <4>1, Nodes DEF End
      <4> QED  BY <1>1, <4>2
    <3> QED  BY <3>1
  <2> QED  BY <1>3, <2>2, <2>3
<1>10. /\ \A x \in Starts(pg) \ {p} : u[x].slab.n > 0
       /\ \A x \in Runs(pg) \cup (Starts(pg) \ {p}) : End(u, x) <= NPages + 1
  BY <1>3 DEF Tiled
<1> QED  BY <1>3, <1>5, <1>6, <1>7, <1>8, <1>9, <1>10 DEF Tiled

\* What a step on a page that is cut into chunks of c, and on the list of c,
\* has to show.
LEMMA SlotFrame ==
  ASSUME NEW pg, Kept(pg, Null), NEW c \in ChunkClass, NEW p, OneBlock(pg, p, 1),
         pg[p].slab.tag = "bits" => pg[p].slab.n = c,
         NEW u \in Table, u[p].slab.tag = "bits", u[p].slab.n = c,
         u[p].slab.map \subseteq 0 .. Chunks(c) - 1,
         \A q \in Page \ {p} : u[q].slab = pg[q].slab,
         \A q \in Node \ (Open(pg, c) \cup {p, Slot(c)}) :
            u[q].next = pg[q].next /\ u[q].prev = pg[q].prev,
         \A q \in Open(pg, c) \cup {p} : u[q].prev.type = Tag(c),
         Ring(u, Slot(c), Open(u, c)),
         p \notin Open(u, c) => u[p].next = Null
  PROVE  Kept(u, Null) /\ Runs(u) = Runs(pg) /\ Starts(u) = Starts(pg) \ {p}
<1>1. /\ pg \in Table /\ Tiled(pg) /\ CutSound(pg) /\ Ring(pg, FreeHead, Runs(pg))
      /\ \A d \in ChunkClass : Ring(pg, Slot(d), Open(pg, d))
      /\ Types(pg, Null) /\ Unlisted(pg, Null) /\ Lasts(pg, Null) /\ Apart(pg, Null)
      /\ Runs(pg) \ {Null} = Runs(pg)
  <2>1. Runs(pg) \ {Null} = Runs(pg)
    BY NullIsNone DEF Runs
  <2> QED  BY <2>1 DEF Kept
<1>2. p \in Page /\ p \in Node /\ pg[p].slab.tag # "length" /\ p \notin Runs(pg)
  BY <1>1, BlockExtent, Nodes
<1>3. /\ Tiled(u)
      /\ Runs(u) = Runs(pg)
      /\ Starts(u) = Starts(pg) \ {p}
      /\ \A x \in Runs(pg) \cup (Starts(pg) \ {p}) :
           End(u, x) = End(pg, x) /\ u[x].slab = pg[x].slab
  BY <1>1, BitsTiled
<1>4. \A d : d # c => Open(u, d) = Open(pg, d) /\ p \notin Open(pg, d)
  <2>1. ASSUME NEW d, d # c PROVE Open(u, d) = Open(pg, d) /\ p \notin Open(pg, d)
    <3>1. p \notin Cut(pg, d) /\ p \notin Cut(u, d)
      BY <2>1 DEF Cut
    <3> QED  BY <3>1 DEF Open, Cut
  <2> QED  BY <2>1
<1>5. \A q \in Open(pg, c) \cup {p} : q \in Page /\ q \notin Runs(pg)
  BY <1>2 DEF Open, Cut, Runs
<1>6. \A q \in Page : q \in Node /\ q # Slot(c)
  BY Nodes
<1>7. Slot(c) # FreeHead /\ Slot(c) \notin Page /\ FreeHead \in Node /\ FreeHead \notin Page
  BY Nodes
<1>8. \A q \in Runs(pg) \cup {FreeHead} :
        u[q].next = pg[q].next /\ u[q].prev = pg[q].prev
  <2>1. \A q \in Runs(pg) \cup {FreeHead} :
          q \in Node /\ q \notin Open(pg, c) \cup {p, Slot(c)}
    BY <1>5, <1>6, <1>7 DEF Runs
  <2> QED  BY <2>1
<1>9. Ring(u, FreeHead, Runs(u) \ {Null})
  <2>1. Ring(u, FreeHead, Runs(pg))
    BY <1>1, <1>8, RingFrame
  <2> QED  BY <1>1, <1>3, <2>1
<1>10. ASSUME NEW d \in ChunkClass PROVE Ring(u, Slot(d), Open(u, d))
  <2>1. CASE d = c
    BY <2>1
  <2>2. CASE d # c
    <3>1. \A q \in Open(pg, d) : q \in Page /\ q # p /\ q \notin Open(pg, c)
      BY <1>4, <2>2 DEF Open, Cut
    <3>2. Slot(d) \in Node /\ Slot(d) \notin Page /\ Slot(d) # Slot(c)
      BY <2>2, Nodes
    <3>3. \A q \in Open(pg, d) \cup {Slot(d)} :
            q \in Node /\ q \notin Open(pg, c) \cup {p, Slot(c)}
      BY <1>5, <1>6, <3>1, <3>2
    <3>4. \A q \in Open(pg, d) \cup {Slot(d)} :
            u[q].next = pg[q].next /\ u[q].prev = pg[q].prev
      BY <3>3
    <3>5. Ring(pg, Slot(d), Open(pg, d))
      BY <1>1
    <3>6. Ring(u, Slot(d), Open(pg, d))
      BY <3>4, <3>5, RingFrame
    <3> QED  BY <1>4, <2>2, <3>6
  <2> QED  BY <2>1, <2>2
<1>11. CutSound(u)
  BY <1>1 DEF CutSound
<1>12. Types(u, Null)
  <2>1. ASSUME NEW q \in Page
        PROVE  u[q].prev.type = IF u[q].slab.tag = "bits" THEN Tag(u[q].slab.n) ELSE "PAGE"
    <3>1. CASE q = p
      BY <3>1
    <3>2. CASE q # p /\ q \in Open(pg, c)
      <4>1. pg[q].slab.tag = "bits" /\ pg[q].slab.n = c
        BY <3>2 DEF Open, Cut
      <4> QED  BY <3>2, <4>1
    <3>3. CASE q # p /\ q \notin Open(pg, c)
      <4>1. pg[q].prev.type = IF pg[q].slab.tag = "bits" THEN Tag(pg[q].slab.n) ELSE "PAGE"
        BY <1>1, NullIsNone DEF Types
      <4>2. u[q].slab = pg[q].slab /\ u[q].prev = pg[q].prev
        BY <1>6, <3>3
      <4> QED  BY <4>1, <4>2
    <3> QED  BY <3>1, <3>2, <3>3
  <2> QED  BY <2>1 DEF Types
<1>13. Unlisted(u, Null)
  <2>1. ASSUME NEW q \in Page, q \notin Runs(u), q \notin Open(u, u[q].slab.n)
        PROVE  u[q].next = Null
    <3>1. CASE q = p
      BY <2>1, <3>1
    <3>2. CASE q # p
      <4>1. u[q].slab = pg[q].slab /\ q \notin Runs(pg)
        BY <1>3, <2>1, <3>2
      <4>2. q \notin Open(pg, pg[q].slab.n)
        BY <2>1, <4>1 DEF Open, Cut
      <4>3. q \notin Open(pg, c)
        BY <4>2 DEF Open, Cut
      <4>4. pg[q].next = Null
        BY <1>1, <4>1, <4>2, NullIsNone DEF Unlisted
      <4> QED  BY <1>6, <3>2, <4>3, <4>4
    <3> QED  BY <3>1, <3>2
  <2> QED  BY <2>1 DEF Unlisted
<1>14. Lasts(u, Null)
  <2>1. ASSUME NEW x \in Runs(pg), pg[x].slab.n > 1, End(pg, x) <= NPages
        PROVE  u[End(pg, x) - 1].prev.at = x
    <3>1. PICK y : y = End(pg, x) - 1
      OBVIOUS
    <3>2. pg[y].prev.at = x
      BY <1>1, <2>1, <3>1 DEF Lasts
    <3>3. x \in Nat /\ End(pg, x) \in Nat /\ x < End(pg, x) /\ End(pg, x) = x + pg[x].slab.n
          /\ pg[x].slab.n \in Nat
      BY <1>1, Extent
    <3>4. y \in x + 1 .. End(pg, x) - 1
      BY <2>1, <3>1, <3>3
    <3>5. y \in Page /\ pg[y].slab.tag # "bits" /\ y \notin Starts(pg)
      BY <1>1, <3>4, Extent
    <3>6. y # p /\ y \notin Open(pg, c)
      BY <3>5 DEF OneBlock, Open, Cut
    <3>7. u[y].prev = pg[y].prev
      BY <1>6, <3>5, <3>6
    <3> QED  BY <3>1, <3>2, <3>7
  <2>2. \A x \in Runs(pg) : End(u, x) = End(pg, x) /\ u[x].slab = pg[x].slab
    BY <1>3
  <2> QED  BY <1>1, <1>3, <2>1, <2>2 DEF Lasts
<1>15. Apart(u, Null)
  BY <1>1, <1>3 DEF Apart
<1> QED  BY <1>3, <1>9, <1>10, <1>11, <1>12, <1>13, <1>14, <1>15 DEF Kept

\* A page that is cut becomes the only one in the empty list of its chunk size.
LEMMA CutPageIs ==
  ASSUME NEW pg, Kept(pg, Null), NEW p \in Starts(pg), pg[p].slab.n = 1,
         NEW c \in ChunkClass, Open(pg, c) = {},
         NEW u, u = CutPage(pg, p, c)
  PROVE  /\ Kept(u, Null) /\ Runs(u) = Runs(pg) /\ Starts(u) = Starts(pg) \ {p}
         /\ u[p].slab = Bits(c, 0 .. Reserved(c))
         /\ \A q \in Page \ {p} : u[q].slab = pg[q].slab
<1>1. pg \in Table /\ Ring(pg, Slot(c), {})
  <2>1. Ring(pg, Slot(c), Open(pg, c))
    BY DEF Kept
  <2> QED  BY <2>1 DEF Kept
<1>2. p \in Page /\ p \in Node /\ pg[p].slab.tag = "start" /\ OneBlock(pg, p, 1)
  BY Nodes DEF Starts, OneBlock
<1>3. PICK h, m : h = Slot(c) /\ m = 0 .. Reserved(c)
  OBVIOUS
<1>4. h \in Node /\ h \in Int /\ h \notin Page /\ h # p /\ p \in Int
  BY <1>2, <1>3, Nodes
<1>5. PICK d : d = [slab |-> Bits(c, m), next |-> h, prev |-> Typed(h, Tag(c))]
  OBVIOUS
<1>6. /\ d \in Desc /\ d.slab = Bits(c, m) /\ d.next = h /\ d.prev.at = h
      /\ d.prev.type = Tag(c) /\ d.slab.tag = "bits" /\ d.slab.n = c /\ d.slab.map = m
  <2>1. c \in Nat /\ Reserved(c) \in Nat
    BY Sizes
  <2>2. m \subseteq Nat
    BY <1>3, <2>1
  <2>3. Bits(c, m) \in Word
    BY <2>1, <2>2 DEF Bits, Word
  <2>4. Typed(h, Tag(c)) \in Link
    BY <1>4 DEF Typed, Link, Tag
  <2> QED  BY <1>4, <1>5, <2>3, <2>4 DEF Desc, Bits, Typed
<1>7. PICK v : v = [pg EXCEPT ![p] = d]
  OBVIOUS
<1>8. v \in Table /\ v[p] = d /\ \A q \in Node : q # p => v[q] = pg[q]
  BY <1>1, <1>2, <1>6, <1>7 DEF Table
<1>9. u = [v EXCEPT ![h].next = p]
  BY <1>3, <1>5, <1>7 DEF CutPage
<1>10. /\ u \in Table
       /\ \A q \in Node : /\ u[q].slab = v[q].slab /\ u[q].prev = v[q].prev
                          /\ u[q].next = IF q = h THEN p ELSE v[q].next
  BY <1>4, <1>8, <1>9 DEF Table, Desc
<1>11. /\ u[p].slab = Bits(c, m) /\ u[p].slab.tag = "bits" /\ u[p].slab.n = c
       /\ u[p].slab.map = m /\ u[p].next = h /\ u[p].prev.at = h /\ u[p].prev.type = Tag(c)
       /\ u[h].next = p
  BY <1>2, <1>4, <1>6, <1>8, <1>10
<1>12. \A q \in Page \ {p} : u[q].slab = pg[q].slab
  BY <1>8, <1>10, Nodes
<1>13. \A q \in Node \ {p, h} : u[q].next = pg[q].next /\ u[q].prev = pg[q].prev
  BY <1>8, <1>10
<1>14. m \subseteq 0 .. Chunks(c) - 1 /\ m # 0 .. Chunks(c) - 1
  <2>1. Chunks(c) \in Nat /\ Reserved(c) \in Nat /\ Chunks(c) - Reserved(c) >= 2
    BY Sizes
  <2>2. Reserved(c) + 1 \notin m /\ Reserved(c) + 1 \in 0 .. Chunks(c) - 1
    BY <1>3, <2>1
  <2>3. m \subseteq 0 .. Chunks(c) - 1
    BY <1>3, <2>1
  <2> QED  BY <2>2, <2>3
<1>15. Open(u, c) = {p}
  <2>1. p \in Open(u, c)
    BY <1>2, <1>11, <1>14 DEF Open, Cut
  <2>2. ASSUME NEW q \in Open(u, c), q # p PROVE FALSE
    <3>1. q \in Open(pg, c)
      BY <1>12, <2>2 DEF Open, Cut
    <3> QED  BY <3>1
  <2> QED  BY <2>1, <2>2
<1>16. Ring(u, h, {p})
  <2>1. pg[h].next = h
    BY <1>1, <1>3, RingEmpty
  <2>2. Ring(pg, h, {})
    BY <1>1, <1>3
  <2>3. Ring(u, h, {} \cup {p})
    BY <1>4, <1>11, <2>1, <2>2, RingInsert
  <2> QED  BY <2>3
<1>17. Kept(u, Null) /\ Runs(u) = Runs(pg) /\ Starts(u) = Starts(pg) \ {p}
  <2>1. /\ pg[p].slab.tag = "bits" => pg[p].slab.n = c
        /\ u[p].slab.map \subseteq 0 .. Chunks(c) - 1
        /\ \A q \in Node \ (Open(pg, c) \cup {p, Slot(c)}) :
             u[q].next = pg[q].next /\ u[q].prev = pg[q].prev
        /\ \A q \in Open(pg, c) \cup {p} : u[q].prev.type = Tag(c)
        /\ Ring(u, Slot(c), Open(u, c))
        /\ p \notin Open(u, c) => u[p].next = Null
    BY <1>2, <1>3, <1>11, <1>13, <1>14, <1>15, <1>16
  <2> QED  BY <1>2, <1>10, <1>11, <1>12, <2>1, SlotFrame
<1> QED  BY <1>3, <1>11, <1>12, <1>17

\* The pages of a list, and their marks.
LEMMA OpenFacts ==
  ASSUME NEW pg, Kept(pg, Null), NEW c \in ChunkClass
  PROVE  /\ Ring(pg, Slot(c), Open(pg, c)) /\ Slot(c) \in Node
         /\ Slot(c) \notin Open(pg, c)
         /\ \A q \in Cut(pg, c) : /\ q \in Page /\ q \in Node /\ OneBlock(pg, q, 1)
                                  /\ q \notin Starts(pg)
                                  /\ pg[q].slab.tag = "bits" /\ pg[q].slab.n = c
                                  /\ pg[q].prev.type = Tag(c)
         /\ Open(pg, c) \subseteq Cut(pg, c)
<1>1. Ring(pg, Slot(c), Open(pg, c)) /\ Types(pg, Null)
  BY DEF Kept
<1>2. \A q \in Cut(pg, c) : q \in Page /\ pg[q].slab.tag = "bits" /\ pg[q].slab.n = c
  BY DEF Cut
<1>3. \A q \in Cut(pg, c) : q # Null /\ q \in Node
  BY <1>2, Nodes
<1>4. \A q \in Cut(pg, c) : pg[q].prev.type = Tag(c)
  BY <1>1, <1>2, <1>3 DEF Types
<1>5. Open(pg, c) \subseteq Cut(pg, c)
  BY DEF Open
<1>6. \A q \in Cut(pg, c) : OneBlock(pg, q, 1) /\ q \notin Starts(pg)
  BY <1>2 DEF OneBlock, Starts
<1>7. Slot(c) \in Node /\ Slot(c) \notin Page
  BY Nodes
<1> QED  BY <1>1, <1>2, <1>3, <1>4, <1>5, <1>6, <1>7

Mark(pg, p, s) == [pg EXCEPT ![p].slab = s]

\* The marks of a page that has a chunk left.
Partial(c, m) == m \subseteq 0 .. Chunks(c) - 1 /\ m # 0 .. Chunks(c) - 1

\* Only the marks of a page in the list change, and it stays in the list.
LEMMA MarkIs ==
  ASSUME NEW pg, Kept(pg, Null), NEW c \in ChunkClass, NEW p \in Open(pg, c),
         NEW m, Partial(c, m),
         NEW u, u = Mark(pg, p, Bits(c, m))
  PROVE  /\ Kept(u, Null) /\ Runs(u) = Runs(pg) /\ Starts(u) = Starts(pg)
         /\ u[p].slab = Bits(c, m) /\ p \in Open(u, c)
         /\ \A q \in Page \ {p} : u[q].slab = pg[q].slab
<1>1. PICK s : s = Bits(c, m)
  OBVIOUS
<1>2. pg \in Table /\ u = [pg EXCEPT ![p].slab = s]
  BY <1>1 DEF Kept, Mark
<1>3. /\ Ring(pg, Slot(c), Open(pg, c)) /\ Slot(c) \in Node
      /\ \A q \in Open(pg, c) : q \in Page /\ q \in Node /\ pg[q].prev.type = Tag(c)
      /\ OneBlock(pg, p, 1) /\ p \in Page /\ p \in Node
      /\ pg[p].slab.tag = "bits" /\ pg[p].slab.n = c /\ p \notin Starts(pg)
  BY OpenFacts
<1>4. s \in Word /\ s.tag = "bits" /\ s.n = c /\ s.map = m
  <2>1. c \in Nat /\ Chunks(c) \in Nat
    BY Sizes
  <2>2. m \subseteq Nat
    BY <2>1 DEF Partial
  <2> QED  BY <1>1, <2>1, <2>2 DEF Bits, Word
<1>5. /\ u \in Table
      /\ \A q \in Node : /\ u[q].slab = IF q = p THEN s ELSE pg[q].slab
                         /\ u[q].next = pg[q].next /\ u[q].prev = pg[q].prev
  BY <1>2, <1>3, <1>4 DEF Table, Desc
<1>6. /\ u[p].slab = s /\ u[p].slab.tag = "bits" /\ u[p].slab.n = c /\ u[p].slab.map = m
      /\ \A q \in Page \ {p} : u[q].slab = pg[q].slab
  BY <1>3, <1>4, <1>5, Nodes
<1>7. Open(u, c) = Open(pg, c)
  <2>1. p \in Open(u, c)
    BY <1>3, <1>6 DEF Open, Cut, Partial
  <2>2. \A q \in Page \ {p} : q \in Open(u, c) <=> q \in Open(pg, c)
    BY <1>6 DEF Open, Cut
  <2>3. Open(u, c) \subseteq Page /\ Open(pg, c) \subseteq Page
    BY DEF Open, Cut
  <2> QED  BY <2>1, <2>2, <2>3
<1>8. Ring(u, Slot(c), Open(u, c))
  <2>1. /\ u[Slot(c)].next = pg[Slot(c)].next
        /\ \A q \in Open(pg, c) : u[q].next = pg[q].next /\ u[q].prev.at = pg[q].prev.at
    BY <1>3, <1>5
  <2>2. Ring(pg, Slot(c), Open(pg, c))
    BY <1>3
  <2>3. Ring(u, Slot(c), Open(pg, c))
    BY <2>1, <2>2, RingFrame
  <2> QED  BY <1>7, <2>3
<1>9. Kept(u, Null) /\ Runs(u) = Runs(pg) /\ Starts(u) = Starts(pg) \ {p}
  <2>1. /\ u[p].slab.map \subseteq 0 .. Chunks(c) - 1
        /\ \A q \in Node \ (Open(pg, c) \cup {p, Slot(c)}) :
             u[q].next = pg[q].next /\ u[q].prev = pg[q].prev
        /\ \A q \in Open(pg, c) \cup {p} : u[q].prev.type = Tag(c)
        /\ Ring(u, Slot(c), Open(u, c))
        /\ p \notin Open(u, c) => u[p].next = Null
    BY <1>3, <1>5, <1>6, <1>7, <1>8 DEF Partial
  <2>2. /\ u \in Table /\ u[p].slab.tag = "bits" /\ u[p].slab.n = c /\ OneBlock(pg, p, 1)
        /\ pg[p].slab.tag = "bits" => pg[p].slab.n = c
        /\ \A q \in Page \ {p} : u[q].slab = pg[q].slab
    BY <1>3, <1>5, <1>6
  <2> QED  BY <2>1, <2>2, SlotFrame
<1> QED  BY <1>1, <1>3, <1>6, <1>7, <1>9

LEMMA MarkBusyIs ==
  ASSUME NEW pg, Kept(pg, Null), NEW c \in ChunkClass, NEW p \in Open(pg, c),
         NEW m, m \subseteq 0 .. Chunks(c) - 1, NEW u, u = MarkBusy(pg, p, c, m)
  PROVE  /\ Kept(u, Null) /\ Runs(u) = Runs(pg) /\ Starts(u) = Starts(pg)
         /\ u[p].slab = Bits(c, m)
         /\ \A q \in Page \ {p} : u[q].slab = pg[q].slab
<1>1. PICK s, l : s = Bits(c, m) /\ l = Typed(Null, Tag(c))
  OBVIOUS
<1>2. PICK v : v = [pg EXCEPT ![p].slab = s]
  OBVIOUS
<1>3. CASE m # 0 .. Chunks(c) - 1
  <2>1. u = Mark(pg, p, Bits(c, m))
    BY <1>3 DEF MarkBusy, Mark
  <2>2. /\ Kept(u, Null) /\ Runs(u) = Runs(pg) /\ Starts(u) = Starts(pg)
        /\ u[p].slab = Bits(c, m)
        /\ \A q \in Page \ {p} : u[q].slab = pg[q].slab
    <3>1. Partial(c, m)
      BY <1>3 DEF Partial
    <3> QED  BY <2>1, <3>1, MarkIs
  <2> QED  BY <2>2
<1>4. CASE m = 0 .. Chunks(c) - 1
  <2>1. /\ Ring(pg, Slot(c), Open(pg, c)) /\ Slot(c) \in Node /\ pg \in Table
        /\ Slot(c) \notin Open(pg, c)
        /\ \A q \in Open(pg, c) : q \in Page /\ q \in Node /\ pg[q].prev.type = Tag(c)
        /\ OneBlock(pg, p, 1) /\ p \in Page /\ p \in Node
        /\ pg[p].slab.tag = "bits" /\ pg[p].slab.n = c /\ p \notin Starts(pg)
    <3>1. pg \in Table
      BY DEF Kept
    <3> QED  BY <3>1, OpenFacts
  <2>2. s \in Word /\ s.tag = "bits" /\ s.n = c /\ s.map = m
    <3>1. c \in Nat /\ Chunks(c) \in Nat
      BY Sizes
    <3>2. m \subseteq Nat
      BY <3>1
    <3> QED  BY <1>1, <3>1, <3>2 DEF Bits, Word
  <2>3. l \in Link /\ l.type = Tag(c)
    BY <1>1, Nodes DEF Typed, Link, Tag
  <2>4. PICK a, b : a = pg[p].prev.at /\ b = pg[p].next
    OBVIOUS
  <2>5. a \in Open(pg, c) \cup {Slot(c)} /\ b \in Open(pg, c) \cup {Slot(c)}
    BY <2>1, <2>4, Neighbours
  <2>6. a \in Node /\ b \in Node /\ a # p /\ b # p
    BY <2>1, <2>4, <2>5, NoLoop
  <2>7. /\ v \in Table
        /\ \A q \in Node : /\ v[q].slab = IF q = p THEN s ELSE pg[q].slab
                           /\ v[q].next = pg[q].next /\ v[q].prev = pg[q].prev
    BY <1>2, <2>1, <2>2 DEF Table, Desc
  <2>8. PICK w : w = Unlink(v, p)
    OBVIOUS
  <2>9. /\ w \in Table
        /\ \A q \in Node :
             /\ w[q].slab = v[q].slab
             /\ w[q].next = IF q = a THEN b ELSE pg[q].next
             /\ w[q].prev = IF q = b THEN pg[p].prev ELSE pg[q].prev
    <3>1. v[p].prev.at = a /\ v[p].next = b /\ v[p].prev = pg[p].prev
      BY <2>1, <2>4, <2>7
    <3>2. /\ w \in Table
          /\ \A q \in Node :
               /\ w[q].slab = v[q].slab
               /\ w[q].next = IF q = v[p].prev.at THEN v[p].next ELSE v[q].next
               /\ w[q].prev = IF q = v[p].next THEN v[p].prev ELSE v[q].prev
      BY <2>1, <2>6, <2>7, <2>8, <3>1, UnlinkIs
    <3> QED  BY <2>7, <3>1, <3>2
  <2>10. PICK x : x = [w EXCEPT ![p].next = Null]
    OBVIOUS
  <2>11. /\ x \in Table
         /\ \A q \in Node : /\ x[q].slab = w[q].slab /\ x[q].prev = w[q].prev
                            /\ x[q].next = IF q = p THEN Null ELSE w[q].next
    BY <2>1, <2>9, <2>10, Nodes DEF Table, Desc
  <2>12. u = [x EXCEPT ![p].prev = l]
    BY <1>1, <1>2, <1>4, <2>8, <2>10 DEF MarkBusy
  <2>13. /\ u \in Table
         /\ \A q \in Node : /\ u[q].slab = x[q].slab /\ u[q].next = x[q].next
                            /\ u[q].prev = IF q = p THEN l ELSE x[q].prev
    BY <2>1, <2>3, <2>11, <2>12 DEF Table, Desc
  <2>14. \A q \in Node :
           /\ u[q].slab = IF q = p THEN s ELSE pg[q].slab
           /\ u[q].next = IF q = p THEN Null ELSE IF q = a THEN b ELSE pg[q].next
           /\ u[q].prev = IF q = p THEN l ELSE IF q = b THEN pg[p].prev ELSE pg[q].prev
    BY <2>7, <2>9, <2>11, <2>13
  <2>15. /\ u[p].slab = s /\ u[p].slab.tag = "bits" /\ u[p].slab.n = c /\ u[p].slab.map = m
         /\ \A q \in Page \ {p} : u[q].slab = pg[q].slab
         /\ u[p].next = Null /\ u[p].prev.type = Tag(c)
    BY <2>1, <2>2, <2>3, <2>14, Nodes
  <2>16. Open(u, c) = Open(pg, c) \ {p}
    <3>1. p \notin Open(u, c)
      BY <1>4, <2>15 DEF Open
    <3>2. \A q \in Page \ {p} : q \in Open(u, c) <=> q \in Open(pg, c)
      BY <2>15 DEF Open, Cut
    <3>3. Open(u, c) \subseteq Page /\ Open(pg, c) \subseteq Page
      BY DEF Open, Cut
    <3> QED  BY <3>1, <3>2, <3>3
  <2>17. Ring(u, Slot(c), Open(u, c))
    <3>1. \A q \in (Open(pg, c) \ {p}) \cup {Slot(c)} :
            /\ u[q].next = IF q = pg[p].prev.at THEN pg[p].next ELSE pg[q].next
            /\ u[q].prev.at = IF q = pg[p].next THEN pg[p].prev.at ELSE pg[q].prev.at
      BY <2>1, <2>4, <2>14
    <3> QED  BY <2>1, <2>16, <3>1, RingRemove
  <2>18. Kept(u, Null) /\ Runs(u) = Runs(pg) /\ Starts(u) = Starts(pg) \ {p}
    <3>1. \A q \in Node \ (Open(pg, c) \cup {p, Slot(c)}) :
             u[q].next = pg[q].next /\ u[q].prev = pg[q].prev
      BY <2>5, <2>14
    <3>2. \A q \in Open(pg, c) \cup {p} : u[q].prev.type = Tag(c)
      BY <2>1, <2>14, <2>15
    <3>3. u[p].slab.map \subseteq 0 .. Chunks(c) - 1
      BY <2>15
    <3> QED  BY <2>1, <2>13, <2>15, <2>17, <3>1, <3>2, <3>3, SlotFrame
  <2> QED  BY <1>1, <2>1, <2>15, <2>18
<1> QED  BY <1>3, <1>4

LEMMA MarkFreeIs ==
  ASSUME NEW pg, Kept(pg, Null), NEW c \in ChunkClass, NEW p \in Cut(pg, c),
         NEW m, Partial(c, m),
         NEW u, u = MarkFree(pg, p, c, m)
  PROVE  /\ Kept(u, Null) /\ Runs(u) = Runs(pg) /\ Starts(u) = Starts(pg)
         /\ u[p].slab = Bits(c, m) /\ p \in Open(u, c)
         /\ \A q \in Page \ {p} : u[q].slab = pg[q].slab
<1>1. PICK s, v : s = Bits(c, m) /\ v = LinkSlot(pg, p, c)
  OBVIOUS
<1>2. /\ Ring(pg, Slot(c), Open(pg, c)) /\ Slot(c) \in Node /\ pg \in Table
      /\ Slot(c) \notin Open(pg, c) /\ Open(pg, c) \subseteq Cut(pg, c)
      /\ \A q \in Open(pg, c) : q \in Page /\ q \in Node /\ pg[q].prev.type = Tag(c)
      /\ OneBlock(pg, p, 1) /\ p \in Page /\ p \in Node /\ pg[p].prev.type = Tag(c)
      /\ pg[p].slab.tag = "bits" /\ pg[p].slab.n = c /\ p \notin Starts(pg)
      /\ Slot(c) # p
  <2>1. pg \in Table /\ Slot(c) \notin Page
    BY Nodes DEF Kept
  <2> QED  BY <2>1, OpenFacts
<1>3. CASE pg[p].next # Null
  <2>1. p \in Open(pg, c)
    <3>1. p \notin Runs(pg)
      BY <1>2 DEF Runs
    <3>2. p # Null
      BY <1>2, Nodes
    <3> QED  BY <1>2, <1>3, <3>1, <3>2 DEF Kept, Unlisted
  <2>2. u = Mark(pg, p, Bits(c, m))
    BY <1>3 DEF MarkFree, Mark
  <2> QED  BY <2>1, <2>2, MarkIs
<1>4. CASE pg[p].next = Null
  <2>1. p \notin Open(pg, c)
    <3>1. p \in Open(pg, c) => pg[p].next \in Open(pg, c) \cup {Slot(c)}
      BY <1>2, Neighbours
    <3> QED  BY <1>2, <1>4, <3>1, Nodes
  <2>2. s \in Word /\ s.tag = "bits" /\ s.n = c /\ s.map = m
    <3>1. c \in Nat /\ Chunks(c) \in Nat
      BY Sizes
    <3>2. m \subseteq Nat
      BY <3>1 DEF Partial
    <3> QED  BY <1>1, <3>1, <3>2 DEF Bits, Word
  <2>3. PICK b : b = pg[Slot(c)].next
    OBVIOUS
  <2>4. b \in Open(pg, c) \cup {Slot(c)} /\ b \in Node /\ b # p
    <3>1. b \in Open(pg, c) \cup {Slot(c)}
      BY <1>2, <2>3 DEF Ring
    <3> QED  BY <1>2, <2>1, <3>1
  <2>5. /\ v \in Table
        /\ \A q \in Node :
              /\ v[q].slab = pg[q].slab
              /\ v[q].next = IF q = Slot(c) THEN p ELSE IF q = p THEN b ELSE pg[q].next
              /\ v[q].prev = IF q = b THEN Typed(p, Tag(c))
                             ELSE IF q = p THEN Typed(Slot(c), Tag(c)) ELSE pg[q].prev
    BY <1>1, <1>2, <2>3, <2>4, LinkSlotIs
  <2>6. u = [v EXCEPT ![p].slab = s]
    BY <1>1, <1>4 DEF MarkFree
  <2>7. /\ u \in Table
        /\ \A q \in Node :
              /\ u[q].slab = IF q = p THEN s ELSE v[q].slab
              /\ u[q].next = v[q].next /\ u[q].prev = v[q].prev
    <3>1. s \in Word /\ p \in Node /\ v \in Table
      BY <1>2, <2>2, <2>5
    <3> QED  BY <2>6, <3>1 DEF Table, Desc
  <2>8. \A q \in Node :
              /\ u[q].slab = IF q = p THEN s ELSE pg[q].slab
              /\ u[q].next = IF q = Slot(c) THEN p ELSE IF q = p THEN b ELSE pg[q].next
              /\ u[q].prev = IF q = b THEN Typed(p, Tag(c))
                             ELSE IF q = p THEN Typed(Slot(c), Tag(c)) ELSE pg[q].prev
    BY <2>5, <2>7
  <2>9. \A q : Typed(q, Tag(c)).at = q /\ Typed(q, Tag(c)).type = Tag(c)
    BY DEF Typed
  <2>10. /\ u[p].slab = s /\ u[p].slab.tag = "bits" /\ u[p].slab.n = c /\ u[p].slab.map = m
         /\ \A q \in Page \ {p} : u[q].slab = pg[q].slab
         /\ u[p].next = b /\ u[p].prev.at = Slot(c) /\ u[p].prev.type = Tag(c)
         /\ u[Slot(c)].next = p
    <3>1. u[p].slab = s /\ u[p].next = b /\ u[p].prev = Typed(Slot(c), Tag(c))
      BY <1>2, <2>4, <2>8
    <3>2. u[Slot(c)].next = p
      BY <1>2, <2>8
    <3>3. \A q \in Page \ {p} : u[q].slab = pg[q].slab
      BY <2>8, Nodes
    <3> QED  BY <2>2, <2>9, <3>1, <3>2, <3>3
  <2>11. Open(u, c) = Open(pg, c) \cup {p}
    <3>1. p \in Open(u, c)
      BY <1>2, <2>10 DEF Open, Cut, Partial
    <3>2. \A q \in Page \ {p} : q \in Open(u, c) <=> q \in Open(pg, c)
      BY <2>10 DEF Open, Cut
    <3>3. Open(u, c) \subseteq Page /\ Open(pg, c) \subseteq Page
      BY DEF Open, Cut
    <3> QED  BY <3>1, <3>2, <3>3
  <2>12. Ring(u, Slot(c), Open(u, c))
    <3>1. \A q \in Open(pg, c) :
            /\ u[q].next = pg[q].next
            /\ u[q].prev.at = IF q = pg[Slot(c)].next THEN p ELSE pg[q].prev.at
      BY <1>2, <2>1, <2>3, <2>8, <2>9
    <3> QED  BY <1>2, <2>1, <2>3, <2>10, <2>11, <3>1, RingInsert
  <2>13. Kept(u, Null) /\ Runs(u) = Runs(pg) /\ Starts(u) = Starts(pg) \ {p}
    <3>1. \A q \in Node \ (Open(pg, c) \cup {p, Slot(c)}) :
             u[q].next = pg[q].next /\ u[q].prev = pg[q].prev
      BY <2>4, <2>8
    <3>2. \A q \in Open(pg, c) \cup {p} : u[q].prev.type = Tag(c)
      BY <1>2, <2>8, <2>9, <2>10
    <3>3. u[p].slab.map \subseteq 0 .. Chunks(c) - 1
      BY <2>10 DEF Partial
    <3>4. /\ u \in Table /\ u[p].slab.tag = "bits" /\ u[p].slab.n = c /\ OneBlock(pg, p, 1)
          /\ pg[p].slab.tag = "bits" => pg[p].slab.n = c
          /\ \A q \in Page \ {p} : u[q].slab = pg[q].slab
          /\ Ring(u, Slot(c), Open(u, c)) /\ p \in Open(u, c)
      BY <1>2, <2>7, <2>10, <2>11, <2>12
    <3> QED  BY <1>2, <3>1, <3>2, <3>3, <3>4, SlotFrame
  <2> QED  BY <1>1, <1>2, <2>10, <2>11, <2>13
<1> QED  BY <1>3, <1>4

-----------------------------------------------------------------------------
(* The inductive invariant *)

\* The block b begins on page p: all of an allocated run, or a marked chunk.
HoldsAt(pg, p, b) ==
    \/ pg[p].slab.tag = "start" /\ b = PageBlock(p, pg[p].slab.n)
    \/ pg[p].slab.tag = "bits" /\ \E i \in pg[p].slab.map :
          i >= Reserved(pg[p].slab.n) /\ b = BlockAt(p, pg[p].slab.n, i)

Held(pg) ==
    {PageBlock(p, pg[p].slab.n) : p \in Starts(pg)} \cup
    UNION {UNION {{BlockAt(p, c, i) : i \in {j \in pg[p].slab.map : j >= Reserved(c)}} :
                    p \in Cut(pg, c)} : c \in ChunkClass}

\* The marks of the chunks that hold the bitmap are set, and another one is.
InUse(c, m) == 0 .. Reserved(c) - 1 \subseteq m /\ \E i \in m : i >= Reserved(c)

Marked(pg) ==
    \A c \in ChunkClass : \A p \in Cut(pg, c) : InUse(c, pg[p].slab.map)

\* Runs are allocated for the sizes that are asked for.
Sized(pg) == \A p \in Starts(pg) : pg[p].slab.n * PageSize \in Class

FreeSet(pg) == {q \in Page : pg[q].slab.tag = "length"}

InClass(B, c) == {b \in B : b.class = c}

Counted(pg, free, st, B) ==
    /\ free = Cardinality(FreeSet(pg))
    /\ st \in [ChunkClass -> [total : Int, used : Int]]
    /\ \A c \in ChunkClass :
         /\ st[c].used = Cardinality(InClass(B, c))
         /\ st[c].total = Cardinality(Cut(pg, c)) * (Chunks(c) - Reserved(c))

Good(pg, free, st, B) ==
    /\ Kept(pg, Null) /\ Marked(pg) /\ Sized(pg)
    /\ B = Held(pg) /\ IsFiniteSet(B) /\ Counted(pg, free, st, B)

IInv == Good(page, pfree, stats, used)

LEMMA HeldIs ==
  ASSUME NEW pg, Kept(pg, Null)
  PROVE  \A b : b \in Held(pg) <=> \E p \in Page : HoldsAt(pg, p, b)
<1>1. CutSound(pg)
  BY DEF Kept
<1>2. ASSUME NEW b \in Held(pg) PROVE \E p \in Page : HoldsAt(pg, p, b)
  <2>1. CASE b \in {PageBlock(p, pg[p].slab.n) : p \in Starts(pg)}
    BY <2>1 DEF HoldsAt, Starts
  <2>2. CASE \E c \in ChunkClass : \E p \in Cut(pg, c) :
               b \in {BlockAt(p, c, i) : i \in {j \in pg[p].slab.map : j >= Reserved(c)}}
    <3>1. PICK c \in ChunkClass : \E p \in Cut(pg, c) :
               b \in {BlockAt(p, c, i) : i \in {j \in pg[p].slab.map : j >= Reserved(c)}}
      BY <2>2
    <3>2. PICK p \in Cut(pg, c) :
               b \in {BlockAt(p, c, i) : i \in {j \in pg[p].slab.map : j >= Reserved(c)}}
      BY <3>1
    <3>3. PICK i \in pg[p].slab.map : i >= Reserved(c) /\ b = BlockAt(p, c, i)
      BY <3>2
    <3>4. p \in Page /\ pg[p].slab.tag = "bits" /\ pg[p].slab.n = c
      BY DEF Cut
    <3> QED  BY <3>3, <3>4 DEF HoldsAt
  <2> QED  BY <1>2, <2>1, <2>2 DEF Held
<1>3. ASSUME NEW b, NEW p \in Page, HoldsAt(pg, p, b) PROVE b \in Held(pg)
  <2>1. CASE pg[p].slab.tag = "start" /\ b = PageBlock(p, pg[p].slab.n)
    BY <2>1 DEF Held, Starts
  <2>2. CASE pg[p].slab.tag = "bits" /\ \E i \in pg[p].slab.map :
               i >= Reserved(pg[p].slab.n) /\ b = BlockAt(p, pg[p].slab.n, i)
    <3>1. PICK c : c = pg[p].slab.n
      OBVIOUS
    <3>2. c \in ChunkClass /\ p \in Cut(pg, c)
      BY <1>1, <2>2, <3>1 DEF CutSound, Cut
    <3>3. b \in {BlockAt(p, c, i) : i \in {j \in pg[p].slab.map : j >= Reserved(c)}}
      BY <2>2, <3>1
    <3> QED  BY <3>2, <3>3 DEF Held
  <2> QED  BY <1>3, <2>1, <2>2 DEF HoldsAt
<1> QED  BY <1>2, <1>3

\* A block names its page and its size.
LEMMA BlockFacts ==
  /\ \A p, n : /\ PageBlock(p, n).lo = p - 1 /\ PageBlock(p, n).class = n * PageSize
               /\ PageBlock(p, n).idx = 0
  /\ \A p, c, i : /\ BlockAt(p, c, i).lo = p - 1 /\ BlockAt(p, c, i).class = c
                  /\ BlockAt(p, c, i).idx = i - Reserved(c)
  BY DEF PageBlock, BlockAt

LEMMA HoldsAtPage ==
  ASSUME NEW pg, NEW p \in Page, NEW b, HoldsAt(pg, p, b)
  PROVE  b.lo = p - 1 /\ PageOf(b) = p
<1>1. b.lo = p - 1
  BY BlockFacts DEF HoldsAt
<1>2. p \in Nat
  BY Nodes
<1> QED  BY <1>1, <1>2 DEF PageOf

\* A page that carries the same blocks before and after a step.
Alike(pg, t, q) ==
    \/ t[q].slab = pg[q].slab
    \/ t[q].slab.tag \notin {"start", "bits"} /\ pg[q].slab.tag \notin {"start", "bits"}

LEMMA HeldChange ==
  ASSUME NEW pg, Kept(pg, Null), NEW t, Kept(t, Null), NEW p \in Page,
         \A q \in Page \ {p} : Alike(pg, t, q)
  PROVE  \A b : b \in Held(t) <=> \/ b \in Held(pg) /\ PageOf(b) # p
                                  \/ HoldsAt(t, p, b)
<1>1. ASSUME NEW q \in Page \ {p}, NEW b PROVE HoldsAt(t, q, b) <=> HoldsAt(pg, q, b)
  <2>1. Alike(pg, t, q)
    OBVIOUS
  <2> QED  BY <2>1 DEF Alike, HoldsAt
<1>2. ASSUME NEW b \in Held(t), ~HoldsAt(t, p, b) PROVE b \in Held(pg) /\ PageOf(b) # p
  <2>1. PICK q \in Page : HoldsAt(t, q, b)
    BY HeldIs
  <2>2. q # p
    BY <1>2, <2>1
  <2>3. HoldsAt(pg, q, b) /\ PageOf(b) = q
    BY <1>1, <2>1, <2>2, HoldsAtPage
  <2> QED  BY <2>2, <2>3, HeldIs
<1>3. ASSUME NEW b \in Held(pg), PageOf(b) # p PROVE b \in Held(t)
  <2>1. PICK q \in Page : HoldsAt(pg, q, b)
    BY HeldIs
  <2>2. PageOf(b) = q
    BY <2>1, HoldsAtPage
  <2>3. HoldsAt(t, q, b)
    BY <1>1, <1>3, <2>1, <2>2
  <2> QED  BY <2>3, HeldIs
<1>4. ASSUME NEW b, HoldsAt(t, p, b) PROVE b \in Held(t)
  BY <1>4, HeldIs
<1> QED  BY <1>2, <1>3, <1>4

LEMMA CountAdd ==
  ASSUME NEW B, IsFiniteSet(B), NEW b, b \notin B
  PROVE  /\ IsFiniteSet(B \cup {b})
         /\ \A c : Cardinality(InClass(B \cup {b}, c)) =
                     Cardinality(InClass(B, c)) + (IF b.class = c THEN 1 ELSE 0)
<1>1. IsFiniteSet(B \cup {b})
  BY FS_AddElement
<1>2. ASSUME NEW c
      PROVE  Cardinality(InClass(B \cup {b}, c)) =
               Cardinality(InClass(B, c)) + (IF b.class = c THEN 1 ELSE 0)
  <2>1. PICK S : S = InClass(B, c)
    OBVIOUS
  <2>2. S \in SUBSET B /\ b \notin S
    BY <2>1 DEF InClass
  <2>3. IsFiniteSet(S) /\ Cardinality(S) \in Nat
    BY <2>2, FS_Subset, FS_CardinalityType
  <2>4. CASE b.class = c
    <3>1. InClass(B \cup {b}, c) = S \cup {b}
      BY <2>1, <2>4 DEF InClass
    <3>2. Cardinality(S \cup {b}) = Cardinality(S) + 1
      BY <2>2, <2>3, FS_AddElement
    <3> QED  BY <2>1, <2>4, <3>1, <3>2
  <2>5. CASE b.class # c
    <3>1. InClass(B \cup {b}, c) = S
      BY <2>1, <2>5 DEF InClass
    <3> QED  BY <2>1, <2>3, <2>5, <3>1
  <2> QED  BY <2>4, <2>5
<1> QED  BY <1>1, <1>2

LEMMA CountRemove ==
  ASSUME NEW B, IsFiniteSet(B), NEW b \in B
  PROVE  /\ IsFiniteSet(B \ {b})
         /\ \A c : Cardinality(InClass(B \ {b}, c)) =
                     Cardinality(InClass(B, c)) - (IF b.class = c THEN 1 ELSE 0)
<1>1. IsFiniteSet(B \ {b})
  BY FS_RemoveElement
<1>2. ASSUME NEW c
      PROVE  Cardinality(InClass(B \ {b}, c)) =
               Cardinality(InClass(B, c)) - (IF b.class = c THEN 1 ELSE 0)
  <2>1. PICK S : S = InClass(B, c)
    OBVIOUS
  <2>2. S \in SUBSET B
    BY <2>1 DEF InClass
  <2>3. IsFiniteSet(S) /\ Cardinality(S) \in Nat
    BY <2>2, FS_Subset, FS_CardinalityType
  <2>4. CASE b.class = c
    <3>1. InClass(B \ {b}, c) = S \ {b} /\ b \in S
      BY <2>1, <2>4 DEF InClass
    <3>2. Cardinality(S \ {b}) = Cardinality(S) - 1
      BY <2>3, <3>1, FS_RemoveElement
    <3> QED  BY <2>1, <2>4, <3>1, <3>2
  <2>5. CASE b.class # c
    <3>1. InClass(B \ {b}, c) = S
      BY <2>1, <2>5 DEF InClass
    <3> QED  BY <2>1, <2>3, <2>5, <3>1
  <2> QED  BY <2>4, <2>5
<1> QED  BY <1>1, <1>2

\* Sets of pages can be counted.
LEMMA PageSets ==
  \A S : S \subseteq Page => IsFiniteSet(S) /\ Cardinality(S) \in Nat
<1>1. NPages \in Int /\ 1 \in Int
  BY Sizes
<1>2. IsFiniteSet(Page)
  BY <1>1, FS_Interval DEF Page
<1>3. ASSUME NEW S, S \subseteq Page PROVE IsFiniteSet(S) /\ Cardinality(S) \in Nat
  <2>1. S \in SUBSET Page
    BY <1>3
  <2>2. IsFiniteSet(S)
    BY <1>2, <2>1, FS_Subset
  <2> QED  BY <2>2, FS_CardinalityType
<1> QED  BY <1>3

\* The n pages from p leave the set of free pages, or enter it.
LEMMA RangeCount ==
  ASSUME NEW S, S \subseteq Page, NEW p \in Page, NEW n \in Nat,
         p .. p + n - 1 \subseteq Page
  PROVE  /\ p .. p + n - 1 \subseteq S =>
              Cardinality(S \ (p .. p + n - 1)) = Cardinality(S) - n
         /\ S \cap (p .. p + n - 1) = {} =>
              Cardinality(S \cup (p .. p + n - 1)) = Cardinality(S) + n
<1>1. PICK R : R = p .. p + n - 1
  OBVIOUS
<1>2. p \in Int /\ p + n - 1 \in Int
  BY Nodes
<1>3. IsFiniteSet(R) /\ Cardinality(R) = n
  <2>1. PICK e : e = p + n - 1
    OBVIOUS
  <2>2. Cardinality(p .. e) = IF p > e THEN 0 ELSE e - p + 1
    BY <1>2, <2>1, FS_Interval
  <2>3. IsFiniteSet(p .. e)
    BY <1>2, <2>1, FS_Interval
  <2>4. (IF p > e THEN 0 ELSE e - p + 1) = n
    BY <1>2, <2>1
  <2> QED  BY <1>1, <2>1, <2>2, <2>3, <2>4
<1>4. IsFiniteSet(S) /\ Cardinality(S) \in Nat
  BY PageSets
<1>5. ASSUME R \subseteq S PROVE Cardinality(S \ R) = Cardinality(S) - n
  <2>1. S \cap R = R
    BY <1>5
  <2> QED  BY <1>3, <1>4, <2>1, FS_Difference
<1>6. ASSUME S \cap R = {} PROVE Cardinality(S \cup R) = Cardinality(S) + n
  <2>1. Cardinality(S \cup R) = Cardinality(S) + Cardinality(R) - Cardinality(S \cap R)
    BY <1>3, <1>4, FS_Union
  <2>2. Cardinality({}) = 0
    BY FS_EmptySet
  <2>3. Cardinality(S \cap R) = 0
    BY <1>6, <2>2
  <2>4. PICK k, m : k = Cardinality(S \cup R) /\ m = Cardinality(S)
    OBVIOUS
  <2>5. k = m + n - 0 /\ m \in Nat
    BY <1>3, <1>4, <2>1, <2>3, <2>4
  <2> QED  BY <2>4, <2>5
<1> QED  BY <1>1, <1>5, <1>6

\* What TakePages does to the pages, by what they are in use for.
LEMMA TakeFacts ==
  ASSUME NEW pg, Kept(pg, Null), NEW p \in Runs(pg), NEW n \in 1 .. pg[p].slab.n,
         NEW t, t = TakePages(pg, p, n)
  PROVE  /\ p \in Page /\ n \in Nat /\ n >= 1 /\ p .. p + n - 1 \subseteq Page
         /\ p \in p .. p + n - 1
         /\ \A q \in p .. p + n - 1 : pg[q].slab.tag = "length"
         /\ t[p].slab = Start(n)
         /\ \A q \in p + 1 .. p + n - 1 : t[q].slab = Busy
         /\ \A q \in Page \ (p .. p + n - 1) :
              \/ t[q].slab = pg[q].slab
              \/ t[q].slab.tag = "length" /\ pg[q].slab.tag = "length"
<1>1. PICK a, b, k, e :
        a = pg[p].prev.at /\ b = pg[p].next /\ k = p + n /\ e = End(pg, p)
  OBVIOUS
<1>2. Taken(pg, t, p, n)
  BY <1>1, TakeIs
<1>3. pg \in Table /\ Tiled(pg)
  BY DEF Kept
<1>4. /\ p \in Page /\ p \in Nat /\ pg[p].slab.n \in Nat
      /\ End(pg, p) = p + pg[p].slab.n /\ End(pg, p) <= NPages + 1
      /\ \A q \in p + 1 .. End(pg, p) - 1 : q \in Page /\ pg[q].slab = PageFree
  BY <1>3, Extent
<1>5. n \in Nat /\ n >= 1 /\ n <= pg[p].slab.n
  BY <1>4
<1>6. \A q \in p .. p + n - 1 : q = p \/ q \in p + 1 .. p + n - 1
  BY <1>4, <1>5
<1>7. \A q \in p + 1 .. p + n - 1 : q \in p + 1 .. End(pg, p) - 1
  BY <1>4, <1>5
<1>8. pg[p].slab.tag = "length" /\ PageFree.tag = "length"
  BY DEF Runs, PageFree, Length
<1>9. /\ p .. p + n - 1 \subseteq Page
      /\ \A q \in p .. p + n - 1 : pg[q].slab.tag = "length"
  BY <1>4, <1>6, <1>7, <1>8
<1>10. t[p].slab = Start(n)
  BY <1>2, <1>4 DEF Taken
<1>11. ASSUME NEW q \in p + 1 .. p + n - 1 PROVE t[q].slab = Busy
  <2>1. q # p /\ q \in Page
    BY <1>4, <1>7
  <2> QED  BY <1>2, <2>1 DEF Taken
<1>12. ASSUME NEW q \in Page \ (p .. p + n - 1)
       PROVE  \/ t[q].slab = pg[q].slab
              \/ t[q].slab.tag = "length" /\ pg[q].slab.tag = "length"
  <2>1. q # p /\ q \notin p + 1 .. p + n - 1
    BY <1>4, <1>5
  <2>2. CASE q = p + n /\ n < pg[p].slab.n
    <3>1. t[q].slab = Length(pg[p].slab.n - n)
      BY <1>2, <2>1, <2>2 DEF Taken
    <3>2. q \in p + 1 .. End(pg, p) - 1
      BY <1>4, <1>5, <2>2
    <3> QED  BY <1>4, <1>8, <3>1, <3>2 DEF Length
  <2>3. CASE ~(q = p + n /\ n < pg[p].slab.n)
    BY <1>2, <2>1, <2>3 DEF Taken
  <2> QED  BY <2>2, <2>3
<1>13. p \in p .. p + n - 1
  BY <1>4, <1>5
<1> QED  BY <1>4, <1>5, <1>9, <1>10, <1>11, <1>12, <1>13

\* Pages in use for the same before and after.
SameUse(pg, t, q) ==
    \/ t[q].slab = pg[q].slab
    \/ t[q].slab.tag = "length" /\ pg[q].slab.tag = "length"

\* mps_slab_alloc_locked of pages.
LEMMA GoodLarge ==
  ASSUME NEW pg, NEW f, NEW st, NEW B, Good(pg, f, st, B),
         NEW p \in Runs(pg), NEW n \in 1 .. pg[p].slab.n, n * PageSize \in Class,
         NEW t, t = TakePages(pg, p, n), NEW b, b = PageBlock(p, n)
  PROVE  b \notin B /\ Good(t, f - n, st, B \cup {b})
<1>1. Kept(pg, Null) /\ Kept(t, Null) /\ Marked(pg) /\ Sized(pg) /\ B = Held(pg)
      /\ IsFiniteSet(B) /\ Counted(pg, f, st, B)
  <2>1. Kept(pg, Null)
    BY DEF Good
  <2> QED  BY <2>1, TakeKept DEF Good
<1>2. PICK R : R = p .. p + n - 1
  OBVIOUS
<1>3. /\ p \in Page /\ n \in Nat /\ n >= 1 /\ R \subseteq Page /\ p \in R
      /\ \A q \in R : pg[q].slab.tag = "length"
      /\ t[p].slab = Start(n)
      /\ \A q \in R : q = p \/ t[q].slab = Busy
      /\ \A q \in Page \ R : SameUse(pg, t, q)
  <2>1. /\ p \in Page /\ n \in Nat /\ n >= 1 /\ p .. p + n - 1 \subseteq Page
        /\ p \in p .. p + n - 1
        /\ \A q \in p .. p + n - 1 : pg[q].slab.tag = "length"
        /\ t[p].slab = Start(n)
        /\ \A q \in p + 1 .. p + n - 1 : t[q].slab = Busy
        /\ \A q \in Page \ (p .. p + n - 1) : SameUse(pg, t, q)
    BY <1>1, TakeFacts DEF SameUse
  <2>2. p \in Nat
    BY <2>1, Nodes
  <2>3. \A q \in p .. p + n - 1 : q = p \/ q \in p + 1 .. p + n - 1
    BY <2>1, <2>2
  <2> QED  BY <1>2, <2>1, <2>3
<1>4. /\ Start(n).tag = "start" /\ Start(n).n = n /\ Busy.tag = "busy"
  BY DEF Start, Busy
<1>5. \A q \in Page \ {p} : Alike(pg, t, q)
  BY <1>3, <1>4 DEF Alike, SameUse
<1>6. Held(t) = B \cup {b} /\ b \notin B
  <2>1. \A x : HoldsAt(t, p, x) <=> x = b
    BY <1>3, <1>4 DEF HoldsAt
  <2>2. \A x : ~HoldsAt(pg, p, x)
    BY <1>3 DEF HoldsAt
  <2>3. ASSUME NEW x \in B PROVE PageOf(x) # p
    <3>1. PICK q \in Page : HoldsAt(pg, q, x)
      BY <1>1, HeldIs
    <3> QED  BY <2>2, <3>1, HoldsAtPage
  <2>4. PageOf(b) = p
    BY <1>3, <2>1, HoldsAtPage
  <2>5. \A x : x \in Held(t) <=> (x \in Held(pg) /\ PageOf(x) # p) \/ HoldsAt(t, p, x)
    BY <1>1, <1>3, <1>5, HeldChange
  <2> QED  BY <1>1, <2>1, <2>3, <2>4, <2>5
<1>7. FreeSet(t) = FreeSet(pg) \ R /\ R \subseteq FreeSet(pg) /\ FreeSet(pg) \subseteq Page
  BY <1>3, <1>4 DEF FreeSet, SameUse
<1>8. Cardinality(FreeSet(t)) = f - n
  <2>1. PICK S : S = FreeSet(pg)
    OBVIOUS
  <2>2. f = Cardinality(S)
    BY <1>1, <2>1 DEF Counted
  <2>3. S \subseteq Page /\ p .. p + n - 1 \subseteq Page /\ p .. p + n - 1 \subseteq S
    BY <1>2, <1>3, <1>7, <2>1
  <2>4. Cardinality(S \ (p .. p + n - 1)) = Cardinality(S) - n
    BY <1>3, <2>3, RangeCount
  <2>5. FreeSet(t) = S \ (p .. p + n - 1)
    BY <1>2, <1>7, <2>1
  <2> QED  BY <2>2, <2>4, <2>5
<1>9. \A c : Cut(t, c) = Cut(pg, c)
  BY <1>3, <1>4 DEF Cut, SameUse
<1>10. \A c : \A q \in Cut(pg, c) : t[q].slab = pg[q].slab
  BY <1>3 DEF Cut, SameUse
<1>11. Marked(t)
  BY <1>1, <1>9, <1>10 DEF Marked
<1>12. Sized(t)
  <2>1. ASSUME NEW q \in Starts(t), q # p PROVE t[q].slab.n * PageSize \in Class
    <3>1. q \in Starts(pg) /\ t[q].slab = pg[q].slab
      BY <1>3, <1>4, <2>1 DEF Starts, SameUse
    <3> QED  BY <1>1, <3>1 DEF Sized
  <2> QED  BY <1>3, <1>4, <2>1 DEF Sized
<1>13. IsFiniteSet(B \cup {b})
  BY <1>1, <1>6, CountAdd
<1>14. Counted(t, f - n, st, B \cup {b})
  <2>1. ASSUME NEW c \in ChunkClass
        PROVE  /\ st[c].used = Cardinality(InClass(B \cup {b}, c))
               /\ st[c].total = Cardinality(Cut(t, c)) * (Chunks(c) - Reserved(c))
    <3>1. b.class # c
      <4>1. b.class = n * PageSize
        BY BlockFacts
      <4>2. ~IsLarge(c)
        BY Sizes
      <4>3. IsLarge(n * PageSize)
        BY <1>3, PagesLarge
      <4> QED  BY <4>1, <4>2, <4>3
    <3>2. InClass(B \cup {b}, c) = InClass(B, c)
      BY <3>1 DEF InClass
    <3> QED  BY <1>1, <1>9, <3>2 DEF Counted
  <2> QED  BY <1>1, <1>8, <2>1 DEF Counted
<1> QED  BY <1>1, <1>6, <1>11, <1>12, <1>13, <1>14 DEF Good

\* mps_slab_free_locked of pages.
LEMMA GoodRun ==
  ASSUME NEW pg, NEW f, NEW st, NEW B, Good(pg, f, st, B),
         NEW p \in Starts(pg), NEW n, n = pg[p].slab.n,
         NEW t, t = FreePages(pg, p, n), NEW b, b = PageBlock(p, n)
  PROVE  b \in B /\ Good(t, f + n, st, B \ {b})
<1>1. Kept(pg, Null) /\ Marked(pg) /\ Sized(pg) /\ B = Held(pg)
      /\ IsFiniteSet(B) /\ Counted(pg, f, st, B)
  BY DEF Good
<1>2. PICK R : R = p .. p + n - 1
  OBVIOUS
<1>3. Kept(t, Null) /\ Freed(pg, t, p, n)
  <2>1. \/ p \in Starts(pg) /\ n = pg[p].slab.n
        \/ n = 1 /\ \E c \in ChunkClass : p \in Open(pg, c)
    OBVIOUS
  <2> QED  BY <1>1, <2>1, FreePagesIs
<1>4. /\ p \in Page /\ n \in Nat /\ n >= 1 /\ R \subseteq Page /\ p \in R
      /\ pg[p].slab.tag = "start"
      /\ \A q \in R : q = p \/ pg[q].slab = Busy
  <2>1. pg \in Table /\ Tiled(pg)
    BY <1>1 DEF Kept
  <2>2. /\ p \in Page /\ p \in Nat /\ p >= 1 /\ n \in Nat \ {0} /\ p + n <= NPages + 1
        /\ \A q \in p + 1 .. p + n - 1 : q \in Page /\ pg[q].slab = Busy
    BY <2>1, BlockExtent DEF OneBlock
  <2>3. \A q \in R : q = p \/ q \in p + 1 .. p + n - 1
    BY <1>2, <2>2
  <2>4. p \in R /\ n >= 1
    BY <1>2, <2>2
  <2> QED  BY <2>2, <2>3, <2>4 DEF Starts
<1>5. /\ \A q \in R : t[q].slab.tag = "length"
      /\ \A q \in Page \ R : SameUse(pg, t, q)
  BY <1>2, <1>3, <1>4 DEF Freed, SameUse
<1>6. Busy.tag = "busy"
  BY DEF Busy
<1>7. \A q \in Page \ {p} : Alike(pg, t, q)
  BY <1>4, <1>5, <1>6 DEF Alike, SameUse
<1>8. Held(t) = B \ {b} /\ b \in B
  <2>1. \A x : ~HoldsAt(t, p, x)
    BY <1>4, <1>5 DEF HoldsAt
  <2>2. \A x : HoldsAt(pg, p, x) <=> x = b
    BY <1>4 DEF HoldsAt
  <2>3. ASSUME NEW x \in B PROVE PageOf(x) = p <=> x = b
    <3>1. PICK q \in Page : HoldsAt(pg, q, x)
      BY <1>1, HeldIs
    <3>2. PageOf(x) = q
      BY <3>1, HoldsAtPage
    <3>3. PageOf(b) = p
      BY <1>4, <2>2, HoldsAtPage
    <3> QED  BY <2>2, <3>1, <3>2, <3>3
  <2>4. b \in B
    BY <1>1, <1>4, <2>2, HeldIs
  <2>5. \A x : x \in Held(t) <=> (x \in Held(pg) /\ PageOf(x) # p) \/ HoldsAt(t, p, x)
    BY <1>1, <1>3, <1>4, <1>7, HeldChange
  <2> QED  BY <1>1, <2>1, <2>3, <2>4, <2>5
<1>9. FreeSet(t) = FreeSet(pg) \cup R /\ R \cap FreeSet(pg) = {} /\ FreeSet(pg) \subseteq Page
  BY <1>4, <1>5, <1>6 DEF FreeSet, SameUse
<1>10. Cardinality(FreeSet(t)) = f + n
  <2>1. PICK S : S = FreeSet(pg)
    OBVIOUS
  <2>2. f = Cardinality(S)
    BY <1>1, <2>1 DEF Counted
  <2>3. S \subseteq Page /\ p .. p + n - 1 \subseteq Page /\ S \cap (p .. p + n - 1) = {}
    BY <1>2, <1>4, <1>9, <2>1
  <2>4. Cardinality(S \cup (p .. p + n - 1)) = Cardinality(S) + n
    BY <1>4, <2>3, RangeCount
  <2>5. FreeSet(t) = S \cup (p .. p + n - 1)
    BY <1>2, <1>9, <2>1
  <2> QED  BY <2>2, <2>4, <2>5
<1>11. \A c : Cut(t, c) = Cut(pg, c)
  BY <1>4, <1>5, <1>6 DEF Cut, SameUse
<1>12. \A c : \A q \in Cut(pg, c) : t[q].slab = pg[q].slab
  BY <1>4, <1>5, <1>6 DEF Cut, SameUse
<1>13. Marked(t)
  BY <1>1, <1>11, <1>12 DEF Marked
<1>14. Sized(t)
  <2>1. ASSUME NEW q \in Starts(t) PROVE t[q].slab.n * PageSize \in Class
    <3>1. q \in Starts(pg) /\ t[q].slab = pg[q].slab
      BY <1>4, <1>5 DEF Starts, SameUse
    <3> QED  BY <1>1, <3>1 DEF Sized
  <2> QED  BY <2>1 DEF Sized
<1>15. IsFiniteSet(B \ {b})
  BY <1>1, <1>8, CountRemove
<1>16. Counted(t, f + n, st, B \ {b})
  <2>1. ASSUME NEW c \in ChunkClass
        PROVE  /\ st[c].used = Cardinality(InClass(B \ {b}, c))
               /\ st[c].total = Cardinality(Cut(t, c)) * (Chunks(c) - Reserved(c))
    <3>1. b.class # c
      <4>1. b.class = n * PageSize
        BY BlockFacts
      <4>2. ~IsLarge(c)
        BY Sizes
      <4>3. IsLarge(n * PageSize)
        BY <1>4, PagesLarge
      <4> QED  BY <4>1, <4>2, <4>3
    <3>2. InClass(B \ {b}, c) = InClass(B, c)
      BY <3>1 DEF InClass
    <3> QED  BY <1>1, <1>11, <3>2 DEF Counted
  <2> QED  BY <1>1, <1>10, <2>1 DEF Counted
<1> QED  BY <1>3, <1>8, <1>13, <1>14, <1>15, <1>16 DEF Good

\* From st to s, cut pages of c have come (k = 1) or gone, and chunks in use.
Shifted(st, s, c, k, d) ==
    /\ s \in [ChunkClass -> [total : Int, used : Int]]
    /\ \A x \in ChunkClass \ {c} : s[x] = st[x]
    /\ s[c].used = st[c].used + d
    /\ s[c].total = st[c].total + k * (Chunks(c) - Reserved(c))

\* From B to D, there are d more blocks of c, and the same others.
Differ(B, D, c, d) ==
    /\ IsFiniteSet(D)
    /\ \A x \in ChunkClass \ {c} : InClass(D, x) = InClass(B, x)
    /\ Cardinality(InClass(D, c)) = Cardinality(InClass(B, c)) + d

LEMMA CountsShift ==
  ASSUME NEW pg, NEW f, NEW st, NEW B, Counted(pg, f, st, B), NEW c \in ChunkClass,
         NEW t, NEW s, NEW D, NEW k \in Int, NEW d \in Int, Shifted(st, s, c, k, d),
         Differ(B, D, c, d),
         \A x \in ChunkClass : x # c => Cut(t, x) = Cut(pg, x),
         Cardinality(Cut(t, c)) = Cardinality(Cut(pg, c)) + k
  PROVE  Counted(t, Cardinality(FreeSet(t)), s, D)
<1>1. PICK w, l : w = Chunks(c) - Reserved(c) /\ l = Cardinality(Cut(pg, c))
  OBVIOUS
<1>2. w \in Int /\ l \in Nat
  <2>1. Cut(pg, c) \subseteq Page
    BY DEF Cut
  <2> QED  BY <1>1, <2>1, Sizes, PageSets
<1>3. s[c].used = Cardinality(InClass(D, c))
  BY DEF Counted, Shifted, Differ
<1>4. s[c].total = Cardinality(Cut(t, c)) * w
  <2>1. s[c].total = l * w + k * w
    BY <1>1 DEF Counted, Shifted
  <2>2. (l + k) * w = l * w + k * w
    BY <1>2
  <2> QED  BY <1>1, <2>1, <2>2
<1>5. ASSUME NEW x \in ChunkClass, x # c
      PROVE  /\ s[x].used = Cardinality(InClass(D, x))
             /\ s[x].total = Cardinality(Cut(t, x)) * (Chunks(x) - Reserved(x))
  BY <1>5 DEF Counted, Shifted, Differ
<1> QED  BY <1>1, <1>3, <1>4, <1>5 DEF Counted, Shifted

\* The blocks of a cut page.
LEMMA HeldOfCut ==
  ASSUME NEW pg, Kept(pg, Null), NEW c \in ChunkClass, NEW p \in Cut(pg, c)
  PROVE  /\ p \in Page /\ pg[p].slab.tag = "bits" /\ pg[p].slab.n = c
         /\ pg[p].slab.map \subseteq 0 .. Chunks(c) - 1 /\ pg[p].slab.map \subseteq Nat
         /\ \A x : HoldsAt(pg, p, x) <=>
              \E i \in pg[p].slab.map : i >= Reserved(c) /\ x = BlockAt(p, c, i)
         /\ \A x \in Held(pg) : PageOf(x) = p => HoldsAt(pg, p, x)
<1>1. CutSound(pg)
  BY DEF Kept
<1>2. p \in Page /\ pg[p].slab.tag = "bits" /\ pg[p].slab.n = c
  BY DEF Cut
<1>3. pg[p].slab.map \subseteq 0 .. Chunks(c) - 1
  BY <1>1, <1>2 DEF CutSound
<1>4. 0 .. Chunks(c) - 1 \subseteq Nat
  BY Sizes
<1>5. ASSUME NEW x PROVE HoldsAt(pg, p, x) <=>
              \E i \in pg[p].slab.map : i >= Reserved(c) /\ x = BlockAt(p, c, i)
  BY <1>2 DEF HoldsAt
<1>6. ASSUME NEW x \in Held(pg), PageOf(x) = p PROVE HoldsAt(pg, p, x)
  <2>1. PICK q \in Page : HoldsAt(pg, q, x)
    BY HeldIs
  <2> QED  BY <1>6, <2>1, HoldsAtPage
<1> QED  BY <1>2, <1>3, <1>4, <1>5, <1>6

LEMMA DifferAdd ==
  ASSUME NEW B, IsFiniteSet(B), NEW b, b \notin B
  PROVE  Differ(B, B \cup {b}, b.class, 1)
<1>1. PICK c : c = b.class
  OBVIOUS
<1>2. /\ IsFiniteSet(B \cup {b})
      /\ Cardinality(InClass(B \cup {b}, c)) = Cardinality(InClass(B, c)) + 1
  BY <1>1, CountAdd
<1>3. \A x \in ChunkClass \ {c} : InClass(B \cup {b}, x) = InClass(B, x)
  BY <1>1 DEF InClass
<1> QED  BY <1>1, <1>2, <1>3 DEF Differ

LEMMA DifferRemove ==
  ASSUME NEW B, IsFiniteSet(B), NEW b \in B
  PROVE  Differ(B, B \ {b}, b.class, -1)
<1>1. PICK c : c = b.class
  OBVIOUS
<1>2. /\ IsFiniteSet(B \ {b})
      /\ Cardinality(InClass(B \ {b}, c)) = Cardinality(InClass(B, c)) - 1
  BY <1>1, CountRemove
<1>3. InClass(B, c) \in SUBSET B
  BY DEF InClass
<1>4. Cardinality(InClass(B, c)) \in Nat
  BY <1>3, FS_Subset, FS_CardinalityType
<1>5. \A x \in ChunkClass \ {c} : InClass(B \ {b}, x) = InClass(B, x)
  BY <1>1 DEF InClass
<1>6. Cardinality(InClass(B \ {b}, c)) = Cardinality(InClass(B, c)) + (-1)
  BY <1>2, <1>4
<1> QED  BY <1>1, <1>2, <1>5, <1>6 DEF Differ

LEMMA BlockInjective ==
  ASSUME NEW p, NEW c \in ChunkClass, NEW i \in Nat, NEW j \in Nat,
         BlockAt(p, c, i) = BlockAt(p, c, j)
  PROVE  i = j
<1>1. i - Reserved(c) = j - Reserved(c)
  BY BlockFacts
<1>2. Reserved(c) \in Nat
  BY Sizes
<1> QED  BY <1>1, <1>2

\* The marks of a cut page change, which has still a chunk in use.
LEMMA GoodMarks ==
  ASSUME NEW pg, NEW f, NEW st, NEW B, Good(pg, f, st, B),
         NEW c \in ChunkClass, NEW p \in Cut(pg, c), NEW m,
         NEW t, Kept(t, Null), Starts(t) = Starts(pg), t[p].slab = Bits(c, m),
         \A q \in Page \ {p} : t[q].slab = pg[q].slab,
         InUse(c, m), NEW s, NEW d \in Int, Shifted(st, s, c, 0, d),
         NEW D, D = Held(t), Differ(B, D, c, d)
  PROVE  Good(t, f, s, D)
<1>1. Kept(pg, Null) /\ Marked(pg) /\ Sized(pg) /\ Counted(pg, f, st, B)
  BY DEF Good
<1>2. /\ p \in Page /\ pg[p].slab.tag = "bits" /\ pg[p].slab.n = c
      /\ t[p].slab.tag = "bits" /\ t[p].slab.n = c /\ t[p].slab.map = m
  BY DEF Cut, Bits
<1>3. \A x : Cut(t, x) = Cut(pg, x)
  BY <1>2 DEF Cut
<1>4. FreeSet(t) = FreeSet(pg)
  BY <1>2 DEF FreeSet
<1>5. Marked(t)
  <2>1. ASSUME NEW x \in ChunkClass, NEW q \in Cut(t, x)
        PROVE  InUse(x, t[q].slab.map)
    <3>1. CASE q = p
      <4>1. x = c
        BY <1>2, <2>1, <3>1 DEF Cut
      <4> QED  BY <1>2, <3>1, <4>1
    <3>2. CASE q # p
      <4>1. q \in Cut(pg, x) /\ t[q].slab = pg[q].slab
        BY <1>3, <3>2 DEF Cut
      <4> QED  BY <1>1, <4>1 DEF Marked
    <3> QED  BY <3>1, <3>2
  <2> QED  BY <2>1 DEF Marked
<1>6. Sized(t)
  <2>1. ASSUME NEW q \in Starts(pg) PROVE t[q].slab = pg[q].slab
    BY <1>2 DEF Starts
  <2> QED  BY <1>1, <2>1 DEF Sized
<1>7. Counted(t, f, s, D)
  <2>1. Cardinality(Cut(t, c)) = Cardinality(Cut(pg, c)) + 0
    <3>1. Cut(pg, c) \subseteq Page
      BY DEF Cut
    <3>2. Cardinality(Cut(pg, c)) \in Nat
      BY <3>1, PageSets
    <3> QED  BY <1>3, <3>2
  <2>2. Counted(t, Cardinality(FreeSet(t)), s, D)
    <3>1. \A x \in ChunkClass : x # c => Cut(t, x) = Cut(pg, x)
      BY <1>3
    <3>2. 0 \in Int
      OBVIOUS
    <3> QED  BY <1>1, <2>1, <3>1, <3>2, CountsShift
  <2>3. f = Cardinality(FreeSet(t))
    BY <1>1, <1>4 DEF Counted
  <2> QED  BY <2>2, <2>3
<1>8. IsFiniteSet(D)
  BY DEF Differ
<1> QED  BY <1>5, <1>6, <1>7, <1>8 DEF Good

\* mps_slab_alloc_locked of a chunk on a page that is cut already.
LEMMA GoodMark ==
  ASSUME NEW pg, NEW f, NEW st, NEW B, Good(pg, f, st, B),
         NEW c \in ChunkClass, NEW p \in Open(pg, c),
         NEW i \in 0 .. Chunks(c) - 1, i \notin pg[p].slab.map,
         NEW t, t = MarkBusy(pg, p, c, pg[p].slab.map \cup {i}),
         NEW b, b = BlockAt(p, c, i), NEW s, Shifted(st, s, c, 0, 1)
  PROVE  b \notin B /\ Good(t, f, s, B \cup {b})
<1>1. Kept(pg, Null) /\ Marked(pg) /\ B = Held(pg) /\ IsFiniteSet(B) /\ p \in Cut(pg, c)
  BY DEF Good, Open
<1>2. PICK m : m = pg[p].slab.map \cup {i}
  OBVIOUS
<1>3. /\ p \in Page /\ pg[p].slab.map \subseteq 0 .. Chunks(c) - 1 /\ pg[p].slab.map \subseteq Nat
      /\ \A x : HoldsAt(pg, p, x) <=>
           \E j \in pg[p].slab.map : j >= Reserved(c) /\ x = BlockAt(p, c, j)
      /\ \A x \in B : PageOf(x) = p => HoldsAt(pg, p, x)
  BY <1>1, HeldOfCut
<1>4. m \subseteq 0 .. Chunks(c) - 1
  BY <1>2, <1>3
<1>5. /\ Kept(t, Null) /\ Starts(t) = Starts(pg) /\ t[p].slab = Bits(c, m)
      /\ \A q \in Page \ {p} : t[q].slab = pg[q].slab
  BY <1>1, <1>2, <1>4, MarkBusyIs
<1>6. i \in Nat /\ i >= Reserved(c) /\ 0 .. Reserved(c) - 1 \subseteq pg[p].slab.map
  <2>1. 0 .. Reserved(c) - 1 \subseteq pg[p].slab.map
    BY <1>1 DEF Marked, InUse
  <2>2. i \notin 0 .. Reserved(c) - 1
    BY <2>1
  <2>3. Reserved(c) \in Nat /\ Chunks(c) \in Nat
    BY Sizes
  <2> QED  BY <2>1, <2>2, <2>3
<1>7. b \notin B
  <2>1. ASSUME b \in B PROVE FALSE
    <3>1. PageOf(b) = p
      <4>1. b.lo = p - 1 /\ p \in Nat
        BY <1>3, BlockFacts, Nodes
      <4> QED  BY <4>1 DEF PageOf
    <3>2. PICK j \in pg[p].slab.map : j >= Reserved(c) /\ b = BlockAt(p, c, j)
      BY <1>3, <2>1, <3>1
    <3>3. j \in Nat
      BY <1>3
    <3>4. i = j
      BY <1>6, <3>2, <3>3, BlockInjective
    <3> QED  BY <3>4
  <2> QED  BY <2>1
<1>8. Held(t) = B \cup {b}
  <2>1. \A q \in Page \ {p} : Alike(pg, t, q)
    BY <1>5 DEF Alike
  <2>2. \A x : x \in Held(t) <=> (x \in Held(pg) /\ PageOf(x) # p) \/ HoldsAt(t, p, x)
    BY <1>1, <1>3, <1>5, <2>1, HeldChange
  <2>3. t[p].slab.tag = "bits" /\ t[p].slab.n = c /\ t[p].slab.map = m
    BY <1>5 DEF Bits
  <2>4. \A x : HoldsAt(t, p, x) <=> \E j \in m : j >= Reserved(c) /\ x = BlockAt(p, c, j)
    BY <2>3 DEF HoldsAt
  <2>5. \A x : HoldsAt(t, p, x) <=> HoldsAt(pg, p, x) \/ x = b
    BY <1>2, <1>3, <1>6, <2>4
  <2>6. \A x : HoldsAt(pg, p, x) => x \in B
    BY <1>1, <1>3, HeldIs
  <2> QED  BY <1>1, <1>3, <2>2, <2>5, <2>6
<1>9. Differ(B, B \cup {b}, c, 1)
  <2>1. b.class = c
    BY BlockFacts
  <2>2. Differ(B, B \cup {b}, b.class, 1)
    BY <1>1, <1>7, DifferAdd
  <2> QED  BY <2>1, <2>2
<1>10. InUse(c, m)
  BY <1>2, <1>6 DEF InUse
<1>11. PICK D : D = B \cup {b}
  OBVIOUS
<1>12. D = Held(t) /\ Differ(B, D, c, 1)
  BY <1>8, <1>9, <1>11
<1>13. Good(t, f, s, D)
  <2>1. /\ p \in Cut(pg, c) /\ Kept(t, Null) /\ Starts(t) = Starts(pg) /\ t[p].slab = Bits(c, m)
        /\ \A q \in Page \ {p} : t[q].slab = pg[q].slab
        /\ InUse(c, m) /\ Shifted(st, s, c, 0, 1) /\ Good(pg, f, st, B)
    BY <1>1, <1>5, <1>10
  <2>2. 1 \in Int
    OBVIOUS
  <2> QED  BY <1>12, <2>1, <2>2, GoodMarks
<1> QED  BY <1>7, <1>11, <1>13

\* The page p of the block b is marked as m; it carries the blocks of pg, but b.
LEMMA HeldUnmarked ==
  ASSUME NEW pg, Kept(pg, Null), NEW c \in ChunkClass, NEW p \in Cut(pg, c),
         NEW i \in pg[p].slab.map, i >= Reserved(c), NEW b, b = BlockAt(p, c, i)
  PROVE  /\ b \in Held(pg)
         /\ \A x \in Held(pg) : (PageOf(x) # p \/
               \E j \in pg[p].slab.map \ {i} : j >= Reserved(c) /\ x = BlockAt(p, c, j))
              <=> x # b
<1>1. /\ p \in Page /\ pg[p].slab.map \subseteq Nat
      /\ \A x : HoldsAt(pg, p, x) <=>
           \E j \in pg[p].slab.map : j >= Reserved(c) /\ x = BlockAt(p, c, j)
      /\ \A x \in Held(pg) : PageOf(x) = p => HoldsAt(pg, p, x)
  BY HeldOfCut
<1>2. HoldsAt(pg, p, b)
  BY <1>1
<1>3. b \in Held(pg) /\ PageOf(b) = p
  BY <1>1, <1>2, HeldIs, HoldsAtPage
<1>4. ASSUME NEW j \in pg[p].slab.map \ {i}, b = BlockAt(p, c, j) PROVE FALSE
  <2>1. i \in Nat /\ j \in Nat
    BY <1>1
  <2> QED  BY <1>4, <2>1, BlockInjective
<1>5. ASSUME NEW x \in Held(pg), x # b, PageOf(x) = p
      PROVE  \E j \in pg[p].slab.map \ {i} : j >= Reserved(c) /\ x = BlockAt(p, c, j)
  <2>1. PICK j \in pg[p].slab.map : j >= Reserved(c) /\ x = BlockAt(p, c, j)
    BY <1>1, <1>5
  <2>2. j # i
    BY <1>5, <2>1
  <2> QED  BY <2>1, <2>2
<1> QED  BY <1>3, <1>4, <1>5

Without(S, i) == S \ {i}

\* mps_slab_free_locked of a chunk on a page with others in use.
LEMMA GoodUnmark ==
  ASSUME NEW pg, NEW f, NEW st, NEW B, Good(pg, f, st, B),
         NEW c \in ChunkClass, NEW p \in Cut(pg, c),
         NEW i \in pg[p].slab.map, i >= Reserved(c),
         NEW m, m = Without(pg[p].slab.map, i), ~NoneInUse(c, m),
         NEW t, t = MarkFree(pg, p, c, m),
         NEW b, b = BlockAt(p, c, i), NEW s, Shifted(st, s, c, 0, -1)
  PROVE  b \in B /\ Good(t, f, s, B \ {b})
<1>1. Kept(pg, Null) /\ Marked(pg) /\ B = Held(pg) /\ IsFiniteSet(B)
  BY DEF Good
<1>2. /\ p \in Page /\ pg[p].slab.map \subseteq 0 .. Chunks(c) - 1 /\ pg[p].slab.map \subseteq Nat
  BY <1>1, HeldOfCut
<1>3. m = pg[p].slab.map \ {i}
  BY DEF Without
<1>4. Partial(c, m)
  BY <1>3, <1>2 DEF Partial
<1>5. /\ Kept(t, Null) /\ Starts(t) = Starts(pg) /\ t[p].slab = Bits(c, m)
      /\ \A q \in Page \ {p} : t[q].slab = pg[q].slab
  BY <1>1, <1>4, MarkFreeIs
<1>6. InUse(c, m)
  <2>1. Reserved(c) \in Nat
    BY Sizes
  <2>2. 0 .. Reserved(c) - 1 \subseteq pg[p].slab.map
    BY <1>1 DEF Marked, InUse
  <2>3. 0 .. Reserved(c) - 1 \subseteq m
    BY <1>3, <1>2, <2>1, <2>2
  <2>4. PICK j \in m : j \notin 0 .. Reserved(c) - 1
    BY DEF NoneInUse
  <2>5. j \in Nat
    BY <1>3, <1>2
  <2>6. j >= Reserved(c)
    BY <2>1, <2>4, <2>5
  <2> QED  BY <2>3, <2>6 DEF InUse
<1>7. /\ b \in B
      /\ \A x \in B : (PageOf(x) # p \/
             \E j \in m : j >= Reserved(c) /\ x = BlockAt(p, c, j)) <=> x # b
  BY <1>3, <1>1, HeldUnmarked
<1>8. Held(t) = B \ {b}
  <2>1. \A q \in Page \ {p} : Alike(pg, t, q)
    BY <1>5 DEF Alike
  <2>2. \A x : x \in Held(t) <=> (x \in Held(pg) /\ PageOf(x) # p) \/ HoldsAt(t, p, x)
    BY <1>1, <1>2, <1>5, <2>1, HeldChange
  <2>3. t[p].slab.tag = "bits" /\ t[p].slab.n = c /\ t[p].slab.map = m
    BY <1>5 DEF Bits
  <2>4. \A x : HoldsAt(t, p, x) <=> \E j \in m : j >= Reserved(c) /\ x = BlockAt(p, c, j)
    BY <2>3 DEF HoldsAt
  <2>5. \A x : HoldsAt(t, p, x) => x \in B
    <3>1. \A x : HoldsAt(pg, p, x) <=>
            \E j \in pg[p].slab.map : j >= Reserved(c) /\ x = BlockAt(p, c, j)
      BY <1>1, HeldOfCut
    <3>2. \A x : HoldsAt(t, p, x) => HoldsAt(pg, p, x)
      BY <1>3, <2>4, <3>1
    <3> QED  BY <1>1, <1>2, <3>2, HeldIs
  <2>6. \A x : x \in Held(t) <=> x \in B /\ x # b
    BY <1>1, <1>7, <2>2, <2>4, <2>5
  <2> QED  BY <2>6
<1>9. Differ(B, B \ {b}, c, -1)
  <2>1. b.class = c
    BY BlockFacts
  <2>2. Differ(B, B \ {b}, b.class, -1)
    BY <1>1, <1>7, DifferRemove
  <2> QED  BY <2>1, <2>2
<1>10. PICK D : D = B \ {b}
  OBVIOUS
<1>11. Good(t, f, s, D)
  <2>1. /\ Kept(t, Null) /\ Starts(t) = Starts(pg) /\ t[p].slab = Bits(c, m)
        /\ \A q \in Page \ {p} : t[q].slab = pg[q].slab
        /\ InUse(c, m) /\ Shifted(st, s, c, 0, -1) /\ Good(pg, f, st, B)
    BY <1>5, <1>6
  <2>2. -1 \in Int
    OBVIOUS
  <2>3. D = Held(t) /\ Differ(B, D, c, -1)
    BY <1>8, <1>9, <1>10
  <2> QED  BY <2>1, <2>2, <2>3, GoodMarks
<1> QED  BY <1>7, <1>10, <1>11

\* A page outside every block is cut for c, or a page cut for c is freed.
LEMMA GoodCuts ==
  ASSUME NEW pg, NEW f, NEW st, NEW B, Good(pg, f, st, B), NEW c \in ChunkClass,
         NEW p \in Page, pg[p].slab.tag # "start",
         NEW t, Kept(t, Null), t[p].slab.tag # "start",
         \A q \in Page \ {p} : SameUse(pg, t, q),
         \A x \in ChunkClass : x # c => p \notin Cut(pg, x) /\ p \notin Cut(t, x),
         p \in Cut(t, c) => InUse(c, t[p].slab.map),
         NEW s, NEW k \in Int, Shifted(st, s, c, k, k),
         Cardinality(Cut(t, c)) = Cardinality(Cut(pg, c)) + k,
         NEW g, g = Cardinality(FreeSet(t)),
         NEW D, D = Held(t), Differ(B, D, c, k)
  PROVE  Good(t, g, s, D)
<1>1. Kept(pg, Null) /\ Marked(pg) /\ Sized(pg) /\ Counted(pg, f, st, B)
  BY DEF Good
<1>2. ASSUME NEW x PROVE \A q \in Page \ {p} : q \in Cut(t, x) <=> q \in Cut(pg, x)
  BY DEF Cut, SameUse
<1>3. \A x : Cut(t, x) \subseteq Page /\ Cut(pg, x) \subseteq Page
  BY DEF Cut
<1>4. \A x \in ChunkClass : x # c => Cut(t, x) = Cut(pg, x)
  <2>1. ASSUME NEW x \in ChunkClass, x # c PROVE Cut(t, x) = Cut(pg, x)
    <3>1. \A q \in Page \ {p} : q \in Cut(t, x) <=> q \in Cut(pg, x)
      BY <1>2
    <3>2. p \notin Cut(pg, x) /\ p \notin Cut(t, x)
      BY <2>1
    <3> QED  BY <1>3, <3>1, <3>2
  <2> QED  BY <2>1
<1>5. Marked(t)
  <2>1. ASSUME NEW x \in ChunkClass, NEW q \in Cut(t, x) PROVE InUse(x, t[q].slab.map)
    <3>1. CASE q = p
      <4>1. x = c
        BY <2>1, <3>1
      <4> QED  BY <2>1, <3>1, <4>1
    <3>2. CASE q # p
      <4>1. q \in Page \ {p}
        BY <1>3, <3>2
      <4>2. q \in Cut(pg, x)
        BY <1>2, <4>1
      <4>3. t[q].slab = pg[q].slab
        BY <4>1, <4>2 DEF SameUse, Cut
      <4> QED  BY <1>1, <4>2, <4>3 DEF Marked
    <3> QED  BY <3>1, <3>2
  <2> QED  BY <2>1 DEF Marked
<1>6. Sized(t)
  <2>1. ASSUME NEW q \in Starts(t) PROVE t[q].slab.n * PageSize \in Class
    <3>1. q \in Page \ {p} /\ t[q].slab.tag = "start"
      BY DEF Starts
    <3>2. q \in Starts(pg) /\ t[q].slab = pg[q].slab
      BY <3>1 DEF Starts, SameUse
    <3> QED  BY <1>1, <3>2 DEF Sized
  <2> QED  BY <2>1 DEF Sized
<1>7. Counted(t, g, s, D)
  BY <1>1, <1>4, CountsShift
<1>8. IsFiniteSet(D)
  BY DEF Differ
<1> QED  BY <1>5, <1>6, <1>7, <1>8 DEF Good

\* mps_slab_free_locked of the last chunk in use of a page.
LEMMA GoodUncut ==
  ASSUME NEW pg, NEW f, NEW st, NEW B, Good(pg, f, st, B),
         NEW c \in ChunkClass, NEW p \in Cut(pg, c),
         NEW i \in pg[p].slab.map, i >= Reserved(c),
         NEW m, m = Without(pg[p].slab.map, i), NoneInUse(c, m),
         NEW u, u = MarkFree(pg, p, c, m), NEW t, t = FreePages(u, p, 1),
         NEW b, b = BlockAt(p, c, i), NEW s, Shifted(st, s, c, -1, -1)
  PROVE  b \in B /\ Good(t, f + 1, s, B \ {b})
<1>1. Kept(pg, Null) /\ B = Held(pg) /\ IsFiniteSet(B) /\ f = Cardinality(FreeSet(pg))
  BY DEF Good, Counted
<1>2. /\ p \in Page /\ pg[p].slab.tag = "bits" /\ pg[p].slab.n = c
      /\ pg[p].slab.map \subseteq 0 .. Chunks(c) - 1 /\ pg[p].slab.map \subseteq Nat
  BY <1>1, HeldOfCut
<1>3. m = pg[p].slab.map \ {i}
  BY DEF Without
<1>4. Partial(c, m)
  BY <1>2, <1>3 DEF Partial
<1>5. /\ Kept(u, Null) /\ p \in Open(u, c)
      /\ \A q \in Page \ {p} : u[q].slab = pg[q].slab
  BY <1>1, <1>4, MarkFreeIs
<1>6. Kept(t, Null) /\ Freed(u, t, p, 1)
  <2>1. 1 = 1 /\ \E x \in ChunkClass : p \in Open(u, x)
    BY <1>5
  <2> QED  BY <1>5, <2>1, FreePagesIs
<1>7. t[p].slab.tag = "length" /\ \A q \in Page \ {p} : SameUse(pg, t, q)
  <2>1. p \in Nat /\ Page \subseteq Nat
    BY <1>2, Nodes
  <2>2. \A q \in Page : q \in p .. p + 1 - 1 <=> q = p
    BY <2>1
  <2>3. \A q \in Page : IF q = p THEN t[q].slab.tag = "length" ELSE SameUse(u, t, q)
    BY <1>6, <2>2 DEF Freed, SameUse
  <2> QED  BY <1>2, <1>5, <2>3 DEF SameUse
<1>8. Held(t) = B \ {b} /\ b \in B
  <2>1. \A q \in Page \ {p} : Alike(pg, t, q)
    BY <1>7 DEF Alike, SameUse
  <2>2. \A x : x \in Held(t) <=> (x \in Held(pg) /\ PageOf(x) # p) \/ HoldsAt(t, p, x)
    BY <1>1, <1>2, <1>6, <2>1, HeldChange
  <2>3. \A x : ~HoldsAt(t, p, x)
    BY <1>7 DEF HoldsAt
  <2>4. /\ b \in B
        /\ \A x \in B : (PageOf(x) # p \/
             \E j \in m : j >= Reserved(c) /\ x = BlockAt(p, c, j)) <=> x # b
    BY <1>1, <1>3, HeldUnmarked
  <2>5. ASSUME NEW j \in m, j >= Reserved(c) PROVE FALSE
    <3>1. j \in 0 .. Reserved(c) - 1 /\ Reserved(c) \in Nat
      BY Sizes DEF NoneInUse
    <3> QED  BY <2>5, <3>1
  <2>6. \A x \in B : PageOf(x) # p <=> x # b
    BY <2>4, <2>5
  <2> QED  BY <1>1, <2>2, <2>3, <2>4, <2>6
<1>9. Cardinality(FreeSet(t)) = f + 1
  <2>1. FreeSet(t) = FreeSet(pg) \cup {p} /\ p \notin FreeSet(pg)
    BY <1>2, <1>7 DEF FreeSet, SameUse
  <2>2. IsFiniteSet(FreeSet(pg))
    BY PageSets DEF FreeSet
  <2> QED  BY <1>1, <2>1, <2>2, FS_AddElement
<1>10. Cardinality(Cut(t, c)) = Cardinality(Cut(pg, c)) + (-1)
  <2>1. Cut(t, c) = Cut(pg, c) \ {p}
    BY <1>2, <1>7 DEF Cut, SameUse
  <2>2. Cut(pg, c) \subseteq Page
    BY DEF Cut
  <2>3. IsFiniteSet(Cut(pg, c)) /\ Cardinality(Cut(pg, c)) \in Nat
    BY <2>2, PageSets
  <2>4. Cardinality(Cut(pg, c) \ {p}) = Cardinality(Cut(pg, c)) - 1
    BY <2>3, FS_RemoveElement
  <2> QED  BY <2>1, <2>3, <2>4
<1>11. Differ(B, B \ {b}, c, -1)
  <2>1. b.class = c
    BY BlockFacts
  <2>2. Differ(B, B \ {b}, b.class, -1)
    BY <1>1, <1>8, DifferRemove
  <2> QED  BY <2>1, <2>2
<1>12. PICK D, g : D = B \ {b} /\ g = f + 1
  OBVIOUS
<1>13. Good(t, g, s, D)
  <2>1. /\ pg[p].slab.tag # "start" /\ t[p].slab.tag # "start"
        /\ \A x \in ChunkClass : x # c => p \notin Cut(pg, x) /\ p \notin Cut(t, x)
        /\ p \notin Cut(t, c)
    BY <1>2, <1>7 DEF Cut
  <2>2. g = Cardinality(FreeSet(t)) /\ D = Held(t) /\ Differ(B, D, c, -1)
    BY <1>8, <1>9, <1>11, <1>12
  <2>3. -1 \in Int
    OBVIOUS
  <2>4. Good(pg, f, st, B) /\ p \in Page /\ Kept(t, Null) /\ Shifted(st, s, c, -1, -1)
        /\ \A q \in Page \ {p} : SameUse(pg, t, q)
    BY <1>2, <1>6, <1>7
  <2> QED  BY <1>10, <2>1, <2>2, <2>3, <2>4, GoodCuts
<1> QED  BY <1>8, <1>12, <1>13

\* mps_slab_alloc_locked of a chunk for which a page is cut.
LEMMA GoodCut ==
  ASSUME NEW pg, NEW f, NEW st, NEW B, Good(pg, f, st, B),
         NEW c \in ChunkClass, Open(pg, c) = {}, NEW p \in Runs(pg),
         NEW u, u = TakePages(pg, p, 1), NEW t, t = CutPage(u, p, c),
         NEW b, b = BlockAt(p, c, Reserved(c)), NEW s, Shifted(st, s, c, 1, 1)
  PROVE  b \notin B /\ Good(t, f - 1, s, B \cup {b})
<1>1. Kept(pg, Null) /\ B = Held(pg) /\ IsFiniteSet(B) /\ f = Cardinality(FreeSet(pg))
  BY DEF Good, Counted
<1>2. 1 \in 1 .. pg[p].slab.n
  <2>1. pg \in Table /\ Tiled(pg)
    BY <1>1 DEF Kept
  <2>2. pg[p].slab.n \in Nat \ {0}
    BY <2>1, Extent
  <2> QED  BY <2>2
<1>3. /\ p \in Page /\ pg[p].slab.tag = "length" /\ u[p].slab = Start(1)
      /\ \A q \in Page \ {p} : SameUse(pg, u, q)
  <2>1. /\ p \in Page /\ p \in p .. p + 1 - 1
        /\ \A q \in p .. p + 1 - 1 : pg[q].slab.tag = "length"
        /\ u[p].slab = Start(1)
        /\ \A q \in Page \ (p .. p + 1 - 1) : SameUse(pg, u, q)
    BY <1>1, <1>2, TakeFacts DEF SameUse
  <2>2. p \in Nat /\ Page \subseteq Nat
    BY <2>1, Nodes
  <2>3. \A q \in Page : q \in p .. p + 1 - 1 <=> q = p
    BY <2>2
  <2>4. \A q \in Page \ {p} : q \in Page \ (p .. p + 1 - 1)
    BY <2>3
  <2> QED  BY <2>1, <2>4
<1>4. Kept(u, Null)
  BY <1>1, <1>2, TakeKept
<1>5. p \in Starts(u) /\ u[p].slab.n = 1 /\ u[p].slab.tag = "start"
  BY <1>3 DEF Starts, Start
<1>6. Open(u, c) = {}
  <2>1. ASSUME NEW q \in Open(u, c) PROVE FALSE
    <3>1. q \in Page /\ u[q].slab.tag = "bits"
      BY DEF Open, Cut
    <3>2. q # p
      BY <1>5, <3>1
    <3>3. u[q].slab = pg[q].slab
      BY <1>3, <3>1, <3>2 DEF SameUse
    <3>4. q \in Open(pg, c)
      BY <3>3, <2>1 DEF Open, Cut
    <3> QED  BY <3>4
  <2> QED  BY <2>1
<1>7. /\ Kept(t, Null) /\ t[p].slab = Bits(c, 0 .. Reserved(c))
      /\ \A q \in Page \ {p} : t[q].slab = u[q].slab
  BY <1>4, <1>5, <1>6, CutPageIs
<1>8. PICK m : m = 0 .. Reserved(c)
  OBVIOUS
<1>9. t[p].slab.tag = "bits" /\ t[p].slab.n = c /\ t[p].slab.map = m
  BY <1>7, <1>8 DEF Bits
<1>10. \A q \in Page \ {p} : SameUse(pg, t, q)
  BY <1>3, <1>7 DEF SameUse
<1>11. Reserved(c) \in Nat /\ Reserved(c) \in m /\ \A j \in m : j >= Reserved(c) => j = Reserved(c)
  BY <1>8, Sizes
<1>12. Held(t) = B \cup {b} /\ b \notin B
  <2>1. \A q \in Page \ {p} : Alike(pg, t, q)
    BY <1>10 DEF Alike, SameUse
  <2>2. \A x : x \in Held(t) <=> (x \in Held(pg) /\ PageOf(x) # p) \/ HoldsAt(t, p, x)
    BY <1>1, <1>3, <1>7, <2>1, HeldChange
  <2>3. \A x : HoldsAt(t, p, x) <=> \E j \in m : j >= Reserved(c) /\ x = BlockAt(p, c, j)
    BY <1>9 DEF HoldsAt
  <2>4. \A x : HoldsAt(t, p, x) <=> x = b
    <3>1. Reserved(c) >= Reserved(c)
      BY <1>11
    <3> QED  BY <1>11, <2>3, <3>1
  <2>5. \A x : ~HoldsAt(pg, p, x)
    BY <1>3 DEF HoldsAt
  <2>6. ASSUME NEW x \in B PROVE PageOf(x) # p
    <3>1. PICK q \in Page : HoldsAt(pg, q, x)
      BY <1>1, HeldIs
    <3> QED  BY <2>5, <3>1, HoldsAtPage
  <2>7. PageOf(b) = p
    BY <1>3, <2>4, HoldsAtPage
  <2> QED  BY <1>1, <2>2, <2>4, <2>6, <2>7
<1>13. Cardinality(FreeSet(t)) = f - 1
  <2>1. FreeSet(t) = FreeSet(pg) \ {p} /\ p \in FreeSet(pg)
    BY <1>3, <1>9, <1>10 DEF FreeSet, SameUse
  <2>2. IsFiniteSet(FreeSet(pg))
    BY PageSets DEF FreeSet
  <2> QED  BY <1>1, <2>1, <2>2, FS_RemoveElement
<1>14. Cardinality(Cut(t, c)) = Cardinality(Cut(pg, c)) + 1
  <2>1. Cut(t, c) = Cut(pg, c) \cup {p} /\ p \notin Cut(pg, c)
    BY <1>3, <1>9, <1>10 DEF Cut, SameUse
  <2>2. IsFiniteSet(Cut(pg, c))
    BY PageSets DEF Cut
  <2> QED  BY <2>1, <2>2, FS_AddElement
<1>15. Differ(B, B \cup {b}, c, 1)
  <2>1. b.class = c
    BY BlockFacts
  <2>2. Differ(B, B \cup {b}, b.class, 1)
    BY <1>1, <1>12, DifferAdd
  <2> QED  BY <2>1, <2>2
<1>16. InUse(c, m)
  <2>1. 0 .. Reserved(c) - 1 \subseteq m /\ Reserved(c) >= Reserved(c)
    BY <1>8, <1>11
  <2> QED  BY <1>11, <2>1 DEF InUse
<1>17. PICK D, g : D = B \cup {b} /\ g = f - 1
  OBVIOUS
<1>18. Good(t, g, s, D)
  <2>1. /\ pg[p].slab.tag # "start" /\ t[p].slab.tag # "start"
        /\ \A x \in ChunkClass : x # c => p \notin Cut(pg, x) /\ p \notin Cut(t, x)
        /\ InUse(c, t[p].slab.map)
    BY <1>3, <1>9, <1>16 DEF Cut
  <2>2. g = Cardinality(FreeSet(t)) /\ D = Held(t) /\ Differ(B, D, c, 1)
    BY <1>12, <1>13, <1>15, <1>17
  <2>3. 1 \in Int
    OBVIOUS
  <2>4. Good(pg, f, st, B) /\ p \in Page /\ Kept(t, Null) /\ Shifted(st, s, c, 1, 1)
        /\ \A q \in Page \ {p} : SameUse(pg, t, q)
    BY <1>3, <1>7, <1>10
  <2> QED  BY <1>14, <2>1, <2>2, <2>3, <2>4, GoodCuts
<1> QED  BY <1>12, <1>17, <1>18

\* mps_slab_init: one run of all pages, and no block.
LEMMA GoodInit == Init => IInv
<1> SUFFICES ASSUME Init PROVE IInv
  OBVIOUS
<1>1. PICK pg : pg = page
  OBVIOUS
<1>2. PICK N, F : N = NPages /\ F = FreeHead
  OBVIOUS
<1>3. /\ N \in Nat \ {0} /\ F = N + 1 /\ Page = 1 .. N /\ Page \subseteq Node /\ F \in Node
      /\ F \notin Page /\ 1 \in Page /\ Node \subseteq Int
  BY <1>2, Sizes, Nodes DEF Page, FreeHead
<1>4. pg = [q \in Node |->
              IF q = 1 THEN [slab |-> Length(N), next |-> F, prev |-> Untyped(F)]
              ELSE IF q \in Page THEN Cleared
              ELSE [slab |-> PageFree, next |-> IF q = F THEN 1 ELSE q,
                    prev |-> Untyped(Null)]]
  BY <1>1, <1>2 DEF Init
<1>5. /\ \A n : Length(n).tag = "length" /\ Length(n).n = n /\ Length(n).map = {}
      /\ \A q : Untyped(q).at = q /\ Untyped(q).type = "PAGE"
      /\ PageFree = Length(0) /\ Cleared.slab = PageFree /\ Cleared.next = Null
      /\ Cleared.prev = Untyped(Null)
  BY DEF Length, Untyped, PageFree, Cleared
<1>6. /\ \A n \in Nat : Length(n) \in Word
      /\ \A q \in Int : Untyped(q) \in Link
  BY DEF Length, Word, Untyped, Link
<1>7. pg \in Table
  <2>1. Null \in Int /\ F \in Int /\ N \in Nat /\ 0 \in Nat
    BY <1>3, Nodes
  <2>2. ASSUME NEW q \in Node PROVE pg[q] \in Desc
    <3>1. q \in Int
      BY <1>3
    <3>2. CASE q = 1
      BY <1>4, <1>6, <2>1, <3>2 DEF Desc
    <3>3. CASE q # 1 /\ q \in Page
      <4>1. Cleared \in Desc
        BY <1>5, <1>6, <2>1 DEF Cleared, Desc
      <4> QED  BY <1>4, <3>3, <4>1
    <3>4. CASE q # 1 /\ q \notin Page
      <4>1. PageFree \in Word /\ Untyped(Null) \in Link
        BY <1>5, <1>6, <2>1
      <4>2. PICK d : d = IF q = F THEN 1 ELSE q
        OBVIOUS
      <4>3. d \in Int
        BY <3>1, <4>2
      <4>4. pg[q] = [slab |-> PageFree, next |-> d, prev |-> Untyped(Null)]
        BY <1>4, <3>4, <4>2
      <4> QED  BY <4>1, <4>3, <4>4 DEF Desc
    <3> QED  BY <3>2, <3>3, <3>4
  <2>3. DOMAIN pg = Node /\ pg = [q \in Node |-> pg[q]]
    BY <1>4
  <2> QED  BY <2>2, <2>3 DEF Table
<1>8. /\ pg[1].slab = Length(N) /\ pg[1].next = F /\ pg[1].prev = Untyped(F)
      /\ \A q \in Page : q # 1 => /\ pg[q].slab = PageFree /\ pg[q].next = Null
                                  /\ pg[q].prev = Untyped(Null)
      /\ pg[F].next = 1
  <2>1. 1 \in Node /\ F # 1 /\ F \in Node
    BY <1>3
  <2>2. \A q \in Page : q # 1 => pg[q] = Cleared
    BY <1>3, <1>4
  <2> QED  BY <1>3, <1>4, <1>5, <2>1, <2>2
<1>9. \A c \in ChunkClass : pg[Slot(c)].next = Slot(c)
  <2>1. ASSUME NEW c \in ChunkClass PROVE pg[Slot(c)].next = Slot(c)
    <3>1. Slot(c) \in Node /\ Slot(c) \notin Page /\ Slot(c) # F /\ Slot(c) # 1
      BY <1>2, <1>3, Nodes
    <3> QED  BY <1>4, <3>1
  <2> QED  BY <2>1
<1>10. /\ pg[1].slab.tag = "length" /\ pg[1].slab.n = N /\ pg[1].prev.at = F
       /\ \A q \in Page : pg[q].slab.tag = "length" /\ pg[q].prev.type = "PAGE"
       /\ \A q \in Page : q # 1 => pg[q].slab.n = 0
  BY <1>5, <1>8
<1>11. Runs(pg) = {1} /\ Starts(pg) = {} /\ \A c : Cut(pg, c) = {} /\ Open(pg, c) = {}
  <2>1. Runs(pg) = {1}
    BY <1>3, <1>10 DEF Runs
  <2>2. Starts(pg) = {} /\ \A c : Cut(pg, c) = {}
    BY <1>10 DEF Starts, Cut
  <2> QED  BY <2>1, <2>2 DEF Open
<1>12. End(pg, 1) = N + 1
  BY <1>3, <1>10 DEF End
<1>13. Tiled(pg)
  <2>1. \A q \in 1 + 1 .. End(pg, 1) - 1 : pg[q].slab = PageFree
    BY <1>3, <1>8, <1>12
  <2>2. \A q \in Page : q # 1 => 1 < q /\ q < End(pg, 1)
    BY <1>3, <1>12
  <2>3. \A q \in Page : pg[q].slab.n = 0 => q # 1
    BY <1>3, <1>10
  <2>4. \A q \in Page : pg[q].slab.tag # "busy"
    BY <1>10
  <2>5. End(pg, 1) <= NPages + 1
    BY <1>2, <1>3, <1>12
  <2> QED  BY <1>11, <2>1, <2>2, <2>3, <2>4, <2>5 DEF Tiled
<1>14. CutSound(pg) /\ Types(pg, Null)
  BY <1>10 DEF CutSound, Types
<1>15. Ring(pg, FreeHead, {1})
  <2>1. PICK r : r = [q \in {1} |-> 0]
    OBVIOUS
  <2>2. r \in [{1} -> Nat]
    BY <2>1
  <2>3. /\ pg[F].next \in {1} \cup {F} /\ pg[pg[F].next].prev.at = F
        /\ \A q \in {1} : /\ pg[q].next = F /\ pg[q].prev.at = F
                          /\ pg[pg[q].prev.at].next = q /\ F \notin {1}
    BY <1>3, <1>8, <1>10
  <2> QED  BY <1>2, <2>2, <2>3 DEF Ring
<1>16. \A c \in ChunkClass : Ring(pg, Slot(c), {})
  <2>1. PICK r : r = [q \in {} |-> 0]
    OBVIOUS
  <2>2. r \in [{} -> Nat]
    BY <2>1
  <2> QED  BY <1>9, <2>2 DEF Ring
<1>17. Unlisted(pg, Null)
  BY <1>8, <1>11 DEF Unlisted
<1>18. Lasts(pg, Null)
  BY <1>2, <1>3, <1>11, <1>12 DEF Lasts
<1>19. Apart(pg, Null)
  BY <1>3, <1>11, <1>12 DEF Apart
<1>20. Kept(pg, Null)
  <2>1. {1} \ {Null} = {1}
    BY DEF Null
  <2> QED  BY <1>7, <1>11, <1>13, <1>14, <1>15, <1>16, <1>17, <1>18, <1>19, <2>1 DEF Kept
<1>21. Marked(pg) /\ Sized(pg)
  BY <1>11 DEF Marked, Sized
<1>22. Held(pg) = {}
  BY <1>11 DEF Held
<1>23. Counted(pg, N, stats, {})
  <2>1. FreeSet(pg) = Page
    BY <1>10 DEF FreeSet
  <2>2. Cardinality(Page) = N
    <3>1. Cardinality(1 .. N) = IF 1 > N THEN 0 ELSE N - 1 + 1
      BY <1>3, FS_Interval
    <3> QED  BY <1>3, <3>1
  <2>3. \A c : InClass({}, c) = {}
    BY DEF InClass
  <2>4. stats = [c \in ChunkClass |-> [total |-> 0, used |-> 0]]
    BY DEF Init
  <2>5. Cardinality({}) = 0
    BY FS_EmptySet
  <2>6. \A c \in ChunkClass : 0 * (Chunks(c) - Reserved(c)) = 0
    <3>1. \A k \in Int : 0 * k = 0
      OBVIOUS
    <3>2. \A c \in ChunkClass : Chunks(c) - Reserved(c) \in Int
      BY Sizes
    <3> QED  BY <3>1, <3>2
  <2>7. stats \in [ChunkClass -> [total : Int, used : Int]]
    BY <2>4
  <2>8. \A c \in ChunkClass : stats[c].used = 0 /\ stats[c].total = 0
    BY <2>4
  <2> QED  BY <1>11, <2>1, <2>2, <2>3, <2>5, <2>6, <2>7, <2>8 DEF Counted
<1> QED  BY <1>1, <1>2, <1>20, <1>21, <1>22, <1>23, FS_EmptySet DEF Init, IInv, Good

\* How the actions write the counters.
LEMMA ShiftedUsed ==
  ASSUME NEW st \in [ChunkClass -> [total : Int, used : Int]], NEW c \in ChunkClass, NEW s
  PROVE  /\ s = [st EXCEPT ![c].used = @ + 1] => Shifted(st, s, c, 0, 1)
         /\ s = [st EXCEPT ![c].used = @ - 1] => Shifted(st, s, c, 0, -1)
<1>1. st[c] \in [total : Int, used : Int] /\ st[c].used \in Int /\ st[c].total \in Int
  OBVIOUS
<1>2. PICK w : w = Chunks(c) - Reserved(c)
  OBVIOUS
<1>3. w \in Int /\ 0 * w = 0
  BY <1>2, Sizes
<1>4. ASSUME s = [st EXCEPT ![c].used = @ + 1] PROVE Shifted(st, s, c, 0, 1)
  <2>1. s \in [ChunkClass -> [total : Int, used : Int]] /\ s[c].used = st[c].used + 1
        /\ s[c].total = st[c].total /\ \A x \in ChunkClass \ {c} : s[x] = st[x]
    BY <1>1, <1>4
  <2> QED  BY <1>1, <1>2, <1>3, <2>1 DEF Shifted
<1>5. ASSUME s = [st EXCEPT ![c].used = @ - 1] PROVE Shifted(st, s, c, 0, -1)
  <2>1. s \in [ChunkClass -> [total : Int, used : Int]] /\ s[c].used = st[c].used - 1
        /\ s[c].total = st[c].total /\ \A x \in ChunkClass \ {c} : s[x] = st[x]
    BY <1>1, <1>5
  <2>2. s[c].used = st[c].used + (-1)
    BY <1>1, <2>1
  <2> QED  BY <1>1, <1>2, <1>3, <2>1, <2>2 DEF Shifted
<1> QED  BY <1>4, <1>5

LEMMA ShiftedBoth ==
  ASSUME NEW st \in [ChunkClass -> [total : Int, used : Int]], NEW c \in ChunkClass, NEW s
  PROVE  /\ s = [st EXCEPT ![c].total = @ + Chunks(c) - Reserved(c), ![c].used = @ + 1]
              => Shifted(st, s, c, 1, 1)
         /\ s = [st EXCEPT ![c].total = @ - (Chunks(c) - Reserved(c)), ![c].used = @ - 1]
              => Shifted(st, s, c, -1, -1)
<1>1. st[c] \in [total : Int, used : Int] /\ st[c].used \in Int /\ st[c].total \in Int
  OBVIOUS
<1>2. PICK k, r : k = Chunks(c) /\ r = Reserved(c)
  OBVIOUS
<1>3. k \in Int /\ r \in Int /\ 1 * (k - r) = k - r /\ (-1) * (k - r) = r - k
  BY <1>2, Sizes
<1>4. ASSUME s = [st EXCEPT ![c].total = @ + Chunks(c) - Reserved(c), ![c].used = @ + 1]
      PROVE  Shifted(st, s, c, 1, 1)
  <2>1. s = [st EXCEPT ![c].total = @ + k - r, ![c].used = @ + 1]
    BY <1>2, <1>4
  <2>2. s \in [ChunkClass -> [total : Int, used : Int]] /\ s[c].used = st[c].used + 1
        /\ s[c].total = st[c].total + k - r /\ \A x \in ChunkClass \ {c} : s[x] = st[x]
    BY <1>1, <1>3, <2>1
  <2>3. s[c].total = st[c].total + 1 * (k - r)
    BY <1>1, <1>3, <2>2
  <2> QED  BY <1>2, <2>2, <2>3 DEF Shifted
<1>5. ASSUME s = [st EXCEPT ![c].total = @ - (Chunks(c) - Reserved(c)), ![c].used = @ - 1]
      PROVE  Shifted(st, s, c, -1, -1)
  <2>1. s = [st EXCEPT ![c].total = @ - (k - r), ![c].used = @ - 1]
    BY <1>2, <1>5
  <2>2. s \in [ChunkClass -> [total : Int, used : Int]] /\ s[c].used = st[c].used - 1
        /\ s[c].total = st[c].total - (k - r) /\ \A x \in ChunkClass \ {c} : s[x] = st[x]
    BY <1>1, <1>3, <2>1
  <2>3. s[c].total = st[c].total + (-1) * (k - r) /\ s[c].used = st[c].used + (-1)
    BY <1>1, <1>3, <2>2
  <2> QED  BY <1>2, <2>2, <2>3 DEF Shifted
<1> QED  BY <1>4, <1>5

-----------------------------------------------------------------------------
(* The steps *)

LEMMA FreeListFacts ==
  ASSUME NEW pg, Kept(pg, Null)
  PROVE  /\ Ring(pg, FreeHead, Runs(pg)) /\ Runs(pg) \subseteq Page
         /\ pg \in Table /\ Tiled(pg)
         /\ \A p \in Runs(pg) : pg[p].slab.n \in Nat \ {0}
<1>1. Runs(pg) \subseteq Page
  BY DEF Runs
<1>2. Runs(pg) \ {Null} = Runs(pg)
  BY <1>1, NullIsNone
<1>3. pg \in Table /\ Tiled(pg) /\ Ring(pg, FreeHead, Runs(pg))
  BY <1>2 DEF Kept
<1>4. \A p \in Runs(pg) : pg[p].slab.n \in Nat \ {0}
  BY <1>3, Extent
<1> QED  BY <1>1, <1>3, <1>4

LEMMA AllocLargeIs ==
  ASSUME IInv, NEW size \in Request, AllocLarge(size), NEW n, n = PagesFor(size)
  PROVE  /\ IInv'
         /\ \/ /\ \A q \in Runs(page) : page[q].slab.n < n
               /\ refused' = n * PageSize /\ UNCHANGED <<page, pfree, stats, used>>
            \/ \E p \in Runs(page) :
                 /\ page[p].slab.n >= n /\ PageBlock(p, n) \notin used
                 /\ used' = used \cup {PageBlock(p, n)} /\ refused' = None
<1>1. n \in Nat \ {0} /\ n * PageSize \in Class /\ ClassOf(size) = n * PageSize
  <2>1. IsLarge(size)
    BY DEF AllocLarge
  <2> QED  BY <2>1, LargeFits
<1>2. Good(page, pfree, stats, used) /\ Kept(page, Null)
  BY DEF IInv, Good
<1>3. /\ Ring(page, FreeHead, Runs(page)) /\ Runs(page) \subseteq Page
      /\ \A p \in Runs(page) : page[p].slab.n \in Nat \ {0}
  BY <1>2, FreeListFacts
<1>4. PICK p : p = FirstFit(page, n)
  OBVIOUS
<1>5. \/ p \in Runs(page) /\ page[p].slab.n >= n
      \/ p = FreeHead /\ \A q \in Runs(page) : page[q].slab.n < n
  <2>1. \A q \in Runs(page) : page[q].slab.n \in Nat
    BY <1>3
  <2> QED  BY <1>1, <1>3, <1>4, <2>1, FirstFitIs
<1>6. \/ p = FreeHead /\ Fail(ClassOf(size))
      \/ /\ p # FreeHead
         /\ page' = TakePages(page, p, n)
         /\ pfree' = pfree - n
         /\ Give(PageBlock(p, n))
         /\ stats' = stats
  BY <1>4 DEF AllocLarge
<1>7. FreeHead \notin Runs(page)
  BY <1>3, Nodes
<1>8. CASE p = FreeHead /\ Fail(ClassOf(size))
  <2>1. refused' = n * PageSize /\ UNCHANGED <<page, pfree, stats, used>>
    BY <1>1, <1>8 DEF Fail
  <2>2. IInv'
    BY <2>1 DEF IInv
  <2> QED  BY <1>5, <1>7, <1>8, <2>1, <2>2
<1>9. CASE /\ p # FreeHead
           /\ page' = TakePages(page, p, n)
           /\ pfree' = pfree - n
           /\ Give(PageBlock(p, n))
           /\ stats' = stats
  <2>1. p \in Runs(page) /\ page[p].slab.n >= n
    BY <1>5, <1>9
  <2>2. n \in 1 .. page[p].slab.n
    BY <1>1, <1>3, <2>1
  <2>3. PICK b, t : b = PageBlock(p, n) /\ t = TakePages(page, p, n)
    OBVIOUS
  <2>4. b \notin used /\ Good(t, pfree - n, stats, used \cup {b})
    BY <1>1, <1>2, <2>1, <2>2, <2>3, GoodLarge
  <2>5. page' = t /\ pfree' = pfree - n /\ stats' = stats /\ used' = used \cup {b}
        /\ refused' = None
    BY <1>9, <2>3 DEF Give
  <2>6. IInv'
    BY <2>4, <2>5 DEF IInv
  <2> QED  BY <2>1, <2>3, <2>4, <2>5, <2>6
<1> QED  BY <1>6, <1>8, <1>9

LEMMA AllocChunkIs ==
  ASSUME IInv, NEW size \in Request, AllocChunk(size), NEW c, c = ChunkFor(size)
  PROVE  /\ IInv' /\ c \in ChunkClass
         /\ \/ /\ Runs(page) = {} /\ Open(page, c) = {}
               /\ refused' = c /\ UNCHANGED <<page, pfree, stats, used>>
            \/ \E p \in Page, i \in Nat :
                 /\ \/ /\ p \in Cut(page, c) /\ i \in 0 .. Chunks(c) - 1
                       /\ i \notin page[p].slab.map
                    \/ p \in Runs(page) /\ i = Reserved(c)
                 /\ BlockAt(p, c, i) \notin used
                 /\ used' = used \cup {BlockAt(p, c, i)} /\ refused' = None
<1>1. c \in ChunkClass
  <2>1. ~IsLarge(size)
    BY DEF AllocChunk
  <2> QED  BY <2>1, ChunkFits
<1>2. Good(page, pfree, stats, used) /\ Kept(page, Null)
      /\ stats \in [ChunkClass -> [total : Int, used : Int]]
  BY DEF IInv, Good, Counted
<1>3. /\ Ring(page, FreeHead, Runs(page)) /\ Runs(page) \subseteq Page
      /\ \A p \in Runs(page) : page[p].slab.n \in Nat \ {0}
  BY <1>2, FreeListFacts
<1>4. /\ Ring(page, Slot(c), Open(page, c)) /\ Slot(c) \notin Open(page, c)
      /\ Open(page, c) \subseteq Cut(page, c)
  BY <1>1, <1>2, OpenFacts
<1>5. PICK s, p : s = page[Slot(c)].next /\ p = FirstFit(page, 1)
  OBVIOUS
<1>6. /\ s \in Open(page, c) \cup {Slot(c)}
      /\ page[s].next = s => Open(page, c) = {}
      /\ page[s].next # s => s \in Open(page, c)
  <2>1. s \in Open(page, c) \cup {Slot(c)}
    BY <1>4, <1>5 DEF Ring
  <2>2. s \in Open(page, c) => page[s].next # s
    BY <1>4, NoLoop
  <2>3. page[Slot(c)].next = Slot(c) <=> Open(page, c) = {}
    BY <1>4, RingEmpty
  <2> QED  BY <1>5, <2>1, <2>2, <2>3
<1>7. \/ p \in Runs(page) /\ page[p].slab.n >= 1
      \/ p = FreeHead /\ \A q \in Runs(page) : page[q].slab.n < 1
  <2>1. \A q \in Runs(page) : page[q].slab.n \in Nat
    BY <1>3
  <2>2. 1 \in Nat
    OBVIOUS
  <2> QED  BY <1>3, <1>5, <2>1, <2>2, FirstFitIs
<1>8. FreeHead \notin Runs(page)
  BY <1>3, Nodes
<1>9. \/ /\ page[s].next # s
         /\ \E i \in 0 .. Chunks(c) - 1 \ page[s].slab.map :
               /\ page' = MarkBusy(page, s, c, page[s].slab.map \cup {i})
               /\ Give(BlockAt(s, c, i))
         /\ stats' = [stats EXCEPT ![c].used = @ + 1]
         /\ pfree' = pfree
      \/ page[s].next = s /\ p = FreeHead /\ Fail(c)
      \/ /\ page[s].next = s /\ p # FreeHead
         /\ page' = CutPage(TakePages(page, p, 1), p, c)
         /\ pfree' = pfree - 1
         /\ stats' = [stats EXCEPT ![c].total = @ + Chunks(c) - Reserved(c),
                                   ![c].used = @ + 1]
         /\ Give(BlockAt(p, c, Reserved(c)))
  BY <1>5 DEF AllocChunk
<1>10. CASE /\ page[s].next # s
            /\ \E i \in 0 .. Chunks(c) - 1 \ page[s].slab.map :
                  /\ page' = MarkBusy(page, s, c, page[s].slab.map \cup {i})
                  /\ Give(BlockAt(s, c, i))
            /\ stats' = [stats EXCEPT ![c].used = @ + 1]
            /\ pfree' = pfree
  <2>1. s \in Open(page, c) /\ s \in Cut(page, c) /\ s \in Page
    BY <1>4, <1>6, <1>10 DEF Cut
  <2>2. PICK i \in 0 .. Chunks(c) - 1 \ page[s].slab.map :
               /\ page' = MarkBusy(page, s, c, page[s].slab.map \cup {i})
               /\ Give(BlockAt(s, c, i))
    BY <1>10
  <2>3. i \in 0 .. Chunks(c) - 1 /\ i \notin page[s].slab.map /\ i \in Nat
    BY <1>1, <2>2, Sizes
  <2>4. PICK b, t, st : /\ b = BlockAt(s, c, i) /\ st = stats'
                        /\ t = MarkBusy(page, s, c, page[s].slab.map \cup {i})
    OBVIOUS
  <2>5. Shifted(stats, st, c, 0, 1)
    BY <1>1, <1>2, <1>10, <2>4, ShiftedUsed
  <2>6. b \notin used /\ Good(t, pfree, st, used \cup {b})
    BY <1>1, <1>2, <2>1, <2>3, <2>4, <2>5, GoodMark
  <2>7. page' = t /\ pfree' = pfree /\ stats' = st /\ used' = used \cup {b} /\ refused' = None
    BY <1>10, <2>2, <2>4 DEF Give
  <2>8. IInv'
    BY <2>6, <2>7 DEF IInv
  <2> QED  BY <1>1, <2>1, <2>3, <2>4, <2>6, <2>7, <2>8
<1>11. CASE page[s].next = s /\ p = FreeHead /\ Fail(c)
  <2>1. refused' = c /\ UNCHANGED <<page, pfree, stats, used>>
    BY <1>11 DEF Fail
  <2>2. IInv'
    BY <2>1 DEF IInv
  <2>3. Runs(page) = {}
    <3>1. ASSUME NEW q \in Runs(page) PROVE FALSE
      <4>1. page[q].slab.n < 1
        BY <1>7, <1>8, <1>11
      <4> QED  BY <1>3, <4>1
    <3> QED  BY <3>1
  <2> QED  BY <1>1, <1>6, <1>11, <2>1, <2>2, <2>3
<1>12. CASE /\ page[s].next = s /\ p # FreeHead
            /\ page' = CutPage(TakePages(page, p, 1), p, c)
            /\ pfree' = pfree - 1
            /\ stats' = [stats EXCEPT ![c].total = @ + Chunks(c) - Reserved(c),
                                      ![c].used = @ + 1]
            /\ Give(BlockAt(p, c, Reserved(c)))
  <2>1. p \in Runs(page) /\ p \in Page /\ Reserved(c) \in Nat /\ Open(page, c) = {}
    BY <1>1, <1>3, <1>6, <1>7, <1>12, Sizes
  <2>2. PICK u : u = TakePages(page, p, 1)
    OBVIOUS
  <2>3. PICK b, t, st : b = BlockAt(p, c, Reserved(c)) /\ t = CutPage(u, p, c) /\ st = stats'
    OBVIOUS
  <2>4. Shifted(stats, st, c, 1, 1)
    BY <1>1, <1>2, <1>12, <2>3, ShiftedBoth
  <2>5. b \notin used /\ Good(t, pfree - 1, st, used \cup {b})
    BY <1>1, <1>2, <2>1, <2>2, <2>3, <2>4, GoodCut
  <2>6. page' = t /\ pfree' = pfree - 1 /\ stats' = st /\ used' = used \cup {b}
        /\ refused' = None
    BY <1>12, <2>2, <2>3 DEF Give
  <2>7. IInv'
    BY <2>5, <2>6 DEF IInv
  <2> QED  BY <1>1, <2>1, <2>3, <2>5, <2>6, <2>7
<1> QED  BY <1>9, <1>10, <1>11, <1>12

LEMMA DivTimes ==
  ASSUME NEW i \in Nat, NEW c \in Nat \ {0}
  PROVE  (i * c) \div c = i
<1>1. PICK e, d, m : e = i * c /\ d = e \div c /\ m = e % c
  OBVIOUS
<1>2. e \in Nat
  BY <1>1
<1>3. d \in Nat /\ m \in 0 .. c - 1 /\ e = c * d + m
  BY <1>1, <1>2
<1>4. CASE d < i
  <2>1. PICK k \in Nat : i = d + (k + 1)
    <3>1. i - d - 1 \in Nat /\ i = d + ((i - d - 1) + 1)
      BY <1>3, <1>4
    <3> QED  BY <3>1
  <2>2. i * c = c * d + k * c + c /\ k * c \in Nat
    BY <1>3, <2>1
  <2>3. PICK x, y : x = c * d /\ y = k * c
    OBVIOUS
  <2>4. x \in Nat /\ y \in Nat /\ e = x + y + c /\ e = x + m
    BY <1>1, <1>3, <2>2, <2>3
  <2> QED  BY <1>3, <2>4
<1>5. CASE i < d
  <2>1. PICK k \in Nat : d = i + (k + 1)
    <3>1. d - i - 1 \in Nat /\ d = i + ((d - i - 1) + 1)
      BY <1>3, <1>5
    <3> QED  BY <3>1
  <2>2. c * d = i * c + k * c + c /\ k * c \in Nat
    BY <1>3, <2>1
  <2>3. PICK x, y : x = c * d /\ y = k * c
    OBVIOUS
  <2>4. x \in Nat /\ y \in Nat /\ x = e + y + c /\ e = x + m
    BY <1>1, <1>3, <2>2, <2>3
  <2> QED  BY <1>2, <1>3, <2>4
<1>6. CASE d = i
  BY <1>1, <1>6
<1> QED  BY <1>3, <1>4, <1>5, <1>6

\* What the field prev tells mps_slab_free_locked of a page.
LEMMA TypeTells ==
  ASSUME NEW pg, Kept(pg, Null), NEW p \in Page
  PROVE  /\ pg[p].prev.type = "PAGE" <=> pg[p].slab.tag # "bits"
         /\ pg[p].slab.tag = "bits" =>
              /\ pg[p].slab.n \in ChunkClass /\ p \in Cut(pg, pg[p].slab.n)
              /\ pg[p].prev.type = Tag(pg[p].slab.n)
<1>1. Types(pg, Null) /\ CutSound(pg)
  BY DEF Kept
<1>2. p # Null
  BY Nodes
<1>3. pg[p].prev.type = IF pg[p].slab.tag = "bits" THEN Tag(pg[p].slab.n) ELSE "PAGE"
  BY <1>1, <1>2 DEF Types
<1>4. \A c : Tag(c) # "PAGE"
  BY DEF Tag
<1> QED  BY <1>1, <1>3, <1>4 DEF CutSound, Cut

LEMMA FreeChunkIs ==
  ASSUME IInv, NEW p \in Page, NEW off, FreeChunk(p, off),
         NEW c, c = page[p].slab.n, NEW i, i = off \div c, i >= Reserved(c)
  PROVE  /\ IInv' /\ BlockAt(p, c, i) \in used
         /\ used' = used \ {BlockAt(p, c, i)} /\ refused' = None
<1>1. Good(page, pfree, stats, used) /\ Kept(page, Null)
      /\ stats \in [ChunkClass -> [total : Int, used : Int]]
  BY DEF IInv, Good, Counted
<1>2. page[p].prev.type # "PAGE" /\ i \in page[p].slab.map
  BY DEF FreeChunk, IsChunk
<1>3. c \in ChunkClass /\ p \in Cut(page, c)
  BY <1>1, <1>2, TypeTells
<1>4. PICK m : m = Without(page[p].slab.map, i)
  OBVIOUS
<1>5. PICK b, u, st : b = BlockAt(p, c, i) /\ u = MarkFree(page, p, c, m) /\ st = stats'
  OBVIOUS
<1>6. m = page[p].slab.map \ {i}
  BY <1>4 DEF Without
<1>7. /\ IF NoneInUse(c, m)
         THEN /\ page' = FreePages(u, p, 1)
              /\ pfree' = pfree + 1
              /\ st = [stats EXCEPT ![c].total = @ - (Chunks(c) - Reserved(c)),
                                    ![c].used = @ - 1]
         ELSE /\ page' = u
              /\ st = [stats EXCEPT ![c].used = @ - 1]
              /\ pfree' = pfree
      /\ used' = used \ {b}
      /\ refused' = None
  BY <1>5, <1>6 DEF FreeChunk
<1>8. CASE NoneInUse(c, m)
  <2>1. PICK t : t = FreePages(u, p, 1)
    OBVIOUS
  <2>2. Shifted(stats, st, c, -1, -1)
    BY <1>1, <1>3, <1>7, <1>8, ShiftedBoth
  <2>3. b \in used /\ Good(t, pfree + 1, st, used \ {b})
    BY <1>1, <1>2, <1>3, <1>4, <1>5, <1>8, <2>1, <2>2, GoodUncut
  <2>4. page' = t /\ pfree' = pfree + 1 /\ used' = used \ {b} /\ stats' = st
    BY <1>5, <1>7, <1>8, <2>1
  <2>5. IInv'
    BY <2>3, <2>4 DEF IInv
  <2> QED  BY <1>5, <1>7, <2>3, <2>5
<1>9. CASE ~NoneInUse(c, m)
  <2>1. Shifted(stats, st, c, 0, -1)
    BY <1>1, <1>3, <1>7, <1>9, ShiftedUsed
  <2>2. b \in used /\ Good(u, pfree, st, used \ {b})
    BY <1>1, <1>2, <1>3, <1>4, <1>5, <1>9, <2>1, GoodUnmark
  <2>3. page' = u /\ pfree' = pfree /\ used' = used \ {b} /\ stats' = st
    BY <1>5, <1>7, <1>9
  <2>4. IInv'
    BY <2>2, <2>3 DEF IInv
  <2> QED  BY <1>5, <1>7, <2>2, <2>4
<1> QED  BY <1>8, <1>9

LEMMA FreeRunIs ==
  ASSUME IInv, NEW p \in Page, NEW off, FreeRun(p, off), NEW n, n = page[p].slab.n
  PROVE  /\ IInv' /\ p \in Starts(page) /\ off = 0 /\ PageBlock(p, n) \in used
         /\ used' = used \ {PageBlock(p, n)} /\ refused' = None
<1>1. Good(page, pfree, stats, used)
  BY DEF IInv
<1>2. p \in Starts(page) /\ off = 0
  BY DEF FreeRun, IsRun, Starts
<1>3. PICK b, t : b = PageBlock(p, n) /\ t = FreePages(page, p, n)
  OBVIOUS
<1>4. b \in used /\ Good(t, pfree + n, stats, used \ {b})
  BY <1>1, <1>2, <1>3, GoodRun
<1>5. page' = t /\ pfree' = pfree + n /\ used' = used \ {b} /\ stats' = stats /\ refused' = None
  BY <1>3 DEF FreeRun
<1>6. IInv'
  BY <1>4, <1>5 DEF IInv
<1> QED  BY <1>2, <1>3, <1>4, <1>5, <1>6

LEMMA RefuseIs ==
  ASSUME IInv, NEW p, NEW off, Refuse(p, off)
  PROVE  IInv' /\ UNCHANGED <<page, pfree, stats, used>> /\ refused' = None
<1>1. UNCHANGED <<page, pfree, stats, used>> /\ refused' = None
  BY DEF Refuse
<1>2. IInv'
  BY <1>1 DEF IInv
<1> QED  BY <1>1, <1>2

\* A caller frees a block that is in use.
LEMMA FreeIs ==
  ASSUME IInv, NEW b \in used, FreeLocked(PageOf(b), OffsetOf(b))
  PROVE  /\ IInv' /\ refused' = None
         /\ \/ used' = used \ {b}
            \/ UNCHANGED <<page, pfree, stats, used>>
<1>1. Kept(page, Null) /\ used = Held(page)
  BY DEF IInv, Good
<1>2. PICK p \in Page : HoldsAt(page, p, b)
  BY <1>1, HeldIs
<1>3. PageOf(b) = p
  BY <1>2, HoldsAtPage
<1>4. PICK off : off = OffsetOf(b)
  OBVIOUS
<1>5. FreeChunk(p, off) \/ FreeRun(p, off) \/ Refuse(p, off)
  BY <1>3, <1>4 DEF FreeLocked
<1>6. CASE Refuse(p, off)
  BY <1>6, RefuseIs
<1>7. CASE FreeRun(p, off)
  <2>1. PICK n : n = page[p].slab.n
    OBVIOUS
  <2>2. IInv' /\ p \in Starts(page) /\ used' = used \ {PageBlock(p, n)} /\ refused' = None
    BY <1>7, <2>1, FreeRunIs
  <2>3. b = PageBlock(p, n)
    BY <1>2, <2>1, <2>2 DEF HoldsAt, Starts
  <2> QED  BY <2>2, <2>3
<1>8. CASE FreeChunk(p, off)
  <2>1. page[p].slab.tag = "bits"
    <3>1. page[p].prev.type # "PAGE"
      BY <1>8 DEF FreeChunk, IsChunk
    <3> QED  BY <1>1, <3>1, TypeTells
  <2>2. PICK c : c = page[p].slab.n
    OBVIOUS
  <2>3. c \in ChunkClass /\ p \in Cut(page, c)
    BY <1>1, <2>1, <2>2, TypeTells
  <2>4. PICK i \in page[p].slab.map : i >= Reserved(c) /\ b = BlockAt(p, c, i)
    BY <1>2, <2>1, <2>2 DEF HoldsAt
  <2>5. i \in Nat /\ c \in Nat \ {0} /\ Reserved(c) \in Nat /\ ~IsLarge(c)
    BY <1>1, <2>3, HeldOfCut, Sizes
  <2>6. off = i * c
    <3>1. b.class = c /\ b.idx = i - Reserved(c)
      BY <2>4, BlockFacts
    <3>2. b.idx + Reserved(c) = i
      BY <2>5, <3>1
    <3>3. off = (b.idx + Reserved(b.class)) * b.class
      BY <1>4, <2>5, <3>1 DEF OffsetOf
    <3> QED  BY <3>1, <3>2, <3>3
  <2>7. i = off \div c
    BY <2>5, <2>6, DivTimes
  <2>8. IInv' /\ used' = used \ {BlockAt(p, c, i)} /\ refused' = None
    BY <1>8, <2>2, <2>4, <2>7, FreeChunkIs
  <2> QED  BY <2>4, <2>8
<1> QED  BY <1>5, <1>6, <1>7, <1>8

\* A caller frees what is not in use.
LEMMA StrayIs ==
  ASSUME IInv, NEW p \in Page, NEW off \in 0 .. PageSize - 1,
         Stray(p, off), FreeLocked(p, off)
  PROVE  IInv' /\ UNCHANGED <<page, pfree, stats, used>> /\ refused' = None
<1>1. Kept(page, Null) /\ used = Held(page) /\ p \in Nat
  BY Nodes DEF IInv, Good
<1>2. CASE FreeRun(p, off)
  <2>1. PICK b, n : b = PageBlock(p, n) /\ n = page[p].slab.n
    OBVIOUS
  <2>2. b \in used /\ off = 0 /\ p \in Starts(page)
    BY <1>2, <2>1, FreeRunIs
  <2>3. b.lo = p - 1 /\ b.class = n * PageSize
    BY <2>1, BlockFacts
  <2>4. n \in Nat /\ n >= 1
    <3>1. page \in Table /\ Tiled(page)
      BY <1>1 DEF Kept
    <3>2. n \in Nat \ {0}
      BY <2>1, <2>2, <3>1, Extent
    <3> QED  BY <3>2
  <2>5. PageOf(b) = p
    BY <1>1, <2>3 DEF PageOf
  <2>6. OffsetOf(b) = 0
    BY <2>3, <2>4, PagesLarge DEF OffsetOf
  <2> QED  BY <2>2, <2>5, <2>6 DEF Stray
<1>3. CASE FreeChunk(p, off)
  <2>1. page[p].prev.type # "PAGE" /\ off % page[p].slab.n = 0
        /\ off \div page[p].slab.n \in page[p].slab.map
    BY <1>3 DEF FreeChunk, IsChunk
  <2>2. PICK c, i : c = page[p].slab.n /\ i = off \div c
    OBVIOUS
  <2>3. c \in ChunkClass /\ p \in Cut(page, c) /\ page[p].prev.type = Tag(c)
    BY <1>1, <2>1, <2>2, TypeTells
  <2>4. i \in Nat /\ c \in Nat \ {0} /\ Reserved(c) \in Nat /\ ~IsLarge(c)
    BY <1>1, <2>1, <2>2, <2>3, HeldOfCut, Sizes
  <2>5. i >= Reserved(c)
    <3>1. CASE Tag(c) = "SMALL"
      BY <2>2, <2>3, <3>1 DEF Stray
    <3>2. CASE Tag(c) # "SMALL"
      BY <2>4, <3>2 DEF Reserved
    <3> QED  BY <3>1, <3>2
  <2>6. PICK b : b = BlockAt(p, c, i)
    OBVIOUS
  <2>7. b \in used
    BY <1>3, <2>2, <2>5, <2>6, FreeChunkIs
  <2>8. b.lo = p - 1 /\ b.class = c /\ b.idx = i - Reserved(c)
    BY <2>6, BlockFacts
  <2>9. PageOf(b) = p
    BY <1>1, <2>8 DEF PageOf
  <2>10. OffsetOf(b) = i * c
    <3>1. b.idx + Reserved(c) = i
      BY <2>4, <2>8
    <3>2. OffsetOf(b) = (b.idx + Reserved(c)) * c
      BY <2>4, <2>8 DEF OffsetOf
    <3> QED  BY <3>1, <3>2
  <2>11. off = i * c
    <3>1. off \in Nat /\ off % c = 0
      BY <2>1, <2>2, Sizes
    <3> QED  BY <2>2, <2>4, <3>1
  <2> QED  BY <2>7, <2>9, <2>10, <2>11 DEF Stray
<1>4. CASE Refuse(p, off)
  BY <1>4, RefuseIs
<1> QED  BY <1>2, <1>3, <1>4 DEF FreeLocked

\* Every step of the specification.
LEMMA Invariance == Spec => []IInv
<1>1. ASSUME IInv, [Next]_vars PROVE IInv'
  <2>1. ASSUME NEW size \in Request, AllocLarge(size) PROVE IInv'
    <3>1. PICK n : n = PagesFor(size)
      OBVIOUS
    <3> QED  BY <1>1, <2>1, <3>1, AllocLargeIs
  <2>2. ASSUME NEW size \in Request, AllocChunk(size) PROVE IInv'
    <3>1. PICK c : c = ChunkFor(size)
      OBVIOUS
    <3> QED  BY <1>1, <2>2, <3>1, AllocChunkIs
  <2>3. ASSUME NEW b \in used, FreeLocked(PageOf(b), OffsetOf(b)) PROVE IInv'
    BY <1>1, <2>3, FreeIs
  <2>4. ASSUME NEW p \in Page, NEW off \in 0 .. PageSize - 1, Stray(p, off), FreeLocked(p, off)
        PROVE  IInv'
    BY <1>1, <2>4, StrayIs
  <2>5. CASE UNCHANGED vars
    BY <1>1, <2>5 DEF vars, IInv
  <2> QED  BY <1>1, <2>1, <2>2, <2>3, <2>4, <2>5 DEF Next
<1> QED  BY <1>1, GoodInit, PTL DEF Spec

-----------------------------------------------------------------------------
(* What follows from the invariant *)

LEMMA FreeRunsAre ==
  ASSUME IInv
  PROVE  /\ Kept(page, Null) /\ FreeRuns = Runs(page)
         /\ \A c : CutPages(c) = Cut(page, c)
<1>1. Kept(page, Null)
  BY DEF IInv, Good
<1>2. \A p \in Page : page[p].slab.tag = "length" => page[p].prev.type = "PAGE"
  BY <1>1, TypeTells
<1> QED  BY <1>1, <1>2 DEF FreeRuns, Runs, CutPages, Cut

LEMMA FreeListHolds ==
  ASSUME IInv
  PROVE  FreeListExact
<1>1. Kept(page, Null) /\ FreeRuns = Runs(page)
  BY FreeRunsAre
<1>2. /\ Ring(page, FreeHead, Runs(page)) /\ Runs(page) \subseteq Page
      /\ page \in Table /\ Tiled(page) /\ FreeHead \notin Page
  BY <1>1, FreeListFacts, Nodes
<1>3. Listed(FreeHead) = FreeRuns /\ LinkedBothWays(FreeHead)
  BY <1>1, <1>2, ListedIs
<1>4. ASSUME NEW p \in Runs(page)
      PROVE  /\ PagesOf(p) \subseteq Page
             /\ \A q \in PagesOf(p) \ {p} : page[q].slab = PageFree
             /\ (page[p].slab.n > 1 /\ p + page[p].slab.n - 1 < NPages)
                  => page[p + page[p].slab.n - 1].prev = Untyped(p)
  <2>1. PICK n, e : n = page[p].slab.n /\ e = End(page, p)
    OBVIOUS
  <2>2. /\ p \in Page /\ p \in Nat /\ n \in Nat \ {0} /\ e = p + n
        /\ \A q \in p + 1 .. e - 1 : q \in Page /\ page[q].slab = PageFree
    BY <1>2, <2>1, Extent
  <2>3. \A q \in p .. p + n - 1 : q = p \/ q \in p + 1 .. e - 1
    BY <2>2
  <2>4. PagesOf(p) = p .. p + n - 1
    BY <2>1 DEF PagesOf
  <2>5. ASSUME n > 1, p + n - 1 < NPages PROVE page[p + n - 1].prev = Untyped(p)
    <3>1. PICK l : l = e - 1
      OBVIOUS
    <3>2. l \in p + 1 .. e - 1 /\ l = p + n - 1 /\ e <= NPages
      BY <2>2, <2>5, <3>1, Sizes
    <3>3. page[l].prev.at = p
      <4>1. p # Null
        BY <2>2, Nodes
      <4>2. Lasts(page, Null)
        BY <1>1 DEF Kept
      <4> QED  BY <2>1, <2>5, <3>1, <3>2, <4>1, <4>2 DEF Lasts
    <3>4. l \in Page /\ page[l].slab.tag = "length"
      BY <2>2, <3>2 DEF PageFree, Length
    <3>5. page[l].prev.type = "PAGE"
      BY <1>1, <3>4, TypeTells
    <3>6. page[l].prev \in Link
      BY <1>2, <3>4, Nodes DEF Table, Desc
    <3>7. page[l].prev = [at |-> p, type |-> "PAGE"]
      BY <3>3, <3>5, <3>6 DEF Link
    <3> QED  BY <3>2, <3>7 DEF Untyped
  <2> QED  BY <2>1, <2>2, <2>3, <2>4, <2>5
<1> QED  BY <1>1, <1>3, <1>4 DEF FreeListExact

LEMMA MaximalHolds ==
  ASSUME IInv
  PROVE  RunsMaximal
<1>1. Kept(page, Null) /\ FreeRuns = Runs(page)
  BY FreeRunsAre
<1>2. Apart(page, Null) /\ Runs(page) \ {Null} = Runs(page)
  <2>1. Runs(page) \subseteq Page
    BY DEF Runs
  <2> QED  BY <1>1, <2>1, NullIsNone DEF Kept
<1>3. \A p, q \in Runs(page) : p + page[p].slab.n # q
  BY <1>2 DEF Apart, End
<1> QED  BY <1>1, <1>3 DEF RunsMaximal

LEMMA SlotListsHold ==
  ASSUME IInv
  PROVE  SlotListsExact
<1>1. Kept(page, Null) /\ \A c : CutPages(c) = Cut(page, c)
  BY FreeRunsAre
<1>2. ASSUME NEW c \in ChunkClass
      PROVE  /\ LinkedBothWays(Slot(c)) /\ Listed(Slot(c)) = Open(page, c)
             /\ \A p \in Cut(page, c) \ Open(page, c) : page[p].next = Null
  <2>1. Ring(page, Slot(c), Open(page, c)) /\ Open(page, c) \subseteq Page
    BY <1>1 DEF Kept, Open, Cut
  <2>2. Slot(c) \notin Page
    BY Nodes
  <2>3. LinkedBothWays(Slot(c)) /\ Listed(Slot(c)) = Open(page, c)
    BY <2>1, <2>2, ListedIs
  <2>4. ASSUME NEW p \in Cut(page, c) \ Open(page, c) PROVE page[p].next = Null
    <3>1. p \in Page /\ page[p].slab.n = c /\ p \notin Runs(page)
      BY DEF Cut, Runs
    <3>2. p # Null
      BY <3>1, Nodes
    <3> QED  BY <1>1, <3>1, <3>2 DEF Kept, Unlisted
  <2> QED  BY <2>3, <2>4
<1>3. \A c \in ChunkClass :
        Open(page, c) = {p \in Cut(page, c) : page[p].slab.map # 0 .. Chunks(c) - 1}
  BY DEF Open
<1> QED  BY <1>1, <1>2, <1>3 DEF SlotListsExact

\* What a page is in use for, by its descriptor.
LEMMA PageUse ==
  ASSUME NEW pg, Kept(pg, Null), NEW q \in Page
  PROVE  /\ pg[q].slab.tag = "length" =>
              \E p \in Runs(pg) : q \in p .. p + pg[p].slab.n - 1
         /\ pg[q].slab.tag \in {"start", "busy"} =>
              \E p \in Starts(pg) : q \in p .. p + pg[p].slab.n - 1
         /\ pg[q].slab.tag = "bits" => \E c \in ChunkClass : q \in Cut(pg, c)
         /\ pg[q].slab.tag \in {"length", "start", "busy", "bits"}
<1>1. pg \in Table /\ Tiled(pg) /\ CutSound(pg) /\ q \in Node /\ q \in Nat
  BY Nodes DEF Kept
<1>2. pg[q].slab.tag \in {"length", "start", "busy", "bits"} /\ pg[q].slab.n \in Nat
  BY <1>1 DEF Table, Desc, Word
<1>3. \A p \in Runs(pg) \cup Starts(pg) :
        p \in Nat /\ pg[p].slab.n \in Nat \ {0} /\ End(pg, p) = p + pg[p].slab.n
  BY <1>1, Extent
<1>4. \A p \in Runs(pg) \cup Starts(pg) :
        p <= q /\ q < End(pg, p) => q \in p .. p + pg[p].slab.n - 1
  BY <1>1, <1>3
<1>5. \A p \in Runs(pg) \cup Starts(pg) : p <= p /\ p < End(pg, p)
  BY <1>3
<1>6. ASSUME pg[q].slab.tag = "length"
      PROVE  \E p \in Runs(pg) : q \in p .. p + pg[p].slab.n - 1
  <2>1. CASE pg[q].slab.n = 0
    <3>1. PICK p \in Runs(pg) : p < q /\ q < End(pg, p)
      BY <1>1, <1>6, <2>1 DEF Tiled
    <3>2. p <= q
      BY <1>1, <1>3, <3>1
    <3> QED  BY <1>4, <3>1, <3>2
  <2>2. CASE pg[q].slab.n # 0
    <3>1. q \in Runs(pg)
      BY <1>2, <1>6, <2>2 DEF Runs
    <3> QED  BY <1>4, <1>5, <3>1
  <2> QED  BY <2>1, <2>2
<1>7. ASSUME pg[q].slab.tag = "busy"
      PROVE  \E p \in Starts(pg) : q \in p .. p + pg[p].slab.n - 1
  <2>1. PICK p \in Starts(pg) : p < q /\ q < End(pg, p)
    BY <1>1, <1>7 DEF Tiled
  <2>2. p <= q
    BY <1>1, <1>3, <2>1
  <2> QED  BY <1>4, <2>1, <2>2
<1>8. ASSUME pg[q].slab.tag = "start"
      PROVE  \E p \in Starts(pg) : q \in p .. p + pg[p].slab.n - 1
  <2>1. q \in Starts(pg)
    BY <1>8 DEF Starts
  <2> QED  BY <1>4, <1>5, <2>1
<1>9. pg[q].slab.tag = "bits" => \E c \in ChunkClass : q \in Cut(pg, c)
  BY <1>1 DEF CutSound, Cut
<1> QED  BY <1>2, <1>6, <1>7, <1>8, <1>9

\* Conversely, what lies inside a run.
LEMMA RunUse ==
  ASSUME NEW pg, Kept(pg, Null), NEW p \in Runs(pg) \cup Starts(pg),
         NEW q \in p .. p + pg[p].slab.n - 1
  PROVE  /\ q \in Page
         /\ p \in Runs(pg) => pg[q].slab.tag = "length"
         /\ p \in Starts(pg) => pg[q].slab.tag \in {"start", "busy"}
<1>1. pg \in Table /\ Tiled(pg)
  BY DEF Kept
<1>2. /\ p \in Page /\ p \in Nat /\ pg[p].slab.n \in Nat /\ End(pg, p) = p + pg[p].slab.n
      /\ \A x \in p + 1 .. End(pg, p) - 1 :
           /\ x \in Page
           /\ p \in Runs(pg) => pg[x].slab = PageFree
           /\ p \in Starts(pg) => pg[x].slab = Busy
  BY <1>1, Extent
<1>3. q = p \/ q \in p + 1 .. End(pg, p) - 1
  BY <1>2
<1>4. PageFree.tag = "length" /\ Busy.tag = "busy"
  BY DEF PageFree, Length, Busy
<1>5. /\ p \in Runs(pg) => pg[p].slab.tag = "length"
      /\ p \in Starts(pg) => pg[p].slab.tag = "start"
  BY DEF Runs, Starts
<1> QED  BY <1>2, <1>3, <1>4, <1>5

\* The pages of the allocated runs, as the blocks name them.
LEMMA LargeBlocks ==
  ASSUME NEW pg, Kept(pg, Null)
  PROVE  /\ \A b \in Held(pg) : IsLarge(b.class) =>
              \E p \in Starts(pg) : /\ b = PageBlock(p, pg[p].slab.n) /\ PageOf(b) = p
                                    /\ b.class \div PageSize = pg[p].slab.n
         /\ \A p \in Starts(pg) :
              /\ PageBlock(p, pg[p].slab.n) \in Held(pg)
              /\ IsLarge(PageBlock(p, pg[p].slab.n).class)
              /\ PageBlock(p, pg[p].slab.n).class \div PageSize = pg[p].slab.n
<1>1. \A p \in Starts(pg) : pg[p].slab.n \in Nat \ {0} /\ p \in Page
  <2>1. pg \in Table /\ Tiled(pg)
    BY DEF Kept
  <2> QED  BY <2>1, Extent
<1>2. ASSUME NEW p \in Starts(pg)
      PROVE  /\ PageBlock(p, pg[p].slab.n) \in Held(pg)
             /\ IsLarge(PageBlock(p, pg[p].slab.n).class)
             /\ PageBlock(p, pg[p].slab.n).class \div PageSize = pg[p].slab.n
  <2>1. PICK n : n = pg[p].slab.n
    OBVIOUS
  <2>2. n \in Nat /\ n >= 1 /\ PageSize \in Nat \ {0}
    BY <1>1, <2>1, Sizes
  <2>3. PageBlock(p, n).class = n * PageSize
    BY BlockFacts
  <2>4. IsLarge(n * PageSize) /\ (n * PageSize) \div PageSize = n
    BY <2>2, PagesLarge, DivTimes
  <2>5. PageBlock(p, n) \in Held(pg)
    BY <2>1 DEF Held
  <2> QED  BY <2>1, <2>3, <2>4, <2>5
<1>3. ASSUME NEW b \in Held(pg), IsLarge(b.class)
      PROVE  \E p \in Starts(pg) : b = PageBlock(p, pg[p].slab.n) /\ PageOf(b) = p
  <2>1. PICK p \in Page : HoldsAt(pg, p, b)
    BY HeldIs
  <2>2. PageOf(b) = p
    BY <2>1, HoldsAtPage
  <2>3. CASE pg[p].slab.tag = "start" /\ b = PageBlock(p, pg[p].slab.n)
    BY <2>2, <2>3 DEF Starts
  <2>4. CASE pg[p].slab.tag = "bits" /\ b.class = pg[p].slab.n
    <3>1. b.class \in ChunkClass
      BY <2>4 DEF Kept, CutSound
    <3> QED  BY <1>3, <3>1, Sizes
  <2> QED  BY <2>1, <2>3, <2>4, BlockFacts DEF HoldsAt
<1> QED  BY <1>2, <1>3

\* The bits of a cut page are those of its blocks.
LEMMA MapIs ==
  ASSUME NEW pg, Kept(pg, Null), Marked(pg), NEW c \in ChunkClass, NEW p \in Cut(pg, c)
  PROVE  /\ pg[p].slab.map = 0 .. Reserved(c) - 1 \cup
              {b.idx + Reserved(c) : b \in {x \in InClass(Held(pg), c) : PageOf(x) = p}}
         /\ \E b \in InClass(Held(pg), c) : PageOf(b) = p
<1>1. PICK m, r : m = pg[p].slab.map /\ r = Reserved(c)
  OBVIOUS
<1>2. /\ p \in Page /\ m \subseteq Nat
      /\ \A x : HoldsAt(pg, p, x) <=> \E i \in m : i >= r /\ x = BlockAt(p, c, i)
      /\ \A x \in Held(pg) : PageOf(x) = p => HoldsAt(pg, p, x)
  BY <1>1, HeldOfCut
<1>3. r \in Nat
  BY <1>1, Sizes
<1>4. PICK B : B = {x \in InClass(Held(pg), c) : PageOf(x) = p}
  OBVIOUS
<1>5. \A i \in Nat : BlockAt(p, c, i).class = c /\ BlockAt(p, c, i).idx + r = i
  <2>1. \A i : BlockAt(p, c, i).class = c /\ BlockAt(p, c, i).idx = i - r
    BY <1>1, BlockFacts
  <2> QED  BY <1>3, <2>1
<1>6. \A i \in m : i >= r => BlockAt(p, c, i) \in B
  <2>1. ASSUME NEW i \in m, i >= r PROVE BlockAt(p, c, i) \in B
    <3>1. PICK b : b = BlockAt(p, c, i)
      OBVIOUS
    <3>2. HoldsAt(pg, p, b)
      BY <1>2, <2>1, <3>1
    <3>3. b \in Held(pg) /\ PageOf(b) = p
      BY <1>2, <3>2, HeldIs, HoldsAtPage
    <3>4. b.class = c
      BY <1>2, <1>5, <3>1
    <3> QED  BY <1>4, <3>1, <3>3, <3>4 DEF InClass
  <2> QED  BY <2>1
<1>7. \A b \in B : b.idx + r \in m
  <2>1. ASSUME NEW b \in B PROVE b.idx + r \in m
    <3>1. HoldsAt(pg, p, b)
      BY <1>2, <1>4 DEF InClass
    <3>2. PICK i \in m : i >= r /\ b = BlockAt(p, c, i)
      BY <1>2, <3>1
    <3>3. b.idx + r = i
      BY <1>2, <1>5, <3>2
    <3> QED  BY <3>2, <3>3
  <2> QED  BY <2>1
<1>8. 0 .. r - 1 \subseteq m /\ \E i \in m : i >= r
  BY <1>1 DEF Marked, InUse
<1>9. \A i \in m : i \in 0 .. r - 1 \/ \E b \in B : i = b.idx + r
  <2>1. ASSUME NEW i \in m, i \notin 0 .. r - 1 PROVE \E b \in B : i = b.idx + r
    <3>1. i >= r /\ i \in Nat
      BY <1>2, <1>3, <2>1
    <3>2. BlockAt(p, c, i) \in B /\ BlockAt(p, c, i).idx + r = i
      BY <1>5, <1>6, <3>1
    <3> QED  BY <3>2
  <2> QED  BY <2>1
<1>10. m = 0 .. r - 1 \cup {b.idx + r : b \in B}
  <2>1. PICK R : R = 0 .. r - 1
    OBVIOUS
  <2>2. R \subseteq m /\ \A i \in m : i \in R \/ \E b \in B : i = b.idx + r
    BY <1>8, <1>9, <2>1
  <2>3. m = R \cup {b.idx + r : b \in B}
    BY <1>7, <2>2, Zenon
  <2> QED  BY <2>1, <2>3
<1>11. \E b \in B : TRUE
  BY <1>6, <1>8
<1> QED  BY <1>1, <1>4, <1>10, <1>11

LEMMA AccountedHolds ==
  ASSUME IInv
  PROVE  PagesAccounted
<1>1. /\ Kept(page, Null) /\ FreeRuns = Runs(page) /\ Marked(page)
      /\ \A c : CutPages(c) = Cut(page, c)
      /\ used = Held(page) /\ Counted(page, pfree, stats, used)
  BY FreeRunsAre DEF IInv, Good
<1>2. PICK large, free, taken, cut :
        /\ large = {b \in used : IsLarge(b.class)}
        /\ free = UNION {PagesOf(p) : p \in FreeRuns}
        /\ taken = UNION {PageOf(b) .. PageOf(b) + b.class \div PageSize - 1 : b \in large}
        /\ cut = UNION {CutPages(c) : c \in ChunkClass}
  OBVIOUS
<1>3. free = FreeSet(page)
  <2>1. \A p \in Runs(page) : \A q \in PagesOf(p) : q \in FreeSet(page)
    BY <1>1, RunUse DEF PagesOf, FreeSet
  <2>2. \A q \in FreeSet(page) : \E p \in Runs(page) : q \in PagesOf(p)
    BY <1>1, PageUse DEF PagesOf, FreeSet
  <2> QED  BY <1>1, <1>2, <2>1, <2>2
<1>4. taken = {q \in Page : page[q].slab.tag \in {"start", "busy"}}
  <2>1. ASSUME NEW b \in large, NEW q \in PageOf(b) .. PageOf(b) + b.class \div PageSize - 1
        PROVE  q \in Page /\ page[q].slab.tag \in {"start", "busy"}
    <3>1. b \in Held(page) /\ IsLarge(b.class)
      BY <1>1, <1>2
    <3>2. PICK p \in Starts(page) : PageOf(b) = p /\ b.class \div PageSize = page[p].slab.n
      BY <1>1, <3>1, LargeBlocks
    <3>3. q \in p .. p + page[p].slab.n - 1
      BY <3>2
    <3> QED  BY <1>1, <3>3, RunUse
  <2>2. ASSUME NEW q \in Page, page[q].slab.tag \in {"start", "busy"}
        PROVE  \E b \in large : q \in PageOf(b) .. PageOf(b) + b.class \div PageSize - 1
    <3>1. PICK p \in Starts(page) : q \in p .. p + page[p].slab.n - 1
      BY <1>1, <2>2, PageUse
    <3>2. PICK b : b = PageBlock(p, page[p].slab.n)
      OBVIOUS
    <3>3. b \in large /\ b.class \div PageSize = page[p].slab.n
      BY <1>1, <1>2, <3>2, LargeBlocks
    <3>4. PageOf(b) = p
      <4>1. b.lo = p - 1 /\ p \in Nat
        BY <3>2, BlockFacts, Nodes DEF Starts
      <4> QED  BY <4>1 DEF PageOf
    <3> QED  BY <3>1, <3>3, <3>4
  <2> QED  BY <1>2, <2>1, <2>2
<1>5. cut = {q \in Page : page[q].slab.tag = "bits"}
  <2>1. \A q \in Page : page[q].slab.tag = "bits" => \E c \in ChunkClass : q \in Cut(page, c)
    BY <1>1, PageUse
  <2> QED  BY <1>1, <1>2, <2>1 DEF Cut
<1>6. /\ free \cap taken = {} /\ free \cap cut = {} /\ taken \cap cut = {}
      /\ free \cup taken \cup cut = Page
  <2>1. \A q \in Page : page[q].slab.tag \in {"length", "start", "busy", "bits"}
    BY <1>1, PageUse
  <2> QED  BY <1>3, <1>4, <1>5, <2>1 DEF FreeSet
<1>7. FreeSpace = Cardinality(free) * PageSize
  BY <1>1, <1>3 DEF FreeSpace, Counted
<1>8. ASSUME NEW c \in ChunkClass
      PROVE  LET inUse == {b \in used : b.class = c}
             IN /\ stats[c].used = Cardinality(inUse)
                /\ stats[c].total = Cardinality(CutPages(c)) * (Chunks(c) - Reserved(c))
                /\ \A p \in CutPages(c) :
                     /\ page[p].slab.map = 0 .. Reserved(c) - 1
                          \cup {b.idx + Reserved(c) : b \in {x \in inUse : PageOf(x) = p}}
                     /\ \E b \in inUse : PageOf(b) = p
  <2>1. {b \in used : b.class = c} = InClass(used, c)
    BY DEF InClass
  <2>2. /\ stats[c].used = Cardinality(InClass(used, c))
        /\ stats[c].total = Cardinality(CutPages(c)) * (Chunks(c) - Reserved(c))
    BY <1>1 DEF Counted
  <2>3. \A p \in CutPages(c) :
          /\ page[p].slab.map = 0 .. Reserved(c) - 1
               \cup {b.idx + Reserved(c) : b \in {x \in InClass(used, c) : PageOf(x) = p}}
          /\ \E b \in InClass(used, c) : PageOf(b) = p
    BY <1>1, MapIs
  <2> QED  BY <2>1, <2>2, <2>3, Zenon
<1> QED  BY <1>2, <1>6, <1>7, <1>8, Zenon DEF PagesAccounted

-----------------------------------------------------------------------------
(* The contract *)

\* What SlabContract assumes of its constants holds of those of Slab.
LEMMA SpanIs ==
  /\ Span \in [Class -> Nat \ {0}] /\ PerPage \in [Class -> Nat \ {0}]
  /\ \A c \in ChunkClass : c \in Class /\ Span[c] = 1 /\ PerPage[c] = Chunks(c) - Reserved(c)
  /\ \A n \in Nat \ {0} : n * PageSize \in Class =>
       Span[n * PageSize] = n /\ PerPage[n * PageSize] = 1
  /\ \A c \in Class : IsLarge(c) => PerPage[c] = 1 /\ \E n \in Nat \ {0} : c = n * PageSize
  /\ \A c \in Class : Span[c] > 1 => PerPage[c] = 1
<1>1. PageSize \in Nat \ {0}
  BY Sizes
<1>2. \A n \in Nat \ {0} : IsLarge(n * PageSize) /\ (n * PageSize) \div PageSize = n
  <2>1. ASSUME NEW n \in Nat \ {0}
        PROVE  IsLarge(n * PageSize) /\ (n * PageSize) \div PageSize = n
    <3>1. n \in Nat /\ n >= 1
      OBVIOUS
    <3> QED  BY <1>1, <3>1, PagesLarge, DivTimes
  <2> QED  BY <2>1
<1>3. \A n \in Nat \ {0} : n * PageSize \in Class =>
        Span[n * PageSize] = n /\ PerPage[n * PageSize] = 1
  <2>1. ASSUME NEW n \in Nat \ {0}, n * PageSize \in Class
        PROVE  Span[n * PageSize] = n /\ PerPage[n * PageSize] = 1
    <3>1. PICK c : c = n * PageSize
      OBVIOUS
    <3>2. c \in Class /\ IsLarge(c) /\ c \div PageSize = n
      BY <1>2, <2>1, <3>1
    <3>3. Span[c] = n /\ PerPage[c] = 1
      BY <3>2 DEF Span, PerPage
    <3> QED  BY <3>1, <3>3
  <2> QED  BY <2>1
<1>4. \A c \in ChunkClass : /\ c \in Class /\ Span[c] = 1
                            /\ PerPage[c] = Chunks(c) - Reserved(c)
  BY DEF ChunkClass, Span, PerPage
<1>5. \A c \in ChunkClass : Chunks(c) - Reserved(c) \in Nat \ {0}
  BY Sizes
<1>6. \A c \in Class : IsLarge(c) => \E n \in Nat \ {0} : c = n * PageSize
  <2>1. ASSUME NEW c \in Class, IsLarge(c) PROVE \E n \in Nat \ {0} : c = n * PageSize
    <3>1. PICK size \in Request : c = ClassOf(size)
      BY DEF Class
    <3>2. IsLarge(size)
      BY <2>1, <3>1, ChunkFits
    <3> QED  BY <3>1, <3>2, LargeFits
  <2> QED  BY <2>1
<1>7. \A c \in Class : IsLarge(c) => PerPage[c] = 1
  BY DEF PerPage
<1>8. ASSUME NEW c \in Class
      PROVE  /\ Span[c] \in Nat \ {0} /\ PerPage[c] \in Nat \ {0}
             /\ Span[c] > 1 => PerPage[c] = 1
  <2>1. CASE IsLarge(c)
    <3>1. PICK n \in Nat \ {0} : c = n * PageSize
      BY <1>6, <2>1
    <3> QED  BY <1>3, <3>1
  <2>2. CASE ~IsLarge(c)
    <3>1. c \in ChunkClass
      BY <2>2 DEF ChunkClass
    <3>2. Span[c] = 1 /\ PerPage[c] \in Nat \ {0}
      BY <1>4, <1>5, <3>1
    <3> QED  BY <3>2
  <2> QED  BY <2>1, <2>2
<1>9. Span \in [Class -> Nat \ {0}] /\ PerPage \in [Class -> Nat \ {0}]
  <2>1. Span = [c \in Class |-> Span[c]] /\ PerPage = [c \in Class |-> PerPage[c]]
    BY DEF Span, PerPage
  <2> QED  BY <1>8, <2>1
<1> QED  BY <1>3, <1>4, <1>6, <1>7, <1>8, <1>9

\* The pages of a block in use are no free ones.
LEMMA BlockPages ==
  ASSUME NEW pg, Kept(pg, Null), Sized(pg), NEW b \in Held(pg),
         NEW q \in Page, q - 1 \in Pool!Pages(b)
  PROVE  /\ pg[q].slab.tag # "length"
         /\ pg[q].slab.tag = "bits" => HoldsAt(pg, q, b)
<1>1. PICK p \in Page : HoldsAt(pg, p, b)
  BY HeldIs
<1>2. b.lo = p - 1 /\ p \in Nat /\ q \in Nat
  BY <1>1, HoldsAtPage, Nodes
<1>3. q - 1 \in b.lo .. b.lo + Span[b.class] - 1
  BY DEF Pool!Pages
<1>4. CASE pg[p].slab.tag = "start" /\ b = PageBlock(p, pg[p].slab.n)
  <2>1. PICK n : n = pg[p].slab.n
    OBVIOUS
  <2>2. p \in Starts(pg)
    BY <1>4 DEF Starts
  <2>3. n \in Nat \ {0}
    BY <2>1, <2>2, Extent DEF Kept
  <2>4. b.class = n * PageSize /\ n * PageSize \in Class
    BY <1>4, <2>1, <2>2, BlockFacts DEF Sized
  <2>5. Span[b.class] = n
    BY <2>3, <2>4, SpanIs
  <2>6. q \in p .. p + n - 1
    BY <1>2, <1>3, <2>3, <2>5
  <2>7. pg[q].slab.tag \in {"start", "busy"}
    BY <2>1, <2>2, <2>6, RunUse
  <2> QED  BY <2>7
<1>5. CASE pg[p].slab.tag = "bits" /\ b.class = pg[p].slab.n
  <2>1. b.class \in ChunkClass
    BY <1>5 DEF Kept, CutSound
  <2>2. Span[b.class] = 1
    BY <2>1, SpanIs
  <2>3. q = p
    BY <1>2, <1>3, <2>2
  <2> QED  BY <1>1, <1>5, <2>3
<1> QED  BY <1>1, <1>4, <1>5, BlockFacts DEF HoldsAt

\* A page that is not free carries a block.
LEMMA BlockCovers ==
  ASSUME NEW pg, Kept(pg, Null), Sized(pg), Marked(pg), NEW q \in Page,
         pg[q].slab.tag # "length"
  PROVE  \E u \in Held(pg) :
           /\ q - 1 \in Pool!Pages(u)
           /\ \/ IsLarge(u.class) /\ u.idx = 0
              \/ q \in Cut(pg, u.class) /\ u.class \in ChunkClass
<1>1. q \in Nat /\ pg[q].slab.tag \in {"length", "start", "busy", "bits"}
  BY PageUse, Nodes
<1>2. CASE pg[q].slab.tag \in {"start", "busy"}
  <2>1. PICK p \in Starts(pg) : q \in p .. p + pg[p].slab.n - 1
    BY <1>2, PageUse
  <2>2. PICK n, u : n = pg[p].slab.n /\ u = PageBlock(p, n)
    OBVIOUS
  <2>3. n \in Nat \ {0} /\ p \in Nat
    BY <2>2, Extent DEF Kept
  <2>4. u \in Held(pg) /\ IsLarge(u.class)
    BY <2>2, LargeBlocks
  <2>5. u.lo = p - 1 /\ u.class = n * PageSize /\ u.idx = 0 /\ n * PageSize \in Class
    BY <2>2, BlockFacts DEF Sized
  <2>6. Span[u.class] = n
    BY <2>3, <2>5, SpanIs
  <2>7. q - 1 \in u.lo .. u.lo + n - 1
    BY <1>1, <2>1, <2>2, <2>3, <2>5
  <2>8. q - 1 \in Pool!Pages(u)
    BY <2>6, <2>7 DEF Pool!Pages
  <2> QED  BY <2>4, <2>5, <2>8
<1>3. CASE pg[q].slab.tag = "bits"
  <2>1. PICK c \in ChunkClass : q \in Cut(pg, c)
    BY <1>3, PageUse
  <2>2. PICK u \in InClass(Held(pg), c) : PageOf(u) = q
    BY <2>1, MapIs
  <2>3. u \in Held(pg) /\ u.class = c
    BY DEF InClass
  <2>4. HoldsAt(pg, q, u)
    BY <2>1, <2>2, <2>3, HeldOfCut
  <2>5. u.lo = q - 1 /\ Span[c] = 1
    BY <2>4, HoldsAtPage, SpanIs
  <2>6. q - 1 \in u.lo .. u.lo + 1 - 1
    BY <1>1, <2>5
  <2>7. q - 1 \in Pool!Pages(u)
    BY <2>3, <2>5, <2>6 DEF Pool!Pages
  <2> QED  BY <2>1, <2>3, <2>7
<1> QED  BY <1>1, <1>2, <1>3

\* A block on pages of a free run, or a chunk without a mark, can be given.
LEMMA RunFits ==
  ASSUME IInv, NEW p \in Runs(page), NEW n \in Nat \ {0}, n <= page[p].slab.n,
         NEW b, b.lo = p - 1, Span[b.class] = n
  PROVE  \A u \in used : Pool!Compatible(b, u)
<1>1. Kept(page, Null) /\ Sized(page) /\ used = Held(page)
  BY DEF IInv, Good
<1>2. p \in Nat /\ page[p].slab.n \in Nat
  BY <1>1, Extent DEF Kept
<1>3. ASSUME NEW u \in used, NEW x \in Pool!Pages(b), x \in Pool!Pages(u) PROVE FALSE
  <2>1. x \in p - 1 .. p - 1 + n - 1
    BY DEF Pool!Pages
  <2>2. PICK q : q = x + 1
    OBVIOUS
  <2>3. q \in p .. p + page[p].slab.n - 1 /\ q - 1 = x
    BY <1>2, <2>1, <2>2
  <2>4. q \in Page /\ page[q].slab.tag = "length"
    BY <1>1, <2>3, RunUse
  <2>5. u \in Held(page) /\ q - 1 \in Pool!Pages(u)
    BY <1>1, <1>3, <2>3
  <2> QED  BY <1>1, <2>4, <2>5, BlockPages
<1> QED  BY <1>3 DEF Pool!Compatible

LEMMA ChunkFree ==
  ASSUME IInv, NEW c \in ChunkClass, NEW p \in Cut(page, c), NEW i \in Nat,
         i \notin page[p].slab.map
  PROVE  \A u \in used : Pool!Compatible(BlockAt(p, c, i), u)
<1>1. Kept(page, Null) /\ Sized(page) /\ used = Held(page)
  BY DEF IInv, Good
<1>2. /\ p \in Page /\ page[p].slab.tag = "bits" /\ p \in Nat
      /\ page[p].slab.map \subseteq Nat
      /\ \A x : HoldsAt(page, p, x) <=>
           \E j \in page[p].slab.map : j >= Reserved(c) /\ x = BlockAt(p, c, j)
  <2>1. /\ p \in Page /\ page[p].slab.tag = "bits"
        /\ page[p].slab.map \subseteq Nat
        /\ \A x : HoldsAt(page, p, x) <=>
             \E j \in page[p].slab.map : j >= Reserved(c) /\ x = BlockAt(p, c, j)
    <3>1. Kept(page, Null) /\ c \in ChunkClass /\ p \in Cut(page, c)
      BY <1>1
    <3> QED  BY <3>1, HeldOfCut
  <2>2. p \in Nat
    BY <2>1, Nodes
  <2> QED  BY <2>1, <2>2
<1>3. PICK b : b = BlockAt(p, c, i)
  OBVIOUS
<1>4. b.lo = p - 1 /\ b.class = c /\ b.idx = i - Reserved(c) /\ Span[c] = 1
  BY <1>3, BlockFacts, SpanIs
<1>5. ASSUME NEW u \in used, NEW x \in Pool!Pages(b), x \in Pool!Pages(u)
      PROVE  b.class = u.class /\ b.lo = u.lo /\ b.idx # u.idx
  <2>1. x \in p - 1 .. p - 1 + 1 - 1
    BY <1>4 DEF Pool!Pages
  <2>2. x = p - 1
    BY <1>2, <2>1
  <2>3. u \in Held(page) /\ p - 1 \in Pool!Pages(u)
    BY <1>1, <1>5, <2>2
  <2>4. HoldsAt(page, p, u)
    BY <1>1, <1>2, <2>3, BlockPages
  <2>5. PICK j \in page[p].slab.map : j >= Reserved(c) /\ u = BlockAt(p, c, j)
    BY <1>2, <2>4
  <2>6. j \in Nat /\ j # i /\ Reserved(c) \in Nat
    BY <1>2, Sizes
  <2>7. u.lo = p - 1 /\ u.class = c /\ u.idx = j - Reserved(c)
    BY <2>5, BlockFacts
  <2>8. j - Reserved(c) # i - Reserved(c)
    BY <2>6
  <2> QED  BY <1>4, <2>7, <2>8
<1>6. \A u \in used : Pool!Compatible(b, u)
  BY <1>5 DEF Pool!Compatible
<1> QED  BY <1>3, <1>6

\* Where there is no run of n pages, every n pages hold one that is not free.
LEMMA NoRun ==
  ASSUME NEW pg, Kept(pg, Null), NEW n \in Nat \ {0},
         \A p \in Runs(pg) : pg[p].slab.n < n,
         NEW l \in 0 .. NPages - n
  PROVE  \E q \in l + 1 .. l + n : q \in Page /\ pg[q].slab.tag # "length"
<1>1. NPages \in Nat /\ l \in Nat /\ pg \in Table /\ Tiled(pg)
  BY Sizes DEF Kept
<1>2. \A q \in l + 1 .. l + n : q \in Page
  BY <1>1 DEF Page
<1>3. SUFFICES ASSUME \A q \in l + 1 .. l + n : pg[q].slab.tag = "length"
               PROVE  FALSE
  BY <1>2
<1>4. l + 1 \in l + 1 .. l + n
  BY <1>1
<1>5. PICK p \in Runs(pg) : l + 1 \in p .. p + pg[p].slab.n - 1
  BY <1>2, <1>3, <1>4, PageUse
<1>6. PICK k, e : k = pg[p].slab.n /\ e = p + k
  OBVIOUS
<1>7. p \in Nat /\ k \in Nat \ {0} /\ e = End(pg, p) /\ e \in Nat /\ p < e /\ p \in Page
  BY <1>1, <1>6, Extent
<1>8. k < n
  BY <1>6
<1>9. e \in l + 1 .. l + n
  BY <1>1, <1>5, <1>6, <1>7, <1>8
<1>10. PICK r \in Runs(pg) : e \in r .. r + pg[r].slab.n - 1
  BY <1>2, <1>3, <1>9, PageUse
<1>11. r \in Nat /\ End(pg, r) = r + pg[r].slab.n /\ End(pg, r) \in Nat /\ r \in Page
       /\ pg[r].slab.n \in Nat
  BY <1>1, Extent
<1>12. r <= e /\ e < End(pg, r)
  BY <1>7, <1>10, <1>11
<1>13. r # e
  <2>1. Runs(pg) \ {Null} = Runs(pg)
    <3>1. Runs(pg) \subseteq Page
      BY DEF Runs
    <3> QED  BY <3>1, NullIsNone
  <2> QED  BY <1>7, <2>1 DEF Kept, Apart
<1>14. r # p
  BY <1>7, <1>12
<1>15. CASE r < p
  <2>1. End(pg, r) <= p
    BY <1>1, <1>7, <1>15, HeadsApart
  <2> QED  BY <1>7, <1>11, <1>12, <2>1
<1>16. CASE p < r
  <2>1. End(pg, p) <= r
    BY <1>1, <1>11, <1>16, HeadsApart
  <2> QED  BY <1>7, <1>11, <1>12, <1>13, <2>1
<1> QED  BY <1>7, <1>11, <1>14, <1>15, <1>16


\* What a caller sees of a request, and of a free.
LEMMA AllocLargeKeeps ==
  ASSUME IInv, NEW size \in Request, AllocLarge(size)
  PROVE  Pool!Next
<1>1. PICK n, c : n = PagesFor(size) /\ c = n * PageSize
  OBVIOUS
<1>2. n \in Nat \ {0} /\ c \in Class /\ IsLarge(c) /\ Span[c] = n /\ PerPage[c] = 1
  <2>1. IsLarge(size)
    BY DEF AllocLarge
  <2>2. n \in Nat \ {0} /\ c \in Class /\ IsLarge(c)
    BY <1>1, <2>1, LargeFits
  <2> QED  BY <1>1, <2>2, SpanIs
<1>3. Kept(page, Null) /\ Sized(page) /\ Marked(page) /\ used = Held(page) /\ NPages \in Nat
  BY Sizes DEF IInv, Good
<1>4. CASE /\ \A q \in Runs(page) : page[q].slab.n < n
           /\ refused' = c /\ UNCHANGED <<page, pfree, stats, used>>
  <2>1. ASSUME NEW b \in Pool!Free(used, c) PROVE FALSE
    <3>1. PICK l : l = b.lo
      OBVIOUS
    <3>2. l \in 0 .. NPages - n /\ b.class = c /\ b.idx = 0
          /\ \A u \in used : Pool!Compatible(b, u)
      <4>1. b \in [lo : 0 .. NPages - n, class : {c}, idx : 0 .. 1 - 1]
        BY <1>2 DEF Pool!Free, Pool!BlocksOf
      <4>2. \A u \in used : Pool!Compatible(b, u)
        BY DEF Pool!Free
      <4> QED  BY <3>1, <4>1, <4>2
    <3>3. PICK q \in l + 1 .. l + n : q \in Page /\ page[q].slab.tag # "length"
      BY <1>2, <1>3, <1>4, <3>2, NoRun
    <3>4. PICK u \in used :
            /\ q - 1 \in Pool!Pages(u)
            /\ \/ IsLarge(u.class) /\ u.idx = 0
               \/ q \in Cut(page, u.class) /\ u.class \in ChunkClass
      BY <1>3, <3>3, BlockCovers
    <3>5. l \in Nat /\ q \in Nat
      BY <1>2, <1>3, <3>2, <3>3, Nodes
    <3>6. q - 1 \in b.lo .. b.lo + Span[b.class] - 1
      BY <1>2, <3>1, <3>2, <3>3, <3>5
    <3>7. q - 1 \in Pool!Pages(b)
      BY <3>6 DEF Pool!Pages
    <3>8. b.class = u.class /\ b.idx # u.idx
      BY <3>2, <3>4, <3>7 DEF Pool!Compatible
    <3>9. u.class \notin ChunkClass
      BY <1>2, <3>2, <3>8, Sizes
    <3> QED  BY <3>2, <3>4, <3>8, <3>9
  <2>2. Pool!Alloc(c)
    BY <1>4, <2>1 DEF Pool!Alloc
  <2> QED  BY <1>2, <2>2 DEF Pool!Next
<1>5. ASSUME NEW p \in Runs(page), page[p].slab.n >= n,
             used' = used \cup {PageBlock(p, n)}, refused' = None
      PROVE  Pool!Next
  <2>1. PICK b : b = PageBlock(p, n)
    OBVIOUS
  <2>2. b.lo = p - 1 /\ b.class = c /\ b.idx = 0
    BY <1>1, <2>1, BlockFacts
  <2>3. /\ p \in Nat /\ p >= 1 /\ End(page, p) = p + page[p].slab.n
        /\ End(page, p) <= NPages + 1 /\ page[p].slab.n \in Nat
    BY <1>3, Extent DEF Kept
  <2>4. n <= page[p].slab.n
    BY <1>2, <1>5, <2>3
  <2>5. \A u \in used : Pool!Compatible(b, u)
    BY <1>2, <2>2, <2>4, RunFits
  <2>6. p - 1 \in 0 .. NPages - n
    BY <1>2, <1>3, <2>3, <2>4
  <2>7. b = [lo |-> p - 1, class |-> c, idx |-> 0]
    BY <1>1, <2>1 DEF PageBlock
  <2>8. b \in [lo : 0 .. NPages - Span[c], class : {c}, idx : 0 .. PerPage[c] - 1]
    BY <1>2, <2>6, <2>7
  <2>9. b \in Pool!Free(used, c)
    BY <2>5, <2>8 DEF Pool!Free, Pool!BlocksOf
  <2>10. Pool!Alloc(c)
    BY <1>5, <2>1, <2>9 DEF Pool!Alloc
  <2> QED  BY <1>2, <2>10 DEF Pool!Next
<1> QED  BY <1>1, <1>4, <1>5, AllocLargeIs

LEMMA AllocChunkKeeps ==
  ASSUME IInv, NEW size \in Request, AllocChunk(size)
  PROVE  Pool!Next
<1>1. PICK c : c = ChunkFor(size)
  OBVIOUS
<1>2. c \in ChunkClass
  BY <1>1, AllocChunkIs
<1>3. Kept(page, Null) /\ Sized(page) /\ Marked(page) /\ used = Held(page) /\ NPages \in Nat
  BY Sizes DEF IInv, Good
<1>4. PICK w, r : w = Chunks(c) /\ r = Reserved(c)
  OBVIOUS
<1>5. /\ w \in Nat /\ r \in Nat /\ w - r >= 2 /\ ~IsLarge(c)
      /\ c \in Class /\ Span[c] = 1 /\ PerPage[c] = w - r
  BY <1>2, <1>4, Sizes, SpanIs
<1>6. CASE /\ Runs(page) = {} /\ Open(page, c) = {}
           /\ refused' = c /\ UNCHANGED <<page, pfree, stats, used>>
  <2>1. ASSUME NEW b \in Pool!Free(used, c) PROVE FALSE
    <3>1. PICK q, i : q = b.lo + 1 /\ i = b.idx + r
      OBVIOUS
    <3>2. /\ b.lo \in 0 .. NPages - 1 /\ b.class = c /\ b.idx \in 0 .. w - r - 1
          /\ \A u \in used : Pool!Compatible(b, u)
      <4>1. b \in [lo : 0 .. NPages - 1, class : {c}, idx : 0 .. w - r - 1]
        BY <1>5 DEF Pool!Free, Pool!BlocksOf
      <4>2. \A u \in used : Pool!Compatible(b, u)
        BY DEF Pool!Free
      <4> QED  BY <4>1, <4>2
    <3>3. q \in Page /\ q \in Nat /\ q - 1 = b.lo /\ i \in 0 .. w - 1 /\ i >= r
          /\ b.idx = i - r
      BY <1>3, <1>5, <3>1, <3>2 DEF Page
    <3>4. q - 1 \in b.lo .. b.lo + Span[b.class] - 1
      BY <1>5, <3>2, <3>3
    <3>5. q - 1 \in Pool!Pages(b)
      BY <3>4 DEF Pool!Pages
    <3>6. page[q].slab.tag # "length"
      BY <1>3, <1>6, <3>3, PageUse
    <3>7. PICK u \in used :
            /\ q - 1 \in Pool!Pages(u)
            /\ \/ IsLarge(u.class) /\ u.idx = 0
               \/ q \in Cut(page, u.class) /\ u.class \in ChunkClass
      BY <1>3, <3>3, <3>6, BlockCovers
    <3>8. u.class = c
      BY <3>2, <3>5, <3>7 DEF Pool!Compatible
    <3>9. q \in Cut(page, c)
      BY <1>5, <3>7, <3>8
    <3>10. page[q].slab.map = 0 .. w - 1
      BY <1>4, <1>6, <3>9 DEF Open
    <3>11. PICK x : x = BlockAt(q, c, i)
      OBVIOUS
    <3>12. HoldsAt(page, q, x)
      <4>1. i \in page[q].slab.map /\ i >= Reserved(c)
        BY <1>4, <3>3, <3>10
      <4> QED  BY <1>2, <1>3, <3>9, <3>11, <4>1, HeldOfCut
    <3>13. x \in used
      BY <1>3, <3>3, <3>12, HeldIs
    <3>14. x.lo = b.lo /\ x.class = b.class /\ x.idx = b.idx
      BY <1>4, <3>2, <3>3, <3>11, BlockFacts
    <3>15. q - 1 \in Pool!Pages(x)
      BY <3>4, <3>14 DEF Pool!Pages
    <3>16. Pool!Compatible(b, x)
      BY <3>2, <3>13
    <3> QED  BY <3>5, <3>14, <3>15, <3>16 DEF Pool!Compatible
  <2>2. Pool!Alloc(c)
    BY <1>6, <2>1 DEF Pool!Alloc
  <2> QED  BY <1>5, <2>2 DEF Pool!Next
<1>7. ASSUME NEW p \in Page, NEW i \in Nat,
             used' = used \cup {BlockAt(p, c, i)}, refused' = None,
             r <= i, i <= w - 1,
             \A u \in used : Pool!Compatible(BlockAt(p, c, i), u)
      PROVE  Pool!Next
  <2>1. PICK b : b = BlockAt(p, c, i)
    OBVIOUS
  <2>2. b = [lo |-> p - 1, class |-> c, idx |-> i - r]
    BY <1>4, <2>1 DEF BlockAt
  <2>3. p - 1 \in 0 .. NPages - 1 /\ i - r \in 0 .. w - r - 1
    BY <1>3, <1>5, <1>7 DEF Page
  <2>4. b \in [lo : 0 .. NPages - Span[c], class : {c}, idx : 0 .. PerPage[c] - 1]
    BY <1>5, <2>2, <2>3
  <2>5. b \in Pool!Free(used, c)
    BY <1>7, <2>1, <2>4 DEF Pool!Free, Pool!BlocksOf
  <2>6. Pool!Alloc(c)
    BY <1>7, <2>1, <2>5 DEF Pool!Alloc
  <2> QED  BY <1>5, <2>6 DEF Pool!Next
<1>8. ASSUME NEW p \in Page, NEW i \in Nat, p \in Cut(page, c), i \in 0 .. Chunks(c) - 1,
             i \notin page[p].slab.map,
             used' = used \cup {BlockAt(p, c, i)}, refused' = None
      PROVE  Pool!Next
  <2>1. \A u \in used : Pool!Compatible(BlockAt(p, c, i), u)
    BY <1>2, <1>8, ChunkFree
  <2>2. 0 .. r - 1 \subseteq page[p].slab.map
    BY <1>2, <1>3, <1>4, <1>8 DEF Marked, InUse
  <2>3. i \notin 0 .. r - 1
    BY <1>8, <2>2
  <2>4. r <= i /\ i <= w - 1
    BY <1>4, <1>5, <1>8, <2>3
  <2> QED  BY <1>7, <1>8, <2>1, <2>4
<1>9. ASSUME NEW p \in Page, NEW i \in Nat, p \in Runs(page), i = Reserved(c),
             used' = used \cup {BlockAt(p, c, i)}, refused' = None
      PROVE  Pool!Next
  <2>1. PICK b : b = BlockAt(p, c, i)
    OBVIOUS
  <2>2. b.lo = p - 1 /\ Span[b.class] = 1
    BY <1>5, <2>1, BlockFacts
  <2>3. 1 \in Nat \ {0} /\ 1 <= page[p].slab.n
    <3>1. page[p].slab.n \in Nat \ {0}
      BY <1>3, <1>9, Extent DEF Kept
    <3> QED  BY <3>1
  <2>4. \A u \in used : Pool!Compatible(b, u)
    BY <1>9, <2>2, <2>3, RunFits
  <2>5. r <= i /\ i <= w - 1
    BY <1>4, <1>5, <1>9
  <2> QED  BY <1>7, <1>9, <2>1, <2>4, <2>5
<1>10. \/ /\ Runs(page) = {} /\ Open(page, c) = {}
          /\ refused' = c /\ UNCHANGED <<page, pfree, stats, used>>
       \/ \E p \in Page, i \in Nat :
            /\ \/ /\ p \in Cut(page, c) /\ i \in 0 .. Chunks(c) - 1
                  /\ i \notin page[p].slab.map
               \/ p \in Runs(page) /\ i = Reserved(c)
            /\ used' = used \cup {BlockAt(p, c, i)} /\ refused' = None
  BY <1>1, AllocChunkIs
<1> QED  BY <1>6, <1>8, <1>9, <1>10


\* A step that leaves the blocks in use alone leaves the tables alone: no block
\* is given twice, and what is freed was in use.
LEMMA StepUses ==
  ASSUME IInv, [Next]_vars, used' = used
  PROVE  UNCHANGED <<page, pfree, stats>>
<1>1. ASSUME NEW size \in Request, AllocLarge(size)
      PROVE  UNCHANGED <<page, pfree, stats>>
  <2>1. PICK n : n = PagesFor(size)
    OBVIOUS
  <2>2. \/ UNCHANGED <<page, pfree, stats, used>>
        \/ \E b : b \notin used /\ used' = used \cup {b}
    BY <1>1, <2>1, AllocLargeIs
  <2> QED  BY <2>2
<1>2. ASSUME NEW size \in Request, AllocChunk(size)
      PROVE  UNCHANGED <<page, pfree, stats>>
  <2>1. PICK c : c = ChunkFor(size)
    OBVIOUS
  <2>2. \/ UNCHANGED <<page, pfree, stats, used>>
        \/ \E b : b \notin used /\ used' = used \cup {b}
    BY <1>2, <2>1, AllocChunkIs
  <2> QED  BY <2>2
<1>3. ASSUME NEW b \in used, FreeLocked(PageOf(b), OffsetOf(b))
      PROVE  UNCHANGED <<page, pfree, stats>>
  <2>1. used' = used \ {b} \/ UNCHANGED <<page, pfree, stats, used>>
    BY <1>3, FreeIs
  <2> QED  BY <2>1
<1>4. ASSUME NEW p \in Page, NEW off \in 0 .. PageSize - 1, Stray(p, off), FreeLocked(p, off)
      PROVE  UNCHANGED <<page, pfree, stats>>
  BY <1>4, StrayIs
<1>5. CASE UNCHANGED vars
  BY <1>5 DEF vars
<1> QED  BY <1>1, <1>2, <1>3, <1>4, <1>5 DEF Next

LEMMA StepKeeps ==
  ASSUME IInv, [Next]_vars
  PROVE  [Pool!Next]_(Pool!vars)
<1>1. ASSUME NEW size \in Request, AllocLarge(size) PROVE Pool!Next
  BY <1>1, AllocLargeKeeps
<1>2. ASSUME NEW size \in Request, AllocChunk(size) PROVE Pool!Next
  BY <1>2, AllocChunkKeeps
<1>3. ASSUME refused' = None, used' = used PROVE Pool!Next
  BY <1>3 DEF Pool!Next, Pool!DeallocNothing
<1>4. ASSUME NEW b \in used, FreeLocked(PageOf(b), OffsetOf(b)) PROVE Pool!Next
  <2>1. refused' = None /\ (used' = used \ {b} \/ used' = used)
    BY <1>4, FreeIs
  <2>2. used' = used \ {b} => Pool!Dealloc(b)
    BY <2>1 DEF Pool!Dealloc, Pool!Release
  <2> QED  BY <1>3, <2>1, <2>2 DEF Pool!Next
<1>5. ASSUME NEW p \in Page, NEW off \in 0 .. PageSize - 1, Stray(p, off), FreeLocked(p, off)
      PROVE  Pool!Next
  BY <1>3, <1>5, StrayIs
<1>6. CASE UNCHANGED vars
  BY <1>6 DEF vars, Pool!vars
<1> QED  BY <1>1, <1>2, <1>4, <1>5, <1>6 DEF Next

-----------------------------------------------------------------------------
(* The theorems *)

\* The list of free runs holds every free run once, linked both ways, and each
\* run ends with a pointer to its first page: what mps_slab_alloc_pages walks
\* and mps_slab_free_pages joins by, after any calls.
THEOREM FreeListCorrect == Spec => []FreeListExact
  BY Invariance, FreeListHolds, PTL

\* mps_slab_free_pages leaves no two free runs side by side, so that a request
\* for pages fails only when no n free pages lie together.
THEOREM RunsAreMaximal == Spec => []RunsMaximal
  BY Invariance, MaximalHolds, PTL

\* The list that mps_slab_alloc_locked takes a chunk from holds exactly the
\* pages cut for its size that have one left.
THEOREM SlotListsCorrect == Spec => []SlotListsExact
  BY Invariance, SlotListsHold, PTL

\* Every page is free, in one block, or cut; the bitmaps, pfree and the counters
\* of mps_slab_stat_t agree with the blocks that callers hold.
THEOREM PagesAreAccounted == Spec => []PagesAccounted
  BY Invariance, AccountedHolds, PTL

\* mps_slab_free_locked of an address where no block in use begins leaves the
\* pool as it was: its checks of the page and of the offset are enough.
THEOREM StrayFreesIgnored == Spec => StrayFreeIgnored
<1>1. IInv /\ [Next]_vars =>
        [used' = used => UNCHANGED <<page, pfree, stats>>]_vars
  BY StepUses
<1> QED  BY <1>1, Invariance, PTL DEF Spec, StrayFreeIgnored

\* mps_slab.c implements the pool that Shdict is built on: blocks in use never
\* share memory, and a request is refused only when no block is left for it.
THEOREM SlabKeepsContract == Spec => KeepsContract
<1>1. Init => Pool!Init
  BY DEF Init, Pool!Init
<1>2. IInv /\ [Next]_vars => [Pool!Next]_(Pool!vars)
  BY StepKeeps
<1> QED  BY <1>1, <1>2, Invariance, PTL DEF Spec, KeepsContract, Pool!Spec

=============================================================================
