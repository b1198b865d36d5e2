-------------------------- MODULE ShdictCallProofs --------------------------
(***************************************************************************)
(* Shdict, for any keys, values, clock and pool: what a caller may         *)
(* conclude from what a call returned, and that all calls together         *)
(* implement ExpiringMap.                                                  *)
(*                                                                         *)
(* A write that was acknowledged is in the dictionary, at the head of the  *)
(* LRU queue.  It holds after every step whatever was before, once the     *)
(* dictionary is consistent: a call that returns OK with a value has just  *)
(* inserted an entry or changed the one it touched, and what runs on       *)
(* later, an eviction, has not returned yet.                               *)
(*                                                                         *)
(* A call that fails spoils no value, but for a store that had no memory.  *)
(* What it may have done before it fails is to expire two entries, to move *)
(* the one it looked up, and, in a push, to empty or free the entry of its *)
(* own key, which had expired.                                             *)
(*                                                                         *)
(* The map depends on the tree alone, so each action is followed from the  *)
(* tree it finds to the tree it leaves; queue and pool matter only in that *)
(* they keep the tree sound, which is the invariant IInv.                  *)
(***************************************************************************)
EXTENDS ShdictProofs

-----------------------------------------------------------------------------
(* What is acknowledged is written *)

Writes == StoreOps \cup PushOps \cup {"incr"}

\* The value that op writes is what the dictionary has now.
Written(d, k, op, v) ==
    /\ k \in DOMAIN d.tree /\ Head(d.lru) = k
    /\ LET e == d.tree[k]
           s == IF op = "lpush" THEN Head(e.items)
                ELSE IF op = "rpush" THEN Last(e.items) ELSE e
       IN <<s.type, s.len, s.data>> = <<v.type, v.len, v.data>>

-----------------------------------------------------------------------------
(* Returns *)

\* A call that returns a write has to have written it.
LEMMA AckReturn ==
  ASSUME NEW op, NEW k, NEW rc, NEW val, NEW num, NEW forcible,
         Return(op, k, rc, val, num, forcible),
         rc = "OK" /\ val # Nil /\ op \in Writes => Written(dict', k, op, val)
  PROVE  AckedWriteStored'
<1>1. ret' = [op |-> op, key |-> k, rc |-> rc, val |-> val, num |-> num,
              forcible |-> forcible]
  BY DEF Return
<1>2. /\ ret'.op = op /\ ret'.key = k /\ ret'.rc = rc /\ ret'.val = val
  BY <1>1
<1> QED  BY <1>2, Zenon DEF AckedWriteStored, Written, Writes

\* Every other return promises nothing.
LEMMA AckFail == ASSUME NEW op, NEW k, NEW rc, Fail(op, k, rc) PROVE AckedWriteStored'
<1>1. Return(op, k, rc, Nil, 0, FALSE)
  BY DEF Fail
<1> QED  BY <1>1, AckReturn, Zenon

LEMMA AckNothing ==
  ASSUME NEW op, NEW k, NEW num, Return(op, k, "OK", Nil, num, FALSE)
  PROVE  AckedWriteStored'
  BY AckReturn, Zenon

LEMMA AckRead ==
  ASSUME NEW op, op \notin Writes, NEW k, NEW val, NEW num, Return(op, k, "OK", val, num, FALSE)
  PROVE  AckedWriteStored'
  BY AckReturn, Zenon

-----------------------------------------------------------------------------
(* What is written is at the head of the queue *)

LEMMA HeadOfCons == ASSUME NEW S, NEW s \in Seq(S), NEW k \in S PROVE Head(Cons(k, s)) = k
  BY DEF Cons

\* Touching an entry brings it to the head, and changes no entry.
LEMMA TouchTop ==
  ASSUME NEW d, Consistent(d), NEW k \in DOMAIN d.tree
  PROVE  Head(Touch(d, k).lru) = k /\ Touch(d, k).tree = d.tree
<1>1. /\ d = [tree |-> d.tree, lru |-> d.lru, used |-> d.used]
      /\ k \in Key /\ d.lru \in Seq(Key) /\ IsInjective(d.lru)
  BY DEF Consistent, IsDict, LruExact
<1>2. PICK q : q = Cons(k, RemoveFirst(d.lru, k))
  OBVIOUS
<1>3. Head(q) = k
  BY <1>1, <1>2, RemoveFirstExact, HeadOfCons
<1>4. Touch(d, k) = [tree |-> d.tree, lru |-> q, used |-> d.used]
  BY <1>1, <1>2 DEF Touch
<1> QED  BY <1>3, <1>4

\* So does inserting one.
LEMMA InsertTop ==
  ASSUME NEW d, Consistent(d), NEW k \in Key, NEW e, NEW n, n = Insert(d, k, e)
  PROVE  k \in DOMAIN n.tree /\ n.tree[k] = e /\ Head(n.lru) = k
<1>1. d.lru \in Seq(Key)
  BY DEF Consistent, IsDict
<1>2. PICK q : q = Cons(k, d.lru) /\ Head(q) = k
  BY <1>1, HeadOfCons
<1>3. /\ n.lru = q
      /\ n.tree = [x \in DOMAIN d.tree \cup {k} |-> IF x = k THEN e ELSE d.tree[x]]
  BY <1>2 DEF Insert
<1> QED  BY <1>2, <1>3

\* Changing an entry leaves the queue alone.
LEMMA UpdateTop ==
  ASSUME NEW d, Consistent(d), NEW k \in DOMAIN d.tree, NEW e, NEW n, n = Update(d, k, e)
  PROVE  n = [tree |-> [d.tree EXCEPT ![k] = e], lru |-> d.lru, used |-> d.used]
<1>1. d = [tree |-> d.tree, lru |-> d.lru, used |-> d.used]
  BY DEF Consistent, IsDict
<1> QED  BY <1>1 DEF Update

\* A scalar that is written over the entry of k, or into a new one.
LEMMA WrittenScalar ==
  ASSUME NEW n, NEW k \in DOMAIN n.tree, Head(n.lru) = k, NEW op, op \notin PushOps,
         NEW v, n.tree[k].type = v.type, n.tree[k].len = v.len, n.tree[k].data = v.data
  PROVE  Written(n, k, op, v)
  BY DEF Written, PushOps

\* An entry that is touched and changed.
LEMMA RewriteTop ==
  ASSUME NEW d, Sound(d), NEW k \in DOMAIN d.tree, NEW e,
         NEW n, n = Update(Touch(d, k), k, e)
  PROVE  k \in DOMAIN n.tree /\ n.tree[k] = e /\ Head(n.lru) = k
<1>1. PICK m : m = Touch(d, k)
  OBVIOUS
<1>2. Consistent(m) /\ m.tree = d.tree /\ Head(m.lru) = k
  BY <1>1, TouchConsistent, TouchTop DEF Sound
<1>3. n = [tree |-> [m.tree EXCEPT ![k] = e], lru |-> m.lru, used |-> m.used]
  BY <1>1, <1>2, UpdateTop
<1>4. DOMAIN m.tree = DOMAIN d.tree
  BY <1>2
<1>5. d.tree \in [DOMAIN d.tree -> Entry]
  BY DEF Sound, Consistent, IsDict
<1> QED  BY <1>2, <1>3, <1>5

-----------------------------------------------------------------------------
(* The operations *)

\* The insertion that ends a store or an incr, with or without an eviction.
LEMMA AllocateAck ==
  ASSUME NEW c \in Call, NEW d, Sound(d), NEW t, Allocate(c, d, t)
  PROVE  AckedWriteStored'
<1> DEFINE base == IF c.op = "incr" THEN c.base ELSE t
<1>1. \/ \E b : /\ dict' = Insert(d, c.key, NewEntry(c.val, Expires(base, c.ttl), b))
                /\ Return(c.op, c.key, "OK", c.val, 0, c.tries > 0)
      \/ Fail(c.op, c.key, "NOMEM")
      \/ call' = c
  BY DEF Allocate
<1> HIDE DEF base
<1>2. c # None /\ c.key \in Key /\ c.op \notin PushOps
  BY NoneAssumption DEF Call, StoreOps, SafeOps, AddOps, PushOps
<1>3. ASSUME NEW b, dict' = Insert(d, c.key, NewEntry(c.val, Expires(base, c.ttl), b)),
             Return(c.op, c.key, "OK", c.val, 0, c.tries > 0)
      PROVE  AckedWriteStored'
  <2>1. PICK e : e = NewEntry(c.val, Expires(base, c.ttl), b)
    OBVIOUS
  <2>2. e.type = c.val.type /\ e.len = c.val.len /\ e.data = c.val.data
    BY <2>1 DEF NewEntry
  <2>3. PICK n : n = dict' /\ n = Insert(d, c.key, e)
    BY <1>3, <2>1
  <2>4. c.key \in DOMAIN n.tree /\ n.tree[c.key] = e /\ Head(n.lru) = c.key
    BY <1>2, <2>3, InsertTop DEF Sound
  <2>5. Written(n, c.key, c.op, c.val)
    BY <1>2, <2>2, <2>4, WrittenScalar
  <2>6. Written(dict', c.key, c.op, c.val)
    BY <2>3, <2>5
  <2> QED  BY <1>3, <2>6, AckReturn, Zenon
<1>4. CASE call' = c
  BY <1>2, <1>4 DEF AckedWriteStored
<1> QED  BY <1>1, <1>3, <1>4, AckFail

LEMMA EvictAck == ASSUME IInv, NEW t \in Nat, Evict(t) PROVE AckedWriteStored'
<1>1. call \in Call /\ Sound(dict)
  BY DEF IInv, CallSound, Evict
<1>2. ASSUME NEW f, Return(call.op, call.key, "NOMEM", Nil, 0, f) PROVE AckedWriteStored'
  BY <1>2, AckReturn, Zenon
<1>3. CASE /\ call.tries < MaxEvict
           /\ Allocate([call EXCEPT !.tries = call.tries + 1], ExpireForced(dict, now), t)
  <2>1. PICK c : c = [call EXCEPT !.tries = call.tries + 1]
    OBVIOUS
  <2>2. c \in Call
    BY <1>1, <1>3, <2>1, ShdictAssumption DEF Call
  <2>3. PICK d : d = ExpireForced(dict, now)
    OBVIOUS
  <2>4. Sound(d)
    BY <1>1, <2>3, ExpireForcedConsistent, KeepsSound DEF Sound
  <2>5. Allocate(c, d, t)
    BY <1>3, <2>1, <2>3
  <2> QED  BY <2>2, <2>4, <2>5, AllocateAck
<1> QED  BY <1>2, <1>3 DEF Evict

LEMMA StoreAck ==
  ASSUME IInv, NEW op \in StoreOps, NEW k \in Key, NEW v \in Value \cup {Nil},
         NEW ttl \in Ttl, NEW t \in Time, Store(op, k, v, ttl, t)
  PROVE  AckedWriteStored'
<1>1. Sound(dict) /\ call = None
  BY AtRest DEF Store
<1>2. PICK e : e = ExpireTwo(dict, now)
  OBVIOUS
<1>3. PICK d : d = Lookup(e, k)
  OBVIOUS
<1>4. Sound(d)
  BY <1>1, <1>2, <1>3, AfterLookup
<1> DEFINE f == NewEntry(v, Expires(t, ttl), d.tree[k].block)
           c == [op |-> op, key |-> k, val |-> v, ttl |-> ttl, base |-> 0, tries |-> 0]
<1>5. \/ Fail(op, k, "ERROR")
      \/ Fail(op, k, "DECLINED")
      \/ /\ k \in DOMAIN d.tree /\ dict' = Update(Touch(d, k), k, f)
         /\ Return(op, k, "OK", v, 0, FALSE)
      \/ Return(op, k, "OK", Nil, 0, FALSE)
      \/ v # Nil /\ Allocate(c, Without(d, k), t)
  BY <1>2, <1>3 DEF Store, Reusable
<1>6. op \notin PushOps
  BY DEF StoreOps, SafeOps, AddOps, PushOps
<1>7. ASSUME k \in DOMAIN d.tree, dict' = Update(Touch(d, k), k, f),
             Return(op, k, "OK", v, 0, FALSE)
      PROVE  AckedWriteStored'
  <2>1. f.type = v.type /\ f.len = v.len /\ f.data = v.data
    BY DEF NewEntry
  <2> HIDE DEF f
  <2>2. PICK n : n = dict' /\ n = Update(Touch(d, k), k, f)
    BY <1>7
  <2>3. k \in DOMAIN n.tree /\ n.tree[k] = f /\ Head(n.lru) = k
    BY <1>4, <1>7, <2>2, RewriteTop
  <2>4. Written(n, k, op, v)
    BY <1>6, <2>1, <2>3, WrittenScalar
  <2>5. Written(dict', k, op, v)
    BY <2>2, <2>4
  <2> QED  BY <1>7, <2>5, AckReturn, Zenon
<1>8. ASSUME v # Nil, Allocate(c, Without(d, k), t) PROVE AckedWriteStored'
  <2>1. c \in Call
    <3>1. v \in Value
      BY <1>8
    <3> QED  BY <3>1, ValueOK, ShdictAssumption DEF Call, Storable
  <2> HIDE DEF c
  <2>2. PICK w : w = Without(d, k)
    OBVIOUS
  <2>3. Sound(w) /\ Allocate(c, w, t)
    BY <1>4, <1>8, <2>2, WithoutSound
  <2> QED  BY <2>1, <2>3, AllocateAck
<1> HIDE DEF f, c
<1> QED  BY <1>5, <1>7, <1>8, AckFail, AckNothing

LEMMA IncrAck ==
  ASSUME IInv, NEW k \in Key, NEW by \in By, NEW init \in By \cup {None},
         NEW ttl \in Ttl, NEW t0 \in Time, NEW t \in Time,
         Incr(k, by, init, ttl, t0, t)
  PROVE  AckedWriteStored'
<1>1. Sound(dict) /\ call = None
  BY AtRest DEF Incr
<1>2. PICK e : e = ExpireTwo(dict, now)
  OBVIOUS
<1>3. PICK d : d = Lookup(e, k)
  OBVIOUS
<1>4. Sound(d) /\ d.tree = e.tree
  BY <1>1, <1>2, <1>3, AfterLookup
<1> DEFINE old == d.tree[k]
           sum == Number(by + init)
           f == NewEntry(sum, Expires(t0, ttl), old.block)
           g == [old EXCEPT !.data = old.data + by]
           c == [op |-> "incr", key |-> k, val |-> sum, ttl |-> ttl, base |-> t0,
                 tries |-> 0]
<1>5. \/ Fail("incr", k, "ERROR")
      \/ /\ k \in DOMAIN d.tree /\ dict' = Update(Touch(d, k), k, f)
         /\ Return("incr", k, "OK", sum, 0, FALSE)
      \/ init # None /\ Allocate(c, Without(d, k), t)
      \/ /\ k \in DOMAIN e.tree /\ old.type = "number" /\ old.len = SizeofDouble
         /\ dict' = Update(Touch(d, k), k, g)
         /\ Return("incr", k, "OK", Number(old.data + by), 0, FALSE)
  BY <1>2, <1>3 DEF Incr, LookupRc, Reusable
<1>6. "incr" \notin PushOps
  BY DEF PushOps
<1>7. ASSUME k \in DOMAIN d.tree, dict' = Update(Touch(d, k), k, f),
             Return("incr", k, "OK", sum, 0, FALSE)
      PROVE  AckedWriteStored'
  <2> HIDE DEF sum
  <2>1. f.type = sum.type /\ f.len = sum.len /\ f.data = sum.data
    BY DEF NewEntry
  <2> HIDE DEF f
  <2>2. PICK n : n = dict' /\ n = Update(Touch(d, k), k, f)
    BY <1>7
  <2>3. k \in DOMAIN n.tree /\ n.tree[k] = f /\ Head(n.lru) = k
    BY <1>4, <1>7, <2>2, RewriteTop
  <2>4. Written(n, k, "incr", sum)
    BY <1>6, <2>1, <2>3, WrittenScalar
  <2>5. Written(dict', k, "incr", sum)
    BY <2>2, <2>4
  <2> QED  BY <1>7, <2>5, AckReturn, Zenon
<1>8. ASSUME init # None, Allocate(c, Without(d, k), t) PROVE AckedWriteStored'
  <2>1. c \in Call
    <3>1. t0 \in Nat /\ ttl \in Nat /\ by + init \in Int
      BY <1>8, ShdictAssumption
    <3>2. sum \in Storable /\ WellSized(sum) /\ sum.len \in Lengths
      BY <3>1, NumberOK
    <3> QED  BY <3>1, <3>2, ShdictAssumption DEF Call, Storable
  <2> HIDE DEF c
  <2>2. PICK w : w = Without(d, k)
    OBVIOUS
  <2>3. Sound(w) /\ Allocate(c, w, t)
    BY <1>4, <1>8, <2>2, WithoutSound
  <2> QED  BY <2>1, <2>3, AllocateAck
<1>9. ASSUME k \in DOMAIN e.tree, old.type = "number", old.len = SizeofDouble,
             dict' = Update(Touch(d, k), k, g),
             Return("incr", k, "OK", Number(old.data + by), 0, FALSE)
      PROVE  AckedWriteStored'
  <2>1. k \in DOMAIN d.tree /\ old \in Entry
    BY <1>4, <1>9, EntryParts DEF Sound
  <2>2. PICK v : v = Number(old.data + by)
    OBVIOUS
  <2>3. g.type = v.type /\ g.len = v.len /\ g.data = v.data
    BY <1>9, <2>1, <2>2 DEF Number, Entry
  <2> HIDE DEF g
  <2>4. PICK n : n = dict' /\ n = Update(Touch(d, k), k, g)
    BY <1>9
  <2>5. k \in DOMAIN n.tree /\ n.tree[k] = g /\ Head(n.lru) = k
    BY <1>4, <2>1, <2>4, RewriteTop
  <2>6. Written(n, k, "incr", v)
    BY <1>6, <2>3, <2>5, WrittenScalar
  <2>7. Written(dict', k, "incr", v)
    BY <2>4, <2>6
  <2> QED  BY <1>9, <2>2, <2>7, AckReturn, Zenon
<1> HIDE DEF f, g, c, sum
<1> QED  BY <1>5, <1>7, <1>8, <1>9, AckFail

-----------------------------------------------------------------------------
(* Lists *)

\* The node that is pushed is the one that the next pop at its end returns.
LEMMA PushNodeAck ==
  ASSUME NEW d, NEW k, Pushable(d, k), Head(d.lru) = k, NEW dir \in PushOps,
         NEW v \in Value, PushNode(dir, k, v, d)
  PROVE  AckedWriteStored'
<1> DEFINE e == d.tree[k]
           item(b) == [type |-> v.type, len |-> v.len, data |-> v.data, block |-> b]
           took(f, b) == [Update(d, k, f) EXCEPT !.used = Update(d, k, f).used \cup {b}]
<1>1. /\ Consistent(d) /\ k \in DOMAIN d.tree /\ e \in Entry /\ e.items \in Seq(Item)
      /\ d.tree \in [DOMAIN d.tree -> Entry]
  <2>1. Consistent(d) /\ k \in DOMAIN d.tree
    BY DEF Pushable
  <2>2. d.tree \in [DOMAIN d.tree -> Entry]
    BY <2>1 DEF Consistent, IsDict
  <2> QED  BY <2>1, <2>2 DEF Entry
<1>2. ASSUME NEW b \in Free(d.used, ItemClass[v.len]), NEW num,
             dict' = took(AddItem(dir, e, item(b)), b),
             Return(dir, k, "OK", v, num, FALSE)
      PROVE  AckedWriteStored'
  <2>1. PICK i : i = item(b)
    OBVIOUS
  <2>2. i.type = v.type /\ i.len = v.len /\ i.data = v.data
    BY <2>1
  <2>3. i \in Item \/ v.type \notin {"number", "string"}
    <3>1. b \in Block /\ v \in Storable
      BY ValueOK, ClassesOK, FreeIsNew
    <3> QED  BY <2>1, <3>1 DEF Item, Storable
  <2>4. PICK f : f = AddItem(dir, e, i)
    OBVIOUS
  <2>5. f.items = IF dir = "lpush" THEN Cons(i, e.items) ELSE Append(e.items, i)
    BY <1>1, <2>4 DEF AddItem, Entry
  <2>6. IF dir = "lpush" THEN Head(f.items) = i ELSE Last(f.items) = i
    <3>1. PICK T : T = Item \cup {i}
      OBVIOUS
    <3>2. e.items \in Seq(T) /\ i \in T
      BY <1>1, <3>1
    <3>3. CASE dir = "lpush"
      BY <2>5, <3>2, <3>3, HeadOfCons
    <3>4. CASE dir # "lpush"
      <4>1. f.items = Append(e.items, i)
        BY <2>5, <3>4
      <4>2. Len(f.items) = Len(e.items) + 1 /\ f.items[Len(e.items) + 1] = i
        BY <3>2, <4>1
      <4> QED  BY <3>4, <4>2 DEF Last
    <3> QED  BY <3>3, <3>4
  <2>7. PICK u : u = Update(d, k, f)
    OBVIOUS
  <2>8. u = [tree |-> [d.tree EXCEPT ![k] = f], lru |-> d.lru, used |-> d.used]
    BY <1>1, <2>7, UpdateTop
  <2>9. PICK n : n = took(f, b)
    OBVIOUS
  <2>10. /\ n.tree = [d.tree EXCEPT ![k] = f] /\ n.lru = d.lru
    <3>1. PICK w : w = u.used \cup {b}
      OBVIOUS
    <3>2. n = [u EXCEPT !.used = w]
      BY <2>7, <2>9, <3>1
    <3>3. n = [tree |-> [d.tree EXCEPT ![k] = f], lru |-> d.lru, used |-> w]
      BY <2>8, <3>2
    <3> QED  BY <3>3
  <2>11. k \in DOMAIN n.tree /\ n.tree[k] = f /\ Head(n.lru) = k
    BY <1>1, <2>10
  <2>12. Written(n, k, dir, v)
    BY <2>2, <2>6, <2>11 DEF Written, PushOps
  <2>13. Written(dict', k, dir, v)
    BY <1>2, <2>1, <2>4, <2>9, <2>12
  <2> QED  BY <1>2, <2>13, AckReturn, Zenon
<1> HIDE DEF item, took, e
<1>3. \/ \E b \in Free(d.used, ItemClass[v.len]) : \E num :
            /\ dict' = took(AddItem(dir, e, item(b)), b)
            /\ Return(dir, k, "OK", v, num, FALSE)
      \/ Fail(dir, k, "NOMEM")
  BY DEF PushNode, item, took, e
<1> QED  BY <1>2, <1>3, AckFail

LEMMA PushAck ==
  ASSUME IInv, NEW dir \in PushOps, NEW k \in Key, NEW v \in Value, NEW t \in Time,
         Push(dir, k, v, t)
  PROVE  AckedWriteStored'
<1>1. Sound(dict) /\ call = None
  BY AtRest DEF Push
<1>2. PICK e : e = ExpireTwo(dict, now)
  OBVIOUS
<1>3. PICK d : d = Lookup(e, k)
  OBVIOUS
<1>4. Sound(d) /\ d.tree = e.tree
  BY <1>1, <1>2, <1>3, AfterLookup
<1>5. PICK rc : rc = LookupRc(e, k, t)
  OBVIOUS
<1>6. rc \in {"OK", "DONE"} <=> k \in DOMAIN d.tree
  BY <1>4, <1>5 DEF LookupRc
<1> DEFINE bare == IF rc = "DONE" THEN DropNode(d, k) ELSE d
<1>7. \/ \E r : Fail(dir, k, r)
      \/ rc = "OK" /\ d.tree[k].type = "list" /\ PushNode(dir, k, v, Touch(d, k))
      \/ rc = "DONE" /\ d.tree[k].type = "list" /\ PushNode(dir, k, v, ResetList(d, k))
      \/ /\ rc = "DECLINED" \/ (rc = "DONE" /\ d.tree[k].type # "list")
         /\ \E b \in Free(bare.used, ListClass) :
               PushNode(dir, k, v, Insert(bare, k, EmptyList(b)))
  BY <1>2, <1>3, <1>5 DEF Push
<1>8. ASSUME rc = "OK", d.tree[k].type = "list", PushNode(dir, k, v, Touch(d, k))
      PROVE  AckedWriteStored'
  <2>1. PICK n : n = Touch(d, k)
    OBVIOUS
  <2>2. k \in DOMAIN d.tree
    BY <1>6, <1>8
  <2>3. Sound(n) /\ n.tree = d.tree /\ Head(n.lru) = k
    BY <1>4, <2>1, <2>2, TouchSound, TouchTop DEF Sound
  <2>4. Pushable(n, k)
    BY <1>8, <2>2, <2>3 DEF Pushable, Sound, HasNoEmptyList
  <2> QED  BY <1>8, <2>1, <2>3, <2>4, PushNodeAck
<1>9. ASSUME rc = "DONE", d.tree[k].type = "list", PushNode(dir, k, v, ResetList(d, k))
      PROVE  AckedWriteStored'
  <2>1. PICK n : n = ResetList(d, k)
    OBVIOUS
  <2>2. k \in DOMAIN d.tree
    BY <1>6, <1>9
  <2>3. Pushable(n, k)
    BY <1>4, <1>9, <2>1, <2>2, ResetListPushable
  <2>4. Head(n.lru) = k
    <3>1. /\ d = [tree |-> d.tree, lru |-> d.lru, used |-> d.used]
          /\ k \in Key /\ d.lru \in Seq(Key) /\ IsInjective(d.lru)
      BY <1>4 DEF Sound, Consistent, IsDict, LruExact
    <3>2. PICK u : u = Release(d.used, ItemBlocks(d.tree[k]))
      OBVIOUS
    <3>3. PICK q : q = Cons(k, RemoveFirst(d.lru, k))
      OBVIOUS
    <3>4. Head(q) = k
      BY <3>1, <3>3, RemoveFirstExact, HeadOfCons
    <3>5. FreeItems(d, k) = [tree |-> d.tree, lru |-> d.lru, used |-> u]
      BY <3>1, <3>2 DEF FreeItems
    <3>6. Touch(FreeItems(d, k), k) = [tree |-> d.tree, lru |-> q, used |-> u]
      BY <3>3, <3>5 DEF Touch
    <3>7. n.lru = q
      BY <2>1, <3>6 DEF ResetList, Update
    <3> QED  BY <3>4, <3>7
  <2> QED  BY <1>9, <2>1, <2>3, <2>4, PushNodeAck
<1>10. ASSUME rc = "DECLINED" \/ (rc = "DONE" /\ d.tree[k].type # "list"),
              NEW b \in Free(bare.used, ListClass),
              PushNode(dir, k, v, Insert(bare, k, EmptyList(b)))
       PROVE  AckedWriteStored'
  <2>1. Sound(bare) /\ k \notin DOMAIN bare.tree
    <3>1. CASE rc = "DECLINED"
      BY <1>4, <1>6, <3>1
    <3>2. CASE rc = "DONE" /\ d.tree[k].type # "list"
      <4>1. k \in DOMAIN d.tree
        BY <1>6, <3>2
      <4>2. d.tree[k].items = <<>>
        BY <1>4, <3>2, <4>1 DEF Sound, Consistent, LenExact
      <4>3. PICK n : n = DropNode(d, k)
        OBVIOUS
      <4>4. Consistent(n) /\ Keeps(n, d) /\ k \notin DOMAIN n.tree
        BY <1>4, <4>1, <4>2, <4>3, DropNodeConsistent DEF Sound
      <4> QED  BY <1>4, <3>2, <4>3, <4>4, KeepsSound
    <3> QED  BY <1>10, <3>1, <3>2
  <2> HIDE DEF bare
  <2>2. PICK n : n = Insert(bare, k, EmptyList(b))
    OBVIOUS
  <2>3. Pushable(n, k)
    BY <2>1, <2>2, <1>10, NewListPushable
  <2>4. Head(n.lru) = k
    <3>1. PICK l : l = EmptyList(b)
      OBVIOUS
    <3>2. n = Insert(bare, k, l)
      BY <2>2, <3>1
    <3> QED  BY <2>1, <3>2, InsertTop DEF Sound
  <2> QED  BY <1>10, <2>2, <2>3, <2>4, PushNodeAck
<1> HIDE DEF bare
<1> QED  BY <1>7, <1>8, <1>9, <1>10, AckFail

-----------------------------------------------------------------------------

\* The calls that write nothing.
LEMMA ReadAck ==
  ASSUME NEW k, NEW t, NEW stale, NEW room, NEW dir \in PopOps, NEW ttl, NEW t0,
         \/ Get(k, stale, room, t) \/ SetExpire(k, ttl, t0, t) \/ GetTtl(k, t)
         \/ Pop(dir, k, room, t) \/ Llen(k, t) \/ FlushAll(t)
  PROVE  AckedWriteStored'
<1>1. \A op \in PopOps \cup {"get", "llen", "flush_all", "set_expire", "get_ttl"} :
         op \notin Writes
  BY DEF Writes, StoreOps, SafeOps, AddOps, PushOps, PopOps
<1>2. CASE Get(k, stale, room, t)
  <2>1. PICK e : e = dict.tree[k]
    OBVIOUS
  <2>2. PICK num : num = IF LookupRc(dict, k, t) = "DONE" THEN 1 ELSE 0
    OBVIOUS
  <2>3. \/ Return("get", k, "OK", Nil, 0, FALSE)
        \/ Fail("get", k, "ERROR")
        \/ Return("get", k, "OK", [type |-> e.type, len |-> e.len, data |-> e.data], num, FALSE)
    BY <1>2, <2>1, <2>2, Zenon DEF Get
  <2> QED  BY <1>1, <2>3, AckFail, AckRead, Zenon
<1>3. CASE SetExpire(k, ttl, t0, t)
  BY <1>3, AckFail, AckNothing, Zenon DEF SetExpire
<1>4. CASE GetTtl(k, t)
  BY <1>4, AckNothing, Zenon DEF GetTtl
<1>5. CASE Pop(dir, k, room, t)
  <2>1. Fail(dir, k, "ERROR") \/ \E val, num : Return(dir, k, "OK", val, num, FALSE)
    BY <1>5, Zenon DEF Pop
  <2> QED  BY <1>1, <2>1, AckFail, AckRead, Zenon
<1>6. CASE Llen(k, t)
  BY <1>6, AckFail, AckNothing, Zenon DEF Llen
<1>7. CASE FlushAll(t)
  BY <1>7, AckNothing, Zenon DEF FlushAll
<1> QED  BY <1>2, <1>3, <1>4, <1>5, <1>6, <1>7

LEMMA NextAck == IInv /\ AckedWriteStored /\ [Next]_vars => AckedWriteStored'
<1> SUFFICES ASSUME IInv, AckedWriteStored, [Next]_vars PROVE AckedWriteStored'
  OBVIOUS
<1>1. ASSUME NEW t \in Reads PROVE t \in Time /\ t \in Nat
  BY <1>1, ShdictAssumption DEF Reads
<1>2. ASSUME NEW t0 \in Before PROVE t0 \in Time
  BY <1>2 DEF Before
<1>3. ASSUME NEW k \in Key, NEW t \in Reads, ScalarStep(k, t) PROVE AckedWriteStored'
  BY <1>1, <1>2, <1>3, StoreAck, IncrAck, ReadAck DEF ScalarStep, PopOps
<1>4. ASSUME NEW k \in Key, NEW t \in Reads, ListStep(k, t) PROVE AckedWriteStored'
  BY <1>1, <1>4, PushAck, ReadAck DEF ListStep, PopOps
<1>5. ASSUME NEW t \in Reads, FlushAll(t) PROVE AckedWriteStored'
  BY <1>5, ReadAck DEF PopOps
<1>6. ASSUME EvictStep PROVE AckedWriteStored'
  BY <1>1, <1>6, EvictAck DEF EvictStep
<1>7. CASE Tick \/ UNCHANGED vars
  BY <1>7 DEF Tick, vars, AckedWriteStored
<1> QED  BY <1>3, <1>4, <1>5, <1>6, <1>7 DEF Next

\* A write that set, add, replace, incr, a safe store or a push reports is in the
\* dictionary, whatever was evicted for it.
THEOREM AckedIsStored == Spec => []AckedWriteStored
<1>1. Init => AckedWriteStored
  BY DEF Init, AckedWriteStored, StoreOps, SafeOps, AddOps, PushOps
<1>2. IInv /\ AckedWriteStored /\ [Next]_vars => AckedWriteStored'
  BY NextAck
<1> QED  BY <1>1, <1>2, Invariance, PTL DEF Spec

-----------------------------------------------------------------------------
(* What fails spoils nothing *)

\* The step is the failure of a call other than a store without memory.
Failed ==
    /\ call' = None
    /\ \/ ret'.rc \in {"ERROR", "DECLINED"}
       \/ ret'.rc = "NOMEM" /\ ret'.op \in PushOps

\* Nothing is gone or changed that had not expired.
ValuesKept ==
    \A k \in DOMAIN dict.tree :
        \/ Reclaimable(dict.tree[k], now) \/ Expired(dict.tree[k], now')
        \/ k \in DOMAIN dict'.tree /\ dict'.tree[k] = dict.tree[k]

\* From e to n, nothing but k is gone or changed.
KeepsOthers(n, e, k) ==
    \A x \in DOMAIN e.tree \ {k} : x \in DOMAIN n.tree /\ n.tree[x] = e.tree[x]

-----------------------------------------------------------------------------
(* Returns *)

LEMMA ReturnFields ==
  ASSUME NEW op, NEW k, NEW rc, NEW val, NEW num, NEW forcible,
         Return(op, k, rc, val, num, forcible)
  PROVE  ret'.rc = rc /\ ret'.op = op
  BY DEF Return

LEMMA SuccessIsNoFailure ==
  ASSUME NEW op, NEW k, NEW val, NEW num, NEW forcible,
         Return(op, k, "OK", val, num, forcible)
  PROVE  ~Failed
<1>1. ret'.rc = "OK"
  BY ReturnFields, Zenon
<1> QED  BY <1>1 DEF Failed

\* The failure that is excepted.
LEMMA StoreNoMemory ==
  ASSUME NEW op, op \notin PushOps, NEW k, NEW val, NEW num, NEW forcible,
         Return(op, k, "NOMEM", val, num, forcible)
  PROVE  ~Failed
<1>1. ret'.rc = "NOMEM" /\ ret'.op = op
  BY ReturnFields, Zenon
<1> QED  BY <1>1 DEF Failed

LEMMA OpsApart ==
  /\ \A op \in StoreOps \cup {"incr"} : op \notin PushOps
  /\ SafeOps \subseteq StoreOps
  BY DEF StoreOps, SafeOps, AddOps, PushOps

\* A new entry, or none: not a failure, or the one that is excepted.
LEMMA AllocateNoFailure ==
  ASSUME NEW c \in Call, NEW d, NEW t, Allocate(c, d, t) PROVE ~Failed
<1>1. c.op \notin PushOps /\ c # None
  BY OpsApart, NoneAssumption DEF Call
<1>2. \/ Return(c.op, c.key, "OK", c.val, 0, c.tries > 0)
      \/ Fail(c.op, c.key, "NOMEM")
      \/ call' = c
  BY Zenon DEF Allocate
<1>3. CASE Return(c.op, c.key, "OK", c.val, 0, c.tries > 0)
  BY <1>3, SuccessIsNoFailure, Zenon
<1>4. CASE Fail(c.op, c.key, "NOMEM")
  BY <1>1, <1>4, StoreNoMemory, Zenon DEF Fail
<1>5. CASE call' = c
  BY <1>1, <1>5 DEF Failed
<1> QED  BY <1>2, <1>3, <1>4, <1>5

LEMMA EvictNoFailure == ASSUME IInv, NEW t, Evict(t) PROVE ~Failed
<1>1. call \in Call /\ call.op \notin PushOps
  <2>1. call \in Call
    BY DEF IInv, CallSound, Evict
  <2> QED  BY <2>1, OpsApart DEF Call
<1>2. CASE Return(call.op, call.key, "NOMEM", Nil, 0, call.tries > 0)
  BY <1>1, <1>2, StoreNoMemory, Zenon
<1>3. CASE /\ call.tries < MaxEvict
           /\ Allocate([call EXCEPT !.tries = call.tries + 1], ExpireForced(dict, now), t)
  <2>1. PICK c : c = [call EXCEPT !.tries = call.tries + 1]
    OBVIOUS
  <2>2. c \in Call
    BY <1>1, <1>3, <2>1, ShdictAssumption DEF Call
  <2>3. PICK d : d = ExpireForced(dict, now)
    OBVIOUS
  <2> QED  BY <1>3, <2>1, <2>2, <2>3, AllocateNoFailure
<1> QED  BY <1>2, <1>3 DEF Evict

-----------------------------------------------------------------------------
(* What a failing call leaves *)

\* Two entries expired, and no more than the entry of k, which had expired too,
\* changed after that.
LEMMA ExpiredOnly ==
  ASSUME Sound(dict), NEW e, e = ExpireTwo(dict, now), NEW k, KeepsOthers(dict', e, k),
         k \in DOMAIN e.tree =>
           \/ Expired(e.tree[k], now')
           \/ k \in DOMAIN dict'.tree /\ dict'.tree[k] = e.tree[k]
  PROVE  ValuesKept
<1>1. Keeps(e, dict) /\ LosesReclaimable(e, dict, now)
  BY ExpireTwoConsistent, ExpireTwoLoses DEF Sound
<1>2. ASSUME NEW x \in DOMAIN dict.tree
      PROVE  \/ Reclaimable(dict.tree[x], now) \/ Expired(dict.tree[x], now')
             \/ x \in DOMAIN dict'.tree /\ dict'.tree[x] = dict.tree[x]
  <2>1. CASE x \notin DOMAIN e.tree
    BY <1>1, <2>1 DEF LosesReclaimable
  <2>2. CASE x \in DOMAIN e.tree
    <3>1. e.tree[x] = dict.tree[x]
      BY <1>1, <2>2 DEF Keeps
    <3>2. CASE x = k
      BY <2>2, <3>1, <3>2
    <3>3. CASE x # k
      BY <2>2, <3>1, <3>3 DEF KeepsOthers
    <3> QED  BY <3>2, <3>3
  <2> QED  BY <2>1, <2>2
<1> QED  BY <1>2 DEF ValuesKept

\* The lookup that comes next changes no entry.
LEMMA LookedUp ==
  ASSUME Sound(dict), NEW k, NEW e, e = ExpireTwo(dict, now), dict' = Lookup(e, k)
  PROVE  ValuesKept
<1>1. PICK d : d = Lookup(e, k)
  OBVIOUS
<1>2. dict' = d /\ d.tree = e.tree
  BY <1>1, AfterLookup
<1>3. KeepsOthers(dict', e, k)
  BY <1>2 DEF KeepsOthers
<1> QED  BY <1>2, <1>3, ExpiredOnly

LEMMA NothingChanged == ASSUME dict'.tree = dict.tree PROVE ValuesKept
  BY DEF ValuesKept

-----------------------------------------------------------------------------
(* The operations *)

LEMMA StoreKeeps ==
  ASSUME IInv, NEW op \in StoreOps, NEW k \in Key, NEW v \in Value \cup {Nil},
         NEW ttl \in Ttl, NEW t \in Time, Store(op, k, v, ttl, t)
  PROVE  Failed => ValuesKept
<1>1. Sound(dict)
  BY AtRest DEF Store
<1>2. PICK e : e = ExpireTwo(dict, now)
  OBVIOUS
<1>3. PICK d : d = Lookup(e, k)
  OBVIOUS
<1> DEFINE c == [op |-> op, key |-> k, val |-> v, ttl |-> ttl, base |-> 0, tries |-> 0]
<1>4. \/ dict' = dict
      \/ dict' = d
      \/ Return(op, k, "OK", v, 0, FALSE)
      \/ Return(op, k, "OK", Nil, 0, FALSE)
      \/ v # Nil /\ Allocate(c, Without(d, k), t)
  BY <1>2, <1>3 DEF Store
<1>5. ASSUME v # Nil, Allocate(c, Without(d, k), t) PROVE ~Failed
  <2>1. c \in Call
    <3>1. v \in Value
      BY <1>5
    <3> QED  BY <3>1, ValueOK, ShdictAssumption DEF Call, Storable
  <2>2. PICK w : w = Without(d, k)
    OBVIOUS
  <2> HIDE DEF c
  <2> QED  BY <1>5, <2>1, <2>2, AllocateNoFailure
<1> HIDE DEF c
<1>6. CASE dict' = dict
  BY <1>6, NothingChanged
<1>7. CASE dict' = d
  BY <1>1, <1>2, <1>3, <1>7, LookedUp
<1>8. CASE Return(op, k, "OK", v, 0, FALSE) \/ Return(op, k, "OK", Nil, 0, FALSE)
  BY <1>8, SuccessIsNoFailure, Zenon
<1> QED  BY <1>4, <1>5, <1>6, <1>7, <1>8

LEMMA IncrKeeps ==
  ASSUME IInv, NEW k \in Key, NEW by \in By, NEW init \in By \cup {None},
         NEW ttl \in Ttl, NEW t0 \in Time, NEW t \in Time,
         Incr(k, by, init, ttl, t0, t)
  PROVE  Failed => ValuesKept
<1>1. Sound(dict)
  BY AtRest DEF Incr
<1>2. PICK e : e = ExpireTwo(dict, now)
  OBVIOUS
<1>3. PICK d : d = Lookup(e, k)
  OBVIOUS
<1> DEFINE sum == Number(by + init)
           c == [op |-> "incr", key |-> k, val |-> sum, ttl |-> ttl, base |-> t0,
                 tries |-> 0]
<1>4. \/ dict' = d
      \/ \E val : Return("incr", k, "OK", val, 0, FALSE)
      \/ init # None /\ Allocate(c, Without(d, k), t)
  BY <1>2, <1>3 DEF Incr
<1>5. ASSUME init # None, Allocate(c, Without(d, k), t) PROVE ~Failed
  <2>1. c \in Call
    <3>1. by + init \in Int /\ ttl \in Nat /\ t0 \in Nat
      BY <1>5, ShdictAssumption
    <3>2. sum \in Storable /\ sum.len \in Lengths
      BY <3>1, NumberOK
    <3> HIDE DEF sum
    <3> QED  BY <3>1, <3>2, ShdictAssumption DEF Call, Storable
  <2>2. PICK w : w = Without(d, k)
    OBVIOUS
  <2> HIDE DEF c
  <2> QED  BY <1>5, <2>1, <2>2, AllocateNoFailure
<1> HIDE DEF c
<1>6. CASE dict' = d
  BY <1>1, <1>2, <1>3, <1>6, LookedUp
<1>7. CASE \E val : Return("incr", k, "OK", val, 0, FALSE)
  BY <1>7, SuccessIsNoFailure, Zenon
<1> QED  BY <1>4, <1>5, <1>6, <1>7

LEMMA GetKeeps ==
  ASSUME IInv, NEW k \in Key, NEW stale, NEW room, NEW t \in Time, Get(k, stale, room, t)
  PROVE  ValuesKept
<1>1. Sound(dict) /\ dict' = Lookup(dict, k)
  BY AtRest DEF Get
<1> QED  BY <1>1, LookupSound, NothingChanged

LEMMA SetExpireKeeps ==
  ASSUME NEW k, NEW ttl, NEW t0, NEW t, SetExpire(k, ttl, t0, t)
  PROVE  Failed => ValuesKept
<1>1. dict' = dict \/ Return("set_expire", k, "OK", Nil, 0, FALSE)
  BY DEF SetExpire
<1>2. CASE Return("set_expire", k, "OK", Nil, 0, FALSE)
  BY <1>2, SuccessIsNoFailure, Zenon
<1> QED  BY <1>1, <1>2, NothingChanged

\* A push frees the list only if it has no nodes: one that had some is kept.
LEMMA PushNodeFails ==
  ASSUME NEW d, NEW k \in DOMAIN d.tree, NEW dir, NEW v, PushNode(dir, k, v, d)
  PROVE  Failed => dict' = IF d.tree[k].len = 0 THEN DropNode(d, k) ELSE d
<1>1. \/ \E val, num : Return(dir, k, "OK", val, num, FALSE)
      \/ dict' = IF d.tree[k].len = 0 THEN DropNode(d, k) ELSE d
  BY DEF PushNode
<1>2. CASE \E val, num : Return(dir, k, "OK", val, num, FALSE)
  BY <1>2, SuccessIsNoFailure, Zenon
<1> QED  BY <1>1, <1>2

LEMMA DropKeepsOthers == ASSUME NEW d, NEW k PROVE KeepsOthers(DropNode(d, k), d, k)
  BY DEF DropNode, KeepsOthers

LEMMA ResetListKeepsOthers ==
  ASSUME NEW d, Sound(d), NEW k \in DOMAIN d.tree, NEW n, n = ResetList(d, k)
  PROVE  k \in DOMAIN n.tree /\ n.tree[k].len = 0 /\ KeepsOthers(n, d, k)
<1>1. d = [tree |-> d.tree, lru |-> d.lru, used |-> d.used]
  BY DEF Sound, Consistent, IsDict
<1>2. PICK u : u = Release(d.used, ItemBlocks(d.tree[k]))
  OBVIOUS
<1>3. PICK q : q = Cons(k, RemoveFirst(d.lru, k))
  OBVIOUS
<1>4. FreeItems(d, k) = [tree |-> d.tree, lru |-> d.lru, used |-> u]
  BY <1>1, <1>2 DEF FreeItems
<1>5. Touch(FreeItems(d, k), k) = [tree |-> d.tree, lru |-> q, used |-> u]
  BY <1>3, <1>4 DEF Touch
<1>6. PICK f : f = EmptyList(d.tree[k].block)
  OBVIOUS
<1>7. n = [tree |-> [d.tree EXCEPT ![k] = f], lru |-> q, used |-> u]
  BY <1>5, <1>6 DEF ResetList, Update
<1>8. f.len = 0
  BY <1>6 DEF EmptyList, NewEntry
<1>9. /\ DOMAIN n.tree = DOMAIN d.tree /\ n.tree[k] = f
      /\ \A x \in DOMAIN d.tree \ {k} : n.tree[x] = d.tree[x]
  BY <1>7
<1> QED  BY <1>8, <1>9 DEF KeepsOthers

LEMMA PushKeeps ==
  ASSUME IInv, NEW dir \in PushOps, NEW k \in Key, NEW v \in Value, NEW t \in Time,
         Push(dir, k, v, t)
  PROVE  Failed => ValuesKept
<1>1. Sound(dict) /\ now' = t
  BY AtRest DEF Push, Begin
<1>2. PICK e : e = ExpireTwo(dict, now)
  OBVIOUS
<1>3. PICK d : d = Lookup(e, k)
  OBVIOUS
<1>4. Sound(d) /\ d.tree = e.tree
  BY <1>1, <1>2, <1>3, AfterLookup
<1>5. PICK rc : rc = LookupRc(e, k, t)
  OBVIOUS
<1>6. /\ rc = "DECLINED" <=> k \notin DOMAIN d.tree
      /\ rc = "DONE" => Expired(e.tree[k], now')
      /\ rc \in {"OK", "DONE"} => k \in DOMAIN d.tree
  BY <1>1, <1>4, <1>5 DEF LookupRc
<1>7. PICK bare : bare = IF rc = "DONE" THEN DropNode(d, k) ELSE d
  OBVIOUS
<1>8. \/ dict' = dict
      \/ dict' = d
      \/ rc = "OK" /\ d.tree[k].type = "list" /\ PushNode(dir, k, v, Touch(d, k))
      \/ rc = "DONE" /\ PushNode(dir, k, v, ResetList(d, k))
      \/ /\ rc \in {"DECLINED", "DONE"}
         /\ \/ \E b : PushNode(dir, k, v, Insert(bare, k, EmptyList(b)))
            \/ dict' = bare
  BY <1>2, <1>3, <1>5, <1>7 DEF Push
<1>9. CASE dict' = dict
  BY <1>9, NothingChanged
<1>10. CASE dict' = d
  BY <1>1, <1>2, <1>3, <1>10, LookedUp
<1>11. ASSUME rc = "OK", d.tree[k].type = "list", PushNode(dir, k, v, Touch(d, k)), Failed
       PROVE  ValuesKept
  <2>1. PICK n : n = Touch(d, k)
    OBVIOUS
  <2>2. k \in DOMAIN d.tree
    BY <1>6, <1>11
  <2>3. n.tree = d.tree
    BY <1>4, <2>1, <2>2, TouchSound
  <2>4. d.tree[k].len # 0
    <3>1. d.tree[k].items \in Seq(Item) /\ d.tree[k].items # <<>>
      BY <1>4, <1>11, <2>2 DEF Sound, Consistent, IsDict, HasNoEmptyList, Entry
    <3>2. d.tree[k].len = Len(d.tree[k].items)
      BY <1>4, <1>11, <2>2 DEF Sound, Consistent, LenExact
    <3> QED  BY <3>1, <3>2
  <2>5. dict' = n
    BY <1>11, <2>1, <2>2, <2>3, <2>4, PushNodeFails
  <2>6. KeepsOthers(dict', e, k)
    BY <1>4, <2>3, <2>5 DEF KeepsOthers
  <2> QED  BY <1>1, <1>2, <1>4, <2>3, <2>5, <2>6, ExpiredOnly
<1>12. ASSUME rc \in {"DECLINED", "DONE"}, KeepsOthers(dict', d, k) PROVE ValuesKept
  <2>1. KeepsOthers(dict', e, k)
    BY <1>4, <1>12 DEF KeepsOthers
  <2>2. k \in DOMAIN e.tree => Expired(e.tree[k], now')
    BY <1>4, <1>6, <1>12
  <2> QED  BY <1>1, <1>2, <2>1, <2>2, ExpiredOnly
<1>13. ASSUME NEW n, KeepsOthers(n, d, k), k \in DOMAIN n.tree, n.tree[k].len = 0,
              PushNode(dir, k, v, n), Failed
       PROVE  KeepsOthers(dict', d, k)
  <2>1. dict' = DropNode(n, k)
    BY <1>13, PushNodeFails
  <2>2. KeepsOthers(dict', n, k)
    BY <2>1, DropKeepsOthers
  <2> QED  BY <1>13, <2>2 DEF KeepsOthers
<1>14. ASSUME rc = "DONE", PushNode(dir, k, v, ResetList(d, k)), Failed PROVE ValuesKept
  <2>1. PICK n : n = ResetList(d, k)
    OBVIOUS
  <2>2. k \in DOMAIN n.tree /\ n.tree[k].len = 0 /\ KeepsOthers(n, d, k)
    BY <1>4, <1>6, <1>14, <2>1, ResetListKeepsOthers
  <2> QED  BY <1>12, <1>13, <1>14, <2>1, <2>2
<1>15. KeepsOthers(bare, d, k)
  BY <1>7, DropKeepsOthers DEF KeepsOthers
<1>16. ASSUME rc \in {"DECLINED", "DONE"}, NEW b,
              PushNode(dir, k, v, Insert(bare, k, EmptyList(b))), Failed
       PROVE  ValuesKept
  <2>1. PICK f : f = EmptyList(b)
    OBVIOUS
  <2>2. f.len = 0
    BY <2>1 DEF EmptyList, NewEntry
  <2>3. PICK n : n = Insert(bare, k, f)
    OBVIOUS
  <2>4. n.tree[k] = f /\ k \in DOMAIN n.tree /\ KeepsOthers(n, bare, k)
    BY <2>3 DEF Insert, KeepsOthers
  <2>5. KeepsOthers(n, d, k)
    BY <1>15, <2>4 DEF KeepsOthers
  <2> QED  BY <1>12, <1>13, <1>16, <2>1, <2>2, <2>3, <2>4, <2>5
<1> QED  BY <1>8, <1>9, <1>10, <1>11, <1>12, <1>14, <1>15, <1>16

LEMMA PopKeeps ==
  ASSUME IInv, NEW dir \in PopOps, NEW k \in Key, NEW room, NEW t \in Time,
         Pop(dir, k, room, t)
  PROVE  Failed => ValuesKept
<1>1. Sound(dict)
  BY AtRest DEF Pop
<1>2. PICK e : e = ExpireTwo(dict, now)
  OBVIOUS
<1>3. dict' = Lookup(e, k) \/ \E val, num : Return(dir, k, "OK", val, num, FALSE)
  BY <1>2 DEF Pop
<1>4. CASE \E val, num : Return(dir, k, "OK", val, num, FALSE)
  BY <1>4, SuccessIsNoFailure, Zenon
<1> QED  BY <1>1, <1>2, <1>3, <1>4, LookedUp

LEMMA LlenKeeps ==
  ASSUME IInv, NEW k \in Key, NEW t \in Time, Llen(k, t) PROVE ValuesKept
<1>1. Sound(dict)
  BY AtRest DEF Llen
<1>2. PICK e : e = ExpireTwo(dict, now)
  OBVIOUS
<1> QED  BY <1>1, <1>2, LookedUp DEF Llen

LEMMA NextKeeps == ASSUME IInv, [Next]_vars PROVE Failed => ValuesKept
<1>1. ASSUME NEW t \in Reads PROVE t \in Time
  BY <1>1 DEF Reads
<1>2. ASSUME NEW t0 \in Before PROVE t0 \in Time
  BY <1>2 DEF Before
<1>3. ASSUME NEW k \in Key, NEW t \in Reads, ScalarStep(k, t)
      PROVE  Failed => ValuesKept
  <2>1. CASE GetTtl(k, t)
    BY <2>1, NothingChanged DEF GetTtl
  <2> QED
    BY <1>1, <1>2, <1>3, <2>1, StoreKeeps, GetKeeps, IncrKeeps, SetExpireKeeps
       DEF ScalarStep
<1>4. ASSUME NEW k \in Key, NEW t \in Reads, ListStep(k, t)
      PROVE  Failed => ValuesKept
  BY <1>1, <1>4, PushKeeps, PopKeeps, LlenKeeps DEF ListStep
<1>5. ASSUME NEW t \in Reads, FlushAll(t) PROVE ~Failed
  BY <1>5, SuccessIsNoFailure, Zenon DEF FlushAll
<1>6. ASSUME EvictStep PROVE ~Failed
  BY <1>6, EvictNoFailure DEF EvictStep
<1>7. CASE Tick \/ UNCHANGED vars
  BY <1>7, NothingChanged DEF Tick, vars
<1> QED  BY <1>3, <1>4, <1>5, <1>6, <1>7 DEF Next

\* A push that finds no memory, a pop or get into a short buffer, an incr of a
\* string, an add or replace that declines: none of them spoils a value.
THEOREM FailuresKeepValues == Spec => FailureKeepsValues
<1>1. IInv /\ [Next]_vars => [Failed => ValuesKept]_vars
  BY NextKeeps
<1>2. [Failed => ValuesKept]_vars <=>
      [(/\ call' = None
        /\ \/ ret'.rc \in {"ERROR", "DECLINED"}
           \/ ret'.rc = "NOMEM" /\ ret'.op \in PushOps)
       => \A k \in DOMAIN dict.tree :
            \/ Reclaimable(dict.tree[k], now) \/ Expired(dict.tree[k], now')
            \/ k \in DOMAIN dict'.tree /\ dict'.tree[k] = dict.tree[k]]_vars
  BY DEF Failed, ValuesKept
<1> QED  BY <1>1, <1>2, Invariance, PTL DEF Spec, FailureKeepsValues

-----------------------------------------------------------------------------
(* Entries leave in the order of the queue *)

\* But for k, what is in r is in s, with all that stood before it.
InOrder(r, s, k) ==
    \A x \in ToSet(r) \ {k} :
        /\ x \in ToSet(s)
        /\ \A y \in ToSet(s) \ {k} : Ahead(s, y, x) => Ahead(r, y, x)

LEMMA InOrderTransitive ==
  ASSUME NEW s, NEW r, NEW q, NEW k, InOrder(r, s, k), InOrder(q, r, k)
  PROVE  InOrder(q, s, k)
<1>1. \A x, y : Ahead(r, y, x) => y \in ToSet(r)
  BY DEF Ahead, ToSet
<1> QED  BY <1>1 DEF InOrder

LEMMA InOrderReflexive == \A s, k : InOrder(s, s, k)
  BY DEF InOrder

\* What is removed changes the places, not the order, of the others.
LEMMA AheadKept ==
  ASSUME NEW s \in Seq(Key), IsInjective(s), NEW e, NEW x, NEW y, x # e, y # e, Ahead(s, y, x)
  PROVE  Ahead(RemoveFirst(s, e), y, x)
<1>1. CASE \A i \in 1 .. Len(s) : s[i] # e
  <2>1. RemoveFirst(s, e) = s
    BY <1>1 DEF RemoveFirst
  <2> QED  BY <2>1
<1>2. CASE \E i \in 1 .. Len(s) : s[i] = e
  <2>1. PICK p \in 1 .. Len(s) : s[p] = e
    BY <1>2
  <2>2. PICK r : r = RemoveAt(s, p)
    OBVIOUS
  <2>3. RemoveFirst(s, e) = r
    BY <2>1, <2>2, RemoveFirstIsAt
  <2>4. /\ DOMAIN r = 1 .. Len(s) - 1 /\ DOMAIN s = 1 .. Len(s) /\ Len(s) \in Nat
        /\ \A i \in 1 .. Len(s) - 1 : r[i] = IF i < p THEN s[i] ELSE s[i + 1]
    <3>1. /\ r \in Seq(Key) /\ Len(r) = Len(s) - 1
          /\ \A i \in 1 .. Len(s) - 1 : r[i] = IF i < p THEN s[i] ELSE s[i + 1]
      BY <2>2, RemoveAtElements
    <3> QED  BY <3>1
  <2>5. PICK i, j \in DOMAIN s : i < j /\ s[i] = y /\ s[j] = x
    BY DEF Ahead
  <2>6. i # p /\ j # p
    BY <2>1, <2>5
  <2>7. PICK a, b : a = (IF i < p THEN i ELSE i - 1) /\ b = (IF j < p THEN j ELSE j - 1)
    OBVIOUS
  <2>8. a \in 1 .. Len(s) - 1 /\ b \in 1 .. Len(s) - 1 /\ a < b
    BY <2>4, <2>5, <2>6, <2>7
  <2>9. r[a] = y /\ r[b] = x
    <3>1. i < p => a < p /\ a = i
      BY <2>4, <2>7
    <3>2. ~(i < p) => ~(a < p) /\ a + 1 = i
      BY <2>4, <2>6, <2>7
    <3>3. j < p => b < p /\ b = j
      BY <2>4, <2>7
    <3>4. ~(j < p) => ~(b < p) /\ b + 1 = j
      BY <2>4, <2>6, <2>7
    <3>5. r[a] = s[i] /\ r[b] = s[j]
      BY <2>4, <2>8, <3>1, <3>2, <3>3, <3>4
    <3> QED  BY <2>5, <3>5
  <2> QED  BY <2>3, <2>4, <2>8, <2>9 DEF Ahead
<1> QED  BY <1>1, <1>2

\* The call's own key may leave from any place.
LEMMA RemoveInOrder ==
  ASSUME NEW s \in Seq(Key), IsInjective(s), NEW k
  PROVE  InOrder(RemoveFirst(s, k), s, k)
<1>1. ToSet(RemoveFirst(s, k)) = ToSet(s) \ {k}
  BY RemoveFirstExact
<1>2. \A x, y : x # k /\ y # k /\ Ahead(s, y, x) => Ahead(RemoveFirst(s, k), y, x)
  BY AheadKept
<1> QED  BY <1>1, <1>2 DEF InOrder

\* Any other only from the end.
LEMMA RemoveLastInOrder ==
  ASSUME NEW s \in Seq(Key), s # <<>>, IsInjective(s), NEW k
  PROVE  InOrder(RemoveFirst(s, Last(s)), s, k)
<1>1. PICK e : e = Last(s)
  OBVIOUS
<1>2. ToSet(RemoveFirst(s, e)) = ToSet(s) \ {e}
  BY RemoveFirstExact
<1>3. e = s[Len(s)] /\ Len(s) \in DOMAIN s /\ DOMAIN s = 1 .. Len(s) /\ Len(s) \in Nat
  BY <1>1 DEF Last
<1>4. ASSUME NEW x, NEW y, Ahead(s, y, x) PROVE y # e
  <2>1. PICK i, j \in DOMAIN s : i < j /\ s[i] = y /\ s[j] = x
    BY <1>4 DEF Ahead
  <2>2. i # Len(s)
    BY <1>3, <2>1
  <2> QED  BY <1>3, <2>1, <2>2 DEF IsInjective
<1>5. \A x, y : x # e /\ Ahead(s, y, x) => Ahead(RemoveFirst(s, e), y, x)
  BY <1>4, AheadKept
<1> QED  BY <1>1, <1>2, <1>5 DEF InOrder

\* And the own key comes to the head.
LEMMA ConsInOrder ==
  ASSUME NEW s \in Seq(Key), NEW k \in Key
  PROVE  InOrder(Cons(k, s), s, k)
<1>1. PICK c : c = Cons(k, s)
  OBVIOUS
<1>2. /\ DOMAIN c = 1 .. Len(s) + 1 /\ DOMAIN s = 1 .. Len(s) /\ Len(s) \in Nat
      /\ \A i \in 1 .. Len(s) + 1 : c[i] = IF i = 1 THEN k ELSE s[i - 1]
  <2>1. /\ c \in Seq(Key) /\ Len(c) = Len(s) + 1 /\ Len(s) \in Nat
        /\ \A i \in 1 .. Len(s) + 1 : c[i] = IF i = 1 THEN k ELSE s[i - 1]
    BY <1>1 DEF Cons
  <2> QED  BY <2>1
<1>3. ASSUME NEW x \in ToSet(c) \ {k} PROVE x \in ToSet(s)
  <2>1. PICK i \in DOMAIN c : c[i] = x
    BY DEF ToSet
  <2>2. i # 1
    BY <1>2, <2>1
  <2>3. i - 1 \in DOMAIN s /\ s[i - 1] = x
    BY <1>2, <2>1, <2>2
  <2> QED  BY <2>3 DEF ToSet
<1>4. ASSUME NEW x, NEW y, Ahead(s, y, x) PROVE Ahead(c, y, x)
  <2>1. PICK i, j \in DOMAIN s : i < j /\ s[i] = y /\ s[j] = x
    BY <1>4 DEF Ahead
  <2>2. i + 1 \in DOMAIN c /\ j + 1 \in DOMAIN c /\ i + 1 < j + 1
    BY <1>2, <2>1
  <2>3. c[i + 1] = y /\ c[j + 1] = x
    BY <1>2, <2>1, <2>2
  <2> QED  BY <2>2, <2>3 DEF Ahead
<1> QED  BY <1>1, <1>3, <1>4 DEF InOrder

\* A dictionary value with a queue that holds nothing twice.
Queued(d) ==
    /\ d = [tree |-> d.tree, lru |-> d.lru, used |-> d.used]
    /\ d.lru \in Seq(Key) /\ IsInjective(d.lru)

\* n comes from d, its queue in the order of d's but for k.
Follows(n, d, k) == Queued(n) /\ InOrder(n.lru, d.lru, k)

LEMMA FollowsTransitive ==
  ASSUME NEW d, NEW e, NEW n, NEW k, Follows(e, d, k), Follows(n, e, k)
  PROVE  Follows(n, d, k)
  BY InOrderTransitive DEF Follows

LEMMA FollowsItself == ASSUME NEW d, Queued(d), NEW k PROVE Follows(d, d, k)
  BY InOrderReflexive DEF Follows

LEMMA ConsistentQueued == ASSUME NEW d, Consistent(d) PROVE Queued(d)
  BY DEF Consistent, IsDict, LruExact, Queued

LEMMA SameQueueFollows ==
  ASSUME NEW d, Queued(d), NEW tree, NEW used, NEW k
  PROVE  Follows([tree |-> tree, lru |-> d.lru, used |-> used], d, k)
<1>1. PICK n : n = [tree |-> tree, lru |-> d.lru, used |-> used]
  OBVIOUS
<1>2. n = [tree |-> n.tree, lru |-> n.lru, used |-> n.used] /\ n.lru = d.lru
  BY <1>1
<1> QED  BY <1>1, <1>2, InOrderReflexive DEF Follows, Queued

LEMMA UpdateFollows ==
  ASSUME NEW d, Queued(d), NEW x, NEW e, NEW k PROVE Follows(Update(d, x, e), d, k)
<1>1. PICK tree : tree = [d.tree EXCEPT ![x] = e]
  OBVIOUS
<1>2. d = [tree |-> d.tree, lru |-> d.lru, used |-> d.used]
  BY DEF Queued
<1>3. Update(d, x, e) = [tree |-> tree, lru |-> d.lru, used |-> d.used]
  BY <1>1, <1>2 DEF Update
<1> QED  BY <1>3, SameQueueFollows

\* used is what changes when list nodes come or go.
LEMMA UsedFollows ==
  ASSUME NEW d, Queued(d), NEW u, NEW k PROVE Follows([d EXCEPT !.used = u], d, k)
<1>1. d = [tree |-> d.tree, lru |-> d.lru, used |-> d.used]
  BY DEF Queued
<1>2. PICK n : n = [d EXCEPT !.used = u]
  OBVIOUS
<1>3. n = [tree |-> d.tree, lru |-> d.lru, used |-> u]
  BY <1>1, <1>2
<1>4. Follows(n, d, k)
  BY <1>3, SameQueueFollows
<1> QED  BY <1>2, <1>4, Zenon

LEMMA FreeItemsFollows ==
  ASSUME NEW d, Queued(d), NEW x, NEW k PROVE Follows(FreeItems(d, x), d, k)
<1>1. PICK u : u = Release(d.used, ItemBlocks(d.tree[x]))
  OBVIOUS
<1>2. FreeItems(d, x) = [d EXCEPT !.used = u]
  BY <1>1 DEF FreeItems
<1> QED  BY <1>2, UsedFollows

LEMMA DropNodeFollows ==
  ASSUME NEW d, Queued(d), NEW k PROVE Follows(DropNode(d, k), d, k)
<1>1. PICK n : n = DropNode(d, k)
  OBVIOUS
<1>2. n = [tree |-> n.tree, lru |-> n.lru, used |-> n.used]
      /\ n.lru = RemoveFirst(d.lru, k)
  BY <1>1 DEF DropNode
<1>3. n.lru \in Seq(Key) /\ IsInjective(n.lru)
  BY <1>2, RemoveFirstExact DEF Queued
<1> QED  BY <1>1, <1>2, <1>3, RemoveInOrder DEF Follows, Queued

LEMMA FreeEntryFollows ==
  ASSUME NEW d, Queued(d), NEW k PROVE Follows(FreeEntry(d, k), d, k)
<1>1. PICK f : f = FreeItems(d, k)
  OBVIOUS
<1>2. Follows(f, d, k)
  BY <1>1, FreeItemsFollows
<1>3. Follows(DropNode(f, k), f, k)
  BY <1>2, DropNodeFollows DEF Follows
<1> QED  BY <1>1, <1>2, <1>3, FollowsTransitive DEF FreeEntry

\* The last of the queue may leave, whatever the key of the call.
LEMMA FreeLastFollows ==
  ASSUME NEW d, Queued(d), d.lru # <<>>, NEW k
  PROVE  Follows(FreeEntry(d, Last(d.lru)), d, k)
<1>1. PICK e : e = Last(d.lru)
  OBVIOUS
<1>2. PICK f : f = FreeItems(d, e)
  OBVIOUS
<1>3. f.lru = d.lru
  <2>1. PICK u : u = Release(d.used, ItemBlocks(d.tree[e]))
    OBVIOUS
  <2>2. d = [tree |-> d.tree, lru |-> d.lru, used |-> d.used]
    BY DEF Queued
  <2>3. [d EXCEPT !.used = u].lru = d.lru
    BY <2>2
  <2> QED  BY <1>2, <2>1, <2>3 DEF FreeItems
<1>4. FreeEntry(d, e).lru = RemoveFirst(d.lru, e)
  BY <1>2, <1>3 DEF FreeEntry, DropNode
<1>5. InOrder(RemoveFirst(d.lru, e), d.lru, k)
  BY <1>1, RemoveLastInOrder DEF Queued
<1> QED  BY <1>1, <1>4, <1>5, FreeEntryFollows DEF Follows

LEMMA TouchFollows ==
  ASSUME NEW d, Queued(d), NEW k \in Key PROVE Follows(Touch(d, k), d, k)
<1>1. PICK r : r = RemoveFirst(d.lru, k)
  OBVIOUS
<1>2. PICK q : q = Cons(k, r)
  OBVIOUS
<1>3. PICK n : n = Touch(d, k)
  OBVIOUS
<1>4. d = [tree |-> d.tree, lru |-> d.lru, used |-> d.used]
  BY DEF Queued
<1>5. n = [tree |-> d.tree, lru |-> q, used |-> d.used]
  BY <1>1, <1>2, <1>3, <1>4 DEF Touch
<1>6. n = [tree |-> n.tree, lru |-> n.lru, used |-> n.used] /\ n.lru = q
  BY <1>5
<1>7. r \in Seq(Key) /\ IsInjective(r) /\ ToSet(r) = ToSet(d.lru) \ {k}
  BY <1>1, RemoveFirstExact DEF Queued
<1>8. q \in Seq(Key) /\ IsInjective(q)
  BY <1>2, <1>7, ConsExact
<1>9. InOrder(r, d.lru, k) /\ InOrder(q, r, k)
  BY <1>1, <1>2, <1>7, RemoveInOrder, ConsInOrder DEF Queued
<1> QED  BY <1>3, <1>6, <1>8, <1>9, InOrderTransitive DEF Follows, Queued

LEMMA LookupFollows ==
  ASSUME NEW d, Queued(d), NEW k \in Key PROVE Follows(Lookup(d, k), d, k)
  BY TouchFollows, FollowsItself DEF Lookup

LEMMA WithoutFollows ==
  ASSUME NEW d, Queued(d), NEW k PROVE Follows(Without(d, k), d, k)
  BY FreeEntryFollows, FollowsItself DEF Without

LEMMA InsertFollows ==
  ASSUME NEW d, Queued(d), NEW k \in Key, k \notin ToSet(d.lru), NEW e
  PROVE  Follows(Insert(d, k, e), d, k)
<1>1. PICK n : n = Insert(d, k, e)
  OBVIOUS
<1>2. n = [tree |-> n.tree, lru |-> n.lru, used |-> n.used] /\ n.lru = Cons(k, d.lru)
  BY <1>1 DEF Insert
<1>3. n.lru \in Seq(Key) /\ IsInjective(n.lru)
  BY <1>2, ConsExact DEF Queued
<1> QED  BY <1>1, <1>2, <1>3, ConsInOrder DEF Follows, Queued

LEMMA ReclaimTailFollows ==
  ASSUME NEW d, Queued(d), NEW t, NEW k PROVE Follows(ReclaimTail(d, t), d, k)
  BY FreeLastFollows, FollowsItself DEF ReclaimTail

LEMMA ExpireTwoFollows ==
  ASSUME NEW d, Queued(d), NEW t, NEW k PROVE Follows(ExpireTwo(d, t), d, k)
<1>1. PICK r : r = ReclaimTail(d, t)
  OBVIOUS
<1>2. Follows(r, d, k)
  BY <1>1, ReclaimTailFollows
<1>3. Follows(ReclaimTail(r, t), r, k)
  BY <1>2, ReclaimTailFollows DEF Follows
<1> QED  BY <1>1, <1>2, <1>3, FollowsTransitive DEF ExpireTwo

LEMMA ExpireForcedFollows ==
  ASSUME NEW d, Queued(d), NEW t, NEW k PROVE Follows(ExpireForced(d, t), d, k)
<1>1. CASE d.lru = <<>>
  BY <1>1, FollowsItself DEF ExpireForced
<1>2. CASE d.lru # <<>>
  <2>1. PICK f : f = FreeEntry(d, Last(d.lru))
    OBVIOUS
  <2>2. Follows(f, d, k)
    BY <1>2, <2>1, FreeLastFollows
  <2>3. Follows(ExpireTwo(f, t), f, k)
    BY <2>2, ExpireTwoFollows DEF Follows
  <2> QED  BY <1>2, <2>1, <2>2, <2>3, FollowsTransitive DEF ExpireForced
<1> QED  BY <1>1, <1>2

-----------------------------------------------------------------------------
(* Every step keeps the order *)

Ordered == InOrder(dict'.lru, dict.lru, StepKey)

\* The step is one of a call for k, which it ends or leaves in its loop.
ServesKey(k) ==
    \/ call' = None /\ ret'.key = k
    \/ call' # None /\ call'.key = k

LEMMA CallOrdered ==
  ASSUME call = None, NEW k, ServesKey(k), InOrder(dict'.lru, dict.lru, k)
  PROVE  Ordered
  BY DEF Ordered, StepKey, ServesKey

LEMMA ReturnServesKey ==
  ASSUME NEW op, NEW k, NEW rc, NEW val, NEW num, NEW forcible,
         Return(op, k, rc, val, num, forcible)
  PROVE  ServesKey(k)
  BY DEF Return, ServesKey

LEMMA FailServesKey == ASSUME NEW op, NEW k, NEW rc, Fail(op, k, rc) PROVE ServesKey(k)
  BY ReturnServesKey DEF Fail

LEMMA SameQueueOrdered == ASSUME dict'.lru = dict.lru PROVE Ordered
  BY InOrderReflexive DEF Ordered

LEMMA AllocateFollows ==
  ASSUME NEW c \in Call, NEW d, Queued(d), NEW t, Allocate(c, d, t)
  PROVE  InOrder(dict'.lru, d.lru, c.key) /\ ServesKey(c.key)
<1>1. CASE dict' = d
  <2>1. ServesKey(c.key)
    <3>1. ASSUME call' = c PROVE ServesKey(c.key)
      BY <3>1, NoneAssumption DEF ServesKey
    <3>2. ASSUME NEW b, Return(c.op, c.key, "OK", c.val, 0, c.tries > 0) PROVE ServesKey(c.key)
      BY <3>2, ReturnServesKey
    <3> QED  BY <3>1, <3>2, FailServesKey DEF Allocate
  <2> QED  BY <1>1, <2>1, InOrderReflexive
<1>2. CASE dict' # d
  <2>1. PICK b, x : /\ dict' = Insert(d, c.key, NewEntry(c.val, x, b))
                    /\ Return(c.op, c.key, "OK", c.val, 0, c.tries > 0)
    BY <1>2 DEF Allocate
  <2>2. ServesKey(c.key)
    BY <2>1, ReturnServesKey
  <2>3. PICK e : e = NewEntry(c.val, x, b)
    OBVIOUS
  <2>4. dict' = Insert(d, c.key, e)
    BY <2>1, <2>3
  <2>5. dict'.lru = Cons(c.key, d.lru)
    BY <2>4 DEF Insert
  <2>6. c.key \in Key
    BY DEF Call
  <2> QED  BY <2>2, <2>5, <2>6, ConsInOrder DEF Queued
<1> QED  BY <1>1, <1>2

LEMMA EvictOrdered == ASSUME IInv, NEW t \in Nat, Evict(t) PROVE Ordered
<1>1. call \in Call /\ call # None /\ Queued(dict)
  BY ConsistentQueued DEF IInv, CallSound, Sound, Evict
<1>2. CASE dict' = dict
  BY <1>2, SameQueueOrdered
<1>3. CASE /\ call.tries < MaxEvict
           /\ Allocate([call EXCEPT !.tries = call.tries + 1], ExpireForced(dict, now), t)
  <2>1. PICK c : c = [call EXCEPT !.tries = call.tries + 1]
    OBVIOUS
  <2>2. c \in Call /\ c.key = call.key
    BY <1>1, <1>3, <2>1, ShdictAssumption DEF Call
  <2>3. PICK d : d = ExpireForced(dict, now)
    OBVIOUS
  <2>4. Follows(d, dict, call.key)
    BY <1>1, <2>3, ExpireForcedFollows
  <2>5. Allocate(c, d, t)
    BY <1>3, <2>1, <2>3
  <2>6. InOrder(dict'.lru, d.lru, call.key)
    BY <2>2, <2>4, <2>5, AllocateFollows DEF Follows
  <2> QED  BY <1>1, <2>4, <2>6, InOrderTransitive DEF Follows, Ordered, StepKey
<1> QED  BY <1>2, <1>3 DEF Evict

\* The queue of the calls that expire two entries and look their key up.
LEMMA LookupOrder ==
  ASSUME Sound(dict), NEW k \in Key, NEW d, d = Lookup(ExpireTwo(dict, now), k)
  PROVE  Follows(d, dict, k)
<1>1. PICK e : e = ExpireTwo(dict, now)
  OBVIOUS
<1>2. Follows(e, dict, k)
  BY <1>1, ConsistentQueued, ExpireTwoFollows DEF Sound
<1>3. Follows(d, e, k)
  BY <1>1, <1>2, LookupFollows DEF Follows
<1> QED  BY <1>2, <1>3, FollowsTransitive

\* Its entry rewritten, in d or after another removal of k.
LEMMA TouchUpdateFollows ==
  ASSUME NEW d, Queued(d), NEW k \in Key, NEW e
  PROVE  Follows(Update(Touch(d, k), k, e), d, k)
<1>1. PICK n : n = Touch(d, k)
  OBVIOUS
<1>2. Follows(n, d, k)
  BY <1>1, TouchFollows
<1>3. Follows(Update(n, k, e), n, k)
  BY <1>2, UpdateFollows DEF Follows
<1> QED  BY <1>1, <1>2, <1>3, FollowsTransitive

LEMMA FollowsOrdered ==
  ASSUME call = None, NEW d, NEW k, Follows(d, dict, k), Follows(dict', d, k), ServesKey(k)
  PROVE  Ordered
  BY CallOrdered, InOrderTransitive DEF Follows

LEMMA AllocateOrdered ==
  ASSUME call = None, NEW c \in Call, NEW d, Follows(d, dict, c.key), NEW w, w = Without(d, c.key), NEW t,
         Allocate(c, w, t)
  PROVE  Ordered
<1>1. Follows(w, d, c.key)
  BY WithoutFollows DEF Follows
<1>2. Follows(w, dict, c.key)
  BY <1>1, FollowsTransitive
<1>3. InOrder(dict'.lru, w.lru, c.key) /\ ServesKey(c.key)
  BY <1>1, AllocateFollows DEF Follows
<1> QED  BY <1>2, <1>3, CallOrdered, InOrderTransitive DEF Follows

LEMMA StoreOrdered ==
  ASSUME IInv, NEW op \in StoreOps, NEW k \in Key, NEW v \in Value \cup {Nil},
         NEW ttl \in Ttl, NEW t \in Time, Store(op, k, v, ttl, t)
  PROVE  Ordered
<1>1. Sound(dict) /\ call = None
  BY AtRest DEF Store
<1>2. PICK e : e = ExpireTwo(dict, now)
  OBVIOUS
<1>3. PICK d : d = Lookup(e, k)
  OBVIOUS
<1>4. Follows(d, dict, k)
  BY <1>1, <1>2, <1>3, LookupOrder
<1>5. Queued(d) /\ Follows(d, d, k)
  BY <1>4, FollowsItself DEF Follows
<1> DEFINE x == NewEntry(v, Expires(t, ttl), d.tree[k].block)
           c == [op |-> op, key |-> k, val |-> v, ttl |-> ttl, base |-> 0, tries |-> 0]
<1>6. \/ dict' = dict /\ Fail(op, k, "ERROR")
      \/ dict' = d /\ Fail(op, k, "DECLINED")
      \/ dict' = Update(Touch(d, k), k, x) /\ Return(op, k, "OK", v, 0, FALSE)
      \/ dict' = Without(d, k) /\ Return(op, k, "OK", Nil, 0, FALSE)
      \/ v # Nil /\ Allocate(c, Without(d, k), t)
  BY <1>2, <1>3, Zenon DEF Store
<1>7. c.key = k /\ (v # Nil => c \in Call)
  <2>1. ASSUME v # Nil PROVE v \in Value
    BY <2>1
  <2> QED  BY <2>1, ValueOK, ShdictAssumption DEF Call, Storable
<1> HIDE DEF c, x
<1>8. CASE dict' = dict
  BY <1>8, SameQueueOrdered
<1>9. ASSUME dict' = d, Fail(op, k, "DECLINED") PROVE Ordered
  BY <1>1, <1>4, <1>5, <1>9, FailServesKey, FollowsOrdered
<1>10. ASSUME dict' = Update(Touch(d, k), k, x), Return(op, k, "OK", v, 0, FALSE)
       PROVE  Ordered
  <2>1. Follows(dict', d, k)
    BY <1>5, <1>10, TouchUpdateFollows
  <2>2. ServesKey(k)
    BY <1>10, ReturnServesKey, Zenon
  <2> QED  BY <1>1, <1>4, <2>1, <2>2, FollowsOrdered
<1>11. ASSUME dict' = Without(d, k), Return(op, k, "OK", Nil, 0, FALSE) PROVE Ordered
  <2>1. Follows(dict', d, k)
    BY <1>5, <1>11, WithoutFollows
  <2>2. ServesKey(k)
    BY <1>11, ReturnServesKey, Zenon
  <2> QED  BY <1>1, <1>4, <2>1, <2>2, FollowsOrdered
<1>12. ASSUME v # Nil, Allocate(c, Without(d, k), t) PROVE Ordered
  BY <1>1, <1>4, <1>7, <1>12, AllocateOrdered
<1> QED  BY <1>6, <1>8, <1>9, <1>10, <1>11, <1>12

LEMMA GetOrdered ==
  ASSUME IInv, NEW k \in Key, NEW stale, NEW room, NEW t \in Time, Get(k, stale, room, t)
  PROVE  Ordered
<1>1. Sound(dict) /\ call = None /\ dict' = Lookup(dict, k)
  BY AtRest DEF Get
<1>2. Queued(dict)
  BY <1>1, ConsistentQueued DEF Sound
<1>3. Follows(dict', dict, k) /\ Follows(dict, dict, k)
  BY <1>1, <1>2, LookupFollows, FollowsItself
<1>4. ServesKey(k)
  <2>1. \/ \E val, num : Return("get", k, "OK", val, num, FALSE)
        \/ Fail("get", k, "ERROR")
    BY DEF Get
  <2>2. ASSUME NEW val, NEW num, Return("get", k, "OK", val, num, FALSE) PROVE ServesKey(k)
    BY <2>2, ReturnServesKey, Zenon
  <2> QED  BY <2>1, <2>2, FailServesKey
<1> QED  BY <1>1, <1>3, <1>4, FollowsOrdered

LEMMA IncrOrdered ==
  ASSUME IInv, NEW k \in Key, NEW by \in By, NEW init \in By \cup {None},
         NEW ttl \in Ttl, NEW t0 \in Time, NEW t \in Time,
         Incr(k, by, init, ttl, t0, t)
  PROVE  Ordered
<1>1. Sound(dict) /\ call = None
  BY AtRest DEF Incr
<1>2. PICK e : e = ExpireTwo(dict, now)
  OBVIOUS
<1>3. PICK d : d = Lookup(e, k)
  OBVIOUS
<1>4. Follows(d, dict, k)
  BY <1>1, <1>2, <1>3, LookupOrder
<1>5. Queued(d) /\ Follows(d, d, k)
  BY <1>4, FollowsItself DEF Follows
<1> DEFINE sum == Number(by + init)
           c == [op |-> "incr", key |-> k, val |-> sum, ttl |-> ttl, base |-> t0,
                 tries |-> 0]
<1>6. \/ dict' = d /\ Fail("incr", k, "ERROR")
      \/ \E f, val : /\ dict' = Update(Touch(d, k), k, f)
                     /\ Return("incr", k, "OK", val, 0, FALSE)
      \/ init # None /\ Allocate(c, Without(d, k), t)
  BY <1>2, <1>3 DEF Incr
<1>7. c.key = k /\ (init # None => c \in Call)
  <2>1. ASSUME init # None PROVE c \in Call
    <3>1. by \in Int /\ init \in Int
      <4>1. By \subseteq Int /\ init \in By
        BY <2>1, ShdictAssumption
      <4> QED  BY <4>1
    <3>2. ttl \in Nat /\ t0 \in Nat
      BY ShdictAssumption
    <3>3. sum \in Storable /\ sum.len \in Lengths
      BY <3>1, NumberOK
    <3> HIDE DEF sum
    <3> QED  BY <3>2, <3>3, ShdictAssumption DEF Call, Storable
  <2> QED  BY <2>1
<1> HIDE DEF c
<1>8. ASSUME dict' = d, Fail("incr", k, "ERROR") PROVE Ordered
  BY <1>1, <1>4, <1>5, <1>8, FailServesKey, FollowsOrdered
<1>9. ASSUME NEW f, NEW val, dict' = Update(Touch(d, k), k, f),
             Return("incr", k, "OK", val, 0, FALSE)
      PROVE  Ordered
  <2>1. Follows(dict', d, k)
    BY <1>5, <1>9, TouchUpdateFollows
  <2>2. ServesKey(k)
    BY <1>9, ReturnServesKey, Zenon
  <2> QED  BY <1>1, <1>4, <2>1, <2>2, FollowsOrdered
<1>10. ASSUME init # None, Allocate(c, Without(d, k), t) PROVE Ordered
  BY <1>1, <1>4, <1>7, <1>10, AllocateOrdered
<1> QED  BY <1>6, <1>8, <1>9, <1>10

LEMMA SetExpireOrdered ==
  ASSUME IInv, NEW k \in Key, NEW ttl \in Ttl, NEW t0 \in Time, NEW t \in Time,
         SetExpire(k, ttl, t0, t)
  PROVE  Ordered
<1>1. Sound(dict)
  BY AtRest DEF SetExpire
<1>2. dict' = dict \/ \E f : dict' = Update(dict, k, f)
  BY DEF SetExpire
<1>3. Consistent(dict)
  BY <1>1 DEF Sound
<1>4. dict'.lru = dict.lru
  <2>1. dict = [tree |-> dict.tree, lru |-> dict.lru, used |-> dict.used]
    BY <1>3 DEF Consistent, IsDict
  <2>2. ASSUME NEW f, dict' = Update(dict, k, f) PROVE dict'.lru = dict.lru
    <3>1. PICK tree : tree = [dict.tree EXCEPT ![k] = f]
      OBVIOUS
    <3>2. dict' = [tree |-> tree, lru |-> dict.lru, used |-> dict.used]
      BY <2>1, <2>2, <3>1 DEF Update
    <3> QED  BY <3>2
  <2> QED  BY <1>2, <2>2
<1> QED  BY <1>4, SameQueueOrdered

LEMMA FlushAllOrdered == ASSUME IInv, NEW t, FlushAll(t) PROVE Ordered
<1>1. Queued(dict) /\ call = None
  BY AtRest, ConsistentQueued DEF FlushAll, Begin, IInv, Sound
<1>2. PICK tree : tree = [k \in DOMAIN dict.tree |-> [dict.tree[k] EXCEPT !.expires = 1]]
  OBVIOUS
<1>3. PICK d : d = [dict EXCEPT !.tree = tree]
  OBVIOUS
<1>4. dict' = ExpireForced(d, now) /\ Return("flush_all", None, "OK", Nil, 0, FALSE)
  BY <1>2, <1>3 DEF FlushAll
<1>5. Follows(d, dict, None)
  <2>1. dict = [tree |-> dict.tree, lru |-> dict.lru, used |-> dict.used]
    BY <1>1 DEF Queued
  <2>2. d = [tree |-> tree, lru |-> dict.lru, used |-> dict.used]
    BY <1>3, <2>1
  <2> QED  BY <1>1, <2>2, SameQueueFollows
<1>6. Follows(dict', d, None)
  BY <1>4, <1>5, ExpireForcedFollows DEF Follows
<1>7. ServesKey(None)
  BY <1>4, ReturnServesKey, Zenon
<1> QED  BY <1>1, <1>5, <1>6, <1>7, FollowsOrdered

LEMMA PushNodeFollows ==
  ASSUME NEW d, Queued(d), NEW k, NEW dir, NEW v, PushNode(dir, k, v, d)
  PROVE  Follows(dict', d, k) /\ ServesKey(k)
<1> DEFINE took(f, b) == [Update(d, k, f) EXCEPT !.used = Update(d, k, f).used \cup {b}]
<1>1. \/ \E f, b, val, num : dict' = took(f, b) /\ Return(dir, k, "OK", val, num, FALSE)
      \/ dict' \in {DropNode(d, k), d} /\ Fail(dir, k, "NOMEM")
  BY DEF PushNode
<1>2. ASSUME NEW f, NEW b, NEW val, NEW num, dict' = took(f, b),
             Return(dir, k, "OK", val, num, FALSE)
      PROVE  Follows(dict', d, k) /\ ServesKey(k)
  <2>1. PICK n : n = Update(d, k, f)
    OBVIOUS
  <2>2. Follows(n, d, k)
    BY <2>1, UpdateFollows
  <2>3. PICK u : u = n.used \cup {b}
    OBVIOUS
  <2>4. dict' = [n EXCEPT !.used = u]
    BY <1>2, <2>1, <2>3
  <2>5. Follows(dict', n, k)
    BY <2>2, <2>4, UsedFollows DEF Follows
  <2> HIDE DEF took
  <2>6. ServesKey(k)
    BY <1>2, ReturnServesKey, Zenon
  <2> QED  BY <2>2, <2>5, <2>6, FollowsTransitive
<1>3. ASSUME dict' \in {DropNode(d, k), d}, Fail(dir, k, "NOMEM")
      PROVE  Follows(dict', d, k) /\ ServesKey(k)
  BY <1>3, FailServesKey, DropNodeFollows, FollowsItself
<1> HIDE DEF took
<1>4. CASE dict' \in {DropNode(d, k), d} /\ Fail(dir, k, "NOMEM")
  BY <1>3, <1>4
<1>5. CASE ~(dict' \in {DropNode(d, k), d} /\ Fail(dir, k, "NOMEM"))
  <2>1. PICK f, b, val, num : dict' = took(f, b) /\ Return(dir, k, "OK", val, num, FALSE)
    BY <1>1, <1>5, Zenon
  <2> QED  BY <1>2, <2>1, Zenon
<1> QED  BY <1>4, <1>5

LEMMA ResetListFollows ==
  ASSUME NEW d, Queued(d), NEW k \in Key PROVE Follows(ResetList(d, k), d, k)
<1>1. PICK f : f = FreeItems(d, k)
  OBVIOUS
<1>2. PICK e : e = EmptyList(d.tree[k].block)
  OBVIOUS
<1>3. Follows(f, d, k)
  BY <1>1, FreeItemsFollows
<1>4. Follows(Update(Touch(f, k), k, e), f, k)
  BY <1>3, TouchUpdateFollows DEF Follows
<1> QED  BY <1>1, <1>2, <1>3, <1>4, FollowsTransitive DEF ResetList

LEMMA PushOrdered ==
  ASSUME IInv, NEW dir \in PushOps, NEW k \in Key, NEW v \in Value, NEW t \in Time,
         Push(dir, k, v, t)
  PROVE  Ordered
<1>1. Sound(dict) /\ call = None
  BY AtRest DEF Push
<1>2. PICK e : e = ExpireTwo(dict, now)
  OBVIOUS
<1>3. PICK d : d = Lookup(e, k)
  OBVIOUS
<1>4. Follows(d, dict, k) /\ Queued(d)
  BY <1>1, <1>2, <1>3, LookupOrder DEF Follows
<1>5. Sound(d) /\ d.tree = e.tree
  BY <1>1, <1>2, <1>3, AfterLookup
<1>6. PICK rc : rc = LookupRc(e, k, t)
  OBVIOUS
<1>7. PICK bare : bare = IF rc = "DONE" THEN DropNode(d, k) ELSE d
  OBVIOUS
<1>8. \/ dict' = dict
      \/ dict' = d /\ Fail(dir, k, "ERROR")
      \/ PushNode(dir, k, v, Touch(d, k))
      \/ PushNode(dir, k, v, ResetList(d, k))
      \/ /\ rc = "DECLINED" \/ rc = "DONE"
         /\ \/ \E b : PushNode(dir, k, v, Insert(bare, k, EmptyList(b)))
            \/ dict' = bare /\ Fail(dir, k, "NOMEM")
  BY <1>2, <1>3, <1>6, <1>7 DEF Push
<1>9. CASE dict' = dict
  BY <1>9, SameQueueOrdered
<1>10. ASSUME dict' = d, Fail(dir, k, "ERROR") PROVE Ordered
  BY <1>1, <1>4, <1>10, FailServesKey, FollowsItself, FollowsOrdered
\* The item goes into what is left of d.
<1>11. ASSUME NEW n, Follows(n, d, k), PushNode(dir, k, v, n) PROVE Ordered
  <2>1. Follows(n, dict, k)
    BY <1>4, <1>11, FollowsTransitive
  <2>2. Follows(dict', n, k) /\ ServesKey(k)
    BY <1>11, PushNodeFollows DEF Follows
  <2> QED  BY <1>1, <2>1, <2>2, FollowsOrdered
<1>12. ASSUME PushNode(dir, k, v, Touch(d, k)) \/ PushNode(dir, k, v, ResetList(d, k))
       PROVE  Ordered
  BY <1>4, <1>11, <1>12, TouchFollows, ResetListFollows
<1>13. ASSUME rc = "DECLINED" \/ rc = "DONE",
              \/ \E b : PushNode(dir, k, v, Insert(bare, k, EmptyList(b)))
              \/ dict' = bare /\ Fail(dir, k, "NOMEM")
       PROVE  Ordered
  <2>1. Follows(bare, d, k)
    BY <1>4, <1>7, DropNodeFollows, FollowsItself
  <2>2. k \notin ToSet(bare.lru)
    <3>1. CASE rc = "DECLINED"
      <4>1. k \notin DOMAIN d.tree
        BY <1>5, <1>6, <3>1 DEF LookupRc
      <4> QED  BY <1>5, <1>7, <3>1, <4>1 DEF Sound, Consistent, LruExact
    <3>2. CASE rc = "DONE"
      <4>1. bare.lru = RemoveFirst(d.lru, k)
        BY <1>7, <3>2 DEF DropNode
      <4>2. ToSet(bare.lru) = ToSet(d.lru) \ {k}
        BY <1>4, <4>1, RemoveFirstExact DEF Queued
      <4> QED  BY <4>2
    <3> QED  BY <1>13, <3>1, <3>2
  <2>3. ASSUME NEW b, PushNode(dir, k, v, Insert(bare, k, EmptyList(b))) PROVE Ordered
    <3>1. PICK n : n = Insert(bare, k, EmptyList(b))
      OBVIOUS
    <3>2. Follows(n, bare, k)
      BY <2>1, <2>2, <3>1, InsertFollows DEF Follows
    <3> QED  BY <1>11, <2>1, <2>3, <3>1, <3>2, FollowsTransitive
  <2>4. ASSUME dict' = bare, Fail(dir, k, "NOMEM") PROVE Ordered
    BY <1>1, <1>4, <2>1, <2>4, FailServesKey, FollowsOrdered
  <2> QED  BY <1>13, <2>3, <2>4
<1> QED  BY <1>8, <1>9, <1>10, <1>12, <1>13

LEMMA PopOrdered ==
  ASSUME IInv, NEW dir \in PopOps, NEW k \in Key, NEW room, NEW t \in Time,
         Pop(dir, k, room, t)
  PROVE  Ordered
<1>1. Sound(dict) /\ call = None
  BY AtRest DEF Pop
<1>2. PICK e : e = ExpireTwo(dict, now)
  OBVIOUS
<1>3. PICK d : d = Lookup(e, k)
  OBVIOUS
<1>4. Follows(d, dict, k) /\ Queued(d)
  BY <1>1, <1>2, <1>3, LookupOrder DEF Follows
<1> DEFINE item == Pick(dir, d.tree[k].items)
           left == [d EXCEPT !.used = Release(d.used, {item.block})]
           out == [type |-> item.type, len |-> item.len, data |-> item.data]
<1>5. \/ dict' = d /\ Return(dir, k, "OK", Nil, 0, FALSE)
      \/ dict' = d /\ Fail(dir, k, "ERROR")
      \/ /\ dict' = DropNode(left, k) \/ \E f : dict' = Update(Touch(left, k), k, f)
         /\ Return(dir, k, "OK", out, 0, FALSE)
  BY <1>2, <1>3 DEF Pop
<1>6. ASSUME dict' = d, Return(dir, k, "OK", Nil, 0, FALSE) PROVE Ordered
  <2>1. ServesKey(k)
    BY <1>6, ReturnServesKey, Zenon
  <2> QED  BY <1>1, <1>4, <1>6, <2>1, FollowsItself, FollowsOrdered
<1>7. ASSUME dict' = d, Fail(dir, k, "ERROR") PROVE Ordered
  BY <1>1, <1>4, <1>7, FailServesKey, FollowsItself, FollowsOrdered
<1>8. ASSUME dict' = DropNode(left, k) \/ \E f : dict' = Update(Touch(left, k), k, f),
             Return(dir, k, "OK", out, 0, FALSE)
      PROVE  Ordered
  <2>1. PICK u : u = Release(d.used, {item.block})
    OBVIOUS
  <2>2. Follows(left, d, k)
    BY <1>4, <2>1, UsedFollows
  <2>3. PICK l : l = left
    OBVIOUS
  <2> HIDE DEF left
  <2>4. Follows(dict', l, k)
    BY <1>8, <2>2, <2>3, DropNodeFollows, TouchUpdateFollows DEF Follows
  <2>5. Follows(dict', d, k)
    BY <2>2, <2>3, <2>4, FollowsTransitive
  <2>6. ServesKey(k)
    BY <1>8, ReturnServesKey, Zenon
  <2> QED  BY <1>1, <1>4, <2>5, <2>6, FollowsOrdered
<1> HIDE DEF left, out
<1> QED  BY <1>5, <1>6, <1>7, <1>8

LEMMA LlenOrdered ==
  ASSUME IInv, NEW k \in Key, NEW t \in Time, Llen(k, t) PROVE Ordered
<1>1. Sound(dict) /\ call = None
  BY AtRest DEF Llen
<1>2. PICK d : d = Lookup(ExpireTwo(dict, now), k)
  OBVIOUS
<1>3. Follows(d, dict, k) /\ Follows(d, d, k)
  BY <1>1, <1>2, LookupOrder, FollowsItself DEF Follows
<1>4. /\ dict' = d
      /\ \/ \E num : Return("llen", k, "OK", Nil, num, FALSE)
         \/ Fail("llen", k, "ERROR")
  BY <1>2 DEF Llen
<1>5. ServesKey(k)
  <2>1. ASSUME NEW num, Return("llen", k, "OK", Nil, num, FALSE) PROVE ServesKey(k)
    BY <2>1, ReturnServesKey, Zenon
  <2> QED  BY <1>4, <2>1, FailServesKey
<1> QED  BY <1>1, <1>3, <1>4, <1>5, FollowsOrdered

LEMMA NextOrdered == ASSUME IInv, Next PROVE Ordered
<1>1. ASSUME NEW t \in Reads PROVE t \in Time /\ t \in Nat
  BY <1>1, ShdictAssumption DEF Reads
<1>2. ASSUME NEW t0 \in Before PROVE t0 \in Time
  BY <1>2 DEF Before
<1>3. ASSUME NEW k \in Key, NEW t \in Reads, ScalarStep(k, t) PROVE Ordered
  <2>1. CASE GetTtl(k, t)
    BY <2>1, SameQueueOrdered DEF GetTtl
  <2> QED
    BY <1>1, <1>2, <1>3, <2>1, StoreOrdered, GetOrdered, IncrOrdered,
       SetExpireOrdered DEF ScalarStep
<1>4. ASSUME NEW k \in Key, NEW t \in Reads, ListStep(k, t) PROVE Ordered
  BY <1>1, <1>4, PushOrdered, PopOrdered, LlenOrdered DEF ListStep
<1>5. ASSUME NEW t \in Reads, FlushAll(t) PROVE Ordered
  BY <1>5, FlushAllOrdered
<1>6. ASSUME EvictStep PROVE Ordered
  BY <1>1, <1>6, EvictOrdered DEF EvictStep
<1>7. ASSUME Tick PROVE Ordered
  BY <1>7, SameQueueOrdered DEF Tick
<1> QED
  BY <1>3, <1>4, <1>5, <1>6, <1>7 DEF Next

\* Whatever expires or is evicted leaves from the end of the LRU queue, and no
\* call but one for the entry itself changes its place among the others.
THEOREM OldestLeavesFirst == Spec => OldestLeaveFirst
<1>1. IInv /\ [Next]_vars =>
        [\A x \in ToSet(dict'.lru) \ {StepKey} :
           /\ x \in ToSet(dict.lru)
           /\ \A y \in ToSet(dict.lru) \ {StepKey} :
                Ahead(dict.lru, y, x) => Ahead(dict'.lru, y, x)]_vars
  BY NextOrdered DEF Ordered, InOrder
<1> QED
  BY <1>1, Invariance, PTL DEF Spec, OldestLeaveFirst

-----------------------------------------------------------------------------
(* Trees and maps *)

LEMMA MapParts ==
  ASSUME NEW d
  PROVE  /\ DOMAIN MapOf(d) = DOMAIN d.tree
         /\ \A k \in DOMAIN d.tree : MapOf(d)[k] = Contents(d.tree[k])
         /\ MapOf(d) = [k \in DOMAIN d.tree |-> MapOf(d)[k]]
  BY DEF MapOf

LEMMA EntryKnown ==
  ASSUME NEW d, NEW k \in DOMAIN d.tree
  PROVE  /\ MapOf(d)[k].expires = d.tree[k].expires
         /\ MapOf(d)[k].items = Scalars(d.tree[k].items)
         /\ d.tree[k].type = "list" => MapOf(d)[k].val = Map!List
         /\ d.tree[k].type # "list" => MapOf(d)[k].val = Scalar(d.tree[k])
<1>1. PICK e : e = d.tree[k]
  OBVIOUS
<1>2. MapOf(d)[k] = Contents(e)
  BY <1>1, MapParts
<1>3. /\ Contents(e).expires = e.expires /\ Contents(e).items = Scalars(e.items)
      /\ e.type = "list" => Contents(e).val = Map!List
      /\ e.type # "list" => Contents(e).val = Scalar(e)
  BY DEF Contents, Map!List
<1> QED  BY <1>1, <1>2, <1>3

LEMMA SameTree ==
  ASSUME NEW a, NEW b, a.tree = b.tree PROVE MapOf(a) = MapOf(b)
  BY DEF MapOf

LEMMA KeepsMap ==
  ASSUME NEW n, NEW d, Keeps(n, d), NEW gone, DOMAIN n.tree = DOMAIN d.tree \ gone
  PROVE  MapOf(n) = Map!Without(MapOf(d), gone)
<1>1. \A k \in DOMAIN n.tree : k \in DOMAIN d.tree /\ n.tree[k] = d.tree[k]
  BY DEF Keeps
<1>2. \A k \in DOMAIN n.tree : MapOf(n)[k] = MapOf(d)[k]
  BY <1>1, MapParts
<1>3. MapOf(n) = [k \in DOMAIN n.tree |-> MapOf(d)[k]]
  BY <1>1 DEF MapOf
<1>4. Map!Without(MapOf(d), gone) = [k \in DOMAIN d.tree \ gone |-> MapOf(d)[k]]
  BY MapParts DEF Map!Without
<1> QED  BY <1>3, <1>4

\* From d to n, the entry of k is set to e.
Sets(n, d, k, e) ==
    /\ DOMAIN n.tree = DOMAIN d.tree \cup {k}
    /\ n.tree[k] = e
    /\ \A x \in DOMAIN d.tree \ {k} : n.tree[x] = d.tree[x]

LEMMA SetsMap ==
  ASSUME NEW n, NEW d, NEW k, NEW e, Sets(n, d, k, e), NEW val, NEW items, NEW x,
         Contents(e) = [val |-> val, items |-> items, expires |-> x]
  PROVE  MapOf(n) = Map!With(MapOf(d), k, val, items, x)
<1>1. PICK new : new = [val |-> val, items |-> items, expires |-> x]
  OBVIOUS
<1>2. Map!With(MapOf(d), k, val, items, x) =
        [j \in DOMAIN d.tree \cup {k} |-> IF j = k THEN new ELSE MapOf(d)[j]]
  BY <1>1, MapParts DEF Map!With
<1>3. \A j \in DOMAIN n.tree : Contents(n.tree[j]) = IF j = k THEN new ELSE MapOf(d)[j]
  BY <1>1, MapParts DEF Sets
<1>4. MapOf(n) = [j \in DOMAIN n.tree |-> IF j = k THEN new ELSE MapOf(d)[j]]
  BY <1>3 DEF MapOf
<1> QED  BY <1>2, <1>4 DEF Sets

LEMMA WithAfterWithout ==
  ASSUME NEW m, NEW k, NEW val, NEW items, NEW x
  PROVE  Map!With(Map!Without(m, {k}), k, val, items, x) = Map!With(m, k, val, items, x)
  BY DEF Map!With, Map!Without

LEMMA ExpireAged ==
  ASSUME Sound(dict), NEW e, e = ExpireTwo(dict, now)
  PROVE  MapOf(e) \in Map!Aged
<1>1. Keeps(e, dict) /\ LosesReclaimable(e, dict, now)
  BY ExpireTwoConsistent, ExpireTwoLoses DEF Sound
<1>2. PICK gone : gone = DOMAIN dict.tree \ DOMAIN e.tree
  OBVIOUS
<1>3. MapOf(e) = Map!Without(MapOf(dict), gone)
  BY <1>1, <1>2, KeepsMap DEF Keeps
<1>4. ASSUME NEW x \in gone PROVE x \in Map!Due
  <2>1. Reclaimable(dict.tree[x], now) /\ x \in DOMAIN dict.tree
    BY <1>1, <1>2, <1>4 DEF LosesReclaimable
  <2>2. MapOf(dict)[x].expires = dict.tree[x].expires
    BY <2>1, EntryKnown
  <2> QED  BY <2>1, <2>2, MapParts DEF Map!Due, Reclaimable
<1> QED  BY <1>3, <1>4 DEF Map!Aged

LEMMA WithoutMap ==
  ASSUME NEW d, Sound(d), NEW k, NEW n, n = Without(d, k)
  PROVE  MapOf(n) = Map!Without(MapOf(d), {k})
<1>1. Keeps(n, d) /\ k \notin DOMAIN n.tree /\ Spares(n, d, k)
  BY WithoutConsistent, WithoutSpares DEF Sound
<1> QED  BY <1>1, KeepsMap DEF Keeps, Spares

LEMMA NewEntryContents ==
  ASSUME NEW v \in Storable, NEW x, NEW b, NEW e, e = NewEntry(v, x, b)
  PROVE  Contents(e) = [val |-> v, items |-> <<>>, expires |-> x]
<1>1. v = [type |-> v.type, len |-> v.len, data |-> v.data] /\ v.type # "list"
  BY DEF Storable
<1>2. /\ e.type = v.type /\ e.len = v.len /\ e.data = v.data
      /\ e.expires = x /\ e.items = <<>>
  BY DEF NewEntry
<1>3. Scalar(e) = v
  BY <1>1, <1>2 DEF Scalar
<1>4. Scalars(<<>>) = <<>>
  BY DEF Scalars
<1> QED  BY <1>1, <1>2, <1>3, <1>4 DEF Contents

LEMMA LiveIsOK ==
  ASSUME NEW d, Sound(d), NEW k, NEW t \in Nat
  PROVE  /\ LookupRc(d, k, t) = "OK" => Map!Live(MapOf(d), k, t)
         /\ LookupRc(d, k, t) # "OK" => ~Map!Live(MapOf(d), k, t)
<1>1. CASE k \notin DOMAIN d.tree
  BY <1>1, MapParts DEF Map!Live, LookupRc
<1>2. CASE k \in DOMAIN d.tree
  <2>1. d.tree[k].expires \in Nat
    BY <1>2, EntryParts DEF Sound, Entry
  <2>2. MapOf(d)[k].expires = d.tree[k].expires
    BY <1>2, EntryKnown
  <2> QED  BY <1>2, <2>1, <2>2, MapParts DEF Map!Live, LookupRc, Expired
<1> QED  BY <1>1, <1>2

-----------------------------------------------------------------------------
(* How a call returns *)

\* The call that takes the step, as the map sees it, is op for k.
Asks(op, k) == Map!Asked.op = op /\ Map!Asked.key = k

LEMMA NotMaking == Making(None) = None
  BY DEF Making

LEMMA MakingSeen ==
  ASSUME NEW c \in Call, c.key \in Key
  PROVE  /\ Making(c) = [op |-> c.op, key |-> c.key, val |-> c.val, ttl |-> c.ttl,
                         base |-> c.base, forced |-> c.tries > 0]
         /\ Making(c) # None
<1>1. c # None
  BY NoneAssumption
<1>2. PICK m : m = [op |-> c.op, key |-> c.key, val |-> c.val, ttl |-> c.ttl,
                    base |-> c.base, forced |-> c.tries > 0]
  OBVIOUS
<1>3. m \in Waiting
  <2>1. \A n \in Lengths : n \in Nat
    BY ClassesOK
  <2>2. c.op \in Api /\ c.ttl \in Nat /\ c.base \in Nat /\ c.val \in Storable
    BY <2>1 DEF Call, Api, Storable
  <2> QED  BY <1>2, <2>2 DEF Waiting, Storable
<1> QED  BY <1>1, <1>2, <1>3, NoneAssumption DEF Making

LEMMA Returns ==
  ASSUME NEW op, NEW k, NEW rc, NEW val, NEW num, NEW forcible,
         Return(op, k, rc, val, num, forcible)
  PROVE  /\ Map!Answer(op, k, rc, val, num, forcible)
         /\ Making(call)' = None
         /\ Asks(op, k)
<1>1. /\ call' = None
      /\ ret' = [op |-> op, key |-> k, rc |-> rc, val |-> val, num |-> num,
                 forcible |-> forcible]
  BY Zenon DEF Return
<1>2. Making(call)' = None
  BY <1>1, NotMaking
<1>3. Map!Answer(op, k, rc, val, num, forcible)
  BY <1>1, Zenon DEF Map!Answer
<1>4. Asks(op, k)
  <2>1. Map!Asked = ret'
    BY <1>2 DEF Map!Asked
  <2>2. ret'.op = op /\ ret'.key = k
    BY <1>1
  <2> QED  BY <2>1, <2>2 DEF Asks
<1> QED  BY <1>2, <1>3, <1>4

LEMMA Fails ==
  ASSUME NEW op, NEW k, NEW rc, Fail(op, k, rc)
  PROVE  /\ Map!Refuse(op, k, rc)
         /\ Making(call)' = None
         /\ Asks(op, k)
<1>1. Return(op, k, rc, Nil, 0, FALSE)
  BY Zenon DEF Fail
<1>2. Map!Answer(op, k, rc, Nil, 0, FALSE) /\ Making(call)' = None /\ Asks(op, k)
  BY <1>1, Returns, Zenon
<1> QED  BY <1>2, Zenon DEF Map!Refuse, Map!Nil, Nil

\* A new entry for the call c, or no memory.
LEMMA AllocateWrites ==
  ASSUME NEW c \in Call, NEW d, NEW m, NEW t,
         MapOf(d) = Map!Without(m, {c.key}), c.key \notin DOMAIN d.tree,
         Allocate(c, d, t)
  PROVE  Map!Write(Making(c), m, t) /\ Asks(c.op, c.key)
<1>1. PICK p : p = Making(c)
  OBVIOUS
<1>2. /\ p.op = c.op /\ p.key = c.key /\ p.val = c.val /\ p.ttl = c.ttl
      /\ p.base = c.base /\ p.forced = (c.tries > 0)
      /\ p # None
  BY <1>1, MakingSeen DEF Call
<1>3. PICK base : base = IF c.op = "incr" THEN c.base ELSE t
  OBVIOUS
<1>4. \/ \E b : /\ dict' = Insert(d, c.key, NewEntry(c.val, Expires(base, c.ttl), b))
                /\ Return(c.op, c.key, "OK", c.val, 0, c.tries > 0)
      \/ c.op \in SafeOps /\ dict' = d /\ Fail(c.op, c.key, "NOMEM")
      \/ c.op \notin SafeOps /\ dict' = d /\ call' = c /\ UNCHANGED ret
  BY <1>3, Zenon DEF Allocate
<1>5. ASSUME NEW b, dict' = Insert(d, c.key, NewEntry(c.val, Expires(base, c.ttl), b)),
             Return(c.op, c.key, "OK", c.val, 0, c.tries > 0)
      PROVE  Map!Write(p, m, t) /\ Asks(c.op, c.key)
  <2>1. PICK x : x = Expires(base, c.ttl)
    OBVIOUS
  <2>2. PICK e : e = NewEntry(c.val, x, b)
    OBVIOUS
  <2>3. c.val \in Storable
    <3>1. \A n \in Lengths : n \in Nat
      BY ClassesOK
    <3> QED  BY <3>1 DEF Call, Storable
  <2>4. Contents(e) = [val |-> c.val, items |-> <<>>, expires |-> x]
    BY <2>2, <2>3, NewEntryContents
  <2>5. PICK n : n = dict'
    OBVIOUS
  <2>6. Sets(n, d, c.key, e)
    BY <1>5, <2>1, <2>2, <2>5 DEF Sets, Insert
  <2>7. MapOf(n) = Map!With(MapOf(d), c.key, c.val, <<>>, x)
    BY <2>4, <2>6, SetsMap
  <2>8. MapOf(dict)' = Map!With(m, c.key, c.val, <<>>, x)
    BY <2>5, <2>7, WithAfterWithout
  <2>9. x = Map!Expires(IF p.op = "incr" THEN p.base ELSE t, p.ttl)
    BY <1>2, <1>3, <2>1 DEF Expires, Map!Expires
  <2>10. /\ Map!Answer(p.op, p.key, "OK", p.val, 0, p.forced)
         /\ Making(call)' = None /\ Asks(c.op, c.key)
    BY <1>2, <1>5, Returns, Zenon
  <2> QED  BY <1>2, <2>8, <2>9, <2>10 DEF Map!Write
<1>6. ASSUME c.op \in SafeOps, dict' = d, Fail(c.op, c.key, "NOMEM")
      PROVE  Map!Write(p, m, t) /\ Asks(c.op, c.key)
  <2>1. Map!Refuse(c.op, c.key, "NOMEM") /\ Making(call)' = None /\ Asks(c.op, c.key)
    BY <1>6, Fails, Zenon
  <2>2. MapOf(dict)' = Map!Without(m, {c.key})
    BY <1>6
  <2> QED  BY <1>2, <1>6, <2>1, <2>2 DEF Map!Write, SafeOps
<1>7. ASSUME c.op \notin SafeOps, dict' = d, call' = c, UNCHANGED ret
      PROVE  Map!Write(p, m, t) /\ Asks(c.op, c.key)
  <2>1. Making(call)' = p
    BY <1>1, <1>7
  <2>2. MapOf(dict)' = Map!Without(m, {c.key})
    BY <1>7
  <2>3. Asks(c.op, c.key)
    BY <1>2, <2>1 DEF Asks, Map!Asked
  <2> QED  BY <1>2, <1>7, <2>1, <2>2, <2>3 DEF Map!Write, SafeOps
<1> QED  BY <1>1, <1>4, <1>5, <1>6, <1>7

-----------------------------------------------------------------------------
(* The operations on scalars *)

LEMMA WithoutNoEntry ==
  ASSUME NEW d, NEW k, k \notin DOMAIN d.tree
  PROVE  Map!Without(MapOf(d), {k}) = MapOf(d)
<1>1. DOMAIN d.tree \ {k} = DOMAIN d.tree
  OBVIOUS
<1> QED  BY <1>1, MapParts DEF Map!Without

LEMMA EvictMakesRoom ==
  ASSUME IInv, NEW t \in Time, Evict(t)
  PROVE  Making(call) # None /\ Map!MakeRoom(t)
<1>1. Sound(dict) /\ call \in Call /\ call.key \notin DOMAIN dict.tree
  BY DEF IInv, CallSound, EvictingKeyAbsent, Evict
<1>2. PICK p : p = Making(call)
  OBVIOUS
<1>3. /\ p = [op |-> call.op, key |-> call.key, val |-> call.val, ttl |-> call.ttl,
              base |-> call.base, forced |-> call.tries > 0]
      /\ p # None
  BY <1>1, <1>2, MakingSeen DEF Call
<1>4. ASSUME dict' = dict,
             Return(call.op, call.key, "NOMEM", Nil, 0, call.tries > 0)
      PROVE  Map!MakeRoom(t)
  <2>1. /\ Map!Answer(call.op, call.key, "NOMEM", Nil, 0, call.tries > 0)
        /\ Making(call)' = None
    BY <1>4, Returns, Zenon
  <2>2. p.op = call.op /\ p.key = call.key /\ p.forced = (call.tries > 0)
    BY <1>3
  <2>3. Map!Answer(p.op, p.key, "NOMEM", Map!Nil, 0, p.forced)
    BY <2>1, <2>2, Zenon DEF Map!Nil, Nil
  <2> QED  BY <1>2, <1>4, <2>1, <2>3 DEF Map!MakeRoom
<1>5. ASSUME call.tries < MaxEvict, dict.lru # <<>>,
             Allocate([call EXCEPT !.tries = call.tries + 1], ExpireForced(dict, now), t)
      PROVE  Map!MakeRoom(t)
  <2>1. PICK c : c = [call EXCEPT !.tries = call.tries + 1]
    OBVIOUS
  <2>2. c \in Call /\ c.key = call.key
    BY <1>1, <1>5, <2>1, ShdictAssumption DEF Call
  <2>3. Making(c) = [p EXCEPT !.forced = TRUE]
    <3>1. /\ c.op = call.op /\ c.key = call.key /\ c.val = call.val
          /\ c.ttl = call.ttl /\ c.base = call.base /\ c.tries > 0
      BY <1>1, <2>1 DEF Call
    <3>2. Making(c) = [op |-> c.op, key |-> c.key, val |-> c.val, ttl |-> c.ttl,
                       base |-> c.base, forced |-> c.tries > 0]
      BY <2>2, MakingSeen DEF Call
    <3>3. PICK b : b = (call.tries > 0)
      OBVIOUS
    <3>4. p = [op |-> call.op, key |-> call.key, val |-> call.val, ttl |-> call.ttl,
               base |-> call.base, forced |-> b]
      BY <1>3, <3>3, Zenon
    <3>5. \A y : [p EXCEPT !.forced = y] =
            [op |-> call.op, key |-> call.key, val |-> call.val, ttl |-> call.ttl,
             base |-> call.base, forced |-> y]
      BY <3>4
    <3>6. (c.tries > 0) = TRUE
      <4>1. c.tries \in Nat
        BY <2>2, ShdictAssumption DEF Call
      <4> QED  BY <3>1, <4>1
    <3> QED  BY <3>1, <3>2, <3>5, <3>6, Zenon
  <2>4. PICK d : d = ExpireForced(dict, now)
    OBVIOUS
  <2>5. PICK last : last = Last(dict.lru)
    OBVIOUS
  <2>6. last \in DOMAIN dict.tree /\ last \notin DOMAIN d.tree /\ Keeps(d, dict)
    <3>1. last \in DOMAIN dict.tree
      BY <1>1, <1>5, <2>5, LastInTree DEF Sound
    <3>2. PICK f : f = FreeEntry(dict, last)
      OBVIOUS
    <3>3. Consistent(f) /\ last \notin DOMAIN f.tree
      BY <1>1, <3>1, <3>2, FreeEntryConsistent DEF Sound
    <3>4. d = ExpireTwo(f, now)
      BY <1>5, <2>4, <2>5, <3>2 DEF ExpireForced
    <3>5. Keeps(d, f)
      BY <3>3, <3>4, ExpireTwoConsistent
    <3>6. Keeps(d, dict)
      BY <1>1, <2>4, ExpireForcedConsistent DEF Sound
    <3> QED  BY <3>1, <3>3, <3>5, <3>6 DEF Keeps
  <2>7. PICK gone : gone = DOMAIN dict.tree \ DOMAIN d.tree
    OBVIOUS
  <2>8. MapOf(d) = Map!Without(MapOf(dict), gone)
    BY <2>6, <2>7, KeepsMap DEF Keeps
  <2>9. c.key \notin DOMAIN d.tree
    BY <1>1, <2>2, <2>6 DEF Keeps
  <2>10. PICK m : m = Map!Without(MapOf(dict), gone)
    OBVIOUS
  <2>11. MapOf(d) = Map!Without(m, {c.key})
    BY <2>8, <2>9, <2>10, WithoutNoEntry
  <2>12. Map!Write(Making(c), m, t)
    BY <1>5, <2>1, <2>2, <2>4, <2>9, <2>11, AllocateWrites
  <2>13. gone \in (SUBSET DOMAIN MapOf(dict)) \ {{}}
    BY <2>6, <2>7, MapParts
  <2> QED  BY <1>2, <2>3, <2>10, <2>12, <2>13 DEF Map!MakeRoom
<1>6. \/ dict' = dict /\ Return(call.op, call.key, "NOMEM", Nil, 0, call.tries > 0)
      \/ /\ call.tries < MaxEvict /\ dict.lru # <<>>
         /\ Allocate([call EXCEPT !.tries = call.tries + 1], ExpireForced(dict, now), t)
  BY Zenon DEF Evict
<1> QED  BY <1>2, <1>3, <1>4, <1>5, <1>6

LEMMA UpdateSets ==
  ASSUME NEW d, Sound(d), NEW k \in DOMAIN d.tree, NEW e, NEW n,
         n = Update(d, k, e) \/ n = Update(Touch(d, k), k, e)
  PROVE  Sets(n, d, k, e)
<1>1. d = [tree |-> d.tree, lru |-> d.lru, used |-> d.used]
  BY DEF Sound, Consistent, IsDict
<1>2. PICK q : q = Cons(k, RemoveFirst(d.lru, k))
  OBVIOUS
<1>3. Touch(d, k) = [tree |-> d.tree, lru |-> q, used |-> d.used]
  BY <1>1, <1>2 DEF Touch
<1>4. n.tree = [d.tree EXCEPT ![k] = e]
  <2>1. CASE n = Update(d, k, e)
    BY <1>1, <2>1 DEF Update
  <2>2. CASE n = Update(Touch(d, k), k, e)
    BY <1>3, <2>2 DEF Update
  <2> QED  BY <2>1, <2>2
<1> QED  BY <1>4 DEF Sets

\* What expire and lookup leave when a call begins.
LEMMA BeginAged ==
  ASSUME IInv, NEW e, e = ExpireTwo(dict, now), NEW k, NEW d, d = Lookup(e, k),
         NEW t \in Nat, NEW rc, rc = LookupRc(e, k, t)
  PROVE  /\ Sound(d) /\ d.tree = e.tree /\ MapOf(d) \in Map!Aged
         /\ rc = "OK" => Map!Live(MapOf(d), k, t)
         /\ rc # "OK" => ~Map!Live(MapOf(d), k, t)
         /\ rc # "DECLINED" <=> k \in DOMAIN d.tree
<1>1. Sound(dict)
  BY DEF IInv
<1>2. Sound(e) /\ Sound(d) /\ d.tree = e.tree
  BY <1>1, AfterLookup
<1>3. MapOf(e) \in Map!Aged /\ MapOf(d) = MapOf(e)
  BY <1>1, <1>2, ExpireAged, SameTree
<1>4. /\ rc = "OK" => Map!Live(MapOf(e), k, t)
      /\ rc # "OK" => ~Map!Live(MapOf(e), k, t)
  BY <1>2, LiveIsOK
<1>5. rc # "DECLINED" <=> k \in DOMAIN d.tree
  BY <1>2 DEF LookupRc
<1> QED  BY <1>2, <1>3, <1>4, <1>5

\* The two ways to store the value of a call that has not evicted: over the old
\* entry, or in a new one.
LEMMA ReuseWrites ==
  ASSUME NEW d, Sound(d), NEW k, NEW v \in Storable, Reusable(d, k, v),
         NEW op, NEW ttl, NEW base, NEW t, NEW x,
         x = Expires(IF op = "incr" THEN base ELSE t, ttl),
         dict' = Update(Touch(d, k), k, NewEntry(v, x, d.tree[k].block)),
         Return(op, k, "OK", v, 0, FALSE)
  PROVE  /\ Map!Write([op |-> op, key |-> k, val |-> v, ttl |-> ttl, base |-> base,
                       forced |-> FALSE], MapOf(d), t)
         /\ Asks(op, k)
<1>1. PICK p : p = [op |-> op, key |-> k, val |-> v, ttl |-> ttl, base |-> base,
                    forced |-> FALSE]
  OBVIOUS
<1>2. PICK f : f = NewEntry(v, x, d.tree[k].block)
  OBVIOUS
<1>3. PICK n : n = dict'
  OBVIOUS
<1>4. Sets(n, d, k, f)
  <2>1. k \in DOMAIN d.tree
    BY DEF Reusable
  <2> QED  BY <1>2, <1>3, <2>1, UpdateSets
<1>5. Contents(f) = [val |-> v, items |-> <<>>, expires |-> x]
  BY <1>2, NewEntryContents
<1>6. MapOf(dict)' = Map!With(MapOf(d), k, v, <<>>, x)
  BY <1>3, <1>4, <1>5, SetsMap
<1>7. Map!Answer(op, k, "OK", v, 0, FALSE) /\ Making(call)' = None /\ Asks(op, k)
  BY Returns, Zenon
<1>8. /\ p.op = op /\ p.key = k /\ p.val = v /\ p.ttl = ttl /\ p.base = base
      /\ p.forced = FALSE
  BY <1>1
<1>9. x = Map!Expires(IF p.op = "incr" THEN p.base ELSE t, p.ttl)
  BY <1>8 DEF Expires, Map!Expires
<1>10. Map!Answer(p.op, p.key, "OK", p.val, 0, p.forced)
  BY <1>7, <1>8, Zenon
<1> QED  BY <1>1, <1>6, <1>7, <1>8, <1>9, <1>10 DEF Map!Write

LEMMA NewEntryWrites ==
  ASSUME NEW d, Sound(d), NEW k \in Key, NEW v \in Storable, v.len \in Lengths,
         NEW op \in StoreOps \cup {"incr"}, NEW ttl \in Nat, NEW base \in Nat, NEW t,
         Allocate([op |-> op, key |-> k, val |-> v, ttl |-> ttl, base |-> base,
                   tries |-> 0], Without(d, k), t)
  PROVE  /\ Map!Write([op |-> op, key |-> k, val |-> v, ttl |-> ttl, base |-> base,
                       forced |-> FALSE], MapOf(d), t)
         /\ Asks(op, k)
<1>1. PICK c : c = [op |-> op, key |-> k, val |-> v, ttl |-> ttl, base |-> base,
                    tries |-> 0]
  OBVIOUS
<1>2. PICK w : w = Without(d, k)
  OBVIOUS
<1>3. MapOf(w) = Map!Without(MapOf(d), {k}) /\ k \notin DOMAIN w.tree
  BY <1>2, WithoutMap, WithoutSound
<1>4. c \in Call /\ c.op = op /\ c.key = k
  BY <1>1, ShdictAssumption DEF Call, Storable
<1>5. Making(c) = [op |-> op, key |-> k, val |-> v, ttl |-> ttl, base |-> base,
                   forced |-> FALSE]
  <2>1. Making(c) = [op |-> c.op, key |-> c.key, val |-> c.val, ttl |-> c.ttl,
                     base |-> c.base, forced |-> c.tries > 0]
    BY <1>4, MakingSeen
  <2>2. /\ c.op = op /\ c.key = k /\ c.val = v /\ c.ttl = ttl /\ c.base = base
        /\ (c.tries > 0) = FALSE
    BY <1>1
  <2> QED  BY <2>1, <2>2, Zenon
<1>6. PICK p : p = Making(c)
  OBVIOUS
<1>7. Map!Write(p, MapOf(d), t) /\ Asks(op, k)
  BY <1>1, <1>2, <1>3, <1>4, <1>6, AllocateWrites
<1> QED  BY <1>5, <1>6, <1>7, Zenon

LEMMA StoreMapped ==
  ASSUME IInv, NEW op \in StoreOps, NEW k \in Key, NEW v \in Value \cup {Nil},
         NEW ttl \in Ttl, NEW t \in Time, Store(op, k, v, ttl, t)
  PROVE  Map!Store(op, k, v, ttl, t) /\ Asks(op, k)
<1>1. PICK e : e = ExpireTwo(dict, now)
  OBVIOUS
<1>2. PICK d : d = Lookup(e, k)
  OBVIOUS
<1>3. PICK rc : rc = LookupRc(e, k, t)
  OBVIOUS
<1>4. PICK m : m = MapOf(d)
  OBVIOUS
<1>5. t \in Nat
  BY ShdictAssumption
<1>6. /\ Sound(d) /\ m \in Map!Aged
      /\ rc = "OK" => Map!Live(m, k, t)
      /\ rc # "OK" => ~Map!Live(m, k, t)
  BY <1>1, <1>2, <1>3, <1>4, <1>5, BeginAged
<1>8. PICK p : p = [op |-> op, key |-> k, val |-> v, ttl |-> ttl, base |-> 0,
                    forced |-> FALSE]
  OBVIOUS
<1>9. PICK w : w = Without(d, k)
  OBVIOUS
<1>10. MapOf(w) = Map!Without(m, {k}) /\ k \notin DOMAIN w.tree
  BY <1>4, <1>6, <1>9, WithoutMap, WithoutSound
<1>11. /\ Declines(op, rc) => \/ op = "replace" /\ ~Map!Live(m, k, t)
                              \/ op \in {"add", "safe_add"} /\ Map!Live(m, k, t)
       /\ ~Declines(op, rc) => /\ op = "replace" => Map!Live(m, k, t)
                               /\ op \in {"add", "safe_add"} => ~Map!Live(m, k, t)
  BY <1>6, Zenon DEF Declines, AddOps
<1>12. v # Nil => v \in Value /\ v \in Storable
  BY ValueOK
<1>13. \/ /\ v = Nil /\ op \in AddOps \cup {"replace"}
          /\ dict' = dict /\ Fail(op, k, "ERROR")
       \/ /\ Declines(op, rc)
          /\ dict' = d /\ Fail(op, k, "DECLINED")
       \/ /\ ~Declines(op, rc) /\ Reusable(d, k, v)
          /\ dict' = Update(Touch(d, k), k,
                            NewEntry(v, Expires(t, ttl), d.tree[k].block))
          /\ Return(op, k, "OK", v, 0, FALSE)
       \/ /\ v = Nil /\ op \in {"set", "safe_set"}
          /\ dict' = w /\ Return(op, k, "OK", Nil, 0, FALSE)
       \/ /\ ~Declines(op, rc) /\ v # Nil
          /\ Allocate([op |-> op, key |-> k, val |-> v, ttl |-> ttl, base |-> 0,
                       tries |-> 0], Without(d, k), t)
  BY <1>1, <1>2, <1>3, <1>9 DEF Store
<1>14. ASSUME v = Nil, op \in AddOps \cup {"replace"}, dict' = dict, Fail(op, k, "ERROR")
       PROVE  Map!Store(op, k, v, ttl, t) /\ Asks(op, k)
  <2>1. Map!Refuse(op, k, "ERROR") /\ Making(call)' = None /\ Asks(op, k)
    BY <1>14, Fails, Zenon
  <2>2. v = Map!Nil /\ op \notin {"set", "safe_set"}
    BY <1>14 DEF AddOps, Map!Nil, Nil
  <2>3. MapOf(dict)' = MapOf(dict)
    BY <1>14
  <2> QED  BY <1>6, <2>1, <2>2, <2>3, Zenon DEF Map!Store
<1>15. ASSUME Declines(op, rc), dict' = d, Fail(op, k, "DECLINED")
       PROVE  Map!Store(op, k, v, ttl, t) /\ Asks(op, k)
  <2>1. Map!Refuse(op, k, "DECLINED") /\ Making(call)' = None /\ Asks(op, k)
    BY <1>15, Fails, Zenon
  <2>2. MapOf(dict)' = m
    BY <1>4, <1>15
  <2> QED  BY <1>6, <1>11, <1>15, <2>1, <2>2, Zenon DEF Map!Store
<1>16. ASSUME ~Declines(op, rc), v # Nil, Map!Write(p, m, t), Asks(op, k)
       PROVE  Map!Store(op, k, v, ttl, t) /\ Asks(op, k)
  <2>1. v # Map!Nil
    BY <1>16 DEF Map!Nil, Nil
  <2>2. /\ op = "replace" => Map!Live(m, k, t)
        /\ op \in {"add", "safe_add"} => ~Map!Live(m, k, t)
    BY <1>11, <1>16, Zenon
  <2>3. Map!Write([op |-> op, key |-> k, val |-> v, ttl |-> ttl, base |-> 0,
                   forced |-> FALSE], m, t)
    BY <1>8, <1>16
  <2> QED  BY <1>6, <1>16, <2>1, <2>2, <2>3, Zenon DEF Map!Store
<1>17. ASSUME Reusable(d, k, v),
              dict' = Update(Touch(d, k), k,
                             NewEntry(v, Expires(t, ttl), d.tree[k].block)),
              Return(op, k, "OK", v, 0, FALSE)
       PROVE  v # Nil /\ Map!Write(p, m, t) /\ Asks(op, k)
  <2>1. v # Nil
    BY <1>17 DEF Reusable
  <2>2. PICK x : x = Expires(t, ttl)
    OBVIOUS
  <2>3. x = Expires(IF op = "incr" THEN 0 ELSE t, ttl)
    BY <2>2 DEF StoreOps, SafeOps, AddOps
  <2> QED
    BY <1>4, <1>6, <1>8, <1>12, <1>17, <2>1, <2>2, <2>3, ReuseWrites
<1>18. ASSUME v = Nil, op \in {"set", "safe_set"}, dict' = w,
              Return(op, k, "OK", Nil, 0, FALSE)
       PROVE  Map!Store(op, k, v, ttl, t) /\ Asks(op, k)
  <2>1. Map!Answer(op, k, "OK", Nil, 0, FALSE) /\ Making(call)' = None /\ Asks(op, k)
    BY <1>18, Returns, Zenon
  <2>2. MapOf(dict)' = Map!Without(m, {k})
    BY <1>10, <1>18
  <2>3. Map!Nil = Nil
    BY DEF Map!Nil, Nil
  <2> QED  BY <1>6, <1>18, <2>1, <2>2, <2>3, Zenon DEF Map!Store
<1>19. ASSUME v # Nil,
              Allocate([op |-> op, key |-> k, val |-> v, ttl |-> ttl, base |-> 0,
                        tries |-> 0], Without(d, k), t)
       PROVE  Map!Write(p, m, t) /\ Asks(op, k)
  <2>1. v \in Storable /\ v.len \in Lengths /\ ttl \in Nat
    BY <1>12, <1>19, ValueOK, ShdictAssumption
  <2> QED  BY <1>4, <1>6, <1>8, <1>19, <2>1, NewEntryWrites
<1> QED  BY <1>13, <1>14, <1>15, <1>16, <1>17, <1>18, <1>19

LEMMA GetMapped ==
  ASSUME IInv, NEW k \in Key, NEW stale \in BOOLEAN, NEW room \in BOOLEAN,
         NEW t \in Time, Get(k, stale, room, t)
  PROVE  Map!Get(k, t) /\ Asks("get", k)
<1>1. t \in Nat /\ Sound(dict)
  BY ShdictAssumption DEF IInv
<1>2. PICK rc : rc = LookupRc(dict, k, t)
  OBVIOUS
<1>3. /\ rc = "OK" => Map!Live(MapOf(dict), k, t)
      /\ rc # "OK" => ~Map!Live(MapOf(dict), k, t)
  BY <1>1, <1>2, LiveIsOK
<1>4. MapOf(dict)' = MapOf(dict)
  BY <1>1, LookupSound, SameTree DEF Get
<1>5. PICK e : e = dict.tree[k]
  OBVIOUS
<1>6. /\ rc \in {"OK", "DONE", "DECLINED"}
      /\ rc \in {"OK", "DONE"} => k \in DOMAIN MapOf(dict)
  BY <1>2, MapParts DEF LookupRc
<1>7. \/ rc # "OK" /\ Return("get", k, "OK", Nil, 0, FALSE)
      \/ rc \in {"OK", "DONE"} /\ Fail("get", k, "ERROR")
      \/ /\ rc \in {"OK", "DONE"} /\ e.type # "list"
         /\ Return("get", k, "OK", Scalar(e), IF rc = "DONE" THEN 1 ELSE 0, FALSE)
  BY <1>2, <1>5, Zenon DEF Get, Scalar
<1>8. ASSUME rc # "OK", Return("get", k, "OK", Nil, 0, FALSE)
      PROVE  Map!Get(k, t) /\ Asks("get", k)
  <2>1. /\ Map!Answer("get", k, "OK", Nil, 0, FALSE) /\ Making(call)' = None
        /\ Asks("get", k)
    BY <1>8, Returns, Zenon
  <2>2. Map!Nil = Nil
    BY DEF Map!Nil, Nil
  <2> QED  BY <1>3, <1>4, <1>8, <2>1, <2>2, Zenon DEF Map!Get
<1>9. ASSUME rc \in {"OK", "DONE"}, Fail("get", k, "ERROR")
      PROVE  Map!Get(k, t) /\ Asks("get", k)
  <2>1. Map!Refuse("get", k, "ERROR") /\ Making(call)' = None /\ Asks("get", k)
    BY <1>9, Fails, Zenon
  <2> QED  BY <1>4, <1>6, <1>9, <2>1, Zenon DEF Map!Get
<1>10. ASSUME rc \in {"OK", "DONE"}, e.type # "list",
              Return("get", k, "OK", Scalar(e), IF rc = "DONE" THEN 1 ELSE 0, FALSE)
       PROVE  Map!Get(k, t) /\ Asks("get", k)
  <2>1. PICK n : n = IF rc = "DONE" THEN 1 ELSE 0
    OBVIOUS
  <2>2. PICK s : s = Scalar(e)
    OBVIOUS
  <2>3. /\ Map!Answer("get", k, "OK", s, n, FALSE) /\ Making(call)' = None
        /\ Asks("get", k)
    BY <1>10, <2>1, <2>2, Returns, Zenon
  <2>4. MapOf(dict)[k].val = s
    BY <1>5, <1>6, <1>10, <2>2, EntryKnown, MapParts
  <2>5. s # Map!List
    BY <1>10, <2>2 DEF Scalar, Map!List
  <2>6. n = IF Map!Live(MapOf(dict), k, t) THEN 0 ELSE 1
    BY <1>3, <1>10, <2>1
  <2> QED
    BY <1>4, <1>6, <1>10, <2>3, <2>4, <2>5, <2>6, Zenon DEF Map!Get
<1> QED  BY <1>7, <1>8, <1>9, <1>10

LEMMA IncrMapped ==
  ASSUME IInv, NEW k \in Key, NEW by \in By, NEW init \in By \cup {None},
         NEW ttl \in Ttl, NEW t0 \in Time, NEW t \in Time,
         Incr(k, by, init, ttl, t0, t)
  PROVE  Map!Incr(k, by, init, ttl, t0, t) /\ Asks("incr", k)
<1>1. PICK e : e = ExpireTwo(dict, now)
  OBVIOUS
<1>2. PICK d : d = Lookup(e, k)
  OBVIOUS
<1>3. PICK rc : rc = LookupRc(e, k, t)
  OBVIOUS
<1>4. PICK m : m = MapOf(d)
  OBVIOUS
<1>5. t \in Nat /\ ttl \in Nat /\ t0 \in Nat
  BY ShdictAssumption
<1>6. /\ Sound(d) /\ m \in Map!Aged
      /\ rc = "OK" => Map!Live(m, k, t) /\ k \in DOMAIN d.tree
      /\ rc # "OK" => ~Map!Live(m, k, t)
  BY <1>1, <1>2, <1>3, <1>4, <1>5, BeginAged
<1>7. PICK old : old = d.tree[k]
  OBVIOUS
<1>8. PICK sum : sum = Number(by + init)
  OBVIOUS
<1>9. PICK p : p = [op |-> "incr", key |-> k, val |-> sum, ttl |-> ttl, base |-> t0,
                    forced |-> FALSE]
  OBVIOUS
<1>10. \/ rc # "OK" /\ init = None /\ dict' = d /\ Fail("incr", k, "ERROR")
       \/ /\ rc # "OK" /\ init # None /\ Reusable(d, k, sum)
          /\ dict' = Update(Touch(d, k), k, NewEntry(sum, Expires(t0, ttl), old.block))
          /\ Return("incr", k, "OK", sum, 0, FALSE)
       \/ /\ rc # "OK" /\ init # None
          /\ Allocate([op |-> "incr", key |-> k, val |-> sum, ttl |-> ttl,
                       base |-> t0, tries |-> 0], Without(d, k), t)
       \/ /\ rc = "OK" /\ (old.type # "number" \/ old.len # SizeofDouble)
          /\ dict' = d /\ Fail("incr", k, "ERROR")
       \/ /\ rc = "OK" /\ old.type = "number" /\ old.len = SizeofDouble
          /\ dict' = Update(Touch(d, k), k, [old EXCEPT !.data = old.data + by])
          /\ Return("incr", k, "OK", Number(old.data + by), 0, FALSE)
  BY <1>1, <1>2, <1>3, <1>7, <1>8 DEF Incr
<1>11. ASSUME k \in DOMAIN d.tree
       PROVE  /\ old \in Entry /\ LenExact(old)
              /\ m[k].expires = old.expires
              /\ old.type = "list" => m[k].val = Map!List
              /\ old.type # "list" => m[k].val = Scalar(old)
  BY <1>4, <1>6, <1>7, <1>11, EntryKnown, EntryParts DEF Sound, GoodEntry
<1>12. ASSUME dict' = d, Fail("incr", k, "ERROR"),
              \/ rc # "OK" /\ init = None
              \/ rc = "OK" /\ (old.type # "number" \/ old.len # SizeofDouble)
       PROVE  Map!Incr(k, by, init, ttl, t0, t) /\ Asks("incr", k)
  <2>1. Map!Refuse("incr", k, "ERROR") /\ Making(call)' = None /\ Asks("incr", k)
    BY <1>12, Fails, Zenon
  <2>2. ASSUME rc = "OK" PROVE m[k].val.type # "number"
    <3>1. old.type # "number"
      BY <1>6, <1>11, <1>12, <2>2 DEF LenExact, WellSized
    <3> QED  BY <1>6, <1>11, <2>2, <3>1 DEF Map!List, Scalar
  <2>3. MapOf(dict)' = m
    BY <1>4, <1>12
  <2>4. /\ Map!Live(m, k, t) => m[k].val.type # "number"
        /\ Map!Live(m, k, t) \/ init = None
    BY <1>6, <1>12, <2>2, Zenon
  <2> QED  BY <1>6, <2>1, <2>3, <2>4, Zenon DEF Map!Incr
<1>13. ASSUME rc # "OK", init # None, Map!Write(p, m, t)
       PROVE  Map!Incr(k, by, init, ttl, t0, t)
  <2>1. sum = Map!Number(by + init)
    BY <1>8 DEF Number, Map!Number, SizeofDouble
  <2> QED  BY <1>6, <1>9, <1>13, <2>1, Zenon DEF Map!Incr
<1>14. init # None => sum \in Storable /\ sum.len \in Lengths
  <2>1. init # None => by + init \in Int
    BY ShdictAssumption
  <2> QED  BY <1>8, <2>1, NumberOK
<1>15. ASSUME init # None, Reusable(d, k, sum),
              dict' = Update(Touch(d, k), k, NewEntry(sum, Expires(t0, ttl), old.block)),
              Return("incr", k, "OK", sum, 0, FALSE)
       PROVE  Map!Write(p, m, t) /\ Asks("incr", k)
  <2>1. PICK x : x = Expires(t0, ttl)
    OBVIOUS
  <2>2. PICK op : op = "incr"
    OBVIOUS
  <2>3. x = Expires(IF op = "incr" THEN t0 ELSE t, ttl)
    BY <2>1, <2>2
  <2> QED
    BY <1>4, <1>6, <1>7, <1>9, <1>14, <1>15, <2>1, <2>2, <2>3, ReuseWrites
<1>16. ASSUME init # None,
              Allocate([op |-> "incr", key |-> k, val |-> sum, ttl |-> ttl,
                        base |-> t0, tries |-> 0], Without(d, k), t)
       PROVE  Map!Write(p, m, t) /\ Asks("incr", k)
  BY <1>4, <1>5, <1>6, <1>9, <1>14, <1>16, NewEntryWrites
<1>17. ASSUME rc = "OK", old.type = "number", old.len = SizeofDouble,
              dict' = Update(Touch(d, k), k, [old EXCEPT !.data = old.data + by]),
              Return("incr", k, "OK", Number(old.data + by), 0, FALSE)
       PROVE  Map!Incr(k, by, init, ttl, t0, t) /\ Asks("incr", k)
  <2>1. PICK new : new = Number(old.data + by)
    OBVIOUS
  <2>2. PICK f : f = [old EXCEPT !.data = old.data + by]
    OBVIOUS
  <2>3. PICK n : n = dict'
    OBVIOUS
  <2>4. /\ Map!Answer("incr", k, "OK", new, 0, FALSE) /\ Making(call)' = None
        /\ Asks("incr", k)
    BY <1>17, <2>1, Returns, Zenon
  <2>5. Sets(n, d, k, f)
    BY <1>6, <1>17, <2>2, <2>3, UpdateSets
  <2>6. old \in Entry /\ old.items = <<>>
    BY <1>6, <1>11, <1>17 DEF LenExact
  <2>7. /\ f.type = "number" /\ f.len = SizeofDouble /\ f.data = old.data + by
        /\ f.items = <<>> /\ f.expires = old.expires
    BY <1>17, <2>2, <2>6 DEF Entry
  <2>8. Scalar(f) = new /\ Scalars(f.items) = <<>>
    BY <2>1, <2>7 DEF Scalar, Scalars, Number
  <2>9. Contents(f) = [val |-> new, items |-> <<>>, expires |-> old.expires]
    BY <2>7, <2>8 DEF Contents
  <2>10. MapOf(dict)' = Map!With(m, k, new, <<>>, m[k].expires)
    <3>1. MapOf(n) = Map!With(m, k, new, <<>>, old.expires)
      BY <1>4, <2>5, <2>9, SetsMap
    <3> QED  BY <1>6, <1>11, <1>17, <2>3, <3>1
  <2>11. m[k].val.type = "number" /\ new = Map!Number(m[k].val.data + by)
    BY <1>6, <1>11, <1>17, <2>1 DEF Scalar, Number, Map!Number, SizeofDouble
  <2> QED  BY <1>6, <1>17, <2>4, <2>10, <2>11, Zenon DEF Map!Incr
<1> QED  BY <1>10, <1>12, <1>13, <1>15, <1>16, <1>17

LEMMA SetExpireMapped ==
  ASSUME IInv, NEW k \in Key, NEW ttl \in Ttl, NEW t0 \in Time, NEW t \in Time,
         SetExpire(k, ttl, t0, t)
  PROVE  Map!SetExpire(k, ttl, t0) /\ Asks("set_expire", k)
<1>1. Sound(dict)
  BY DEF IInv
<1>2. ASSUME k \notin DOMAIN dict.tree, dict' = dict, Fail("set_expire", k, "DECLINED")
      PROVE  Map!SetExpire(k, ttl, t0) /\ Asks("set_expire", k)
  <2>1. /\ Map!Refuse("set_expire", k, "DECLINED") /\ Making(call)' = None
        /\ Asks("set_expire", k)
    BY <1>2, Fails, Zenon
  <2>2. k \notin DOMAIN MapOf(dict) /\ MapOf(dict)' = MapOf(dict)
    BY <1>2, MapParts
  <2> QED  BY <2>1, <2>2, Zenon DEF Map!SetExpire
<1>3. ASSUME k \in DOMAIN dict.tree,
             dict' = Update(dict, k, [dict.tree[k] EXCEPT !.expires = Expires(t0, ttl)]),
             Return("set_expire", k, "OK", Nil, 0, FALSE)
      PROVE  Map!SetExpire(k, ttl, t0) /\ Asks("set_expire", k)
  <2>1. /\ Map!Answer("set_expire", k, "OK", Nil, 0, FALSE) /\ Making(call)' = None
        /\ Asks("set_expire", k)
    BY <1>3, Returns, Zenon
  <2>2. Map!Nil = Nil
    BY DEF Map!Nil, Nil
  <2>3. PICK x : x = Expires(t0, ttl)
    OBVIOUS
  <2>4. PICK e : e = dict.tree[k]
    OBVIOUS
  <2>5. PICK f : f = [e EXCEPT !.expires = x]
    OBVIOUS
  <2>6. PICK n : n = dict'
    OBVIOUS
  <2>7. Sets(n, dict, k, f)
    BY <1>1, <1>3, <2>3, <2>4, <2>5, <2>6, UpdateSets
  <2>8. PICK m : m = MapOf(dict)
    OBVIOUS
  <2>9. MapOf(n) = [m EXCEPT ![k].expires = x]
    <3>1. e \in Entry
      BY <1>1, <1>3, <2>4, EntryParts DEF Sound
    <3>2. /\ f.type = e.type /\ f.len = e.len /\ f.data = e.data
          /\ f.items = e.items /\ f.expires = x
      BY <2>5, <3>1 DEF Entry
    <3>3. Scalar(f) = Scalar(e)
      BY <3>2 DEF Scalar
    <3>4. Contents(f) = [Contents(e) EXCEPT !.expires = x]
      BY <3>2, <3>3 DEF Contents
    <3>5. /\ DOMAIN m = DOMAIN dict.tree /\ m[k] = Contents(e)
          /\ \A j \in DOMAIN dict.tree : m[j] = Contents(dict.tree[j])
          /\ m = [j \in DOMAIN dict.tree |-> m[j]]
      BY <1>3, <2>4, <2>8, MapParts
    <3>6. /\ DOMAIN n.tree = DOMAIN dict.tree
          /\ \A j \in DOMAIN dict.tree :
               Contents(n.tree[j]) = IF j = k THEN [m[k] EXCEPT !.expires = x] ELSE m[j]
      BY <1>3, <2>7, <3>4, <3>5 DEF Sets
    <3>7. MapOf(n) = [j \in DOMAIN dict.tree |->
                        IF j = k THEN [m[k] EXCEPT !.expires = x] ELSE m[j]]
      BY <3>6 DEF MapOf
    <3>8. [m EXCEPT ![k].expires = x] =
            [j \in DOMAIN m |-> IF j = k THEN [m[k] EXCEPT !.expires = x] ELSE m[j]]
      BY <3>5
    <3> QED  BY <3>5, <3>7, <3>8
  <2>10. x = Map!Expires(t0, ttl)
    BY <2>3 DEF Expires, Map!Expires
  <2>11. MapOf(dict)' = [MapOf(dict) EXCEPT ![k].expires = Map!Expires(t0, ttl)]
    BY <2>6, <2>8, <2>9, <2>10
  <2>12. k \in DOMAIN MapOf(dict)
    BY <1>3, MapParts
  <2> QED  BY <2>1, <2>2, <2>11, <2>12, Zenon DEF Map!SetExpire
<1> QED  BY <1>2, <1>3, Zenon DEF SetExpire

LEMMA GetTtlMapped ==
  ASSUME IInv, NEW k \in Key, NEW t \in Time, GetTtl(k, t)
  PROVE  Map!GetTtl(k, t) /\ Asks("get_ttl", k)
<1>1. PICK ttl : ttl = IF k \notin DOMAIN dict.tree THEN NGX_DECLINED
                       ELSE IF dict.tree[k].expires = 0 THEN 0
                       ELSE dict.tree[k].expires - t
  OBVIOUS
<1>2. dict' = dict /\ Return("get_ttl", k, "OK", Nil, ttl, FALSE)
  BY <1>1 DEF GetTtl
<1>3. /\ Map!Answer("get_ttl", k, "OK", Nil, ttl, FALSE) /\ Making(call)' = None
      /\ Asks("get_ttl", k)
  BY <1>2, Returns, Zenon
<1>4. ttl = IF k \notin DOMAIN MapOf(dict) THEN -5
            ELSE IF MapOf(dict)[k].expires = 0 THEN 0 ELSE MapOf(dict)[k].expires - t
  BY <1>1, MapParts, EntryKnown DEF NGX_DECLINED
<1>5. Map!Nil = Nil /\ MapOf(dict)' = MapOf(dict)
  BY <1>2 DEF Map!Nil, Nil
<1> QED  BY <1>3, <1>4, <1>5, Zenon DEF Map!GetTtl

LEMMA FlushAllMapped ==
  ASSUME IInv, NEW t, FlushAll(t)
  PROVE  Map!FlushAll /\ Asks("flush_all", None)
<1>1. Sound(dict)
  BY DEF IInv
<1> DEFINE tree == [k \in DOMAIN dict.tree |-> [dict.tree[k] EXCEPT !.expires = 1]]
<1>2. /\ dict' = ExpireForced([dict EXCEPT !.tree = tree], now)
      /\ Return("flush_all", None, "OK", Nil, 0, FALSE)
  BY DEF FlushAll
<1>3. PICK n : n = [dict EXCEPT !.tree = tree]
  OBVIOUS
<1>4. n = [tree |-> tree, lru |-> dict.lru, used |-> dict.used]
  <2>1. dict = [tree |-> dict.tree, lru |-> dict.lru, used |-> dict.used]
    BY <1>1 DEF Sound, Consistent, IsDict
  <2> HIDE DEF tree
  <2> QED  BY <1>3, <2>1
<1>5. Sound(n)
  BY <1>1, <1>4, RetimeAllSound DEF Retimed
<1>6. PICK d : d = dict'
  OBVIOUS
<1>7. Keeps(d, n)
  BY <1>2, <1>3, <1>5, <1>6, ExpireForcedConsistent DEF Sound
<1>8. PICK gone : gone = DOMAIN dict.tree \ DOMAIN d.tree
  OBVIOUS
<1>9. DOMAIN n.tree = DOMAIN dict.tree
  BY <1>4
<1>10. DOMAIN d.tree = DOMAIN dict.tree \ gone /\ gone \subseteq DOMAIN dict.tree
  BY <1>7, <1>8, <1>9 DEF Keeps
<1>11. ASSUME NEW k \in DOMAIN d.tree
       PROVE  Contents(d.tree[k]) = [MapOf(dict)[k] EXCEPT !.expires = 1]
  <2>1. PICK e : e = dict.tree[k]
    OBVIOUS
  <2>2. PICK f : f = d.tree[k]
    OBVIOUS
  <2>3. k \in DOMAIN dict.tree /\ f = [e EXCEPT !.expires = 1]
    BY <1>4, <1>7, <1>10, <1>11, <2>1, <2>2 DEF Keeps
  <2>4. e \in Entry
    BY <1>1, <2>1, <2>3, EntryParts DEF Sound
  <2>5. /\ f.type = e.type /\ f.len = e.len /\ f.data = e.data
        /\ f.items = e.items /\ f.expires = 1
    BY <2>3, <2>4 DEF Entry
  <2>6. Scalar(f) = Scalar(e)
    BY <2>5 DEF Scalar
  <2>7. Contents(f) = [Contents(e) EXCEPT !.expires = 1]
    BY <2>5, <2>6 DEF Contents
  <2> QED  BY <2>1, <2>2, <2>3, <2>7, MapParts
<1>12. PICK m : m = MapOf(dict)
  OBVIOUS
<1>13. MapOf(d) = [k \in DOMAIN m \ gone |-> [m[k] EXCEPT !.expires = 1]]
  <2>1. DOMAIN m = DOMAIN dict.tree
    BY <1>12, MapParts
  <2>2. MapOf(d) = [k \in DOMAIN d.tree |-> Contents(d.tree[k])]
    BY DEF MapOf
  <2> QED  BY <1>10, <1>11, <1>12, <2>1, <2>2
<1>14. /\ Map!Answer("flush_all", None, "OK", Nil, 0, FALSE) /\ Making(call)' = None
       /\ Asks("flush_all", None)
  BY <1>2, Returns, Zenon
<1>15. Map!Nil = Nil
  BY DEF Map!Nil, Nil
<1>16. gone \in SUBSET DOMAIN MapOf(dict)
  BY <1>10, MapParts
<1>17. MapOf(dict)' = [k \in DOMAIN MapOf(dict) \ gone |->
                         [MapOf(dict)[k] EXCEPT !.expires = 1]]
  BY <1>6, <1>12, <1>13
<1> HIDE DEF tree
<1> QED  BY <1>14, <1>15, <1>16, <1>17, Zenon DEF Map!FlushAll


-----------------------------------------------------------------------------
(* Lists: what is done to the nodes is done to what they hold *)

LEMMA ConsElements ==
  ASSUME NEW S, NEW s \in Seq(S), NEW x \in S
  PROVE  /\ Cons(x, s) \in Seq(S) /\ Len(Cons(x, s)) = Len(s) + 1
         /\ \A i \in 1 .. Len(s) + 1 : Cons(x, s)[i] = IF i = 1 THEN x ELSE s[i - 1]
<1>1. <<x>> \in Seq(S) /\ Len(<<x>>) = 1 /\ <<x>>[1] = x
  OBVIOUS
<1>2. PICK one : one = <<x>>
  OBVIOUS
<1>3. /\ one \o s \in Seq(S) /\ Len(one \o s) = 1 + Len(s)
      /\ \A i \in 1 .. 1 + Len(s) : (one \o s)[i] = IF i <= 1 THEN one[i] ELSE s[i - 1]
  BY <1>1, <1>2, ConcatProperties
<1>4. Len(s) \in Nat
  OBVIOUS
<1> QED  BY <1>1, <1>2, <1>3, <1>4 DEF Cons

LEMMA FrontElements ==
  ASSUME NEW S, NEW s \in Seq(S), s # <<>>
  PROVE  /\ Front(s) \in Seq(S) /\ Len(Front(s)) = Len(s) - 1
         /\ \A i \in 1 .. Len(s) - 1 : Front(s)[i] = s[i]
<1>1. PICK n : n = Len(s) - 1
  OBVIOUS
<1>2. /\ n \in Nat /\ Len(s) = n + 1 /\ Front(s) = SubSeq(s, 1, n)
      /\ \A i \in 1 .. n : s[i] \in S
  BY <1>1 DEF Front
<1>3. PICK f : f = SubSeq(s, 1, n)
  OBVIOUS
<1>4. /\ f \in Seq(S) /\ Len(f) = IF 1 <= n THEN n - 1 + 1 ELSE 0
      /\ \A i \in 1 .. n - 1 + 1 : f[i] = s[1 + i - 1]
  BY <1>2, <1>3, SubSeqProperties
<1> QED  BY <1>1, <1>2, <1>3, <1>4

LEMMA ScalarsElements ==
  ASSUME NEW S, NEW s \in Seq(S), NEW R, R = {Scalar(x) : x \in S}
  PROVE  /\ Scalars(s) \in Seq(R) /\ Len(Scalars(s)) = Len(s)
         /\ \A i \in 1 .. Len(s) : Scalars(s)[i] = Scalar(s[i])
<1>1. PICK n : n = Len(s)
  OBVIOUS
<1>2. n \in Nat /\ DOMAIN s = 1 .. n /\ \A i \in 1 .. n : s[i] \in S
  BY <1>1
<1>3. PICK f : f = Scalars(s)
  OBVIOUS
<1>4. f = [i \in 1 .. n |-> Scalar(s[i])]
  BY <1>2, <1>3 DEF Scalars
<1>5. \A i \in 1 .. n : f[i] = Scalar(s[i]) /\ f[i] \in R
  BY <1>2, <1>4
<1>6. f \in [1 .. n -> R]
  BY <1>4, <1>5
<1>7. f \in Seq(R) /\ Len(f) = n
  BY <1>2, <1>6
<1> QED  BY <1>1, <1>3, <1>5, <1>7

LEMMA ScalarsOfAdd ==
  ASSUME NEW S, NEW s \in Seq(S), NEW x \in S
  PROVE  /\ Scalars(Cons(x, s)) = Cons(Scalar(x), Scalars(s))
         /\ Scalars(Append(s, x)) = Append(Scalars(s), Scalar(x))
<1>1. PICK R : R = {Scalar(y) : y \in S}
  OBVIOUS
<1>2. PICK r : r = Scalars(s)
  OBVIOUS
<1>3. PICK z : z = Scalar(x)
  OBVIOUS
<1>4. z \in R
  BY <1>1, <1>3
<1>5. PICK n : n = Len(s)
  OBVIOUS
<1>6. n \in Nat /\ r \in Seq(R) /\ Len(r) = n /\ \A i \in 1 .. n : r[i] = Scalar(s[i])
  <2>1. /\ Scalars(s) \in Seq(R) /\ Len(Scalars(s)) = Len(s)
        /\ \A i \in 1 .. Len(s) : Scalars(s)[i] = Scalar(s[i])
    BY <1>1, ScalarsElements
  <2> QED  BY <1>2, <1>5, <2>1
<1>7. Scalars(Cons(x, s)) = Cons(z, r)
  <2>1. PICK a : a = Cons(x, s)
    OBVIOUS
  <2>2. /\ a \in Seq(S) /\ Len(a) = n + 1
        /\ \A i \in 1 .. n + 1 : a[i] = IF i = 1 THEN x ELSE s[i - 1]
    <3>0. s \in Seq(S) /\ x \in S
      OBVIOUS
    <3>1. /\ Cons(x, s) \in Seq(S) /\ Len(Cons(x, s)) = Len(s) + 1
          /\ \A i \in 1 .. Len(s) + 1 :
               Cons(x, s)[i] = IF i = 1 THEN x ELSE s[i - 1]
      BY <3>0, ConsElements, SMTT(30)
    <3> QED  BY <1>5, <2>1, <3>1
  <2>3. PICK b : b = Scalars(a)
    OBVIOUS
  <2>4. b \in Seq(R) /\ Len(b) = n + 1 /\ \A i \in 1 .. n + 1 : b[i] = Scalar(a[i])
    BY <1>1, <2>2, <2>3, ScalarsElements
  <2>5. PICK c : c = Cons(z, r)
    OBVIOUS
  <2>6. /\ c \in Seq(R) /\ Len(c) = n + 1
        /\ \A i \in 1 .. n + 1 : c[i] = IF i = 1 THEN z ELSE r[i - 1]
    <3>1. r \in Seq(R)
      BY <1>6
    <3>2. /\ Cons(z, r) \in Seq(R) /\ Len(Cons(z, r)) = Len(r) + 1
          /\ \A i \in 1 .. Len(r) + 1 :
               Cons(z, r)[i] = IF i = 1 THEN z ELSE r[i - 1]
      BY <1>4, <3>1, ConsElements
    <3> QED  BY <1>6, <2>5, <3>2
  <2>7. ASSUME NEW i \in 1 .. n + 1 PROVE b[i] = c[i]
    <3>1. CASE i = 1
      BY <1>3, <2>2, <2>4, <2>6, <3>1
    <3>2. CASE i # 1
      <4>1. i - 1 \in 1 .. n
        BY <1>6, <3>2
      <4>2. a[i] = s[i - 1] /\ c[i] = r[i - 1] /\ b[i] = Scalar(a[i])
        BY <2>2, <2>4, <2>6, <3>2
      <4> QED  BY <1>6, <4>1, <4>2
    <3> QED  BY <3>1, <3>2
  <2>8. b = c
    BY <2>4, <2>6, <2>7, SeqEqual
  <2> QED  BY <2>1, <2>3, <2>5, <2>8
<1>8. Scalars(Append(s, x)) = Append(r, z)
  <2>1. PICK a : a = Append(s, x)
    OBVIOUS
  <2>2. /\ a \in Seq(S) /\ Len(a) = n + 1 /\ a[n + 1] = x
        /\ \A i \in 1 .. n : a[i] = s[i]
    BY <1>5, <2>1, AppendProperties
  <2>3. PICK b : b = Scalars(a)
    OBVIOUS
  <2>4. b \in Seq(R) /\ Len(b) = n + 1 /\ \A i \in 1 .. n + 1 : b[i] = Scalar(a[i])
    BY <1>1, <2>2, <2>3, ScalarsElements
  <2>5. PICK c : c = Append(r, z)
    OBVIOUS
  <2>6. /\ c \in Seq(R) /\ Len(c) = n + 1 /\ c[n + 1] = z
        /\ \A i \in 1 .. n : c[i] = r[i]
    BY <1>4, <1>6, <2>5, AppendProperties
  <2>7. ASSUME NEW i \in 1 .. n + 1 PROVE b[i] = c[i]
    <3>1. CASE i = n + 1
      BY <1>3, <2>2, <2>4, <2>6, <3>1
    <3>2. CASE i # n + 1
      <4>1. i \in 1 .. n
        BY <1>6, <3>2
      <4>2. a[i] = s[i] /\ c[i] = r[i] /\ b[i] = Scalar(a[i])
        BY <2>2, <2>4, <2>6, <4>1
      <4> QED  BY <1>6, <4>1, <4>2
    <3> QED  BY <3>1, <3>2
  <2>8. b = c
    BY <2>4, <2>6, <2>7, SeqEqual
  <2> QED  BY <2>1, <2>3, <2>5, <2>8
<1> QED  BY <1>2, <1>3, <1>7, <1>8

LEMMA ScalarsOfRest ==
  ASSUME NEW S, NEW s \in Seq(S), s # <<>>
  PROVE  /\ Scalars(Tail(s)) = Tail(Scalars(s))
         /\ Scalars(Front(s)) = Front(Scalars(s))
         /\ Scalar(Head(s)) = Head(Scalars(s))
         /\ Scalar(Last(s)) = Last(Scalars(s))
<1>1. PICK R : R = {Scalar(y) : y \in S}
  OBVIOUS
<1>2. PICK r : r = Scalars(s)
  OBVIOUS
<1>3. PICK n : n = Len(s)
  OBVIOUS
<1>4. /\ n \in Nat /\ n >= 1 /\ r \in Seq(R) /\ Len(r) = n
      /\ \A i \in 1 .. n : r[i] = Scalar(s[i])
  <2>1. /\ Scalars(s) \in Seq(R) /\ Len(Scalars(s)) = Len(s)
        /\ \A i \in 1 .. Len(s) : Scalars(s)[i] = Scalar(s[i])
    BY <1>1, ScalarsElements
  <2>2. Len(s) \in Nat /\ Len(s) >= 1
    OBVIOUS
  <2> QED  BY <1>2, <1>3, <2>1, <2>2
<1>5. r # <<>>
  BY <1>4
<1>6. Scalars(Tail(s)) = Tail(r)
  <2>1. PICK a : a = Tail(s)
    OBVIOUS
  <2>2. a \in Seq(S) /\ Len(a) = n - 1 /\ \A i \in 1 .. n - 1 : a[i] = s[i + 1]
    BY <1>3, <2>1, HeadTailProperties
  <2>3. PICK b : b = Scalars(a)
    OBVIOUS
  <2>4. b \in Seq(R) /\ Len(b) = n - 1 /\ \A i \in 1 .. n - 1 : b[i] = Scalar(a[i])
    BY <1>1, <2>2, <2>3, ScalarsElements
  <2>5. PICK c : c = Tail(r)
    OBVIOUS
  <2>6. c \in Seq(R) /\ Len(c) = n - 1 /\ \A i \in 1 .. n - 1 : c[i] = r[i + 1]
    BY <1>4, <1>5, <2>5, HeadTailProperties
  <2>7. ASSUME NEW i \in 1 .. n - 1 PROVE b[i] = c[i]
    <3>1. i + 1 \in 1 .. n
      BY <1>4
    <3> QED  BY <1>4, <2>2, <2>4, <2>6, <3>1
  <2>8. b = c
    BY <2>4, <2>6, <2>7, SeqEqual
  <2> QED  BY <2>1, <2>3, <2>5, <2>8
<1>7. Scalars(Front(s)) = Front(r)
  <2>1. PICK a : a = Front(s)
    OBVIOUS
  <2>2. a \in Seq(S) /\ Len(a) = n - 1 /\ \A i \in 1 .. n - 1 : a[i] = s[i]
    BY <1>3, <2>1, FrontElements
  <2>3. PICK b : b = Scalars(a)
    OBVIOUS
  <2>4. b \in Seq(R) /\ Len(b) = n - 1 /\ \A i \in 1 .. n - 1 : b[i] = Scalar(a[i])
    BY <1>1, <2>2, <2>3, ScalarsElements
  <2>5. PICK c : c = Front(r)
    OBVIOUS
  <2>6. c \in Seq(R) /\ Len(c) = n - 1 /\ \A i \in 1 .. n - 1 : c[i] = r[i]
    BY <1>4, <1>5, <2>5, FrontElements
  <2>7. ASSUME NEW i \in 1 .. n - 1 PROVE b[i] = c[i]
    <3>1. i \in 1 .. n
      BY <1>4
    <3> QED  BY <1>4, <2>2, <2>4, <2>6, <3>1
  <2>8. b = c
    BY <2>4, <2>6, <2>7, SeqEqual
  <2> QED  BY <2>1, <2>3, <2>5, <2>8
<1>8. Scalar(Head(s)) = Head(r) /\ Scalar(Last(s)) = Last(r)
  <2>1. Head(s) = s[1] /\ Head(r) = r[1]
    BY <1>4, <1>5
  <2>2. Last(s) = s[n] /\ Last(r) = r[n]
    BY <1>3, <1>4 DEF Last
  <2>3. 1 \in 1 .. n /\ n \in 1 .. n
    BY <1>4
  <2> QED  BY <1>4, <2>1, <2>2, <2>3
<1> QED  BY <1>2, <1>6, <1>7, <1>8


LEMMA LlenMapped ==
  ASSUME IInv, NEW k \in Key, NEW t \in Time, Llen(k, t)
  PROVE  Map!Llen(k, t) /\ Asks("llen", k)
<1>1. PICK e : e = ExpireTwo(dict, now)
  OBVIOUS
<1>2. PICK d : d = Lookup(e, k)
  OBVIOUS
<1>3. PICK rc : rc = LookupRc(e, k, t)
  OBVIOUS
<1>4. PICK m : m = MapOf(d)
  OBVIOUS
<1>5. t \in Nat
  BY ShdictAssumption
<1>6. /\ Sound(d) /\ m \in Map!Aged
      /\ rc = "OK" => Map!Live(m, k, t) /\ k \in DOMAIN d.tree
      /\ rc # "OK" => ~Map!Live(m, k, t)
  BY <1>1, <1>2, <1>3, <1>4, <1>5, BeginAged
<1>7. PICK old : old = d.tree[k]
  OBVIOUS
<1>8. /\ dict' = d
      /\ \/ rc # "OK" /\ Return("llen", k, "OK", Nil, 0, FALSE)
         \/ rc = "OK" /\ old.type # "list" /\ Fail("llen", k, "ERROR")
         \/ /\ rc = "OK" /\ old.type = "list"
            /\ \E n \in ReadUnlocked(old.len) : Return("llen", k, "OK", Nil, n, FALSE)
  BY <1>1, <1>2, <1>3, <1>7 DEF Llen
<1>9. MapOf(dict)' = m
  BY <1>4, <1>8
<1>10. Map!Nil = Nil
  BY DEF Map!Nil, Nil
<1>11. ASSUME rc # "OK", Return("llen", k, "OK", Nil, 0, FALSE)
       PROVE  Map!Llen(k, t) /\ Asks("llen", k)
  <2>1. /\ Map!Answer("llen", k, "OK", Nil, 0, FALSE) /\ Making(call)' = None
        /\ Asks("llen", k)
    BY <1>11, Returns, Zenon
  <2> QED  BY <1>6, <1>9, <1>10, <1>11, <2>1, Zenon DEF Map!Llen
<1>12. ASSUME rc = "OK", old.type # "list", Fail("llen", k, "ERROR")
       PROVE  Map!Llen(k, t) /\ Asks("llen", k)
  <2>1. Map!Refuse("llen", k, "ERROR") /\ Making(call)' = None /\ Asks("llen", k)
    BY <1>12, Fails, Zenon
  <2>2. m[k].val = Scalar(old)
    BY <1>4, <1>6, <1>7, <1>12, EntryKnown
  <2>3. m[k].val # Map!List
    BY <1>12, <2>2 DEF Scalar, Map!List
  <2> QED  BY <1>6, <1>9, <1>12, <2>1, <2>3, Zenon DEF Map!Llen
<1>13. ASSUME rc = "OK", old.type = "list", NEW n \in ReadUnlocked(old.len),
              Return("llen", k, "OK", Nil, n, FALSE)
       PROVE  Map!Llen(k, t) /\ Asks("llen", k)
  <2>1. /\ Map!Answer("llen", k, "OK", Nil, n, FALSE) /\ Making(call)' = None
        /\ Asks("llen", k)
    BY <1>13, Returns, Zenon
  <2>2. m[k].val = Map!List /\ m[k].items = Scalars(old.items)
    BY <1>4, <1>6, <1>7, <1>13, EntryKnown
  <2>3. old.items \in Seq(Item) /\ old.len = Len(old.items)
    BY <1>6, <1>7, <1>13, EntryParts DEF Sound, GoodEntry, LenExact, Entry
  <2>4. Len(Scalars(old.items)) = Len(old.items)
    BY <2>3, ScalarsElements
  <2>5. n \in {Len(m[k].items)} \cup Late
    BY <1>13, <2>2, <2>3, <2>4 DEF ReadUnlocked
  <2> QED  BY <1>6, <1>9, <1>10, <1>13, <2>1, <2>2, <2>5, Zenon DEF Map!Llen
<1> QED  BY <1>8, <1>11, <1>12, <1>13

\* From d to n, nothing but the items of k change.
LEMMA ItemsSet ==
  ASSUME NEW d, NEW k \in DOMAIN d.tree, NEW f, NEW n, Sets(n, d, k, f), NEW items,
         f.expires = d.tree[k].expires, f.type = "list", d.tree[k].type = "list",
         Scalars(f.items) = items
  PROVE  MapOf(n) = [MapOf(d) EXCEPT ![k].items = items]
<1>1. PICK m : m = MapOf(d)
  OBVIOUS
<1>2. PICK e : e = d.tree[k]
  OBVIOUS
<1>3. /\ DOMAIN m = DOMAIN d.tree /\ m[k] = Contents(e)
      /\ \A j \in DOMAIN d.tree : m[j] = Contents(d.tree[j])
  BY <1>1, <1>2, MapParts
<1>4. Contents(f) = [Contents(e) EXCEPT !.items = items]
  BY <1>2 DEF Contents
<1>5. /\ DOMAIN n.tree = DOMAIN d.tree
      /\ \A j \in DOMAIN d.tree :
           Contents(n.tree[j]) = IF j = k THEN [m[k] EXCEPT !.items = items] ELSE m[j]
  BY <1>3, <1>4 DEF Sets
<1>6. MapOf(n) = [j \in DOMAIN d.tree |->
                    IF j = k THEN [m[k] EXCEPT !.items = items] ELSE m[j]]
  BY <1>5 DEF MapOf
<1>7. [m EXCEPT ![k].items = items] =
        [j \in DOMAIN m |-> IF j = k THEN [m[k] EXCEPT !.items = items] ELSE m[j]]
  BY <1>3
<1> QED  BY <1>1, <1>3, <1>6, <1>7

LEMMA PopMapped ==
  ASSUME IInv, NEW dir \in PopOps, NEW k \in Key, NEW room, NEW t \in Time,
         Pop(dir, k, room, t)
  PROVE  Map!Pop(dir, k, t) /\ Asks(dir, k)
<1>1. PICK e : e = ExpireTwo(dict, now)
  OBVIOUS
<1>2. PICK d : d = Lookup(e, k)
  OBVIOUS
<1>3. PICK rc : rc = LookupRc(e, k, t)
  OBVIOUS
<1>4. PICK m : m = MapOf(d)
  OBVIOUS
<1>5. t \in Nat
  BY ShdictAssumption
<1>6. /\ Sound(d) /\ m \in Map!Aged
      /\ rc = "OK" => Map!Live(m, k, t) /\ k \in DOMAIN d.tree
      /\ rc # "OK" => ~Map!Live(m, k, t)
  BY <1>1, <1>2, <1>3, <1>4, <1>5, BeginAged
<1>7. PICK old : old = d.tree[k]
  OBVIOUS
<1>8. PICK item : item = Pick(dir, old.items)
  OBVIOUS
<1>9. PICK left : left = [d EXCEPT !.used = Release(d.used, {item.block})]
  OBVIOUS
<1>10. \/ rc # "OK" /\ dict' = d /\ Return(dir, k, "OK", Nil, 0, FALSE)
       \/ rc = "OK" /\ dict' = d /\ Fail(dir, k, "ERROR")
       \/ /\ rc = "OK" /\ old.type = "list" /\ old.len > 0
          /\ dict' = IF old.len = 1 THEN DropNode(left, k)
                     ELSE Update(Touch(left, k), k, RemoveItem(dir, old))
          /\ Return(dir, k, "OK", Scalar(item), 0, FALSE)
  BY <1>1, <1>2, <1>3, <1>7, <1>8, <1>9 DEF Pop, Scalar
<1>11. ASSUME rc # "OK", dict' = d, Return(dir, k, "OK", Nil, 0, FALSE)
       PROVE  Map!Pop(dir, k, t) /\ Asks(dir, k)
  <2>1. /\ Map!Answer(dir, k, "OK", Nil, 0, FALSE) /\ Making(call)' = None
        /\ Asks(dir, k)
    BY <1>11, Returns, Zenon
  <2>2. MapOf(dict)' = m /\ Map!Nil = Nil
    BY <1>4, <1>11 DEF Map!Nil, Nil
  <2> QED  BY <1>6, <1>11, <2>1, <2>2, Zenon DEF Map!Pop
<1>12. ASSUME rc = "OK", dict' = d, Fail(dir, k, "ERROR")
       PROVE  Map!Pop(dir, k, t) /\ Asks(dir, k)
  <2>1. Map!Refuse(dir, k, "ERROR") /\ Making(call)' = None /\ Asks(dir, k)
    BY <1>12, Fails, Zenon
  <2>2. MapOf(dict)' = m
    BY <1>4, <1>12
  <2> QED  BY <1>6, <1>12, <2>1, <2>2, Zenon DEF Map!Pop
<1>13. ASSUME rc = "OK", old.type = "list", old.len > 0,
              dict' = IF old.len = 1 THEN DropNode(left, k)
                      ELSE Update(Touch(left, k), k, RemoveItem(dir, old)),
              Return(dir, k, "OK", Scalar(item), 0, FALSE)
       PROVE  Map!Pop(dir, k, t) /\ Asks(dir, k)
  <2>1. PICK s : s = old.items
    OBVIOUS
  <2>2. PICK r : r = Scalars(s)
    OBVIOUS
  <2>3. PICK n : n = dict'
    OBVIOUS
  <2>4. k \in DOMAIN d.tree
    BY <1>6, <1>13
  <2>5. old \in Entry /\ s \in Seq(Item) /\ old.len = Len(s)
    BY <1>6, <1>7, <1>13, <2>1, <2>4, EntryParts DEF Sound, GoodEntry, LenExact, Entry
  <2>6. s # <<>>
    BY <1>13, <2>5
  <2>7. /\ Scalars(Tail(s)) = Tail(r) /\ Scalars(Front(s)) = Front(r)
        /\ Scalar(Head(s)) = Head(r) /\ Scalar(Last(s)) = Last(r)
    BY <2>2, <2>5, <2>6, ScalarsOfRest
  <2>8. Len(r) = Len(s)
    BY <2>2, <2>5, ScalarsElements
  <2>9. m[k].val = Map!List /\ m[k].items = r
    BY <1>4, <1>7, <1>13, <2>1, <2>2, <2>4, EntryKnown
  <2>10. PICK out : out = Scalar(item)
    OBVIOUS
  <2>11. out = IF dir = "lpop" THEN Head(r) ELSE Last(r)
    BY <1>8, <2>1, <2>7, <2>10 DEF Pick
  <2>12. PICK u : u = Release(d.used, {item.block})
    OBVIOUS
  <2>13. left = [tree |-> d.tree, lru |-> d.lru, used |-> u]
    <3>1. d = [tree |-> d.tree, lru |-> d.lru, used |-> d.used]
      BY <1>6 DEF Sound, Consistent, IsDict
    <3> QED  BY <1>9, <2>12, <3>1
  <2>14. ASSUME old.len = 1 PROVE MapOf(n) = Map!Without(m, {k})
    <3>1. n = DropNode(left, k)
      BY <1>13, <2>3, <2>14
    <3>2. n.tree = [x \in DOMAIN d.tree \ {k} |-> d.tree[x]]
      BY <2>13, <3>1 DEF DropNode
    <3>3. Keeps(n, d) /\ DOMAIN n.tree = DOMAIN d.tree \ {k}
      BY <3>2 DEF Keeps
    <3> QED  BY <1>4, <3>3, KeepsMap
  <2>15. ASSUME old.len # 1
         PROVE  MapOf(n) = [m EXCEPT ![k].items = IF dir = "lpop" THEN Tail(r) ELSE Front(r)]
    <3>1. PICK f : f = RemoveItem(dir, old)
      OBVIOUS
    <3>2. PICK q : q = Cons(k, RemoveFirst(d.lru, k))
      OBVIOUS
    <3>3. Touch(left, k) = [tree |-> d.tree, lru |-> q, used |-> u]
      BY <2>13, <3>2 DEF Touch
    <3>4. n = Update(Touch(left, k), k, f)
      BY <1>13, <2>3, <2>15, <3>1
    <3>5. n.tree = [d.tree EXCEPT ![k] = f]
      BY <3>3, <3>4 DEF Update
    <3>6. Sets(n, d, k, f)
      BY <2>4, <3>5 DEF Sets
    <3>7. PICK rest : rest = Rest(dir, s)
      OBVIOUS
    <3>8. f.items = rest /\ f.expires = old.expires /\ f.type = "list"
      <4>1. PICK g : g = [old EXCEPT !.len = old.len - 1]
        OBVIOUS
      <4>2. f = [g EXCEPT !.items = rest]
        BY <2>1, <3>1, <3>7, <4>1 DEF RemoveItem
      <4> QED  BY <1>13, <2>5, <4>1, <4>2 DEF Entry
    <3>9. PICK y : y = IF dir = "lpop" THEN Tail(r) ELSE Front(r)
      OBVIOUS
    <3>10. Scalars(f.items) = y
      BY <2>7, <3>7, <3>8, <3>9 DEF Rest
    <3>11. MapOf(n) = [m EXCEPT ![k].items = y]
      BY <1>4, <1>7, <1>13, <2>4, <3>6, <3>8, <3>10, ItemsSet
    <3> QED  BY <3>9, <3>11
  <2>16. MapOf(dict)' = IF Len(m[k].items) = 1 THEN Map!Without(m, {k})
                        ELSE [m EXCEPT ![k].items =
                                IF dir = "lpop" THEN Tail(m[k].items)
                                ELSE Map!Front(m[k].items)]
    BY <2>3, <2>5, <2>8, <2>9, <2>14, <2>15 DEF Front, Map!Front
  <2>17. /\ Map!Answer(dir, k, "OK", out, 0, FALSE) /\ Making(call)' = None
         /\ Asks(dir, k)
    BY <1>13, <2>10, Returns, Zenon
  <2>18. out = IF dir = "lpop" THEN Head(m[k].items) ELSE Map!Last(m[k].items)
    BY <2>9, <2>11 DEF Last, Map!Last
  <2>19. Map!Answer(dir, k, "OK", IF dir = "lpop" THEN Head(m[k].items)
                                  ELSE Map!Last(m[k].items), 0, FALSE)
    BY <2>17, <2>18, Zenon
  <2> QED  BY <1>6, <1>13, <2>9, <2>16, <2>17, <2>19, Zenon DEF Map!Pop
<1> QED  BY <1>10, <1>11, <1>12, <1>13


\* The label push_node, on the list of k in b.
PushedOn(m, s, dir, k, v) ==
    /\ Making(call)' = None /\ Asks(dir, k)
    /\ \/ /\ MapOf(dict)' =
               Map!With(m, k, Map!List,
                        IF dir = "lpush" THEN Map!Cons(v, s) ELSE Append(s, v),
                        m[k].expires)
          /\ \E n \in {Len(s) + 1} \cup Late : Map!Answer(dir, k, "OK", v, n, FALSE)
       \/ /\ Map!Refuse(dir, k, "NOMEM")
          /\ MapOf(dict)' = IF s = <<>> THEN Map!Without(m, {k}) ELSE m

LEMMA PushNodeMapped ==
  ASSUME NEW b, NEW k, Pushable(b, k), NEW dir \in PushOps, NEW v \in Value,
         v.type \in {"number", "string"}, PushNode(dir, k, v, b),
         NEW m, m = MapOf(b), NEW s, s = m[k].items
  PROVE  PushedOn(m, s, dir, k, v)
<1>1. k \in DOMAIN b.tree
  BY DEF Pushable
<1>2. PICK e : e = b.tree[k]
  OBVIOUS
<1>3. e \in Entry /\ e.type = "list" /\ e.items \in Seq(Item) /\ e.len = Len(e.items)
  <2>1. e.type = "list" /\ e \in Entry /\ LenExact(e)
    BY <1>1, <1>2, EntryParts DEF Pushable, GoodEntry
  <2> QED  BY <2>1 DEF LenExact, Entry
<1>4. s = Scalars(e.items) /\ Len(s) = e.len /\ m[k].expires = e.expires
  <2>1. s = Scalars(e.items) /\ m[k].expires = e.expires
    BY <1>1, <1>2, EntryKnown
  <2>2. Len(Scalars(e.items)) = Len(e.items)
    BY <1>3, ScalarsElements
  <2> QED  BY <1>3, <2>1, <2>2
<1>5. \/ \E blk \in Free(b.used, ItemClass[v.len]), n \in ReadUnlocked(e.len + 1) :
           LET item == [type |-> v.type, len |-> v.len, data |-> v.data, block |-> blk]
           IN /\ dict' = [Update(b, k, AddItem(dir, e, item))
                            EXCEPT !.used = Update(b, k, AddItem(dir, e, item)).used
                                              \cup {blk}]
              /\ Return(dir, k, "OK", v, n, FALSE)
      \/ /\ dict' = IF e.len = 0 THEN DropNode(b, k) ELSE b
         /\ Fail(dir, k, "NOMEM")
  BY <1>2 DEF PushNode
<1>6. ASSUME NEW blk \in Free(b.used, ItemClass[v.len]), NEW n \in ReadUnlocked(e.len + 1),
             NEW item,
             item = [type |-> v.type, len |-> v.len, data |-> v.data, block |-> blk],
             dict' = [Update(b, k, AddItem(dir, e, item))
                        EXCEPT !.used = Update(b, k, AddItem(dir, e, item)).used
                                          \cup {blk}],
             Return(dir, k, "OK", v, n, FALSE)
      PROVE  PushedOn(m, s, dir, k, v)
  <2>1. v \in Storable /\ v.len \in Lengths
    BY ValueOK
  <2>2. blk \in Block
    <3>1. ItemClass[v.len] \in Class
      BY <2>1, ClassesOK
    <3> QED  BY <1>6, <3>1, FreeIsNew
  <2>3. item \in Item /\ Scalar(item) = v
    BY <1>6, <2>1, <2>2 DEF Item, Storable, Scalar
  <2>4. PICK w : w = IF dir = "lpush" THEN Cons(item, e.items) ELSE Append(e.items, item)
    OBVIOUS
  <2>5. PICK f : f = AddItem(dir, e, item)
    OBVIOUS
  <2>6. f.items = w /\ f.expires = e.expires /\ f.type = "list"
    <3>1. PICK g : g = [e EXCEPT !.len = e.len + 1]
      OBVIOUS
    <3>2. g \in Entry /\ g.expires = e.expires /\ g.type = "list"
      BY <1>3, <3>1 DEF Entry
    <3>3. f = [g EXCEPT !.items = w]
      BY <2>4, <2>5, <3>1, Zenon DEF AddItem
    <3> QED  BY <3>2, <3>3 DEF Entry
  <2>7. Scalars(w) = IF dir = "lpush" THEN Map!Cons(v, s) ELSE Append(s, v)
    <3>1. /\ Scalars(Cons(item, e.items)) = Cons(Scalar(item), Scalars(e.items))
          /\ Scalars(Append(e.items, item)) = Append(Scalars(e.items), Scalar(item))
      BY <1>3, <2>3, ScalarsOfAdd
    <3>2. Map!Cons(v, s) = Cons(v, s)
      BY DEF Map!Cons, Cons
    <3> QED  BY <1>4, <2>3, <2>4, <3>1, <3>2, Zenon
  <2>8. PICK y : y = IF dir = "lpush" THEN Map!Cons(v, s) ELSE Append(s, v)
    OBVIOUS
  <2>9. Contents(f) = [val |-> Map!List, items |-> y, expires |-> e.expires]
    BY <2>6, <2>7, <2>8 DEF Contents, Map!List
  <2>10. PICK new : new = dict'
    OBVIOUS
  <2>11. Sets(new, b, k, f)
    <3>1. b = [tree |-> b.tree, lru |-> b.lru, used |-> b.used]
      BY DEF Pushable, Consistent, IsDict
    <3>2. PICK p : p = Update(b, k, f)
      OBVIOUS
    <3>3. p = [tree |-> [b.tree EXCEPT ![k] = f], lru |-> b.lru, used |-> b.used]
      BY <3>1, <3>2 DEF Update
    <3>4. new = [p EXCEPT !.used = p.used \cup {blk}]
      BY <1>6, <2>5, <2>10, <3>2
    <3>5. new.tree = [b.tree EXCEPT ![k] = f]
      BY <3>3, <3>4
    <3> QED  BY <1>1, <3>5 DEF Sets
  <2>12. MapOf(new) = Map!With(m, k, Map!List, y, e.expires)
    BY <2>9, <2>11, SetsMap
  <2>13. Map!Answer(dir, k, "OK", v, n, FALSE) /\ Making(call)' = None /\ Asks(dir, k)
    BY <1>6, Returns, Zenon
  <2>14. n \in {Len(s) + 1} \cup Late
    BY <1>4, <1>6 DEF ReadUnlocked
  <2>15. MapOf(dict)' =
           Map!With(m, k, Map!List,
                    IF dir = "lpush" THEN Map!Cons(v, s) ELSE Append(s, v), m[k].expires)
    BY <1>4, <2>8, <2>10, <2>12
  <2> QED  BY <2>13, <2>14, <2>15, Zenon DEF PushedOn
<1>7. ASSUME dict' = IF e.len = 0 THEN DropNode(b, k) ELSE b, Fail(dir, k, "NOMEM")
      PROVE  PushedOn(m, s, dir, k, v)
  <2>1. Map!Refuse(dir, k, "NOMEM") /\ Making(call)' = None /\ Asks(dir, k)
    BY <1>7, Fails, Zenon
  <2>2. s = <<>> <=> e.len = 0
    <3>1. PICK R : R = {Scalar(x) : x \in Item}
      OBVIOUS
    <3>2. s \in Seq(R)
      BY <1>3, <1>4, <3>1, ScalarsElements
    <3> QED  BY <1>4, <3>2
  <2>3. PICK new : new = dict'
    OBVIOUS
  <2>4. ASSUME e.len = 0 PROVE MapOf(new) = Map!Without(m, {k})
    <3>1. new.tree = [x \in DOMAIN b.tree \ {k} |-> b.tree[x]]
      BY <1>7, <2>3, <2>4 DEF DropNode
    <3>2. Keeps(new, b) /\ DOMAIN new.tree = DOMAIN b.tree \ {k}
      BY <3>1 DEF Keeps
    <3> QED  BY <3>2, KeepsMap
  <2>5. MapOf(dict)' = IF s = <<>> THEN Map!Without(m, {k}) ELSE m
    BY <1>7, <2>2, <2>3, <2>4
  <2> QED  BY <2>1, <2>5, Zenon DEF PushedOn
<1> QED  BY <1>5, <1>6, <1>7

LEMMA DictAged == MapOf(dict) \in Map!Aged
<1>1. Map!Without(MapOf(dict), {}) = MapOf(dict)
  BY MapParts DEF Map!Without
<1> QED  BY <1>1 DEF Map!Aged

LEMMA WithAfterWith ==
  ASSUME NEW m, NEW k, NEW val, NEW items, NEW x, NEW v, NEW i, NEW y
  PROVE  Map!With(Map!With(m, k, val, items, x), k, v, i, y) = Map!With(m, k, v, i, y)
<1>1. PICK n : n = Map!With(m, k, val, items, x)
  OBVIOUS
<1>2. DOMAIN n = DOMAIN m \cup {k} /\ \A j \in DOMAIN m \ {k} : n[j] = m[j]
  BY <1>1 DEF Map!With
<1>3. PICK new : new = [val |-> v, items |-> i, expires |-> y]
  OBVIOUS
<1>4. /\ Map!With(n, k, v, i, y) =
           [j \in DOMAIN n \cup {k} |-> IF j = k THEN new ELSE n[j]]
      /\ Map!With(m, k, v, i, y) =
           [j \in DOMAIN m \cup {k} |-> IF j = k THEN new ELSE m[j]]
  BY <1>3 DEF Map!With
<1> QED  BY <1>1, <1>2, <1>4

LEMMA WithoutAfterWith ==
  ASSUME NEW m, NEW k, NEW val, NEW items, NEW x
  PROVE  Map!Without(Map!With(m, k, val, items, x), {k}) = Map!Without(m, {k})
<1>1. PICK n : n = Map!With(m, k, val, items, x)
  OBVIOUS
<1>2. DOMAIN n = DOMAIN m \cup {k} /\ \A j \in DOMAIN m \ {k} : n[j] = m[j]
  BY <1>1 DEF Map!With
<1> QED  BY <1>1, <1>2 DEF Map!Without

LEMMA PushMapped ==
  ASSUME IInv, NEW dir \in PushOps, NEW k \in Key, NEW v \in Value, NEW t \in Time,
         Push(dir, k, v, t)
  PROVE  Map!Push(dir, k, v, t) /\ Asks(dir, k)
<1>1. PICK e : e = ExpireTwo(dict, now)
  OBVIOUS
<1>2. PICK d : d = Lookup(e, k)
  OBVIOUS
<1>3. PICK rc : rc = LookupRc(e, k, t)
  OBVIOUS
<1>4. PICK m : m = MapOf(d)
  OBVIOUS
<1>5. t \in Nat
  BY ShdictAssumption
<1>6. /\ Sound(d) /\ m \in Map!Aged
      /\ rc = "OK" => Map!Live(m, k, t)
      /\ rc # "OK" => ~Map!Live(m, k, t)
      /\ rc # "DECLINED" <=> k \in DOMAIN d.tree
  BY <1>1, <1>2, <1>3, <1>4, <1>5, BeginAged
<1>7. PICK bare : bare = IF rc = "DONE" THEN DropNode(d, k) ELSE d
  OBVIOUS
<1>8. \/ /\ v.type \notin {"number", "string"}
         /\ dict' = dict /\ Fail(dir, k, "ERROR")
      \/ /\ rc = "OK" /\ d.tree[k].type # "list"
         /\ dict' = d /\ Fail(dir, k, "ERROR")
      \/ /\ v.type \in {"number", "string"}
         /\ rc = "OK" /\ d.tree[k].type = "list" /\ PushNode(dir, k, v, Touch(d, k))
      \/ /\ v.type \in {"number", "string"}
         /\ rc = "DONE" /\ d.tree[k].type = "list" /\ PushNode(dir, k, v, ResetList(d, k))
      \/ /\ v.type \in {"number", "string"}
         /\ rc = "DECLINED" \/ (rc = "DONE" /\ d.tree[k].type # "list")
         /\ \/ \E blk \in Free(bare.used, ListClass) :
                 PushNode(dir, k, v, Insert(bare, k, EmptyList(blk)))
            \/ dict' = bare /\ Fail(dir, k, "NOMEM")
  BY <1>1, <1>2, <1>3, <1>7 DEF Push
<1>9. ASSUME v.type \notin {"number", "string"}, dict' = dict, Fail(dir, k, "ERROR")
      PROVE  Map!Push(dir, k, v, t) /\ Asks(dir, k)
  <2>1. Map!Refuse(dir, k, "ERROR") /\ Making(call)' = None /\ Asks(dir, k)
    BY <1>9, Fails, Zenon
  <2>2. v.type = "boolean"
    BY <1>9, ValueOK DEF Storable
  <2>3. PICK own : own = MapOf(dict)
    OBVIOUS
  <2>4. own \in Map!Aged /\ MapOf(dict)' = own
    BY <1>9, <2>3, DictAged
  <2> QED  BY <2>1, <2>2, <2>4, Zenon DEF Map!Push
<1>10. ASSUME rc = "OK", d.tree[k].type # "list", dict' = d, Fail(dir, k, "ERROR")
       PROVE  Map!Push(dir, k, v, t) /\ Asks(dir, k)
  <2>1. Map!Refuse(dir, k, "ERROR") /\ Making(call)' = None /\ Asks(dir, k)
    BY <1>10, Fails, Zenon
  <2>2. m[k].val = Scalar(d.tree[k])
    BY <1>4, <1>6, <1>10, EntryKnown
  <2>3. m[k].val # Map!List
    BY <1>10, <2>2 DEF Scalar, Map!List
  <2>4. MapOf(dict)' = m
    BY <1>4, <1>10
  <2> QED  BY <1>6, <1>10, <2>1, <2>3, <2>4, Zenon DEF Map!Push
\* Onto the list that is there: it has nodes, so it is kept whatever happens.
<1>11. ASSUME v.type \in {"number", "string"}, rc = "OK", d.tree[k].type = "list",
              PushNode(dir, k, v, Touch(d, k))
       PROVE  Map!Push(dir, k, v, t) /\ Asks(dir, k)
  <2>1. PICK b : b = Touch(d, k)
    OBVIOUS
  <2>2. k \in DOMAIN d.tree
    BY <1>6, <1>11
  <2>3. Sound(b) /\ b.tree = d.tree
    BY <1>6, <2>1, <2>2, TouchSound
  <2>4. Pushable(b, k)
    BY <1>11, <2>2, <2>3 DEF Pushable, Sound, HasNoEmptyList
  <2>5. m = MapOf(b)
    BY <1>4, <2>3, SameTree
  <2>6. PICK s : s = m[k].items
    OBVIOUS
  <2>7. PushedOn(m, s, dir, k, v)
    BY <1>11, <2>1, <2>4, <2>5, <2>6, PushNodeMapped
  <2>8. m[k].val = Map!List /\ s = Scalars(d.tree[k].items)
    BY <1>4, <1>11, <2>2, <2>6, EntryKnown
  <2>9. s # <<>>
    <3>1. d.tree[k].items \in Seq(Item) /\ d.tree[k].items # <<>>
      BY <1>6, <1>11, <2>2, EntryParts DEF Sound, HasNoEmptyList, Entry
    <3>2. Len(s) = Len(d.tree[k].items)
      BY <2>8, <3>1, ScalarsElements
    <3> QED  BY <3>1, <3>2
  <2>10. v.type # "boolean"
    BY <1>11
  <2>11. Map!Live(m, k, t)
    BY <1>6, <1>11
  <2>12. CASE /\ MapOf(dict)' =
                   Map!With(m, k, Map!List,
                            IF dir = "lpush" THEN Map!Cons(v, s) ELSE Append(s, v),
                            m[k].expires)
              /\ \E n \in {Len(s) + 1} \cup Late : Map!Answer(dir, k, "OK", v, n, FALSE)
    BY <1>6, <2>6, <2>7, <2>8, <2>10, <2>11, <2>12, Zenon DEF Map!Push, PushedOn
  <2>13. CASE Map!Refuse(dir, k, "NOMEM") /\ MapOf(dict)' = m
    BY <1>6, <2>7, <2>11, <2>13, Zenon DEF Map!Push, PushedOn
  <2> QED  BY <2>7, <2>9, <2>12, <2>13, Zenon DEF PushedOn
\* Onto a list that was just made empty, or made.
<1>12. ASSUME v.type \in {"number", "string"}, rc # "OK", NEW b, Pushable(b, k),
              MapOf(b) = Map!With(m, k, Map!List, <<>>, 0), PushNode(dir, k, v, b)
       PROVE  Map!Push(dir, k, v, t) /\ Asks(dir, k)
  <2>1. PICK n : n = MapOf(b)
    OBVIOUS
  <2>2. /\ n[k].items = <<>> /\ n[k].expires = 0
        /\ Map!Without(n, {k}) = Map!Without(m, {k})
        /\ \A val, i, y : Map!With(n, k, val, i, y) = Map!With(m, k, val, i, y)
    <3>1. n = Map!With(m, k, Map!List, <<>>, 0)
      BY <1>12, <2>1
    <3>2. Map!Without(n, {k}) = Map!Without(m, {k})
      BY <3>1, WithoutAfterWith
    <3>3. n[k].items = <<>> /\ n[k].expires = 0
      BY <3>1 DEF Map!With
    <3>4. ASSUME NEW val, NEW i, NEW y
          PROVE  Map!With(n, k, val, i, y) = Map!With(m, k, val, i, y)
      BY <3>1, WithAfterWith
    <3> QED  BY <3>2, <3>3, <3>4
  <2>3. PICK s : s = n[k].items
    OBVIOUS
  <2>4. PushedOn(n, s, dir, k, v)
    BY <1>12, <2>1, <2>3, PushNodeMapped
  <2>5. s = <<>>
    BY <2>2, <2>3
  <2>6. v.type # "boolean" /\ ~Map!Live(m, k, t)
    BY <1>6, <1>12
  <2>7. CASE /\ MapOf(dict)' =
                  Map!With(m, k, Map!List,
                           IF dir = "lpush" THEN Map!Cons(v, <<>>) ELSE Append(<<>>, v), 0)
             /\ \E l \in {Len(s) + 1} \cup Late : Map!Answer(dir, k, "OK", v, l, FALSE)
    BY <1>6, <2>4, <2>5, <2>6, <2>7, Zenon DEF Map!Push, PushedOn
  <2>8. CASE Map!Refuse(dir, k, "NOMEM") /\ MapOf(dict)' = Map!Without(m, {k})
    BY <1>6, <2>4, <2>6, <2>8, Zenon DEF Map!Push, PushedOn
  <2> QED  BY <2>2, <2>4, <2>5, <2>7, <2>8, Zenon DEF PushedOn
<1>13. ASSUME NEW blk, NEW n, NEW f, f = EmptyList(blk), NEW a, Sets(n, a, k, f)
       PROVE  MapOf(n) = Map!With(MapOf(a), k, Map!List, <<>>, 0)
  <2>1. f.type = "list" /\ f.items = <<>> /\ f.expires = 0
    BY <1>13 DEF EmptyList, NewEntry
  <2>2. Scalars(f.items) = <<>>
    BY <2>1 DEF Scalars
  <2>3. Contents(f) = [val |-> Map!List, items |-> <<>>, expires |-> 0]
    BY <2>1, <2>2 DEF Contents, Map!List
  <2> QED  BY <1>13, <2>3, SetsMap
<1>14. ASSUME v.type \in {"number", "string"}, rc = "DONE", d.tree[k].type = "list",
              PushNode(dir, k, v, ResetList(d, k))
       PROVE  Map!Push(dir, k, v, t) /\ Asks(dir, k)
  <2>1. PICK b : b = ResetList(d, k)
    OBVIOUS
  <2>2. k \in DOMAIN d.tree
    BY <1>6, <1>14
  <2>3. Pushable(b, k)
    BY <1>6, <1>14, <2>1, <2>2, ResetListPushable
  <2>4. PICK f : f = EmptyList(d.tree[k].block)
    OBVIOUS
  <2>5. Sets(b, d, k, f)
    <3>1. d = [tree |-> d.tree, lru |-> d.lru, used |-> d.used]
      BY <1>6 DEF Sound, Consistent, IsDict
    <3>2. PICK u : u = Release(d.used, ItemBlocks(d.tree[k]))
      OBVIOUS
    <3>3. PICK q : q = Cons(k, RemoveFirst(d.lru, k))
      OBVIOUS
    <3>4. FreeItems(d, k) = [tree |-> d.tree, lru |-> d.lru, used |-> u]
      BY <3>1, <3>2 DEF FreeItems
    <3>5. Touch(FreeItems(d, k), k) = [tree |-> d.tree, lru |-> q, used |-> u]
      BY <3>3, <3>4 DEF Touch
    <3>6. b.tree = [d.tree EXCEPT ![k] = f]
      BY <2>1, <2>4, <3>5 DEF ResetList, Update
    <3> QED  BY <2>2, <3>6 DEF Sets
  <2>6. MapOf(b) = Map!With(m, k, Map!List, <<>>, 0)
    BY <1>4, <1>13, <2>4, <2>5
  <2> QED  BY <1>12, <1>14, <2>1, <2>3, <2>6
<1>15. ASSUME rc = "DECLINED" \/ (rc = "DONE" /\ d.tree[k].type # "list")
       PROVE  /\ Sound(bare) /\ k \notin DOMAIN bare.tree
              /\ MapOf(bare) = Map!Without(m, {k})
  <2>1. CASE rc = "DECLINED"
    BY <1>4, <1>6, <1>7, <2>1, WithoutNoEntry
  <2>2. CASE rc = "DONE" /\ d.tree[k].type # "list"
    <3>1. k \in DOMAIN d.tree /\ bare = DropNode(d, k)
      BY <1>6, <1>7, <2>2
    <3>2. d.tree[k].items = <<>>
      BY <1>6, <2>2, <3>1 DEF Sound, Consistent, LenExact
    <3>3. Consistent(bare) /\ Keeps(bare, d) /\ k \notin DOMAIN bare.tree
      BY <1>6, <3>1, <3>2, DropNodeConsistent DEF Sound
    <3>4. DOMAIN bare.tree = DOMAIN d.tree \ {k}
      BY <3>1, TreeOfDrop
    <3> QED  BY <1>4, <1>6, <3>3, <3>4, KeepsSound, KeepsMap
  <2> QED  BY <1>15, <2>1, <2>2
<1>16. ASSUME v.type \in {"number", "string"},
              rc = "DECLINED" \/ (rc = "DONE" /\ d.tree[k].type # "list"),
              NEW blk \in Free(bare.used, ListClass),
              PushNode(dir, k, v, Insert(bare, k, EmptyList(blk)))
       PROVE  Map!Push(dir, k, v, t) /\ Asks(dir, k)
  <2>1. PICK f : f = EmptyList(blk)
    OBVIOUS
  <2>2. PICK b : b = Insert(bare, k, f)
    OBVIOUS
  <2>3. Pushable(b, k)
    BY <1>15, <1>16, <2>1, <2>2, NewListPushable
  <2>4. Sets(b, bare, k, f)
    BY <2>2 DEF Insert, Sets
  <2>5. MapOf(b) = Map!With(MapOf(bare), k, Map!List, <<>>, 0)
    BY <1>13, <2>1, <2>4
  <2>6. MapOf(b) = Map!With(m, k, Map!List, <<>>, 0)
    BY <1>15, <1>16, <2>5, WithAfterWithout
  <2> QED  BY <1>12, <1>16, <2>1, <2>2, <2>3, <2>6
<1>17. ASSUME rc = "DECLINED" \/ (rc = "DONE" /\ d.tree[k].type # "list"),
              dict' = bare, Fail(dir, k, "NOMEM")
       PROVE  Map!Push(dir, k, v, t) /\ Asks(dir, k)
  <2>1. Map!Refuse(dir, k, "NOMEM") /\ Making(call)' = None /\ Asks(dir, k)
    BY <1>17, Fails, Zenon
  <2>2. MapOf(dict)' = Map!Without(m, {k})
    BY <1>15, <1>17
  <2>3. ~Map!Live(m, k, t)
    BY <1>6, <1>17
  <2> QED  BY <1>6, <2>1, <2>2, <2>3, Zenon DEF Map!Push
<1> QED  BY <1>8, <1>9, <1>10, <1>11, <1>14, <1>16, <1>17


-----------------------------------------------------------------------------
(* Every step *)

\* A step of the map by the call op for k, which the dictionary makes at t.
Mapped(op, k, t) == Map!Operation(op, k, t) /\ Asks(op, k)

LEMMA CallMapped ==
  ASSUME NEW op, NEW k, NEW t \in Time, Begin(op, t), Mapped(op, k, t)
  PROVE  Map!Next
<1>1. now' = t /\ Making(call) = None
  BY NotMaking DEF Begin
<1>2. Map!Asked.op = op /\ Map!Asked.key = k
  BY DEF Mapped, Asks
<1>3. Map!Operation(Map!Asked.op, Map!Asked.key, now')
  BY <1>1, <1>2, Zenon DEF Mapped
<1> QED  BY <1>1, <1>3, Zenon DEF Map!Next

LEMMA ScalarStepMapped ==
  ASSUME IInv, NEW k \in Key, NEW t \in Time, ScalarStep(k, t)
  PROVE  Map!Next
<1>1. ASSUME NEW op \in StoreOps, NEW v \in Value \cup {Nil}, NEW ttl \in Ttl,
             Store(op, k, v, ttl, t)
      PROVE  Map!Next
  <2>1. Map!Store(op, k, v, ttl, t) /\ Asks(op, k) /\ Begin(op, t)
    BY <1>1, StoreMapped, Zenon DEF Store
  <2>2. op \in {"set", "safe_set", "add", "safe_add", "replace"}
    BY DEF StoreOps, SafeOps, AddOps
  <2>3. v \in Value \cup {Map!Nil}
    BY DEF Map!Nil, Nil
  <2> QED  BY <2>1, <2>2, <2>3, CallMapped, Zenon DEF Mapped, Map!Operation
<1>2. ASSUME NEW stale \in BOOLEAN, NEW room \in BOOLEAN, Get(k, stale, room, t)
      PROVE  Map!Next
  <2>1. Map!Get(k, t) /\ Asks("get", k) /\ Begin("get", t)
    BY <1>2, GetMapped, Zenon DEF Get
  <2> QED  BY <2>1, CallMapped, Zenon DEF Mapped, Map!Operation
<1>3. ASSUME NEW by \in By, NEW init \in By \cup {None}, NEW ttl \in Ttl,
             NEW t0 \in Before, Incr(k, by, init, ttl, t0, t)
      PROVE  Map!Next
  <2>1. t0 \in Time
    BY DEF Before
  <2>2. Map!Incr(k, by, init, ttl, t0, t) /\ Asks("incr", k) /\ Begin("incr", t)
    BY <1>3, <2>1, IncrMapped, Zenon DEF Incr
  <2> QED  BY <2>1, <2>2, CallMapped, Zenon DEF Mapped, Map!Operation
<1>4. ASSUME NEW ttl \in Ttl, NEW t0 \in Before, SetExpire(k, ttl, t0, t)
      PROVE  Map!Next
  <2>1. t0 \in Time
    BY DEF Before
  <2>2. /\ Map!SetExpire(k, ttl, t0) /\ Asks("set_expire", k)
        /\ Begin("set_expire", t)
    BY <1>4, <2>1, SetExpireMapped, Zenon DEF SetExpire
  <2> QED  BY <2>1, <2>2, CallMapped, Zenon DEF Mapped, Map!Operation
<1>5. ASSUME GetTtl(k, t) PROVE Map!Next
  <2>1. Map!GetTtl(k, t) /\ Asks("get_ttl", k) /\ Begin("get_ttl", t)
    BY <1>5, GetTtlMapped, Zenon DEF GetTtl
  <2> QED  BY <2>1, CallMapped, Zenon DEF Mapped, Map!Operation
<1> QED  BY <1>1, <1>2, <1>3, <1>4, <1>5, Zenon DEF ScalarStep

LEMMA ListStepMapped ==
  ASSUME IInv, NEW k \in Key, NEW t \in Time, ListStep(k, t)
  PROVE  Map!Next
<1>1. ASSUME NEW dir \in PushOps, NEW v \in Value, Push(dir, k, v, t)
      PROVE  Map!Next
  <2>1. Map!Push(dir, k, v, t) /\ Asks(dir, k) /\ Begin(dir, t)
    BY <1>1, PushMapped, Zenon DEF Push
  <2> QED  BY <1>1, <2>1, CallMapped, Zenon DEF Mapped, Map!Operation, PushOps
<1>2. ASSUME NEW dir \in PopOps, NEW room \in BOOLEAN, Pop(dir, k, room, t)
      PROVE  Map!Next
  <2>1. Map!Pop(dir, k, t) /\ Asks(dir, k) /\ Begin(dir, t)
    BY <1>2, PopMapped, Zenon DEF Pop
  <2> QED  BY <1>2, <2>1, CallMapped, Zenon DEF Mapped, Map!Operation, PopOps
<1>3. ASSUME Llen(k, t) PROVE Map!Next
  <2>1. Map!Llen(k, t) /\ Asks("llen", k) /\ Begin("llen", t)
    BY <1>3, LlenMapped, Zenon DEF Llen
  <2> QED  BY <2>1, CallMapped, Zenon DEF Mapped, Map!Operation
<1> QED  BY <1>1, <1>2, <1>3, Zenon DEF ListStep

LEMMA NextMapped == ASSUME IInv, [Next]_vars PROVE [Map!Next]_(Map!vars)
<1>1. ASSUME NEW t \in Reads PROVE t \in Time
  BY <1>1 DEF Reads
<1>2. ASSUME NEW k \in Key, NEW t \in Reads, ScalarStep(k, t) \/ ListStep(k, t)
      PROVE  Map!Next
  BY <1>1, <1>2, ScalarStepMapped, ListStepMapped
<1>3. ASSUME NEW t \in Reads, FlushAll(t) PROVE Map!Next
  <2>1. Map!FlushAll /\ Asks("flush_all", None) /\ Begin("flush_all", t)
    BY <1>3, FlushAllMapped, Zenon DEF FlushAll
  <2> QED  BY <1>1, <2>1, CallMapped, Zenon DEF Mapped, Map!Operation
<1>4. ASSUME EvictStep PROVE Map!Next
  <2>1. PICK t \in Reads : Evict(t)
    BY <1>4 DEF EvictStep
  <2>2. t \in Time /\ now' = t
    BY <1>1, <2>1 DEF Evict
  <2>3. Making(call) # None /\ Map!MakeRoom(t)
    BY <2>1, <2>2, EvictMakesRoom
  <2> QED  BY <2>2, <2>3, Zenon DEF Map!Next
<1>5. ASSUME Tick PROVE Map!Next
  <2>1. now' \in Time /\ dict' = dict /\ call' = call /\ ret' = ret
    BY <1>5 DEF Tick
  <2>2. UNCHANGED <<MapOf(dict), Making(call), ret>>
    BY <2>1
  <2> QED  BY <2>1, <2>2, Zenon DEF Map!Next
<1>6. ASSUME UNCHANGED vars PROVE UNCHANGED Map!vars
  BY <1>6 DEF vars, Map!vars
<1> QED  BY <1>2, <1>3, <1>4, <1>5, <1>6 DEF Next

LEMMA InitMapped == ASSUME Init PROVE Map!Init
<1>1. /\ dict = [tree |-> [k \in {} |-> Nil], lru |-> <<>>, used |-> {Root}]
      /\ now \in Time /\ call = None
      /\ ret = [op |-> "init", key |-> None, rc |-> "OK", val |-> Nil, num |-> 0,
                forcible |-> FALSE]
  BY DEF Init
<1>2. MapOf(dict) = [k \in {} |-> Map!Nil]
  BY <1>1 DEF MapOf
<1>3. Making(call) = None
  BY <1>1, NotMaking
<1>4. Map!Nil = Nil
  BY DEF Map!Nil, Nil
<1> QED  BY <1>1, <1>2, <1>3, <1>4, Zenon DEF Map!Init

\* The dictionary is the map its callers are promised: whatever the calls, the
\* clock and the memory, each step of Shdict is a step of ExpiringMap.
THEOREM MapImplemented == Spec => ImplementsExpiringMap
<1>1. Init => Map!Init
  BY InitMapped
<1>2. IInv /\ [Next]_vars => [Map!Next]_(Map!vars)
  BY NextMapped
<1> QED  BY <1>1, <1>2, Invariance, PTL DEF Spec, ImplementsExpiringMap, Map!Spec


=============================================================================
