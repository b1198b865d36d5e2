------------------------- MODULE SharedIndexProofs -------------------------
(***************************************************************************)
(* The mutex, the queue, and tree and queue that processes share under the *)
(* mutex, for any processes and any names.                                 *)
(***************************************************************************)
EXTENDS SharedIndex, RbtreeLemmas

-----------------------------------------------------------------------------
(* The mutex: as long as no process has died inside, at most one of them   *)
(* is between lock and unlock.                                             *)

\* The mutex is damaged by deaths only, and its owner is inside.
DamageKnown == state # "consistent" => harmed

OwnerInside == owner # None => pc[owner] = "inside"

\* Nobody gets hold of it once it is unusable.
UnusableIsFree == state = "notrecoverable" => owner = None

LockInv == TypeOK /\ OneInsideWhileUsable /\ DamageKnown /\ OwnerInside /\ UnusableIsFree

\* At the start the mutex is free and nobody is inside.
LEMMA LockInit == Init => LockInv
BY LockAssumption
DEF Init, LockInv, TypeOK, State, OneInsideWhileUsable, Inside, DamageKnown, OwnerInside, UnusableIsFree

\* Every call of the mutex, and every death, keeps the invariant.
LEMMA LockStep == LockInv /\ [Next]_vars => LockInv'
<1> SUFFICES ASSUME LockInv, [Next]_vars PROVE LockInv'
  OBVIOUS
<1> USE LockAssumption
    DEF LockInv, TypeOK, State, OneInsideWhileUsable, Inside, DamageKnown, OwnerInside, UnusableIsFree
<1>1. ASSUME NEW p \in Proc, Call(p) PROVE LockInv'
  BY <1>1 DEF Call
<1>2. ASSUME NEW p \in Proc, Lock(p) PROVE LockInv'
  <2>1. CASE state = "notrecoverable"
    BY <1>2, <2>1 DEF Lock
  <2>2. CASE state # "notrecoverable"
    \* The mutex was free, so that nobody was inside.
    <3>1. \A q \in Proc : pc[q] # "inside"
      BY <1>2, <2>2 DEF Lock
    <3> QED
      BY <1>2, <2>2, <3>1 DEF Lock
  <2> QED
    BY <2>1, <2>2
<1>3. ASSUME NEW p \in Proc, Unlock(p) PROVE LockInv'
  BY <1>3 DEF Unlock
<1>4. ASSUME NEW p \in Proc, Die(p) PROVE LockInv'
  <2>1. TypeOK'
    <3>1. harmed' \in BOOLEAN
      BY <1>4 DEF Die
    <3> QED
      BY <1>4, <3>1 DEF Die
  <2>2. OneInsideWhileUsable' /\ OwnerInside' /\ UnusableIsFree'
    BY <1>4 DEF Die
  <2>3. DamageKnown'
    <3>1. owner = p => pc[p] = "inside"
      BY LockAssumption
    <3> QED
      BY <1>4, <3>1, Zenon DEF Die
  <2> QED
    BY <2>1, <2>2, <2>3
<1>5. CASE UNCHANGED vars
  BY <1>5 DEF vars
<1> QED
  BY <1>1, <1>2, <1>3, <1>4, <1>5 DEF Next

\* The mutex excludes as long as it is usable, also between the death of an
\* owner and the unlock of the process that took over.
THEOREM UsableMutexExcludes == Spec => []OneInsideWhileUsable
<1>1. LockInv => OneInsideWhileUsable
  BY DEF LockInv
<1> QED
  BY LockInit, LockStep, <1>1, PTL DEF Spec

\* What a process does between mps_slab_lock and mps_slab_unlock is a step of
\* its own while no process has died there.
THEOREM NobodyElseInside == Spec => []OneInside
<1>1. LockInv => OneInside
  <2> SUFFICES ASSUME LockInv, ~harmed PROVE Cardinality(Inside) <= 1
    BY DEF OneInside
  <2>1. Inside \subseteq {owner}
    BY DEF LockInv, DamageKnown, OneInsideWhileUsable
  <2>2. IsFiniteSet({owner}) /\ Cardinality({owner}) = 1
    BY FS_Singleton
  <2> QED
    BY <2>1, <2>2, FS_Subset
<1> QED
  BY LockInit, LockStep, <1>1, PTL DEF Spec

-----------------------------------------------------------------------------
(* The queue *)

\* Every link leads to a head or node that is allocated.
Closed(q) ==
    /\ q.next \in [DOMAIN q.next -> DOMAIN q.next]
    /\ q.prev \in [DOMAIN q.next -> DOMAIN q.next]

Members(h, s) == {h} \cup {s[i] : i \in DOMAIN s}

-----------------------------------------------------------------------------

\* What the head of a queue and its ends are.
LEMMA AtEnds ==
    ASSUME NEW N, NEW h \in N, NEW s \in Seq(N \ {h})
    PROVE  /\ At(h, s, 0) = h /\ At(h, s, Len(s) + 1) = h
           /\ \A i \in 1 .. Len(s) : At(h, s, i) = s[i] /\ s[i] # h
           /\ \A i \in 0 .. Len(s) + 1 : At(h, s, i) \in N
BY DEF At

\* mps_queue_init makes an empty queue.
THEOREM InitEmpty == \A h : Represents(QueueInit(h), h, <<>>)
<1> TAKE h
<1>1. /\ QueueInit(h).next = [y \in {h} |-> h]
      /\ QueueInit(h).prev = [y \in {h} |-> h]
  BY DEF QueueInit
<1>2. <<>> \in Seq(DOMAIN QueueInit(h).next \ {h}) /\ Len(<<>>) = 0
  OBVIOUS
<1>3. \A i \in 0 .. 1 : At(h, <<>>, i) = h
  BY DEF At
<1>4. QueueInit(h).next[h] = h /\ QueueInit(h).prev[h] = h
  BY <1>1
<1> QED  BY <1>2, <1>3, <1>4 DEF Represents

\* mps_queue_empty, mps_queue_head and mps_queue_last read the sequence.
THEOREM EndsRead ==
    ASSUME NEW q, NEW h \in DOMAIN q.next, NEW s, Represents(q, h, s)
    PROVE  /\ QueueEmpty(q, h) <=> s = <<>>
           /\ s # <<>> => QueueHead(q, h) = s[1] /\ QueueLast(q, h) = s[Len(s)]
<1>1. s \in Seq(DOMAIN q.next \ {h})
  BY DEF Represents
<1>2. /\ At(h, s, 0) = h /\ At(h, s, Len(s) + 1) = h
      /\ \A i \in 1 .. Len(s) : At(h, s, i) = s[i] /\ s[i] # h
  BY <1>1, AtEnds
<1>3. q.next[At(h, s, 0)] = At(h, s, 0 + 1)
  BY <1>1 DEF Represents
<1>4. q.prev[At(h, s, Len(s) + 1)] = At(h, s, Len(s))
  BY <1>1 DEF Represents
<1>5. s = <<>> <=> Len(s) = 0
  BY <1>1
<1>6. CASE Len(s) = 0
  BY <1>2, <1>4, <1>5, <1>6 DEF QueueEmpty
<1>7. CASE Len(s) # 0
  <2>1. Len(s) \in 1 .. Len(s) /\ 1 \in 1 .. Len(s)
    BY <1>1, <1>7
  <2> QED  BY <1>2, <1>3, <1>4, <1>5, <1>7, <2>1 DEF QueueEmpty, QueueHead, QueueLast
<1> QED  BY <1>1, <1>6, <1>7

-----------------------------------------------------------------------------

\* mps_queue_insert_head is Cons: Touch and Insert of Shdict.
THEOREM InsertHeadConses ==
    ASSUME NEW q, Closed(q), NEW h \in DOMAIN q.next, NEW s, Represents(q, h, s),
           NEW x \in DOMAIN q.next, x \notin Members(h, s)
    PROVE  /\ Represents(QueueInsertHead(q, h, x), h, Cons(x, s))
           /\ Closed(QueueInsertHead(q, h, x))
<1> DEFINE N == DOMAIN q.next
           r == QueueInsertHead(q, h, x)
           c == Cons(x, s)
<1>1. /\ s \in Seq(N \ {h})
      /\ \A i, j \in 1 .. Len(s) : s[i] = s[j] => i = j
      /\ \A i \in 0 .. Len(s) : /\ q.next[At(h, s, i)] = At(h, s, i + 1)
                                /\ q.prev[At(h, s, i + 1)] = At(h, s, i)
  BY DEF Represents
<1>2. q.next \in [N -> N] /\ q.prev \in [N -> N] /\ x \in N /\ h \in N
  BY DEF Closed
<1>3. x # h /\ \A i \in 1 .. Len(s) : s[i] # x
  BY <1>1 DEF Members
<1>4. /\ At(h, s, 0) = h /\ At(h, s, Len(s) + 1) = h
      /\ \A i \in 1 .. Len(s) : At(h, s, i) = s[i] /\ s[i] # h
      /\ \A i \in 0 .. Len(s) + 1 : At(h, s, i) \in N
  BY <1>1, AtEnds
<1>5. q.next[h] = At(h, s, 1)
  <2>1. q.next[At(h, s, 0)] = At(h, s, 0 + 1)
    BY <1>1
  <2> QED  BY <2>1, <1>4
<1>6. At(h, s, 1) # x /\ At(h, s, 1) \in N
  BY <1>1, <1>3, <1>4 DEF At
<1>7. /\ r.next \in [N -> N] /\ r.prev \in [N -> N]
      /\ r.next[h] = x /\ r.next[x] = At(h, s, 1)
      /\ r.prev[x] = h /\ r.prev[At(h, s, 1)] = x
      /\ \A y \in N \ {h, x} : r.next[y] = q.next[y]
      /\ \A y \in N \ {x, At(h, s, 1)} : r.prev[y] = q.prev[y]
  BY <1>2, <1>3, <1>5, <1>6 DEF QueueInsertHead
<1>8. /\ c \in Seq(N \ {h}) /\ Len(c) = Len(s) + 1
      /\ c[1] = x /\ \A i \in 2 .. Len(s) + 1 : c[i] = s[i - 1]
  BY <1>1, <1>2, <1>3 DEF Cons
<1>9. \A i, j \in 1 .. Len(c) : c[i] = c[j] => i = j
  <2> TAKE i, j \in 1 .. Len(c)
  <2> HAVE c[i] = c[j]
  <2>1. CASE i = 1 \/ j = 1
    BY <1>1, <1>3, <1>8, <2>1
  <2>2. CASE i # 1 /\ j # 1
    <3>1. i - 1 \in 1 .. Len(s) /\ j - 1 \in 1 .. Len(s) /\ s[i - 1] = s[j - 1]
      BY <1>1, <1>8, <2>2
    <3> QED  BY <3>1, <1>1
  <2> QED  BY <2>1, <2>2
<1>10. /\ At(h, c, 0) = h /\ At(h, c, 1) = x
       /\ \A i \in 2 .. Len(s) + 2 : At(h, c, i) = At(h, s, i - 1)
  BY <1>1, <1>8 DEF At
<1>11. ASSUME NEW i \in 0 .. Len(c)
       PROVE  /\ r.next[At(h, c, i)] = At(h, c, i + 1)
              /\ r.prev[At(h, c, i + 1)] = At(h, c, i)
  <2>1. CASE i = 0
    BY <1>7, <1>10, <2>1
  <2>2. CASE i = 1
    <3>1. At(h, c, 1 + 1) = At(h, s, 1)
      BY <1>1, <1>10
    <3> QED  BY <1>7, <1>10, <2>2, <3>1
  <2>3. CASE i >= 2
    <3>1. i - 1 \in 1 .. Len(s) /\ i - 1 \in 0 .. Len(s) /\ i \in 2 .. Len(s) + 1
      BY <1>1, <1>8, <2>3
    <3>2. At(h, c, i) = At(h, s, i - 1) /\ At(h, c, i + 1) = At(h, s, i)
      <4>1. i + 1 \in 2 .. Len(s) + 2 /\ i \in 2 .. Len(s) + 2 /\ (i + 1) - 1 = i
        BY <1>1, <3>1
      <4> QED  BY <4>1, <1>10
    <3>3. q.next[At(h, s, i - 1)] = At(h, s, i) /\ q.prev[At(h, s, i)] = At(h, s, i - 1)
      <4>1. (i - 1) + 1 = i
        BY <3>1
      <4> QED  BY <1>1, <3>1, <4>1
    <3>4. At(h, s, i - 1) \in N \ {h, x}
      BY <1>3, <1>4, <3>1
    <3>5. At(h, s, i) \in N /\ At(h, s, i) # x
      BY <1>1, <1>3, <1>4, <3>1
    <3>6. At(h, s, i) # At(h, s, 1)
      <4>1. 1 \in 1 .. Len(s) /\ At(h, s, 1) = s[1] /\ s[1] # h
        BY <1>1, <1>4, <3>1
      <4>2. CASE i = Len(s) + 1
        BY <4>1, <4>2, <1>4
      <4>3. CASE i # Len(s) + 1
        <5>1. i \in 1 .. Len(s) /\ i # 1
          BY <1>1, <3>1, <4>3
        <5> QED  BY <4>1, <5>1, <1>1, <1>4
      <4> QED  BY <4>2, <4>3
    <3> QED  BY <1>7, <3>2, <3>3, <3>4, <3>5, <3>6
  <2> QED  BY <1>1, <1>8, <2>1, <2>2, <2>3
<1>12. DOMAIN r.next = N
  BY <1>7
<1> QED
  <2>1. Represents(r, h, c)
    BY <1>8, <1>9, <1>11, <1>12 DEF Represents
  <2>2. Closed(r)
    BY <1>7, <1>12 DEF Closed
  <2> QED  BY <2>1, <2>2

-----------------------------------------------------------------------------

\* mps_queue_insert_tail is Append: rpush of Shdict.
THEOREM InsertTailAppends ==
    ASSUME NEW q, Closed(q), NEW h \in DOMAIN q.next, NEW s, Represents(q, h, s),
           NEW x \in DOMAIN q.next, x \notin Members(h, s)
    PROVE  /\ Represents(QueueInsertTail(q, h, x), h, Append(s, x))
           /\ Closed(QueueInsertTail(q, h, x))
<1> DEFINE N == DOMAIN q.next
           r == QueueInsertTail(q, h, x)
           c == Append(s, x)
           last == At(h, s, Len(s))
<1>1. /\ s \in Seq(N \ {h})
      /\ \A i, j \in 1 .. Len(s) : s[i] = s[j] => i = j
      /\ \A i \in 0 .. Len(s) : /\ q.next[At(h, s, i)] = At(h, s, i + 1)
                                /\ q.prev[At(h, s, i + 1)] = At(h, s, i)
  BY DEF Represents
<1>2. q.next \in [N -> N] /\ q.prev \in [N -> N] /\ x \in N /\ h \in N
  BY DEF Closed
<1>3. x # h /\ \A i \in 1 .. Len(s) : s[i] # x
  BY <1>1 DEF Members
<1>4. /\ At(h, s, 0) = h /\ At(h, s, Len(s) + 1) = h
      /\ \A i \in 1 .. Len(s) : At(h, s, i) = s[i] /\ s[i] # h
      /\ \A i \in 0 .. Len(s) + 1 : At(h, s, i) \in N
  BY <1>1, AtEnds
<1>5. q.prev[h] = last
  <2>1. q.prev[At(h, s, Len(s) + 1)] = At(h, s, Len(s))
    BY <1>1
  <2> QED  BY <2>1, <1>4
<1>6. last # x /\ last \in N
  BY <1>1, <1>3, <1>4 DEF At
<1>7. /\ r.next \in [N -> N] /\ r.prev \in [N -> N]
      /\ r.next[last] = x /\ r.next[x] = h
      /\ r.prev[x] = last /\ r.prev[h] = x
      /\ \A y \in N \ {x, last} : r.next[y] = q.next[y]
      /\ \A y \in N \ {h, x} : r.prev[y] = q.prev[y]
  BY <1>2, <1>3, <1>5, <1>6 DEF QueueInsertTail
<1>8. /\ c \in Seq(N \ {h}) /\ Len(c) = Len(s) + 1
      /\ c[Len(s) + 1] = x /\ \A i \in 1 .. Len(s) : c[i] = s[i]
  BY <1>1, <1>2, <1>3
<1>9. \A i, j \in 1 .. Len(c) : c[i] = c[j] => i = j
  <2> TAKE i, j \in 1 .. Len(c)
  <2> HAVE c[i] = c[j]
  <2>1. CASE i = Len(s) + 1 \/ j = Len(s) + 1
    BY <1>1, <1>3, <1>8, <2>1
  <2>2. CASE i # Len(s) + 1 /\ j # Len(s) + 1
    <3>1. i \in 1 .. Len(s) /\ j \in 1 .. Len(s) /\ s[i] = s[j]
      BY <1>1, <1>8, <2>2
    <3> QED  BY <3>1, <1>1
  <2> QED  BY <2>1, <2>2
<1>10. /\ At(h, c, Len(s) + 1) = x /\ At(h, c, Len(s) + 2) = h
       /\ \A i \in 0 .. Len(s) : At(h, c, i) = At(h, s, i)
  BY <1>1, <1>8 DEF At
<1>11. ASSUME NEW i \in 0 .. Len(c)
       PROVE  /\ r.next[At(h, c, i)] = At(h, c, i + 1)
              /\ r.prev[At(h, c, i + 1)] = At(h, c, i)
  <2>1. CASE i = Len(s) + 1
    <3>1. i + 1 = Len(s) + 2
      BY <1>1, <2>1
    <3> QED  BY <1>7, <1>10, <2>1, <3>1
  <2>2. CASE i = Len(s)
    <3>1. i + 1 = Len(s) + 1 /\ At(h, c, i) = last
      BY <1>1, <1>10, <2>2
    <3> QED  BY <1>7, <1>10, <2>2, <3>1
  <2>3. CASE i < Len(s)
    <3>1. i \in 0 .. Len(s) /\ i + 1 \in 1 .. Len(s) /\ i + 1 \in 0 .. Len(s)
      BY <1>1, <2>3
    <3>2. At(h, c, i) = At(h, s, i) /\ At(h, c, i + 1) = At(h, s, i + 1)
      BY <1>10, <3>1
    <3>3. q.next[At(h, s, i)] = At(h, s, i + 1) /\ q.prev[At(h, s, i + 1)] = At(h, s, i)
      BY <1>1, <3>1
    <3>4. At(h, s, i + 1) \in N \ {h, x}
      BY <1>3, <1>4, <3>1
    <3>5. At(h, s, i) \in N /\ At(h, s, i) # x
      BY <1>1, <1>3, <1>4, <3>1 DEF At
    <3>6. At(h, s, i) # last
      <4>1. Len(s) \in 1 .. Len(s) /\ last = s[Len(s)] /\ s[Len(s)] # h
        BY <1>1, <1>4, <3>1
      <4>2. CASE i = 0
        BY <4>1, <4>2, <1>4
      <4>3. CASE i # 0
        <5>1. i \in 1 .. Len(s) /\ i # Len(s)
          BY <1>1, <3>1, <2>3, <4>3
        <5> QED  BY <4>1, <5>1, <1>1, <1>4
      <4> QED  BY <4>2, <4>3
    <3> QED  BY <1>7, <3>2, <3>3, <3>4, <3>5, <3>6
  <2> QED  BY <1>1, <1>8, <2>1, <2>2, <2>3
<1>12. DOMAIN r.next = N
  BY <1>7
<1> QED
  <2>1. Represents(r, h, c)
    BY <1>8, <1>9, <1>11, <1>12 DEF Represents
  <2>2. Closed(r)
    BY <1>7, <1>12 DEF Closed
  <2> QED  BY <2>1, <2>2

-----------------------------------------------------------------------------

\* A sequence without its element at p.
LEMMA RemoveAtItems ==
  ASSUME NEW N, NEW s \in Seq(N), NEW p \in 1 .. Len(s)
  PROVE  /\ RemoveAt(s, p) \in Seq(N) /\ Len(RemoveAt(s, p)) = Len(s) - 1
         /\ \A i \in 1 .. Len(s) - 1 :
              RemoveAt(s, p)[i] = IF i < p THEN s[i] ELSE s[i + 1]
<1> DEFINE c == RemoveAt(s, p)
           front == SubSeq(s, 1, p - 1)
           rear == SubSeq(s, p + 1, Len(s))
<1>1. p \in Nat /\ 1 <= p /\ p <= Len(s) /\ Len(s) \in Nat
  OBVIOUS
<1>2. /\ front \in Seq(N) /\ Len(front) = p - 1
      /\ \A i \in 1 .. p - 1 : front[i] = s[i]
  BY <1>1
<1>3. /\ rear \in Seq(N) /\ Len(rear) = Len(s) - p
      /\ \A i \in 1 .. Len(s) - p : rear[i] = s[i + p]
  BY <1>1
<1>4. c = front \o rear
  BY DEF RemoveAt
<1> HIDE DEF front, rear, c
<1>5. c \in Seq(N) /\ Len(c) = Len(s) - 1
  <2>1. front \in Seq(N) /\ rear \in Seq(N)
    BY <1>2, <1>3
  <2>2. c \in Seq(N) /\ Len(c) = Len(front) + Len(rear)
    BY <1>4, <2>1
  <2> QED  BY <1>1, <1>2, <1>3, <2>2
<1>6. ASSUME NEW i \in 1 .. Len(s) - 1
      PROVE  c[i] = IF i < p THEN s[i] ELSE s[i + 1]
  <2>1. CASE i < p
    <3>1. i \in 1 .. Len(front)
      BY <1>1, <1>2, <2>1
    <3>2. c[i] = front[i]
      BY <1>2, <1>3, <1>4, <3>1
    <3> QED  BY <1>2, <2>1, <3>1, <3>2
  <2>2. CASE ~(i < p)
    <3>1. i - (p - 1) \in 1 .. Len(s) - p /\ (i - (p - 1)) + p = i + 1
      BY <1>1, <2>2
    <3>2. c[i] = rear[i - (p - 1)]
      BY <1>1, <1>2, <1>3, <1>4, <2>2, <3>1
    <3> QED  BY <1>3, <2>2, <3>1, <3>2
  <2> QED  BY <2>1, <2>2
<1> QED  BY <1>5, <1>6 DEF c

\* mps_queue_remove takes one node out of the sequence: Touch and DropNode.
THEOREM RemoveRemoves ==
    ASSUME NEW q, Closed(q), NEW h \in DOMAIN q.next, NEW s, Represents(q, h, s),
           NEW j \in 1 .. Len(s)
    PROVE  /\ Represents(QueueRemove(q, s[j]), h, RemoveAt(s, j))
           /\ Closed(QueueRemove(q, s[j]))
<1> DEFINE N == DOMAIN q.next
           r == QueueRemove(q, s[j])
           c == RemoveAt(s, j)
           before == At(h, s, j - 1)
           after == At(h, s, j + 1)
<1>1. /\ s \in Seq(N \ {h})
      /\ \A i, k \in 1 .. Len(s) : s[i] = s[k] => i = k
      /\ \A i \in 0 .. Len(s) : /\ q.next[At(h, s, i)] = At(h, s, i + 1)
                                /\ q.prev[At(h, s, i + 1)] = At(h, s, i)
  BY DEF Represents
<1>2. q.next \in [N -> N] /\ q.prev \in [N -> N] /\ h \in N
  BY DEF Closed
<1>3. j \in Nat /\ 1 <= j /\ j <= Len(s) /\ Len(s) \in Nat
  BY <1>1
<1>4. /\ At(h, s, 0) = h /\ At(h, s, Len(s) + 1) = h
      /\ \A i \in 1 .. Len(s) : At(h, s, i) = s[i] /\ s[i] # h
      /\ \A i \in 0 .. Len(s) + 1 : At(h, s, i) \in N
  BY <1>1, AtEnds
<1>5. before \in N /\ after \in N
  BY <1>3, <1>4
<1>6. q.next[s[j]] = after /\ q.prev[s[j]] = before
  <2>1. q.next[At(h, s, j)] = At(h, s, j + 1)
    BY <1>1, <1>3
  <2>2. q.prev[At(h, s, (j - 1) + 1)] = At(h, s, j - 1)
    BY <1>1, <1>3
  <2>3. (j - 1) + 1 = j /\ At(h, s, j) = s[j]
    BY <1>3, <1>4
  <2> QED  BY <2>1, <2>2, <2>3
<1>7. /\ r.next \in [N -> N] /\ r.prev \in [N -> N]
      /\ r.next[before] = after /\ r.prev[after] = before
      /\ \A y \in N \ {before} : r.next[y] = q.next[y]
      /\ \A y \in N \ {after} : r.prev[y] = q.prev[y]
  BY <1>2, <1>5, <1>6 DEF QueueRemove
<1>8. /\ c \in Seq(N \ {h}) /\ Len(c) = Len(s) - 1
      /\ \A i \in 1 .. Len(s) - 1 : c[i] = IF i < j THEN s[i] ELSE s[i + 1]
  BY <1>1, RemoveAtItems
<1>9. \A i, k \in 1 .. Len(c) : c[i] = c[k] => i = k
  <2> TAKE i, k \in 1 .. Len(c)
  <2> HAVE c[i] = c[k]
  <2>1. /\ i \in 1 .. Len(s) - 1 /\ k \in 1 .. Len(s) - 1
        /\ c[i] = IF i < j THEN s[i] ELSE s[i + 1]
        /\ c[k] = IF k < j THEN s[k] ELSE s[k + 1]
    BY <1>8
  <2>2. /\ i \in 1 .. Len(s) /\ i + 1 \in 1 .. Len(s)
        /\ k \in 1 .. Len(s) /\ k + 1 \in 1 .. Len(s)
    BY <1>3, <2>1
  <2>3. CASE i < j /\ k < j
    BY <1>1, <2>1, <2>2, <2>3
  <2>4. CASE i < j /\ ~(k < j)
    <3>1. s[i] = s[k + 1]
      BY <2>1, <2>4
    <3>2. i = k + 1
      BY <1>1, <2>2, <3>1
    <3> QED  BY <1>3, <2>1, <2>4, <3>2
  <2>5. CASE ~(i < j) /\ k < j
    <3>1. s[i + 1] = s[k]
      BY <2>1, <2>5
    <3>2. i + 1 = k
      BY <1>1, <2>2, <3>1
    <3> QED  BY <1>3, <2>1, <2>5, <3>2
  <2>6. CASE ~(i < j) /\ ~(k < j)
    <3>1. s[i + 1] = s[k + 1]
      BY <2>1, <2>6
    <3>2. i + 1 = k + 1
      BY <1>1, <2>2, <3>1
    <3> QED  BY <2>1, <3>2
  <2> QED  BY <2>3, <2>4, <2>5, <2>6
<1>10. \A i \in 0 .. Len(s) : At(h, c, i) = IF i < j THEN At(h, s, i) ELSE At(h, s, i + 1)
  <2> TAKE i \in 0 .. Len(s)
  <2>1. DOMAIN s = 1 .. Len(s) /\ DOMAIN c = 1 .. Len(s) - 1
    BY <1>1, <1>8
  <2> QED  BY <1>3, <1>8, <2>1 DEF At
<1>11. \A i, k \in 0 .. Len(s) : At(h, s, i) = At(h, s, k) => i = k
  <2> TAKE i, k \in 0 .. Len(s)
  <2> HAVE At(h, s, i) = At(h, s, k)
  <2>1. i = 0 \/ i \in 1 .. Len(s)
    BY <1>3
  <2>2. k = 0 \/ k \in 1 .. Len(s)
    BY <1>3
  <2>3. CASE i \in 1 .. Len(s) /\ k \in 1 .. Len(s)
    <3>1. s[i] = s[k]
      BY <1>4, <2>3
    <3> QED  BY <1>1, <2>3, <3>1
  <2>4. CASE i = 0
    <3>1. At(h, s, i) = h
      BY <1>4, <2>4
    <3>2. ~(k \in 1 .. Len(s))
      BY <1>4, <3>1
    <3> QED  BY <2>2, <2>4, <3>2
  <2>5. CASE k = 0
    <3>1. At(h, s, k) = h
      BY <1>4, <2>5
    <3>2. ~(i \in 1 .. Len(s))
      BY <1>4, <3>1
    <3> QED  BY <2>1, <2>5, <3>2
  <2> QED  BY <2>1, <2>2, <2>3, <2>4, <2>5
<1>12. \A i, k \in 1 .. Len(s) + 1 : At(h, s, i) = At(h, s, k) => i = k
  <2> TAKE i, k \in 1 .. Len(s) + 1
  <2> HAVE At(h, s, i) = At(h, s, k)
  <2>1. i = Len(s) + 1 \/ i \in 1 .. Len(s)
    BY <1>3
  <2>2. k = Len(s) + 1 \/ k \in 1 .. Len(s)
    BY <1>3
  <2>3. CASE i \in 1 .. Len(s) /\ k \in 1 .. Len(s)
    <3>1. s[i] = s[k]
      BY <1>4, <2>3
    <3> QED  BY <1>1, <2>3, <3>1
  <2>4. CASE i = Len(s) + 1
    <3>1. At(h, s, i) = h
      BY <1>4, <2>4
    <3>2. ~(k \in 1 .. Len(s))
      BY <1>4, <3>1
    <3> QED  BY <2>2, <2>4, <3>2
  <2>5. CASE k = Len(s) + 1
    <3>1. At(h, s, k) = h
      BY <1>4, <2>5
    <3>2. ~(i \in 1 .. Len(s))
      BY <1>4, <3>1
    <3> QED  BY <2>1, <2>5, <3>2
  <2> QED  BY <2>1, <2>2, <2>3, <2>4, <2>5
<1>13. ASSUME NEW i \in 0 .. Len(c)
       PROVE  /\ r.next[At(h, c, i)] = At(h, c, i + 1)
              /\ r.prev[At(h, c, i + 1)] = At(h, c, i)
  <2>1. i \in Nat /\ i <= Len(s) - 1
    BY <1>3, <1>8
  <2>2. CASE i = j - 1
    <3>1. At(h, c, i) = before
      BY <1>3, <1>10, <2>1, <2>2
    <3>2. At(h, c, i + 1) = after
      <4>1. i + 1 \in 0 .. Len(s) /\ ~(i + 1 < j) /\ (i + 1) + 1 = j + 1
        BY <1>3, <2>2
      <4> QED  BY <1>10, <4>1
    <3> QED  BY <1>7, <3>1, <3>2
  <2>3. CASE i < j - 1
    <3>1. At(h, c, i) = At(h, s, i) /\ At(h, c, i + 1) = At(h, s, i + 1)
      BY <1>3, <1>10, <2>1, <2>3
    <3>2. q.next[At(h, s, i)] = At(h, s, i + 1) /\ q.prev[At(h, s, i + 1)] = At(h, s, i)
      BY <1>1, <2>1, <1>3
    <3>3. At(h, s, i) # before
      BY <1>3, <1>11, <2>1, <2>3
    <3>4. At(h, s, i + 1) # after
      BY <1>3, <1>12, <2>1, <2>3
    <3>5. At(h, s, i) \in N /\ At(h, s, i + 1) \in N
      BY <1>3, <1>4, <2>1
    <3> QED  BY <1>7, <3>1, <3>2, <3>3, <3>4, <3>5
  <2>4. CASE i > j - 1
    <3>1. At(h, c, i) = At(h, s, i + 1) /\ At(h, c, i + 1) = At(h, s, (i + 1) + 1)
      BY <1>3, <1>10, <2>1, <2>4
    <3>2. /\ q.next[At(h, s, i + 1)] = At(h, s, (i + 1) + 1)
          /\ q.prev[At(h, s, (i + 1) + 1)] = At(h, s, i + 1)
      BY <1>1, <2>1, <1>3
    <3>3. At(h, s, i + 1) # before
      BY <1>3, <1>11, <2>1, <2>4
    <3>4. At(h, s, (i + 1) + 1) # after
      BY <1>3, <1>12, <2>1, <2>4
    <3>5. At(h, s, i + 1) \in N /\ At(h, s, (i + 1) + 1) \in N
      BY <1>3, <1>4, <2>1
    <3> QED  BY <1>7, <3>1, <3>2, <3>3, <3>4, <3>5
  <2> QED  BY <1>3, <2>1, <2>2, <2>3, <2>4
<1>14. DOMAIN r.next = N
  BY <1>7
<1> QED
  <2>1. Represents(r, h, c)
    BY <1>8, <1>9, <1>13, <1>14 DEF Represents
  <2>2. Closed(r)
    BY <1>7, <1>14 DEF Closed
  <2> QED  BY <2>1, <2>2

-----------------------------------------------------------------------------

\* Links that are not those of members of a queue do not matter to it.
LEMMA SameLinks ==
    ASSUME NEW q, NEW r, NEW g \in DOMAIN q.next, NEW u, Represents(q, g, u),
           DOMAIN r.next = DOMAIN q.next,
           \A y \in Members(g, u) : r.next[y] = q.next[y] /\ r.prev[y] = q.prev[y]
    PROVE  Represents(r, g, u)
<1>1. u \in Seq(DOMAIN q.next \ {g})
  BY DEF Represents
<1>2. \A i \in 0 .. Len(u) + 1 : At(g, u, i) \in Members(g, u)
  BY <1>1 DEF At, Members
<1>3. \A i \in 0 .. Len(u) : i + 1 \in 0 .. Len(u) + 1 /\ i \in 0 .. Len(u) + 1
  BY <1>1
<1> QED  BY <1>1, <1>2, <1>3 DEF Represents

\* An operation on the queue of h leaves any other queue as it was: those of two
\* lists, or of a list and the LRU queue, share no node.
THEOREM OthersUntouched ==
    ASSUME NEW q, Closed(q), NEW h \in DOMAIN q.next, NEW s, Represents(q, h, s),
           NEW g \in DOMAIN q.next, NEW u, Represents(q, g, u),
           Members(g, u) \cap Members(h, s) = {}
    PROVE  /\ \A x \in DOMAIN q.next \ Members(g, u) :
                /\ Represents(QueueInsertHead(q, h, x), g, u)
                /\ Represents(QueueInsertTail(q, h, x), g, u)
           /\ \A j \in 1 .. Len(s) : Represents(QueueRemove(q, s[j]), g, u)
<1> DEFINE N == DOMAIN q.next
           M == Members(g, u)
<1>1. /\ s \in Seq(N \ {h})
      /\ \A i \in 0 .. Len(s) : /\ q.next[At(h, s, i)] = At(h, s, i + 1)
                                /\ q.prev[At(h, s, i + 1)] = At(h, s, i)
  BY DEF Represents
<1>2. q.next \in [N -> N] /\ q.prev \in [N -> N] /\ DOMAIN q.next = N /\ DOMAIN q.prev = N
  BY DEF Closed
<1>3. M \subseteq N
  <2>1. u \in Seq(N \ {g})
    BY DEF Represents
  <2> QED  BY <2>1 DEF Members
<1>4. \A i \in 0 .. Len(s) + 1 : At(h, s, i) \in Members(h, s)
  BY <1>1 DEF At, Members
<1>5. /\ At(h, s, 0) = h /\ At(h, s, Len(s) + 1) = h
      /\ \A i \in 1 .. Len(s) : At(h, s, i) = s[i]
  <2>1. DOMAIN s = 1 .. Len(s) /\ Len(s) \in Nat
    BY <1>1
  <2> QED  BY <2>1 DEF At
<1>6. h \notin M /\ q.next[h] \notin M /\ q.prev[h] \notin M
  <2>1. q.next[h] = At(h, s, 0 + 1) /\ q.prev[h] = At(h, s, Len(s))
    BY <1>1, <1>5
  <2>2. 0 + 1 \in 0 .. Len(s) + 1 /\ Len(s) \in 0 .. Len(s) + 1 /\ 0 \in 0 .. Len(s) + 1
    BY <1>1
  <2> QED  BY <2>1, <2>2, <1>4, <1>5
<1>7. ASSUME NEW x \in N \ M
      PROVE  /\ Represents(QueueInsertHead(q, h, x), g, u)
             /\ Represents(QueueInsertTail(q, h, x), g, u)
  <2>1. /\ DOMAIN QueueInsertHead(q, h, x).next = N
        /\ \A y \in M : /\ QueueInsertHead(q, h, x).next[y] = q.next[y]
                        /\ QueueInsertHead(q, h, x).prev[y] = q.prev[y]
    BY <1>2, <1>3, <1>6, <1>7 DEF QueueInsertHead
  <2>2. /\ DOMAIN QueueInsertTail(q, h, x).next = N
        /\ \A y \in M : /\ QueueInsertTail(q, h, x).next[y] = q.next[y]
                        /\ QueueInsertTail(q, h, x).prev[y] = q.prev[y]
    BY <1>2, <1>3, <1>6, <1>7 DEF QueueInsertTail
  <2> QED  BY <2>1, <2>2, SameLinks
<1>8. ASSUME NEW j \in 1 .. Len(s)
      PROVE  Represents(QueueRemove(q, s[j]), g, u)
  <2>1. q.next[s[j]] = At(h, s, j + 1) /\ q.prev[s[j]] = At(h, s, j - 1)
    <3>1. q.next[At(h, s, j)] = At(h, s, j + 1)
      BY <1>1
    <3>2. q.prev[At(h, s, (j - 1) + 1)] = At(h, s, j - 1)
      BY <1>1
    <3>3. (j - 1) + 1 = j
      OBVIOUS
    <3> QED  BY <3>1, <3>2, <3>3, <1>5
  <2>2. q.next[s[j]] \notin M /\ q.prev[s[j]] \notin M
    <3>1. j + 1 \in 0 .. Len(s) + 1 /\ j - 1 \in 0 .. Len(s) + 1
      BY <1>1
    <3> QED  BY <2>1, <3>1, <1>4
  <2>3. /\ DOMAIN QueueRemove(q, s[j]).next = N
        /\ \A y \in M : /\ QueueRemove(q, s[j]).next[y] = q.next[y]
                        /\ QueueRemove(q, s[j]).prev[y] = q.prev[y]
    BY <1>2, <1>3, <2>2 DEF QueueRemove
  <2> QED  BY <2>3, SameLinks
<1> QED  BY <1>7, <1>8

-----------------------------------------------------------------------------
(* Searching *)

\* Of two names one is less: at the first byte where they differ, or where
\* one ends.
LEMMA NamesTotal ==
  ASSUME NEW a \in Seq(Nat), NEW b \in Seq(Nat), a # b
  PROVE  NameLess(a, b) \/ NameLess(b, a)
<1>1. /\ DOMAIN a = 1 .. Len(a) /\ DOMAIN b = 1 .. Len(b) /\ Len(a) \in Nat /\ Len(b) \in Nat
      /\ \A i \in DOMAIN a : a[i] \in Nat
      /\ \A i \in DOMAIN b : b[i] \in Nat
  OBVIOUS
<1> DEFINE Same(i) == i \in DOMAIN a /\ i \in DOMAIN b /\ a[i] = b[i]
           D == {i \in Nat : 1 <= i /\ (i <= Len(a) \/ i <= Len(b)) /\ ~Same(i)}
<1>2. D # {}
  <2> SUFFICES ASSUME D = {} PROVE FALSE
    OBVIOUS
  <2>1. \A i \in DOMAIN a : Same(i)
    BY <1>1
  <2>2. \A i \in DOMAIN b : Same(i)
    BY <1>1
  <2>3. DOMAIN a = DOMAIN b
    BY <2>1, <2>2
  <2>4. Len(a) = Len(b)
    <3>1. ~(Len(a) < Len(b))
      <4> SUFFICES ASSUME Len(a) < Len(b) PROVE FALSE
        OBVIOUS
      <4>1. Len(b) \in 1 .. Len(b)
        BY <1>1
      <4>2. Len(b) \in 1 .. Len(a)
        BY <1>1, <2>3, <4>1
      <4> QED  BY <1>1, <4>2
    <3>2. ~(Len(b) < Len(a))
      <4> SUFFICES ASSUME Len(b) < Len(a) PROVE FALSE
        OBVIOUS
      <4>1. Len(a) \in 1 .. Len(a)
        BY <1>1
      <4>2. Len(a) \in 1 .. Len(b)
        BY <1>1, <2>3, <4>1
      <4> QED  BY <1>1, <4>2
    <3>3. Len(a) \in Nat /\ Len(b) \in Nat
      BY <1>1
    <3> QED  BY <3>1, <3>2, <3>3
  <2>5. \A i \in 1 .. Len(a) : a[i] = b[i]
    BY <1>1, <2>1
  <2> QED  BY <2>4, <2>5
<1>3. PICK i \in D : \A j \in D : i <= j
  BY <1>2, HasLeast
<1>4. \A j \in 1 .. i - 1 : Same(j)
  BY <1>1, <1>3
<1>5. CASE i \in DOMAIN a /\ i \in DOMAIN b
  <2>1. a[i] < b[i] \/ b[i] < a[i]
    BY <1>1, <1>3, <1>5
  <2> QED  BY <1>4, <1>5, <2>1 DEF NameLess
<1>6. CASE i \in DOMAIN b /\ i \notin DOMAIN a
  BY <1>4, <1>6 DEF NameLess
<1>7. CASE i \in DOMAIN a /\ i \notin DOMAIN b
  BY <1>4, <1>7 DEF NameLess
<1>8. i \in DOMAIN a \/ i \in DOMAIN b
  BY <1>1, <1>3
<1> QED  BY <1>5, <1>6, <1>7, <1>8

\* The keys and names in the tree are those of the entries.
Entries(t) ==
    /\ t.insert = "LUADICT"
    /\ \A x \in Linked(t) : x \in Key /\ t.key[x] = Hash[x] /\ t.name[x] = x

\* One round of the loop of mps_shdict_lookup.
SearchDown(t, k, x) ==
    IF x = Sentinel \/ Matches(t, k, x) THEN x
    ELSE IF GoesLeft(t, k, x) THEN t.left[x] ELSE t.right[x]

\* The rounds of the loop: f[i] is where it is after i of them.
SearchRun(t, key, n, f) == f = [i \in 0 .. n |-> IF i = 0 THEN t.root ELSE SearchDown(t, key, f[i - 1])]

\* Search is the loop after as many rounds as Loop allows.
LEMMA SearchRuns ==
  ASSUME NEW t, NEW key, NEW n \in Nat, n = Rounds(t)
  PROVE  \E f : SearchRun(t, key, n, f) /\ Search(t, key) = IF f[n] = Sentinel THEN Null ELSE f[n]
<1> DEFINE T == {k \in 0 .. n : \E f : SearchRun(t, key, k, f)}
<1>1. 0 \in T
  <2>1. SearchRun(t, key, 0, [i \in 0 .. 0 |-> t.root])
    BY DEF SearchRun
  <2> QED  BY <2>1
<1>2. ASSUME NEW k \in 0 .. n - 1, k \in T
      PROVE  k + 1 \in T
  <2>1. PICK f : SearchRun(t, key, k, f)
    BY <1>2
  <2> DEFINE g == [i \in 0 .. k + 1 |-> IF i = 0 THEN t.root ELSE SearchDown(t, key, f[i - 1])]
  <2>2. \A i \in 0 .. k : g[i] = f[i]
    BY <2>1 DEF SearchRun
  <2>3. /\ g = [i \in 0 .. k + 1 |-> g[i]]
        /\ \A i \in 0 .. k + 1 : g[i] = IF i = 0 THEN t.root ELSE SearchDown(t, key, f[i - 1])
    OBVIOUS
  <2> HIDE DEF g
  <2>4. ASSUME NEW i \in 0 .. k + 1
        PROVE  g[i] = IF i = 0 THEN t.root ELSE SearchDown(t, key, g[i - 1])
    <3>1. CASE i = 0
      BY <2>3, <3>1
    <3>2. CASE i # 0
      <4>1. i - 1 \in 0 .. k
        BY <3>2
      <4>2. g[i - 1] = f[i - 1]
        BY <2>2, <4>1
      <4> QED  BY <2>3, <3>2, <4>2
    <3> QED  BY <3>1, <3>2
  <2>5. SearchRun(t, key, k + 1, g)
    BY <2>3, <2>4 DEF SearchRun
  <2> QED  BY <2>5
<1>3. n \in T
  <2> HIDE DEF T
  <2> QED  BY <1>1, <1>2, ByRounds
<1> DEFINE c == CHOOSE f : f = [i \in 0 .. n |-> IF i = 0 THEN t.root ELSE SearchDown(t, key, f[i - 1])]
<1>4. SearchRun(t, key, n, c)
  BY <1>3 DEF SearchRun
<1>5. Search(t, key) = IF c[n] = Sentinel THEN Null ELSE c[n]
  BY DEF Search, Loop, SearchDown
<1> QED  BY <1>4, <1>5

\* The nodes below z are all that the search for k has still to see.
Narrowed(t, S, sub, k, z) == z \in S \cup {Sentinel} /\ (k \in S => k \in sub[z])

\* A round that does not find the entry goes to a smaller subtree, where it still is.
LEMMA NarrowedDown ==
  ASSUME NEW t, NEW D, NEW S, NEW sub, NEW pos, Base(t, D, S, sub, pos), Sorted(t, S, pos),
         Entries(t), S = Linked(t), NEW k \in Key, NEW z \in S, Narrowed(t, S, sub, k, z),
         ~Matches(t, k, z)
  PROVE  /\ Narrowed(t, S, sub, k, SearchDown(t, k, z))
         /\ Cardinality(sub[SearchDown(t, k, z)]) < Cardinality(sub[z])
<1>1. /\ Rooted(S, t.left, t.right, t.parent, t.root, sub)
      /\ Ord(S, t.left, t.right, sub, pos)
  BY DEF Base
<1>2. /\ Fork(S, t.left, t.right, t.parent, sub, z) /\ z # Sentinel
  BY <1>1 DEF Rooted
<1>3. /\ t.left[z] \in S \cup {Sentinel} /\ t.right[z] \in S \cup {Sentinel}
      /\ sub[z] = {z} \cup sub[t.left[z]] \cup sub[t.right[z]]
  BY <1>2 DEF Fork
<1>4. /\ Cardinality(sub[t.left[z]]) < Cardinality(sub[z])
      /\ Cardinality(sub[t.right[z]]) < Cardinality(sub[z])
  BY <1>1, CardSub
<1>5. /\ \A m \in sub[t.left[z]] : pos[m] < pos[z]
      /\ \A m \in sub[t.right[z]] : pos[z] < pos[m]
  BY <1>1 DEF Ord
<1>6. z \in Key /\ t.key[z] = Hash[z] /\ t.name[z] = z /\ t.insert = "LUADICT"
  BY DEF Entries
<1>7. Hash[z] \in Int /\ Hash[k] \in Int /\ z \in Seq(Nat) /\ k \in Seq(Nat)
  BY <1>6, IndexAssumption, RbtreeAssumption
<1>8. ASSUME k \in S
      PROVE  /\ k # z /\ t.key[k] = Hash[k] /\ t.name[k] = k
             /\ GoesLeft(t, k, z) => Before(t, k, z)
             /\ ~GoesLeft(t, k, z) => Before(t, z, k)
  <2>1. t.key[k] = Hash[k] /\ t.name[k] = k
    BY <1>8 DEF Entries
  <2>2. k # z
    BY <1>6 DEF Matches
  <2>3. NameLess(k, z) \/ NameLess(z, k)
    BY <1>7, <2>2, NamesTotal
  <2>4. GoesLeft(t, k, z) => Before(t, k, z)
    BY <1>6, <2>1 DEF GoesLeft, Before
  <2>5. ~GoesLeft(t, k, z) => Before(t, z, k)
    BY <1>6, <1>7, <2>1, <2>3 DEF GoesLeft, Before
  <2> QED  BY <2>1, <2>2, <2>4, <2>5
<1>9. CASE GoesLeft(t, k, z)
  <2>1. SearchDown(t, k, z) = t.left[z]
    BY <1>2, <1>9 DEF SearchDown
  <2>2. k \in S => k \in sub[t.left[z]]
    <3> SUFFICES ASSUME k \in S PROVE k \in sub[t.left[z]]
      OBVIOUS
    <3>1. k # z /\ Before(t, k, z) /\ k \in sub[z]
      BY <1>8, <1>9 DEF Narrowed
    <3>2. ~(pos[z] < pos[k])
      BY <3>1 DEF Sorted
    <3> QED  BY <1>3, <1>5, <3>1, <3>2
  <2> QED  BY <1>3, <1>4, <2>1, <2>2 DEF Narrowed
<1>10. CASE ~GoesLeft(t, k, z)
  <2>1. SearchDown(t, k, z) = t.right[z]
    BY <1>2, <1>10 DEF SearchDown
  <2>2. k \in S => k \in sub[t.right[z]]
    <3> SUFFICES ASSUME k \in S PROVE k \in sub[t.right[z]]
      OBVIOUS
    <3>1. k # z /\ Before(t, z, k) /\ k \in sub[z]
      BY <1>8, <1>10 DEF Narrowed
    <3>2. ~(pos[k] < pos[z])
      BY <3>1 DEF Sorted
    <3> QED  BY <1>3, <1>5, <3>1, <3>2
  <2> QED  BY <1>3, <1>4, <2>1, <2>2 DEF Narrowed
<1> QED  BY <1>9, <1>10

\* A search finds the entry of the name, and nothing else, also among entries of
\* the same hash.
LEMMA SearchFinds ==
  ASSUME NEW t, TreeInv(t), Entries(t), NEW k \in Key
  PROVE  Search(t, k) = IF k \in Linked(t) THEN k ELSE Null
<1> DEFINE D == DOMAIN t.key
           S == Linked(t)
           n == Rounds(t)
<1>1. PICK sub, pos, h : SortedTree(t, D, S, sub, pos, h)
  BY DEF TreeInv, TreeOf
<1>2. Base(t, D, S, sub, pos) /\ Sorted(t, S, pos) /\ IsFiniteSet(D)
  BY <1>1 DEF SortedTree, GoodT, TreeInv
<1>3. Rooted(S, t.left, t.right, t.parent, t.root, sub)
  BY <1>2 DEF Base
<1> HIDE DEF D
<1>4. /\ n \in Nat
      /\ \A z \in S : /\ Cardinality(sub[z]) \in Nat
                      /\ 1 <= Cardinality(sub[z]) /\ Cardinality(sub[z]) < n
  BY <1>2, RoundsEnough
<1>5. /\ t.root \in S \cup {Sentinel} /\ sub[t.root] = S /\ sub[Sentinel] = {} /\ Sentinel \notin S
  BY <1>3 DEF Rooted
<1>6. PICK f : SearchRun(t, k, n, f) /\ Search(t, k) = IF f[n] = Sentinel THEN Null ELSE f[n]
  BY <1>4, SearchRuns
<1>7. S = Linked(t)
  OBVIOUS
<1> HIDE DEF n, S
<1> DEFINE Ended(z) == z = Sentinel \/ Matches(t, k, z)
           T == {i \in 0 .. n : /\ Narrowed(t, S, sub, k, f[i])
                                /\ Ended(f[i]) \/ Cardinality(sub[f[i]]) + i < n}
<1>8. 0 \in T
  <2>1. f[0] = t.root
    BY <1>4, <1>6 DEF SearchRun
  <2> QED  BY <1>4, <1>5, <2>1 DEF Narrowed
<1>9. ASSUME NEW i \in 0 .. n - 1, i \in T
      PROVE  i + 1 \in T
  <2>1. f[i + 1] = SearchDown(t, k, f[i])
    BY <1>4, <1>6 DEF SearchRun
  <2> DEFINE z == f[i]
  <2>2. Narrowed(t, S, sub, k, z) /\ (Ended(z) \/ Cardinality(sub[z]) + i < n)
    BY <1>9
  <2> HIDE DEF z
  <2>3. f[i + 1] = SearchDown(t, k, z)
    BY <2>1 DEF z
  <2>4. CASE Ended(z)
    <3>1. f[i + 1] = z
      BY <2>3, <2>4 DEF SearchDown
    <3> QED  BY <1>4, <2>2, <2>4, <3>1
  <2>5. CASE ~Ended(z)
    <3>1. z \in S
      BY <2>2, <2>5 DEF Narrowed
    <3>2. /\ Narrowed(t, S, sub, k, f[i + 1])
          /\ Cardinality(sub[f[i + 1]]) < Cardinality(sub[z])
      BY <1>2, <1>7, <2>2, <2>3, <2>5, <3>1, NarrowedDown
    <3>3. f[i + 1] = Sentinel \/ f[i + 1] \in S
      BY <3>2 DEF Narrowed
    <3>4. CASE f[i + 1] = Sentinel
      BY <1>4, <3>2, <3>4
    <3>5. CASE f[i + 1] \in S
      <4>1. Cardinality(sub[f[i + 1]]) + (i + 1) < n
        BY <1>4, <2>2, <2>5, <3>1, <3>2, <3>5
      <4> QED  BY <1>4, <3>2, <4>1
    <3> QED  BY <3>3, <3>4, <3>5
  <2> QED  BY <2>4, <2>5
<1>10. n \in T
  <2> HIDE DEF T
  <2> QED  BY <1>4, <1>8, <1>9, ByRounds
<1>11. Narrowed(t, S, sub, k, f[n]) /\ (Ended(f[n]) \/ Cardinality(sub[f[n]]) + n < n)
  BY <1>10
<1>12. CASE f[n] = Sentinel
  <2>1. k \notin S
    BY <1>5, <1>11, <1>12 DEF Narrowed
  <2> QED  BY <1>6, <1>12, <2>1 DEF S
<1>13. CASE f[n] # Sentinel
  <2>1. f[n] \in S
    BY <1>11, <1>13 DEF Narrowed
  <2>2. Matches(t, k, f[n])
    BY <1>4, <1>11, <1>13, <2>1
  <2>3. f[n] = k
    BY <1>7, <2>1, <2>2 DEF Matches, Entries
  <2> QED  BY <1>6, <1>13, <2>1, <2>3 DEF S
<1> QED  BY <1>12, <1>13

-----------------------------------------------------------------------------
(* Walking *)

\* One round of a loop over the queue.
Onward(q, s) ==
    LET x == IF s = <<>> THEN QueueHead(q, LruHead) ELSE q.next[Last(s)]
    IN IF x = LruHead THEN s ELSE Append(s, x)

\* The rounds of the loop: f[i] are the entries met in i of them.
ChainRun(q, n, f) == f = [i \in 0 .. n |-> IF i = 0 THEN <<>> ELSE Onward(q, f[i - 1])]

\* Chain is the loop after as many rounds as there are links.
LEMMA ChainRuns ==
  ASSUME NEW q, NEW n \in Nat, n = Cardinality(DOMAIN q.next)
  PROVE  \E f : ChainRun(q, n, f) /\ Chain(q) = f[n]
<1> DEFINE T == {k \in 0 .. n : \E f : ChainRun(q, k, f)}
<1>1. 0 \in T
  <2>1. ChainRun(q, 0, [i \in 0 .. 0 |-> <<>>])
    BY DEF ChainRun
  <2> QED  BY <2>1
<1>2. ASSUME NEW k \in 0 .. n - 1, k \in T
      PROVE  k + 1 \in T
  <2>1. PICK f : ChainRun(q, k, f)
    BY <1>2
  <2> DEFINE g == [i \in 0 .. k + 1 |-> IF i = 0 THEN <<>> ELSE Onward(q, f[i - 1])]
  <2>2. \A i \in 0 .. k : g[i] = f[i]
    BY <2>1 DEF ChainRun
  <2>3. /\ g = [i \in 0 .. k + 1 |-> g[i]]
        /\ \A i \in 0 .. k + 1 : g[i] = IF i = 0 THEN <<>> ELSE Onward(q, f[i - 1])
    OBVIOUS
  <2> HIDE DEF g
  <2>4. ASSUME NEW i \in 0 .. k + 1
        PROVE  g[i] = IF i = 0 THEN <<>> ELSE Onward(q, g[i - 1])
    <3>1. CASE i = 0
      BY <2>3, <3>1
    <3>2. CASE i # 0
      <4>1. i - 1 \in 0 .. k
        BY <3>2
      <4>2. g[i - 1] = f[i - 1]
        BY <2>2, <4>1
      <4> QED  BY <2>3, <3>2, <4>2
    <3> QED  BY <3>1, <3>2
  <2>5. ChainRun(q, k + 1, g)
    BY <2>3, <2>4 DEF ChainRun
  <2> QED  BY <2>5
<1>3. n \in T
  <2> HIDE DEF T
  <2> QED  BY <1>1, <1>2, ByRounds
<1> DEFINE c == CHOOSE f : f = [i \in 0 .. n |-> IF i = 0 THEN <<>> ELSE Onward(q, f[i - 1])]
<1>4. ChainRun(q, n, c)
  BY <1>3 DEF ChainRun
<1>5. Chain(q) = c[n]
  BY DEF Chain, Loop, Onward
<1> QED  BY <1>4, <1>5

\* p is the beginning of s, of i elements if it has as many.
Beginning(p, s, i) ==
    /\ p \in Seq(ToSet(s))
    /\ Len(p) = IF i <= Len(s) THEN i ELSE Len(s)
    /\ \A j \in 1 .. Len(p) : p[j] = s[j]

\* A round of the loop meets the next entry of the queue, if there is one.
LEMMA OnwardBegins ==
  ASSUME NEW q, LruHead \in DOMAIN q.next, NEW s, Represents(q, LruHead, s),
         NEW i \in Nat, NEW p, Beginning(p, s, i)
  PROVE  Beginning(Onward(q, p), s, i + 1)
<1> DEFINE h == LruHead
           N == DOMAIN q.next
           x == IF p = <<>> THEN QueueHead(q, h) ELSE q.next[Last(p)]
<1>1. s \in Seq(N \ {h})
  BY DEF Represents
<1>2. \A j \in 0 .. Len(s) : q.next[At(h, s, j)] = At(h, s, j + 1)
  BY DEF Represents
<1>3. /\ At(h, s, 0) = h /\ At(h, s, Len(s) + 1) = h
      /\ \A j \in 1 .. Len(s) : At(h, s, j) = s[j] /\ s[j] # h
  BY <1>1, AtEnds
<1>4. p \in Seq(ToSet(s)) /\ Len(p) = (IF i <= Len(s) THEN i ELSE Len(s))
  BY DEF Beginning
<1>5. \A j \in 1 .. Len(p) : p[j] = s[j]
  BY DEF Beginning
<1>6. Len(s) \in Nat /\ Len(p) \in Nat /\ Len(p) <= Len(s)
  BY <1>1, <1>4
<1>7. x = At(h, s, Len(p) + 1)
  <2>1. CASE p = <<>>
    <3>1. Len(p) = 0
      BY <2>1
    <3>2. q.next[At(h, s, 0)] = At(h, s, 0 + 1)
      BY <1>2, <1>6
    <3> QED  BY <1>3, <2>1, <3>1, <3>2 DEF QueueHead
  <2>2. CASE p # <<>>
    <3>1. Len(p) \in 1 .. Len(p)
      BY <1>4, <1>6, <2>2
    <3>2. Last(p) = s[Len(p)]
      BY <1>5, <3>1 DEF Last
    <3>3. s[Len(p)] = At(h, s, Len(p)) /\ Len(p) \in 0 .. Len(s)
      BY <1>3, <1>6, <3>1
    <3> QED  BY <1>2, <2>2, <3>2, <3>3
  <2> QED  BY <2>1, <2>2
<1>8. Onward(q, p) = IF x = h THEN p ELSE Append(p, x)
  BY DEF Onward
<1> HIDE DEF x
<1>9. CASE Len(p) = Len(s)
  <2>1. x = h
    BY <1>3, <1>7, <1>9
  <2>2. Len(p) = IF i + 1 <= Len(s) THEN i + 1 ELSE Len(s)
    BY <1>4, <1>6, <1>9
  <2>3. Onward(q, p) = p
    BY <1>8, <2>1
  <2> QED  BY <1>4, <1>5, <2>2, <2>3 DEF Beginning
<1>10. CASE Len(p) # Len(s)
  <2>1. Len(p) = i /\ i + 1 <= Len(s) /\ i + 1 \in 1 .. Len(s)
    BY <1>4, <1>6, <1>10
  <2>2. x = s[i + 1] /\ x # h
    BY <1>3, <1>7, <2>1
  <2> DEFINE r == Append(p, x)
  <2>3. Onward(q, p) = r
    BY <1>8, <2>2
  <2>4. x \in ToSet(s)
    BY <1>1, <2>1, <2>2 DEF ToSet
  <2>5. r \in Seq(ToSet(s)) /\ Len(r) = i + 1
    BY <1>4, <2>1, <2>4
  <2>6. \A j \in 1 .. Len(r) : r[j] = IF j <= i THEN p[j] ELSE x
    BY <1>4, <2>1, <2>4
  <2> HIDE DEF r
  <2>7. \A j \in 1 .. Len(r) : r[j] = s[j]
    BY <1>5, <2>1, <2>2, <2>5, <2>6
  <2> QED  BY <2>1, <2>3, <2>5, <2>7 DEF Beginning
<1> QED  BY <1>9, <1>10

\* A loop over the queue meets its entries in their order and comes back to the
\* head, within as many rounds as there are links.
LEMMA ChainIs ==
  ASSUME NEW q, IsFiniteSet(DOMAIN q.next), LruHead \in DOMAIN q.next,
         NEW s, Represents(q, LruHead, s)
  PROVE  Chain(q) = s
<1> DEFINE N == DOMAIN q.next
           n == Cardinality(N)
<1>1. n \in Nat
  BY FS_CardinalityType
<1>2. n = Cardinality(DOMAIN q.next)
  OBVIOUS
<1>3. s \in Seq(N \ {LruHead}) /\ \A i, j \in 1 .. Len(s) : s[i] = s[j] => i = j
  BY DEF Represents
<1>4. Len(s) \in Nat
  BY <1>3
<1>5. Len(s) <= n
  <2>1. s \in Injection(1 .. Len(s), N)
    <3>1. s \in [1 .. Len(s) -> N]
      BY <1>3
    <3> QED  BY <1>3, <3>1, <1>4, SMT DEF Injection, IsInjective
  <2>2. Cardinality(1 .. Len(s)) <= n
    BY <2>1, FS_Injection
  <2>3. Cardinality(1 .. Len(s)) = Len(s)
    <3>1. 1 \in Int /\ Len(s) \in Int
      BY <1>4
    <3>2. Cardinality(1 .. Len(s)) = IF 1 > Len(s) THEN 0 ELSE Len(s) - 1 + 1
      BY <3>1, FS_Interval
    <3> QED  BY <1>4, <3>2
  <2> QED  BY <2>2, <2>3
<1> HIDE DEF n
<1>6. PICK f : ChainRun(q, n, f) /\ Chain(q) = f[n]
  BY <1>1, <1>2, ChainRuns
<1> DEFINE T == {i \in 0 .. n : Beginning(f[i], s, i)}
<1>7. 0 \in T
  <2>1. f[0] = <<>>
    BY <1>1, <1>6 DEF ChainRun
  <2>2. <<>> \in Seq(ToSet(s)) /\ Len(<<>>) = 0
    OBVIOUS
  <2>3. Beginning(<<>>, s, 0)
    BY <1>4, <2>2 DEF Beginning
  <2> QED  BY <1>1, <2>1, <2>3
<1>8. ASSUME NEW i \in 0 .. n - 1, i \in T
      PROVE  i + 1 \in T
  <2>1. f[i + 1] = Onward(q, f[i])
    BY <1>1, <1>6 DEF ChainRun
  <2>2. Beginning(f[i], s, i) /\ i \in Nat
    BY <1>8
  <2>3. Beginning(f[i + 1], s, i + 1)
    BY <2>1, <2>2, OnwardBegins
  <2> QED  BY <1>1, <2>3
<1>9. n \in T
  <2> HIDE DEF T
  <2> QED  BY <1>1, <1>7, <1>8, ByRounds
<1> DEFINE r == Chain(q)
<1>10. Beginning(r, s, n)
  BY <1>6, <1>9
<1> HIDE DEF r
<1>11. r \in Seq(ToSet(s)) /\ Len(r) = Len(s) /\ \A j \in 1 .. Len(s) : r[j] = s[j]
  BY <1>1, <1>4, <1>5, <1>10 DEF Beginning
<1>12. r = s
  BY <1>3, <1>11
<1> QED  BY <1>12 DEF r

-----------------------------------------------------------------------------
(* The queue, and what the removal of a key from a sequence is *)

\* The one member of a set is its least.
LEMMA LeastOfOne == ASSUME NEW p \in Int PROVE Min({p}) = p
BY DEF Min

\* In a sequence without repetition the first occurrence of an element is its place.
LEMMA RemoveFirstOf ==
  ASSUME NEW N, NEW s \in Seq(N), \A i, j \in 1 .. Len(s) : s[i] = s[j] => i = j,
         NEW p \in 1 .. Len(s)
  PROVE  RemoveFirst(s, s[p]) = RemoveAt(s, p)
<1>1. {i \in 1 .. Len(s) : s[i] = s[p]} = {p}
  OBVIOUS
<1>2. SelectInSeq(s, LAMBDA v : v = s[p]) = p
  BY <1>1, LeastOfOne DEF SelectInSeq
<1> QED  BY <1>2 DEF RemoveFirst

\* The queue q is a ring of s through the head, among the entries T.
Ring(q, T, s) ==
    /\ Closed(q) /\ DOMAIN q.next = T \cup {LruHead} /\ IsFiniteSet(T)
    /\ LruHead \notin T /\ Represents(q, LruHead, s)

\* What a ring says of its sequence, and that a walk meets just that.
LEMMA RingFacts ==
  ASSUME NEW q, NEW T, NEW s, Ring(q, T, s)
  PROVE  /\ s \in Seq(T) /\ \A i, j \in 1 .. Len(s) : s[i] = s[j] => i = j
         /\ Members(LruHead, s) = {LruHead} \cup ToSet(s) /\ ToSet(s) \subseteq T
         /\ Chain(q) = s
<1>1. s \in Seq(T) /\ \A i, j \in 1 .. Len(s) : s[i] = s[j] => i = j
  <2>1. DOMAIN q.next \ {LruHead} = T
    BY DEF Ring
  <2> QED  BY <2>1 DEF Ring, Represents
<1>2. Members(LruHead, s) = {LruHead} \cup ToSet(s)
  BY DEF Members, ToSet
<1>3. ToSet(s) \subseteq T
  BY <1>1 DEF ToSet
<1>4. IsFiniteSet(DOMAIN q.next)
  BY FS_AddElement DEF Ring
<1>5. Chain(q) = s
  BY <1>4, ChainIs DEF Ring
<1> QED  BY <1>1, <1>2, <1>3, <1>5

\* mps_queue_init
LEMMA RingInit == Ring(QueueInit(LruHead), {}, <<>>)
<1>1. QueueInit(LruHead).next = [y \in {LruHead} |-> LruHead]
  BY DEF QueueInit
<1>2. QueueInit(LruHead).prev = [y \in {LruHead} |-> LruHead]
  BY DEF QueueInit
<1>3. Closed(QueueInit(LruHead))
  BY <1>1, <1>2 DEF Closed
<1> QED  BY <1>1, <1>3, InitEmpty, FS_EmptySet DEF Ring

\* mps_queue_insert_head
LEMMA RingInsert ==
  ASSUME NEW q, NEW T, NEW s, Ring(q, T, s), NEW x \in T, x \notin ToSet(s)
  PROVE  Ring(QueueInsertHead(q, LruHead, x), T, Cons(x, s))
<1> DEFINE r == QueueInsertHead(q, LruHead, x)
<1>1. /\ Closed(q) /\ DOMAIN q.next = T \cup {LruHead} /\ LruHead \notin T
      /\ Represents(q, LruHead, s) /\ IsFiniteSet(T)
  BY DEF Ring
<1>2. x \notin Members(LruHead, s)
  BY <1>1, RingFacts
<1>3. Represents(r, LruHead, Cons(x, s)) /\ Closed(r)
  BY <1>1, <1>2, InsertHeadConses
<1>4. DOMAIN r.next = DOMAIN q.next
  BY DEF QueueInsertHead
<1> QED  BY <1>1, <1>3, <1>4 DEF Ring

\* mps_queue_remove
LEMMA RingRemove ==
  ASSUME NEW q, NEW T, NEW s, Ring(q, T, s), NEW x \in ToSet(s)
  PROVE  /\ Ring(QueueRemove(q, x), T, RemoveFirst(s, x))
         /\ ToSet(RemoveFirst(s, x)) = ToSet(s) \ {x}
<1> DEFINE r == QueueRemove(q, x)
           c == RemoveFirst(s, x)
<1>1. /\ Closed(q) /\ DOMAIN q.next = T \cup {LruHead} /\ LruHead \notin T
      /\ Represents(q, LruHead, s) /\ IsFiniteSet(T)
  BY DEF Ring
<1>2. s \in Seq(T) /\ \A i, j \in 1 .. Len(s) : s[i] = s[j] => i = j
  BY RingFacts
<1>3. PICK p \in 1 .. Len(s) : s[p] = x
  BY <1>2 DEF ToSet
<1>4. c = RemoveAt(s, p)
  BY <1>2, <1>3, RemoveFirstOf
<1>5. Represents(r, LruHead, c) /\ Closed(r)
  BY <1>1, <1>3, <1>4, RemoveRemoves
<1>6. DOMAIN r.next = DOMAIN q.next
  BY DEF QueueRemove
<1>7. Ring(r, T, c)
  BY <1>1, <1>5, <1>6 DEF Ring
<1>8. /\ Len(c) = Len(s) - 1
      /\ \A i \in 1 .. Len(s) - 1 : c[i] = IF i < p THEN s[i] ELSE s[i + 1]
  BY <1>2, <1>4, RemoveAtItems
<1>9. ToSet(c) = ToSet(s) \ {x}
  <2>1. c \in Seq(T) /\ Len(s) \in Nat
    BY <1>2, <1>7, RingFacts
  <2>2. ASSUME NEW y \in ToSet(c) PROVE y \in ToSet(s) \ {x}
    <3>1. PICK i \in 1 .. Len(s) - 1 : y = c[i]
      BY <1>8, <2>1, <2>2 DEF ToSet
    <3>2. CASE i < p
      <4>1. y = s[i] /\ i \in 1 .. Len(s) /\ i # p
        BY <1>8, <2>1, <3>1, <3>2
      <4> QED  BY <1>2, <1>3, <4>1 DEF ToSet
    <3>3. CASE ~(i < p)
      <4>1. y = s[i + 1] /\ i + 1 \in 1 .. Len(s) /\ i + 1 # p
        BY <1>8, <2>1, <3>1, <3>3
      <4> QED  BY <1>2, <1>3, <4>1 DEF ToSet
    <3> QED  BY <3>2, <3>3
  <2>3. ASSUME NEW y \in ToSet(s), y # x PROVE y \in ToSet(c)
    <3>1. PICK i \in 1 .. Len(s) : y = s[i]
      BY <1>2, <2>3 DEF ToSet
    <3>2. i # p
      BY <1>3, <2>3, <3>1
    <3>3. \E j \in 1 .. Len(c) : y = c[j]
      <4>1. CASE i < p
        <5>1. i \in 1 .. Len(s) - 1 /\ c[i] = s[i]
          BY <1>8, <2>1, <3>1, <4>1
        <5> QED  BY <1>8, <3>1, <5>1
      <4>2. CASE p < i
        <5>1. i - 1 \in 1 .. Len(s) - 1 /\ ~(i - 1 < p) /\ (i - 1) + 1 = i
          BY <2>1, <1>3, <3>1, <4>2
        <5>2. c[i - 1] = s[i]
          BY <1>8, <5>1
        <5> QED  BY <1>8, <3>1, <5>1, <5>2
      <4> QED  BY <1>3, <3>1, <3>2, <4>1, <4>2
    <3> QED  BY <2>1, <3>3 DEF ToSet
  <2> QED  BY <2>2, <2>3
<1> QED  BY <1>7, <1>9

\* The links of an entry that is allocated and not in the queue yet.
LEMMA RingWith ==
  ASSUME NEW q, NEW T, NEW s, Ring(q, T, s), NEW x, x \notin T, x # LruHead
  PROVE  Ring(WithLinks(q, x), T \cup {x}, s)
<1> DEFINE r == WithLinks(q, x)
           N == DOMAIN q.next
<1>1. /\ Closed(q) /\ N = T \cup {LruHead} /\ LruHead \notin T
      /\ Represents(q, LruHead, s) /\ IsFiniteSet(T)
  BY DEF Ring
<1>2. s \in Seq(T) /\ \A i, j \in 1 .. Len(s) : s[i] = s[j] => i = j
  BY RingFacts
<1>3. /\ r.next = [y \in N \cup {x} |-> IF y = x THEN x ELSE q.next[y]]
      /\ r.prev = [y \in N \cup {x} |-> IF y = x THEN x ELSE q.prev[y]]
  BY DEF WithLinks
<1>4. q.next \in [N -> N] /\ q.prev \in [N -> N] /\ x \notin N
  BY <1>1 DEF Closed
<1> HIDE DEF r, N
<1>5. DOMAIN r.next = N \cup {x} /\ Closed(r)
  BY <1>3, <1>4 DEF Closed
<1>6. \A y \in N : r.next[y] = q.next[y] /\ r.prev[y] = q.prev[y]
  BY <1>3, <1>4
<1>7. Represents(r, LruHead, s)
  <2>1. s \in Seq((N \cup {x}) \ {LruHead})
    <3>1. T \subseteq (N \cup {x}) \ {LruHead}
      BY <1>1
    <3> QED  BY <1>2, <3>1
  <2>2. \A i \in 0 .. Len(s) + 1 : At(LruHead, s, i) \in N
    <3>1. s \in Seq(N \ {LruHead}) /\ LruHead \in N
      BY <1>1 DEF N, Represents
    <3> QED  BY <3>1, AtEnds
  <2>3. \A i \in 0 .. Len(s) : /\ q.next[At(LruHead, s, i)] = At(LruHead, s, i + 1)
                               /\ q.prev[At(LruHead, s, i + 1)] = At(LruHead, s, i)
    BY <1>1 DEF Represents
  <2>4. \A i \in 0 .. Len(s) : i \in 0 .. Len(s) + 1 /\ i + 1 \in 0 .. Len(s) + 1
    BY <1>2
  <2>5. \A i \in 0 .. Len(s) : /\ r.next[At(LruHead, s, i)] = At(LruHead, s, i + 1)
                               /\ r.prev[At(LruHead, s, i + 1)] = At(LruHead, s, i)
    BY <1>6, <2>2, <2>3, <2>4
  <2> QED  BY <1>2, <1>5, <2>1, <2>5 DEF Represents
<1>8. IsFiniteSet(T \cup {x})
  BY <1>1, FS_AddElement
<1> QED  BY <1>1, <1>5, <1>7, <1>8 DEF Ring, r

\* The links of the one entry that is not in the queue are freed.
LEMMA RingWithout ==
  ASSUME NEW q, NEW T, NEW s, Ring(q, T, s), NEW x \in T, ToSet(s) = T \ {x}
  PROVE  Ring(WithoutLinks(q, x), T \ {x}, s)
<1> DEFINE r == WithoutLinks(q, x)
           N == DOMAIN q.next
           M == N \ {x}
<1>1. /\ Closed(q) /\ N = T \cup {LruHead} /\ LruHead \notin T
      /\ Represents(q, LruHead, s) /\ IsFiniteSet(T)
  BY DEF Ring
<1>2. s \in Seq(T) /\ \A i, j \in 1 .. Len(s) : s[i] = s[j] => i = j
  BY RingFacts
<1>3. q.next \in [N -> N] /\ q.prev \in [N -> N] /\ DOMAIN q.prev = N
  BY <1>1 DEF Closed
<1>4. /\ r.next = [y \in M |-> q.next[y]]
      /\ r.prev = [y \in M |-> q.prev[y]]
  BY <1>3 DEF WithoutLinks, Restrict
<1> HIDE DEF r, N
<1>5. s \in Seq(M \ {LruHead}) /\ LruHead \in M
  <2>1. \A i \in 1 .. Len(s) : s[i] \in M \ {LruHead}
    BY <1>1, <1>2 DEF ToSet
  <2> QED  BY <1>1, <1>2, <2>1
<1>6. \A i \in 0 .. Len(s) + 1 : At(LruHead, s, i) \in M
  BY <1>5, AtEnds
<1>7. \A i \in 0 .. Len(s) : /\ q.next[At(LruHead, s, i)] = At(LruHead, s, i + 1)
                             /\ q.prev[At(LruHead, s, i + 1)] = At(LruHead, s, i)
  BY <1>1 DEF Represents
<1>8. \A i \in 0 .. Len(s) : i \in 0 .. Len(s) + 1 /\ i + 1 \in 0 .. Len(s) + 1
  BY <1>2
<1>9. DOMAIN r.next = M
  BY <1>4
<1>10. Represents(r, LruHead, s)
  <2>1. \A i \in 0 .. Len(s) : /\ r.next[At(LruHead, s, i)] = At(LruHead, s, i + 1)
                               /\ r.prev[At(LruHead, s, i + 1)] = At(LruHead, s, i)
    <3> TAKE i \in 0 .. Len(s)
    <3>1. At(LruHead, s, i) \in M /\ At(LruHead, s, i + 1) \in M
      BY <1>6, <1>8, Zenon
    <3> QED  BY <1>4, <1>7, <3>1, Zenon
  <2> QED  BY <1>2, <1>5, <1>9, <2>1 DEF Represents
<1>11. ASSUME NEW y \in M PROVE q.next[y] \in M /\ q.prev[y] \in M
  <2>1. Len(s) \in Nat /\ DOMAIN s = 1 .. Len(s)
    BY <1>2
  <2>2. At(LruHead, s, 0) = LruHead /\ At(LruHead, s, Len(s) + 1) = LruHead
    BY <2>1 DEF At
  <2>3. \A i \in 1 .. Len(s) : At(LruHead, s, i) = s[i]
    BY <2>1 DEF At
  <2>4. CASE y = LruHead
    <3>1. 0 \in 0 .. Len(s) /\ Len(s) \in 0 .. Len(s)
      BY <2>1
    <3>2. q.next[y] = At(LruHead, s, 0 + 1) /\ q.prev[y] = At(LruHead, s, Len(s))
      BY <1>7, <2>2, <2>4, <3>1
    <3> QED  BY <1>6, <1>8, <3>1, <3>2
  <2>5. CASE y # LruHead
    <3>1. y \in ToSet(s)
      BY <1>1, <2>5
    <3>2. PICK i \in 1 .. Len(s) : y = s[i]
      BY <1>2, <3>1 DEF ToSet
    <3>3. y = At(LruHead, s, i) /\ i \in 0 .. Len(s) /\ i - 1 \in 0 .. Len(s) /\ (i - 1) + 1 = i
      BY <2>3, <2>1, <3>2
    <3>4. q.next[y] = At(LruHead, s, i + 1) /\ q.prev[y] = At(LruHead, s, i - 1)
      BY <1>7, <3>3
    <3> QED  BY <1>6, <1>8, <3>3, <3>4
  <2> QED  BY <2>4, <2>5
<1>12. Closed(r)
  BY <1>4, <1>9, <1>11 DEF Closed
<1>13. IsFiniteSet(T \ {x})
  BY <1>1, FS_RemoveElement
<1>14. M = (T \ {x}) \cup {LruHead}
  BY <1>1
<1> QED  BY <1>1, <1>9, <1>10, <1>12, <1>13, <1>14 DEF Ring, r

-----------------------------------------------------------------------------
(* Tree and queue together *)

\* The tree t and the queue q, whose entries are s.
Index(t, q, s) == TreeInv(t) /\ Entries(t) /\ Ring(q, Linked(t), s)

\* A dictionary starts with an empty tree and an empty queue.
LEMMA IndexInit ==
  /\ Index(RbInit("LUADICT"), QueueInit(LruHead), <<>>)
  /\ Linked(RbInit("LUADICT")) = {}
<1> DEFINE t == RbInit("LUADICT")
<1>1. TreeInv(t)
  BY EmptyTree DEF InsertType
<1>2. Linked(t) = {} /\ t.insert = "LUADICT"
  BY DEF RbInit, Linked
<1> HIDE DEF t
<1>3. Entries(t)
  BY <1>2 DEF Entries
<1>4. Index(t, QueueInit(LruHead), <<>>)
  BY <1>1, <1>2, <1>3, RingInit DEF Index
<1> QED  BY <1>2, <1>4 DEF t

\* A name that the binding accepts is stored whole.
LEMMA StoredWhole ==
  ASSUME NEW k \in Key, Accepted(k)
  PROVE  StoredName(k) = k
<1>1. k \in Seq(Nat) /\ Len(k) \in Nat /\ LenRange \in Nat \ {0} /\ Len(k) < LenRange
  BY IndexAssumption DEF Accepted
<1>2. Len(k) % LenRange = Len(k)
  BY <1>1
<1> QED  BY <1>1, <1>2 DEF StoredName

\* The insertion of an entry into the tree: its queue links are not in the ring yet.
LEMMA IndexPlanted ==
  ASSUME NEW t, NEW q, NEW s, Index(t, q, s), NEW k \in Key, Accepted(k), k \notin Linked(t),
         NEW r, r = RbInsert(WithNode(t, k, Hash[k], StoredName(k)), k)
  PROVE  Index(r, WithLinks(q, k), s) /\ Linked(r) = Linked(t) \cup {k}
<1>1. TreeInv(t) /\ Entries(t) /\ Ring(q, Linked(t), s)
  BY DEF Index
<1>2. /\ k \notin {Sentinel, Null, LruHead} /\ k \in Seq(Nat)
      /\ Hash[k] \in 0 .. 2 * HalfRange - 1
  BY IndexAssumption
<1>3. PICK u : u = [insert |-> "LUADICT", node |-> k, key |-> Hash[k], name |-> k]
  OBVIOUS
<1>4. u.insert = "LUADICT" /\ u.node = k /\ u.key = Hash[k] /\ u.name = k
  BY <1>3
<1>5. Usable(t, u)
  BY <1>1, <1>2, <1>4 DEF Usable, Entries, InsertType
<1>6. r = Grown(t, u)
  BY <1>4, StoredWhole DEF Grown
<1>7. /\ TreeInv(r) /\ Linked(r) = Linked(t) \cup {k}
      /\ NewData(t, DOMAIN t.key, k, Hash[k], k, r)
  BY <1>1, <1>4, <1>5, <1>6, GrownTree
<1>8. Entries(r)
  <2>1. \A x \in Linked(t) : x \in DOMAIN t.key
    BY DEF Linked
  <2> QED  BY <1>1, <1>7, <2>1 DEF Entries, NewData
<1>9. Ring(WithLinks(q, k), Linked(r), s)
  BY <1>1, <1>2, <1>7, RingWith
<1> QED  BY <1>7, <1>8, <1>9 DEF Index

\* The deletion of the entry that is out of the ring already.
LEMMA IndexUnplanted ==
  ASSUME NEW t, NEW q, NEW s, Index(t, q, s), NEW x \in Linked(t), ToSet(s) = Linked(t) \ {x},
         NEW r, r = WithoutNode(RbDelete(t, x), x)
  PROVE  Index(r, WithoutLinks(q, x), s) /\ Linked(r) = Linked(t) \ {x}
<1>1. TreeInv(t) /\ Entries(t) /\ Ring(q, Linked(t), s)
  BY DEF Index
<1>2. TreeInv(r) /\ Linked(r) = Linked(t) \ {x} /\ SameBut(t, r, DOMAIN t.key, x)
  BY <1>1, ShrunkTree
<1>3. Entries(r)
  <2>1. \A y \in Linked(t) : y \in DOMAIN t.key
    BY DEF Linked
  <2> QED  BY <1>1, <1>2, <2>1 DEF Entries, SameBut
<1>4. Ring(WithoutLinks(q, x), Linked(r), s)
  BY <1>1, <1>2, RingWithout
<1> QED  BY <1>2, <1>3, <1>4 DEF Index

\* mps_queue_remove leaves the entry to the tree.
LEMMA IndexTaken ==
  ASSUME NEW t, NEW q, NEW s, Index(t, q, s), NEW x \in ToSet(s)
  PROVE  /\ Index(t, QueueRemove(q, x), RemoveFirst(s, x))
         /\ ToSet(RemoveFirst(s, x)) = ToSet(s) \ {x}
BY RingRemove DEF Index

\* mps_queue_insert_head, for an entry that is in the tree only.
LEMMA IndexPut ==
  ASSUME NEW t, NEW q, NEW s, Index(t, q, s), NEW x \in Linked(t), x \notin ToSet(s)
  PROVE  /\ Index(t, QueueInsertHead(q, LruHead, x), Cons(x, s))
         /\ ToSet(Cons(x, s)) = {x} \cup ToSet(s)
<1>1. s \in Seq(Linked(t))
  BY RingFacts DEF Index
<1>2. ToSet(Cons(x, s)) = {x} \cup ToSet(s)
  <2> DEFINE c == Cons(x, s)
  <2>1. /\ DOMAIN c = 1 .. Len(s) + 1 /\ c[1] = x /\ Len(s) \in Nat
        /\ \A i \in 2 .. Len(s) + 1 : c[i] = s[i - 1]
        /\ DOMAIN s = 1 .. Len(s)
    BY <1>1 DEF Cons
  <2> HIDE DEF c
  <2>2. 1 \in 1 .. Len(s) + 1 /\ \A i \in 1 .. Len(s) : i + 1 \in 2 .. Len(s) + 1 /\ (i + 1) - 1 = i
    BY <2>1
  <2>3. \A y \in ToSet(s) : y \in ToSet(c)
    <3> TAKE y \in ToSet(s)
    <3>1. PICK i \in 1 .. Len(s) : y = s[i]
      BY <2>1 DEF ToSet
    <3>2. c[i + 1] = y /\ i + 1 \in DOMAIN c
      BY <2>1, <2>2, <3>1
    <3> QED  BY <3>2 DEF ToSet
  <2>4. x \in ToSet(c)
    BY <2>1, <2>2 DEF ToSet
  <2>5. \A y \in ToSet(c) : y = x \/ y \in ToSet(s)
    <3> TAKE y \in ToSet(c)
    <3>1. PICK i \in 1 .. Len(s) + 1 : y = c[i]
      BY <2>1 DEF ToSet
    <3>2. CASE i = 1
      BY <2>1, <3>1, <3>2
    <3>3. CASE i # 1
      <4>1. i \in 2 .. Len(s) + 1 /\ i - 1 \in 1 .. Len(s)
        BY <2>1, <3>1, <3>3
      <4> QED  BY <2>1, <3>1, <4>1 DEF ToSet
    <3> QED  BY <3>2, <3>3
  <2>6. ToSet(c) = {x} \cup ToSet(s)
    BY <2>3, <2>4, <2>5
  <2> QED  BY <2>6 DEF c
<1> QED  BY <1>2, RingInsert DEF Index

\* Tree and queue that fit are what searches and walks take them for.
LEMMA IndexMeans ==
  ASSUME NEW t, NEW q, NEW s, Index(t, q, s)
  PROVE  /\ Chain(q) = s /\ ToSet(s) \subseteq Linked(t) /\ s \in Seq(Linked(t))
         /\ Linked(t) \subseteq Key
         /\ IsTree(t) /\ IsBalanced(t) /\ Represents(q, LruHead, s)
         /\ \A k \in Key : Search(t, k) = IF k \in Linked(t) THEN k ELSE Null
<1>1. TreeInv(t) /\ Entries(t) /\ Ring(q, Linked(t), s)
  BY DEF Index
<1>2. Chain(q) = s /\ ToSet(s) \subseteq Linked(t) /\ s \in Seq(Linked(t))
  BY <1>1, RingFacts
<1>3. IsTree(t) /\ IsBalanced(t)
  BY <1>1, TreeMeans
<1>4. Represents(q, LruHead, s) /\ Linked(t) \subseteq Key
  BY <1>1 DEF Ring, Entries
<1>5. \A k \in Key : Search(t, k) = IF k \in Linked(t) THEN k ELSE Null
  BY <1>1, SearchFinds
<1> QED  BY <1>2, <1>3, <1>4, <1>5

-----------------------------------------------------------------------------
(* What a process leaves to do *)

\* A change of two that is still to be made.
HalfDone == [do : {"thread", "unplant"}, entry : Key]

\* What each process has still to do.
HalfOK(h) == h \in [Proc -> {None} \cup HalfDone]

\* The entries that are in the tree and not in the queue are those in hand.
Owed ==
    /\ \A p \in Proc : half[p] # None => Linked(tree) \ ToSet(Threaded) = {half[p].entry}
    /\ harmed \/ (\E p \in Proc : half[p] # None) \/ Linked(tree) \ ToSet(Threaded) = {}

\* Only one who is inside, and while no death has torn the links, has an
\* operation half done.
OnlyInside == \A p \in Proc : half[p] # None => pc[p] = "inside" /\ ~harmed

\* The inductive invariant.  After a death one entry at most may be in the tree
\* only, and stays there.
IndexInv ==
    /\ LockInv /\ HalfOK(half) /\ OnlyInside
    /\ Index(tree, queue, Threaded)
    /\ Owed
    /\ \E x : Linked(tree) \ ToSet(Threaded) \subseteq {x}

\* The sequence of names for what is half done, h, and the queue s.
InHand(h, do) == {h[p].entry : p \in {r \in Proc : h[r] # None /\ h[r].do = do}}

UsedOf(h, s) ==
    IF InHand(h, "thread") = {} THEN s
    ELSE Cons(CHOOSE x \in InHand(h, "thread") : TRUE, s)

\* The sequence of the refinement is that one.
LEMMA UsedIs == Used = UsedOf(half, Threaded)
BY DEF Used, Held, UsedOf, InHand

\* When at most p has something half done, the sequence is read off it.
LEMMA UsedAlone ==
  ASSUME NEW h, NEW s, NEW p \in Proc, \A q \in Proc : h[q] # None => q = p
  PROVE  UsedOf(h, s) = IF h[p] # None /\ h[p].do = "thread" THEN Cons(h[p].entry, s) ELSE s
<1>1. CASE h[p] # None /\ h[p].do = "thread"
  <2>1. InHand(h, "thread") = {h[p].entry}
    BY <1>1 DEF InHand
  <2>2. \A x : (CHOOSE y \in {x} : TRUE) = x
    OBVIOUS
  <2> QED  BY <1>1, <2>1, <2>2 DEF UsedOf
<1>2. CASE ~(h[p] # None /\ h[p].do = "thread")
  <2>1. InHand(h, "thread") = {}
    BY <1>2 DEF InHand
  <2> QED  BY <1>2, <2>1 DEF UsedOf
<1> QED  BY <1>1, <1>2

\* Nobody else is inside, and so nobody else has anything half done.
LEMMA Alone ==
  ASSUME IndexInv, NEW p \in Proc, pc[p] = "inside", ~harmed
  PROVE  \A q \in Proc : half[q] # None => q = p
<1>1. state = "consistent"
  BY DEF IndexInv, LockInv, DamageKnown
<1>2. Inside \subseteq {owner}
  BY <1>1 DEF IndexInv, LockInv, OneInsideWhileUsable
<1>3. \A q \in Proc : pc[q] = "inside" => q = p
  BY <1>2 DEF Inside
<1> QED  BY <1>3 DEF IndexInv, OnlyInside

\* Before an operation.
LEMMA AtReady ==
  ASSUME IndexInv, NEW p \in Proc, Ready(p)
  PROVE  /\ pc[p] = "inside" /\ half[p] = None /\ ~harmed
         /\ Index(tree, queue, Threaded) /\ ToSet(Threaded) = Linked(tree)
         /\ \A q \in Proc : half[q] = None
         /\ Used = Threaded
<1>1. pc[p] = "inside" /\ half[p] = None /\ ~harmed
  BY DEF Ready
<1>2. \A q \in Proc : half[q] = None
  BY <1>1, Alone
<1>3. Index(tree, queue, Threaded) /\ Linked(tree) \ ToSet(Threaded) = {}
  BY <1>1, <1>2 DEF IndexInv, Owed
<1>4. ToSet(Threaded) = Linked(tree)
  BY <1>3, IndexMeans
<1>5. UsedOf(half, Threaded) = Threaded
  BY <1>2, UsedAlone
<1> QED  BY <1>1, <1>2, <1>3, <1>4, <1>5, UsedIs

\* Between the two changes of an operation.
LEMMA AtHalf ==
  ASSUME IndexInv, NEW p \in Proc, half[p] # None
  PROVE  /\ pc[p] = "inside" /\ ~harmed /\ half[p].entry \in Linked(tree)
         /\ Index(tree, queue, Threaded)
         /\ ToSet(Threaded) = Linked(tree) \ {half[p].entry}
         /\ \A q \in Proc : half[q] # None => q = p
         /\ Used = IF half[p].do = "thread" THEN Cons(half[p].entry, Threaded) ELSE Threaded
<1>1. pc[p] = "inside" /\ ~harmed
  BY DEF IndexInv, OnlyInside
<1>2. \A q \in Proc : half[q] # None => q = p
  BY <1>1, Alone
<1>3. Index(tree, queue, Threaded) /\ Linked(tree) \ ToSet(Threaded) = {half[p].entry}
  BY DEF IndexInv, Owed
<1>4. ToSet(Threaded) \subseteq Linked(tree)
  BY <1>3, IndexMeans
<1>5. UsedOf(half, Threaded) =
         IF half[p].do = "thread" THEN Cons(half[p].entry, Threaded) ELSE Threaded
  BY <1>2, UsedAlone
<1> QED  BY <1>1, <1>2, <1>3, <1>4, <1>5, UsedIs

\* Process p has d to do, or nothing, and nobody else has.
HalfIs(h, p, d) == HalfOK(h) /\ h[p] = d /\ \A q \in Proc \ {p} : h[q] = None

\* What an operation of p leaves: the queue s and, of p, d to do.
Leaves(p, d, s) ==
    /\ UNCHANGED vars /\ HalfIs(half', p, d)
    /\ Index(tree', queue', s)
    /\ Linked(tree') \ ToSet(s) = IF d = None THEN {} ELSE {d.entry}

\* Whatever a process does inside, what it leaves is the invariant again.
LEMMA SectionKeeps ==
  ASSUME IndexInv, NEW p \in Proc, pc[p] = "inside", ~harmed, NEW d, NEW s, Leaves(p, d, s)
  PROVE  /\ IndexInv' /\ Threaded' = s
         /\ Used' = IF d # None /\ d.do = "thread" THEN Cons(d.entry, s) ELSE s
<1>1. /\ UNCHANGED vars /\ HalfIs(half', p, d)
      /\ Index(tree', queue', s)
      /\ Linked(tree') \ ToSet(s) = IF d = None THEN {} ELSE {d.entry}
  BY DEF Leaves
<1>2. Threaded' = s
  BY <1>1, IndexMeans DEF Threaded
<1>3. LockInv'
  BY <1>1 DEF vars, IndexInv, LockInv, TypeOK, OneInsideWhileUsable, Inside, DamageKnown,
     OwnerInside, UnusableIsFree
<1>4. HalfOK(half)' /\ half'[p] = d /\ \A q \in Proc : half'[q] # None => q = p
  BY <1>1 DEF HalfIs, HalfOK
<1>5. pc' = pc /\ harmed' = harmed
  BY <1>1 DEF vars
<1>6. OnlyInside'
  BY <1>4, <1>5 DEF OnlyInside
<1>7. Owed'
  BY <1>1, <1>2, <1>4 DEF Owed
<1>8. \E x : Linked(tree') \ ToSet(Threaded') \subseteq {x}
  <2>1. CASE d = None
    BY <1>1, <1>2, <2>1
  <2>2. CASE d # None
    BY <1>1, <1>2, <2>2
  <2> QED  BY <2>1, <2>2
<1>9. IndexInv'
  BY <1>1, <1>2, <1>3, <1>4, <1>6, <1>7, <1>8 DEF IndexInv
<1>10. UsedOf(half', s) = IF d # None /\ d.do = "thread" THEN Cons(d.entry, s) ELSE s
  BY <1>4, UsedAlone
<1>11. Used' = UsedOf(half', Threaded')
  BY DEF Used, Held, UsedOf, InHand
<1> QED  BY <1>2, <1>9, <1>10, <1>11

\* What a step does to the abstract index.
Refined == harmed' \/ Abstract!Next \/ UNCHANGED <<Used, answer>>

\* The first half of an operation leaves p the second to do.
LEMMA ThenHalf ==
  ASSUME IndexInv, NEW p \in Proc, \A q \in Proc : half[q] # None => q = p,
         NEW do \in {"thread", "unplant"}, NEW x \in Key, Then(p, do, x),
         NEW d, d = [do |-> do, entry |-> x]
  PROVE  HalfIs(half', p, d) /\ d # None /\ d.do = do /\ d.entry = x
<1>1. d \in HalfDone /\ d.do = do /\ d.entry = x
  BY DEF HalfDone
<1>2. d # None
  BY <1>1, IndexAssumption DEF HalfDone
<1>3. half \in [Proc -> {None} \cup HalfDone]
  BY DEF IndexInv, HalfOK
<1>4. half' = [half EXCEPT ![p] = d]
  BY DEF Then
<1> QED  BY <1>1, <1>2, <1>3, <1>4 DEF HalfIs, HalfOK

\* The second half leaves p nothing to do.
LEMMA DoneHalf ==
  ASSUME IndexInv, NEW p \in Proc, \A q \in Proc : half[q] # None => q = p,
         Done(p)
  PROVE  HalfIs(half', p, None)
<1>1. half \in [Proc -> {None} \cup HalfDone]
  BY DEF IndexInv, HalfOK
<1> QED  BY <1>1 DEF HalfIs, HalfOK, Done

\* An operation of one piece leaves nothing to do either.
LEMMA SameHalf ==
  ASSUME IndexInv, NEW p \in Proc, \A q \in Proc : half[q] = None, half' = half
  PROVE  HalfIs(half', p, None)
BY DEF IndexInv, HalfIs

\* The operators on sequences are the same ones in LruIndex.
LEMMA SameOperators ==
  ASSUME NEW s, NEW x
  PROVE  /\ Abstract!ToSet(s) = ToSet(s)
         /\ Abstract!Cons(x, s) = Cons(x, s)
         /\ Abstract!RemoveFirst(s, x) = RemoveFirst(s, x)
         /\ Abstract!Last(s) = Last(s)
<1>1. Abstract!ToSet(s) = ToSet(s)
  BY DEF Abstract!ToSet, ToSet
<1>2. Abstract!Cons(x, s) = Cons(x, s)
  BY DEF Abstract!Cons, Cons
<1>3. Abstract!RemoveFirst(s, x) = RemoveFirst(s, x)
  BY DEF Abstract!RemoveFirst, RemoveFirst, Abstract!RemoveAt, RemoveAt, Abstract!SelectInSeq,
     SelectInSeq, Abstract!Min, Min
<1>4. Abstract!Last(s) = Last(s)
  BY DEF Abstract!Last, Last
<1> QED  BY <1>1, <1>2, <1>3, <1>4

\* mps_shdict_lookup: the entry found is taken out, and counts as the first from then on.
LEMMA FindStep ==
  ASSUME IndexInv, NEW p \in Proc, NEW k \in Key, Find(p, k)
  PROVE  IndexInv' /\ Refined
<1> DEFINE s == Threaded
<1>1. Ready(p) /\ UNCHANGED <<vars, tree>>
  BY DEF Find
<1>2. /\ pc[p] = "inside" /\ half[p] = None /\ ~harmed
      /\ Index(tree, queue, s) /\ ToSet(s) = Linked(tree)
      /\ \A q \in Proc : half[q] = None
      /\ Used = s
  BY <1>1, AtReady
<1>3. Entry(k) = IF k \in Linked(tree) THEN k ELSE Null
  BY <1>2, IndexMeans DEF Entry
<1>4. k # Null
  BY IndexAssumption
<1> HIDE DEF s
<1>5. CASE Entry(k) = Null
  <2>1. k \notin ToSet(s)
    BY <1>2, <1>3, <1>4, <1>5
  <2>2. answer' = <<{k}, {}>> /\ queue' = queue /\ half' = half /\ tree' = tree /\ UNCHANGED vars
    BY <1>1, <1>5 DEF Find
  <2>3. HalfIs(half', p, None)
    BY <1>2, <2>2, SameHalf
  <2>4. Leaves(p, None, s)
    BY <1>2, <2>2, <2>3 DEF Leaves
  <2>5. IndexInv' /\ Used' = s
    BY <1>2, <2>4, SectionKeeps
  <2>6. Abstract!Find(k)
    BY <1>2, <2>1, <2>2, <2>5, SameOperators DEF Abstract!Find
  <2> QED  BY <2>5, <2>6 DEF Refined, Abstract!Next
<1>6. CASE Entry(k) # Null
  <2>1. Entry(k) = k /\ k \in ToSet(s) /\ k \in Linked(tree)
    BY <1>2, <1>3, <1>6
  <2>2. /\ answer' = <<{k}, {k}>> /\ queue' = QueueRemove(queue, k) /\ Then(p, "thread", k)
        /\ tree' = tree /\ UNCHANGED vars
    BY <1>1, <1>6, <2>1 DEF Find
  <2> DEFINE c == RemoveFirst(s, k)
  <2>3. Index(tree, QueueRemove(queue, k), c) /\ ToSet(c) = ToSet(s) \ {k}
    BY <1>2, <2>1, IndexTaken
  <2>4. PICK d : d = [do |-> "thread", entry |-> k]
    OBVIOUS
  <2>5. HalfIs(half', p, d) /\ d # None /\ d.do = "thread" /\ d.entry = k
    BY <1>2, <2>2, <2>4, ThenHalf
  <2> HIDE DEF c
  <2>6. Leaves(p, d, c)
    BY <1>2, <2>1, <2>2, <2>3, <2>5 DEF Leaves
  <2>7. IndexInv' /\ Used' = Cons(k, c)
    BY <1>2, <2>5, <2>6, SectionKeeps
  <2>8. Abstract!Find(k)
    BY <1>2, <2>1, <2>2, <2>7, SameOperators DEF Abstract!Find, c
  <2> QED  BY <2>7, <2>8 DEF Refined, Abstract!Next
<1> QED  BY <1>5, <1>6

\* mps_shdict_peek and the loop of mps_shdict_flush_all change nothing.
LEMMA PeekStep ==
  ASSUME IndexInv, NEW p \in Proc, (\E k \in Key : Peek(p, k)) \/ PeekAll(p)
  PROVE  IndexInv' /\ Refined
<1> DEFINE s == Threaded
<1>1. Ready(p) /\ UNCHANGED <<vars, tree, queue, half>>
  BY DEF Peek, PeekAll
<1>2. /\ pc[p] = "inside" /\ half[p] = None /\ ~harmed
      /\ Index(tree, queue, s) /\ ToSet(s) = Linked(tree)
      /\ \A q \in Proc : half[q] = None
      /\ Used = s
  BY <1>1, AtReady
<1> HIDE DEF s
<1>3. HalfIs(half', p, None)
  BY <1>1, <1>2, SameHalf
<1>4. Leaves(p, None, s)
  BY <1>1, <1>2, <1>3 DEF Leaves
<1>5. IndexInv' /\ Used' = s
  BY <1>2, <1>4, SectionKeeps
<1>6. ASSUME NEW k \in Key, Peek(p, k) PROVE Abstract!Next
  <2>1. Entry(k) = IF k \in Linked(tree) THEN k ELSE Null
    BY <1>2, IndexMeans DEF Entry
  <2>2. k # Null
    BY IndexAssumption
  <2>3. {Entry(k)} \ {Null} = {k} \cap ToSet(s)
    BY <1>2, <2>1, <2>2
  <2>4. Abstract!Peek(k)
    BY <1>2, <1>5, <1>6, <2>3, SameOperators DEF Peek, Abstract!Peek
  <2> QED  BY <2>4 DEF Abstract!Next
<1>7. ASSUME PeekAll(p) PROVE Abstract!Next
  <2>1. Abstract!PeekAll
    BY <1>2, <1>5, <1>7, SameOperators DEF PeekAll, Abstract!PeekAll, s
  <2> QED  BY <2>1 DEF Abstract!Next
<1> QED  BY <1>5, <1>6, <1>7 DEF Refined

\* An insertion counts as done as soon as the entry is in the tree.
LEMMA InsertStep ==
  ASSUME IndexInv, NEW p \in Proc, NEW k \in Key, Insert(p, k)
  PROVE  IndexInv' /\ Refined
<1> DEFINE s == Threaded
<1>1. /\ Ready(p) /\ Accepted(k) /\ Entry(k) = Null
      /\ tree' = RbInsert(WithNode(tree, k, Hash[k], StoredName(k)), k)
      /\ queue' = WithLinks(queue, k) /\ Then(p, "thread", k)
      /\ UNCHANGED vars /\ answer' = answer
  BY DEF Insert
<1>2. /\ pc[p] = "inside" /\ half[p] = None /\ ~harmed
      /\ Index(tree, queue, s) /\ ToSet(s) = Linked(tree)
      /\ \A q \in Proc : half[q] = None
      /\ Used = s
  BY <1>1, AtReady
<1>3. k \notin Linked(tree)
  <2>1. Entry(k) = IF k \in Linked(tree) THEN k ELSE Null
    BY <1>2, IndexMeans DEF Entry
  <2>2. k # Null
    BY IndexAssumption
  <2> QED  BY <1>1, <2>1, <2>2
<1> HIDE DEF s
<1>4. Index(tree', queue', s) /\ Linked(tree') = Linked(tree) \cup {k}
  BY <1>1, <1>2, <1>3, IndexPlanted
<1>5. PICK d : d = [do |-> "thread", entry |-> k]
  OBVIOUS
<1>6. HalfIs(half', p, d) /\ d # None /\ d.do = "thread" /\ d.entry = k
  BY <1>1, <1>2, <1>5, ThenHalf
<1>7. Leaves(p, d, s)
  BY <1>1, <1>2, <1>3, <1>4, <1>6 DEF Leaves
<1>8. IndexInv' /\ Used' = Cons(k, s)
  BY <1>2, <1>6, <1>7, SectionKeeps
<1>9. Abstract!Insert(k)
  BY <1>1, <1>2, <1>3, <1>8, SameOperators DEF Abstract!Insert
<1> QED  BY <1>8, <1>9 DEF Refined, Abstract!Next

\* The second half of a lookup or an insertion is a stuttering step.
LEMMA ThreadStep ==
  ASSUME IndexInv, NEW p \in Proc, Thread(p)
  PROVE  IndexInv' /\ Refined
<1> DEFINE s == Threaded
           x == half[p].entry
<1>1. /\ half[p] # None /\ half[p].do = "thread"
      /\ queue' = QueueInsertHead(queue, LruHead, x) /\ Done(p)
      /\ UNCHANGED vars /\ tree' = tree /\ answer' = answer
  BY DEF Thread
<1>2. /\ pc[p] = "inside" /\ ~harmed /\ x \in Linked(tree)
      /\ Index(tree, queue, s) /\ ToSet(s) = Linked(tree) \ {x}
      /\ \A q \in Proc : half[q] # None => q = p
      /\ Used = Cons(x, s)
  BY <1>1, AtHalf
<1> HIDE DEF s, x
<1> DEFINE c == Cons(x, s)
<1>3. Index(tree, QueueInsertHead(queue, LruHead, x), c) /\ ToSet(c) = {x} \cup ToSet(s)
  BY <1>2, IndexPut
<1>4. HalfIs(half', p, None)
  BY <1>1, <1>2, DoneHalf
<1> HIDE DEF c
<1>5. Leaves(p, None, c)
  BY <1>1, <1>2, <1>3, <1>4 DEF Leaves
<1>6. IndexInv' /\ Used' = c
  BY <1>2, <1>5, SectionKeeps
<1> QED  BY <1>1, <1>2, <1>6 DEF Refined, c

\* A removal counts as done as soon as the entry is out of the queue.
LEMMA DropStep ==
  ASSUME IndexInv, NEW p \in Proc, Drop(p)
  PROVE  IndexInv' /\ Refined
<1> DEFINE s == Threaded
<1>1. PICK x \in {QueueHead(queue, LruHead), QueueLast(queue, LruHead)} :
        queue' = QueueRemove(queue, x) /\ Then(p, "unplant", x)
  BY DEF Drop
<1>2. /\ Ready(p) /\ ~QueueEmpty(queue, LruHead)
      /\ UNCHANGED vars /\ tree' = tree /\ answer' = answer
  BY DEF Drop
<1>3. /\ pc[p] = "inside" /\ half[p] = None /\ ~harmed
      /\ Index(tree, queue, s) /\ ToSet(s) = Linked(tree)
      /\ \A q \in Proc : half[q] = None
      /\ Used = s
  BY <1>2, AtReady
<1> HIDE DEF s
<1>4. Represents(queue, LruHead, s) /\ s \in Seq(Linked(tree)) /\ Linked(tree) \subseteq Key
  BY <1>3, IndexMeans
<1>5. LruHead \in DOMAIN queue.next
  BY <1>3 DEF Index, Ring
<1>6. s # <<>> /\ x \in {s[1], s[Len(s)]}
  BY <1>1, <1>2, <1>4, <1>5, EndsRead
<1>7. x \in ToSet(s) /\ x \in Key /\ x \in {Head(s), Last(s)}
  <2>1. Len(s) \in Nat /\ Len(s) # 0 /\ DOMAIN s = 1 .. Len(s)
    BY <1>4, <1>6
  <2>2. 1 \in DOMAIN s /\ Len(s) \in DOMAIN s
    BY <2>1
  <2>3. x \in ToSet(s)
    BY <1>6, <2>2 DEF ToSet
  <2> QED  BY <1>3, <1>4, <1>6, <2>3 DEF Last
<1> DEFINE c == RemoveFirst(s, x)
<1>8. Index(tree, QueueRemove(queue, x), c) /\ ToSet(c) = ToSet(s) \ {x}
  BY <1>3, <1>7, IndexTaken
<1>9. PICK d : d = [do |-> "unplant", entry |-> x]
  OBVIOUS
<1>10. HalfIs(half', p, d) /\ d # None /\ d.do = "unplant" /\ d.entry = x
  BY <1>1, <1>3, <1>7, <1>9, ThenHalf
<1> HIDE DEF c
<1>11. Leaves(p, d, c)
  BY <1>1, <1>2, <1>3, <1>7, <1>8, <1>10 DEF Leaves
<1>12. IndexInv' /\ Used' = c
  BY <1>3, <1>10, <1>11, SectionKeeps
<1>13. Abstract!Drop(x)
  BY <1>2, <1>3, <1>6, <1>7, <1>12, SameOperators DEF Abstract!Drop, c
<1> QED  BY <1>7, <1>12, <1>13 DEF Refined, Abstract!Next

\* The second half of a removal is a stuttering step.
LEMMA UnplantStep ==
  ASSUME IndexInv, NEW p \in Proc, Unplant(p)
  PROVE  IndexInv' /\ Refined
<1> DEFINE s == Threaded
           x == half[p].entry
<1>1. /\ half[p] # None /\ half[p].do = "unplant"
      /\ tree' = WithoutNode(RbDelete(tree, x), x)
      /\ queue' = WithoutLinks(queue, x) /\ Done(p)
      /\ UNCHANGED vars /\ answer' = answer
  BY DEF Unplant
<1>2. /\ pc[p] = "inside" /\ ~harmed /\ x \in Linked(tree)
      /\ Index(tree, queue, s) /\ ToSet(s) = Linked(tree) \ {x}
      /\ \A q \in Proc : half[q] # None => q = p
      /\ Used = s
  BY <1>1, AtHalf
<1> HIDE DEF s, x
<1>3. Index(tree', queue', s) /\ Linked(tree') = Linked(tree) \ {x}
  BY <1>1, <1>2, IndexUnplanted
<1>4. HalfIs(half', p, None)
  BY <1>1, <1>2, DoneHalf
<1>5. Leaves(p, None, s)
  BY <1>1, <1>2, <1>3, <1>4 DEF Leaves
<1>6. IndexInv' /\ Used' = s
  BY <1>2, <1>5, SectionKeeps
<1> QED  BY <1>1, <1>2, <1>6 DEF Refined

\* Every step between mps_slab_lock and mps_slab_unlock.
LEMMA SectionStep ==
  ASSUME IndexInv, NEW p \in Proc, Section(p)
  PROVE  IndexInv' /\ Refined
BY FindStep, PeekStep, InsertStep, ThreadStep, DropStep, UnplantStep DEF Section

\* The steps of the mutex keep what is said of it.
LEMMA MutexStep ==
  ASSUME IndexInv, NEW p \in Proc, Call(p) \/ Lock(p) \/ Unlock(p) \/ Die(p)
  PROVE  LockInv'
<1>1. Next
  BY DEF Next
<1> QED  BY <1>1, LockStep DEF IndexInv

\* The links and the halves as they were: nothing happens to the index.
LEMMA IndexKept ==
  ASSUME IndexInv, UNCHANGED indexVars, LockInv', harmed' = harmed,
         \A p \in Proc : half[p] # None => pc'[p] = "inside"
  PROVE  IndexInv' /\ Refined
<1>1. tree' = tree /\ queue' = queue /\ answer' = answer /\ half' = half
  BY DEF indexVars
<1>2. Threaded' = Threaded
  BY <1>1 DEF Threaded
<1>3. Used' = Used
  BY <1>1, <1>2 DEF Used, Held
<1>4. OnlyInside'
  BY <1>1 DEF IndexInv, OnlyInside
<1>5. Owed'
  BY <1>1, <1>2 DEF IndexInv, Owed
<1>6. HalfOK(half)' /\ Index(tree, queue, Threaded)'
      /\ \E x : (Linked(tree) \ ToSet(Threaded))' \subseteq {x}
  BY <1>1, <1>2 DEF IndexInv
<1>7. IndexInv'
  BY <1>4, <1>5, <1>6 DEF IndexInv
<1> QED  BY <1>1, <1>3, <1>7 DEF Refined

\* A death inside leaves the half done change as it is; elsewhere it changes nothing.
LEMMA DeathStep ==
  ASSUME IndexInv, NEW p \in Proc, Die(p), Done(p), UNCHANGED <<tree, queue, answer>>
  PROVE  IndexInv' /\ Refined
<1>1. LockInv'
  BY MutexStep
<1>2. half \in [Proc -> {None} \cup HalfDone]
  BY DEF IndexInv, HalfOK
<1>3. pc \in [Proc -> {"outside", "waiting", "inside"}]
  BY DEF IndexInv, LockInv, TypeOK
<1>4. CASE pc[p] = "inside"
  <2>1. harmed'
    BY <1>4 DEF Die
  <2>2. \A q \in Proc : half[q] # None => q = p
    <3>1. CASE harmed
      BY <3>1 DEF IndexInv, OnlyInside
    <3>2. CASE ~harmed
      BY <1>4, <3>2, Alone
    <3> QED  BY <3>1, <3>2
  <2>3. \A q \in Proc : half'[q] = None
    BY <1>2, <2>2 DEF Done
  <2>4. HalfOK(half)'
    BY <1>2 DEF Done, HalfOK
  <2>5. OnlyInside'
    BY <2>3 DEF OnlyInside
  <2>6. Threaded' = Threaded
    BY DEF Threaded
  <2>7. Owed'
    BY <2>1, <2>3 DEF Owed
  <2>8. Index(tree, queue, Threaded)'
        /\ \E x : (Linked(tree) \ ToSet(Threaded))' \subseteq {x}
    BY <2>6 DEF IndexInv
  <2>9. IndexInv'
    BY <1>1, <2>4, <2>5, <2>7, <2>8 DEF IndexInv
  <2> QED  BY <2>1, <2>9 DEF Refined
<1>5. CASE pc[p] # "inside"
  <2>1. half[p] = None
    BY <1>5 DEF IndexInv, OnlyInside
  <2>2. half' = half
    BY <1>2, <2>1 DEF Done
  <2>3. harmed' = harmed
    <3>1. harmed \in BOOLEAN
      BY DEF IndexInv, LockInv, TypeOK
    <3> QED  BY <1>5, <3>1 DEF Die
  <2>4. \A q \in Proc : half[q] # None => pc'[q] = "inside"
    BY <1>3, <2>1 DEF Die, IndexInv, OnlyInside
  <2>5. UNCHANGED indexVars
    BY <2>2 DEF indexVars
  <2> QED  BY <1>1, <2>3, <2>4, <2>5, IndexKept
<1> QED  BY <1>4, <1>5

\* Calls, locks, unlocks and deaths.
LEMMA LockingStep ==
  ASSUME IndexInv, NEW p \in Proc, Locking(p)
  PROVE  IndexInv' /\ Refined
<1>1. pc \in [Proc -> {"outside", "waiting", "inside"}]
  BY DEF IndexInv, LockInv, TypeOK
<1>2. CASE (Call(p) \/ Lock(p)) /\ UNCHANGED indexVars
  <2>1. LockInv' /\ harmed' = harmed
    BY <1>2, MutexStep DEF Call, Lock
  <2>2. pc[p] # "inside" /\ \A q \in Proc \ {p} : pc'[q] = pc[q]
    BY <1>1, <1>2 DEF Call, Lock
  <2>3. \A q \in Proc : half[q] # None => pc'[q] = "inside"
    BY <2>2 DEF IndexInv, OnlyInside
  <2> QED  BY <1>2, <2>1, <2>3, IndexKept
<1>3. CASE half[p] = None /\ Unlock(p) /\ UNCHANGED indexVars
  <2>1. LockInv' /\ harmed' = harmed
    BY <1>3, MutexStep DEF Unlock
  <2>2. \A q \in Proc \ {p} : pc'[q] = pc[q]
    BY <1>1, <1>3 DEF Unlock
  <2>3. \A q \in Proc : half[q] # None => pc'[q] = "inside"
    BY <1>3, <2>2 DEF IndexInv, OnlyInside
  <2> QED  BY <1>3, <2>1, <2>3, IndexKept
<1>4. CASE Die(p) /\ Done(p) /\ UNCHANGED <<tree, queue, answer>>
  BY <1>4, DeathStep
<1> QED  BY <1>2, <1>3, <1>4 DEF Locking

\* Every step keeps the invariant and is one of the abstract index, or stutters.
LEMMA SharedStep ==
  ASSUME IndexInv, [SharedNext]_sharedVars
  PROVE  IndexInv' /\ Refined
<1>1. ASSUME NEW p \in Proc, Section(p) \/ Locking(p) PROVE IndexInv' /\ Refined
  BY <1>1, SectionStep, LockingStep
<1>2. CASE UNCHANGED sharedVars
  <2>1. UNCHANGED indexVars /\ pc' = pc /\ harmed' = harmed /\ UNCHANGED vars
    BY <1>2 DEF sharedVars, vars
  <2>2. LockInv'
    BY <2>1, LockStep DEF IndexInv
  <2>3. \A q \in Proc : half[q] # None => pc'[q] = "inside"
    BY <2>1 DEF IndexInv, OnlyInside
  <2> QED  BY <2>1, <2>2, <2>3, IndexKept
<1> QED  BY <1>1, <1>2 DEF SharedNext

\* The processes start with an empty index.
LEMMA IndexStart == SharedInit => IndexInv /\ Abstract!Init
<1> SUFFICES ASSUME SharedInit PROVE IndexInv /\ Abstract!Init
  OBVIOUS
<1>1. /\ Init /\ half = [p \in Proc |-> None] /\ answer = <<{}, {}>>
      /\ tree = RbInit("LUADICT") /\ queue = QueueInit(LruHead)
  BY DEF SharedInit
<1>2. Index(tree, queue, <<>>) /\ Linked(tree) = {}
  BY <1>1, IndexInit
<1>3. Threaded = <<>>
  BY <1>2, IndexMeans DEF Threaded
<1>4. \A p \in Proc : half[p] = None
  BY <1>1
<1>5. HalfOK(half)
  BY <1>1 DEF HalfOK
<1>6. LockInv
  BY <1>1, LockInit
<1>7. OnlyInside /\ Owed
  BY <1>2, <1>4 DEF OnlyInside, Owed
<1>8. \E x : Linked(tree) \ ToSet(Threaded) \subseteq {x}
  BY <1>2
<1>9. IndexInv
  BY <1>2, <1>3, <1>5, <1>6, <1>7, <1>8 DEF IndexInv
<1>10. Used = <<>>
  <2>1. Held("thread") = {}
    BY <1>4 DEF Held
  <2> QED  BY <1>3, <2>1 DEF Used
<1> QED  BY <1>1, <1>9, <1>10 DEF Abstract!Init

\* The invariant holds throughout.
LEMMA SharedInv == SharedSpec => []IndexInv
BY IndexStart, SharedStep, PTL DEF SharedSpec

\* However many processes die wherever, tree and queue stay a search tree and a
\* ring that differ in one entry at most.
THEOREM LinksSurviveDeaths == SharedSpec => []TornByOneEntry
<1>1. IndexInv => TornByOneEntry
  <2> SUFFICES ASSUME IndexInv PROVE TornByOneEntry
    OBVIOUS
  <2>1. Index(tree, queue, Threaded)
    BY DEF IndexInv
  <2>2. /\ IsTree(tree) /\ IsBalanced(tree) /\ Represents(queue, LruHead, Threaded)
        /\ ToSet(Threaded) \subseteq Linked(tree)
    BY <2>1, IndexMeans
  <2>3. PICK x : Linked(tree) \ ToSet(Threaded) \subseteq {x}
    BY DEF IndexInv
  <2>4. IsFiniteSet({x}) /\ Cardinality({x}) = 1
    BY FS_Singleton
  <2>5. /\ Cardinality(Linked(tree) \ ToSet(Threaded)) \in Nat
        /\ Cardinality(Linked(tree) \ ToSet(Threaded)) <= 1
    <3>1. /\ IsFiniteSet(Linked(tree) \ ToSet(Threaded))
          /\ Cardinality(Linked(tree) \ ToSet(Threaded)) <= Cardinality({x})
      BY <2>3, <2>4, FS_Subset
    <3> QED  BY <2>4, <3>1, FS_CardinalityType
  <2> QED  BY <2>2, <2>5 DEF TornByOneEntry
<1> QED  BY SharedInv, <1>1, PTL

\* Until a process dies inside, tree and queue under the mutex are a set of names in
\* the order of their last use: every step of every process is one of LruIndex.
THEOREM IndexImplemented == SharedSpec => ImplementsLruIndex
<1>1. IndexInv /\ [SharedNext]_sharedVars => [harmed' \/ Abstract!Next]_<<Used, answer>>
  BY SharedStep DEF Refined
<1>2. SharedInit => Abstract!Init
  BY IndexStart
<1> QED  BY SharedInv, <1>1, <1>2, PTL DEF SharedSpec, ImplementsLruIndex

\* In what the processes do to the index, the mutex is used as ShmLock has it, so
\* that what is proved of it holds there.
THEOREM MutexUsed == SharedSpec => Spec
<1>1. SharedInit => Init
  BY DEF SharedInit
<1>2. ASSUME [SharedNext]_sharedVars PROVE [Next]_vars
  <2>1. ASSUME NEW p \in Proc, Section(p) PROVE UNCHANGED vars
    BY <2>1 DEF Section, Find, Peek, PeekAll, Insert, Thread, Drop, Unplant
  <2>2. ASSUME NEW p \in Proc, Locking(p) PROVE Next
    BY <2>2 DEF Locking, Next
  <2>3. CASE UNCHANGED sharedVars
    BY <2>3 DEF sharedVars
  <2> QED  BY <1>2, <2>1, <2>2, <2>3 DEF SharedNext
<1> QED  BY <1>1, <1>2, PTL DEF SharedSpec, Spec
=============================================================================
