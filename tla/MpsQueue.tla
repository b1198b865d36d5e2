------------------------------ MODULE MpsQueue ------------------------------
(***************************************************************************)
(* The queue of mps_queue.h: a ring of links through a head.               *)
(*                                                                         *)
(* q holds the fields next and prev of every head and node that is         *)
(* allocated; several queues may share it, as the LRU queue and the lists  *)
(* share the pool.                                                         *)
(***************************************************************************)
EXTENDS Integers, SequencesExt

\* mps_queue_init
QueueInit(h) == [next |-> [y \in {h} |-> h], prev |-> [y \in {h} |-> h]]

QueueEmpty(q, h) == h = q.prev[h]
QueueHead(q, h) == q.next[h]
QueueLast(q, h) == q.prev[h]

\* Memory for a node, whose links mean nothing yet, and the end of it.
WithLinks(q, x) ==
    LET all == DOMAIN q.next \cup {x}
    IN [next |-> [y \in all |-> IF y = x THEN x ELSE q.next[y]],
        prev |-> [y \in all |-> IF y = x THEN x ELSE q.prev[y]]]

WithoutLinks(q, x) ==
    [next |-> Restrict(q.next, DOMAIN q.next \ {x}),
     prev |-> Restrict(q.prev, DOMAIN q.prev \ {x})]

\* mps_queue_insert_head
QueueInsertHead(q, h, x) ==
    [next |-> [q.next EXCEPT ![x] = q.next[h], ![h] = x],
     prev |-> [q.prev EXCEPT ![q.next[h]] = x, ![x] = h]]

\* mps_queue_insert_tail
QueueInsertTail(q, h, x) ==
    [next |-> [q.next EXCEPT ![q.prev[h]] = x, ![x] = h],
     prev |-> [q.prev EXCEPT ![x] = q.prev[h], ![h] = x]]

\* mps_queue_remove, which leaves the links of the node as they are.
QueueRemove(q, x) ==
    [next |-> [q.next EXCEPT ![q.prev[x]] = q.next[x]],
     prev |-> [q.prev EXCEPT ![q.next[x]] = q.prev[x]]]

-----------------------------------------------------------------------------

\* The queue of h is the sequence s: forwards and backwards, once each.
At(h, s, i) == IF i \in DOMAIN s THEN s[i] ELSE h

Represents(q, h, s) ==
    /\ s \in Seq(DOMAIN q.next \ {h})
    /\ \A i, j \in 1 .. Len(s) : s[i] = s[j] => i = j
    /\ \A i \in 0 .. Len(s) :
         /\ q.next[At(h, s, i)] = At(h, s, i + 1)
         /\ q.prev[At(h, s, i + 1)] = At(h, s, i)
=============================================================================
