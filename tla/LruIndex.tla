------------------------------ MODULE LruIndex ------------------------------
(***************************************************************************)
(* What the dictionary needs of its tree and its queue: a set of keys that *)
(* is searched by key and ordered by last use.  Insert, Touch and DropNode *)
(* of Shdict do to the fields tree and lru what the actions do here.       *)
(***************************************************************************)
EXTENDS SequencesExt

CONSTANT Key

VARIABLES
    lru,      \* the keys, from the most to the least recently used
    answer    \* the keys last asked for, and those of them found

Init == lru = <<>> /\ answer = <<{}, {}>>

\* A search moves what it finds to the head.
Find(k) ==
    /\ answer' = <<{k}, {k} \cap ToSet(lru)>>
    /\ lru' = IF k \in ToSet(lru) THEN Cons(k, RemoveFirst(lru, k)) ELSE lru

Peek(k) == answer' = <<{k}, {k} \cap ToSet(lru)>> /\ UNCHANGED lru

PeekAll == answer' = <<Key, ToSet(lru)>> /\ UNCHANGED lru

Insert(k) ==
    /\ k \notin ToSet(lru)
    /\ lru' = Cons(k, lru)
    /\ UNCHANGED answer

\* The entry that was just found, or the least recently used one.
Drop(k) ==
    /\ lru # <<>> /\ k \in {Head(lru), Last(lru)}
    /\ lru' = RemoveFirst(lru, k)
    /\ UNCHANGED answer

Next == PeekAll \/ \E k \in Key : Find(k) \/ Peek(k) \/ Insert(k) \/ Drop(k)

Spec == Init /\ [][Next]_<<lru, answer>>
=============================================================================
