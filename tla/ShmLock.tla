------------------------------ MODULE ShmLock ------------------------------
(***************************************************************************)
(* The lock of a pool, across the processes that map it.                   *)
(*                                                                         *)
(* It is a robust, process-shared POSIX mutex, but mps_slab_lock drops the *)
(* result of pthread_mutex_lock and nothing calls                          *)
(* pthread_mutex_consistent.  So the process that takes the mutex over     *)
(* from a dead owner goes on as if all were well, its unlock makes the     *)
(* mutex unusable, and from then on pthread_mutex_lock fails at once and   *)
(* its callers go on without it.                                           *)
(*                                                                         *)
(* What a process does between lock and unlock is a step of Shdict or Slab *)
(* if, and only if, nobody else is inside.                                 *)
(***************************************************************************)
EXTENDS Naturals, FiniteSets

CONSTANTS
    Proc,       \* the processes that map the pool
    None        \* no owner

ASSUME LockAssumption == None \notin Proc

VARIABLES
    state,      \* the mutex: consistent, its owner died, not recoverable
    owner,      \* the process that holds it, or None
    pc,         \* per process: outside, in pthread_mutex_lock, or inside
    harmed      \* a process died inside: the pool may be half changed

vars == <<state, owner, pc, harmed>>

State == {"consistent", "ownerdead", "notrecoverable"}

TypeOK ==
    /\ state \in State
    /\ owner \in Proc \cup {None}
    /\ pc \in [Proc -> {"outside", "waiting", "inside"}]
    /\ harmed \in BOOLEAN

Inside == {p \in Proc : pc[p] = "inside"}

-----------------------------------------------------------------------------

\* pthread_mutex_init with the attributes: the mutex starts free.
Init ==
    /\ state = "consistent" /\ owner = None
    /\ pc = [p \in Proc |-> "outside"]
    /\ harmed = FALSE

Call(p) ==
    /\ pc[p] = "outside"
    /\ pc' = [pc EXCEPT ![p] = "waiting"]
    /\ UNCHANGED <<state, owner, harmed>>

\* Mistake: the attribute PTHREAD_PROCESS_SHARED is not set.
LockPrivate(p) ==
    /\ pc[p] = "waiting"
    /\ owner' = p
    /\ pc' = [pc EXCEPT ![p] = "inside"]
    /\ UNCHANGED <<state, harmed>>

\* mps_slab_lock: the caller goes on with 0, EOWNERDEAD and ENOTRECOVERABLE alike.
Lock(p) ==
    /\ pc[p] = "waiting"
    /\ \/ state # "notrecoverable" /\ owner = None /\ owner' = p
       \/ state = "notrecoverable" /\ UNCHANGED owner
    /\ pc' = [pc EXCEPT ![p] = "inside"]
    /\ UNCHANGED <<state, harmed>>

\* mps_slab_unlock: the owner gives the mutex up, for good if it had it from a
\* dead one; for anybody else the call fails.
Unlock(p) ==
    /\ pc[p] = "inside"
    /\ pc' = [pc EXCEPT ![p] = "outside"]
    /\ IF owner = p
       THEN /\ owner' = None
            /\ state' = IF state = "ownerdead" THEN "notrecoverable" ELSE state
       ELSE UNCHANGED <<owner, state>>
    /\ UNCHANGED harmed

\* Mistake: the attribute PTHREAD_MUTEX_ROBUST is not set.
DieHolding(p) ==
    /\ pc[p] # "outside"
    /\ pc' = [pc EXCEPT ![p] = "outside"]
    /\ harmed' = (harmed \/ pc[p] = "inside")
    /\ UNCHANGED <<owner, state>>

\* A process dies in the call or inside; another one takes its place.
Die(p) ==
    /\ pc[p] # "outside"
    /\ pc' = [pc EXCEPT ![p] = "outside"]
    /\ harmed' = (harmed \/ pc[p] = "inside")
    /\ IF owner = p
       THEN owner' = None /\ state' = "ownerdead"
       ELSE UNCHANGED <<owner, state>>

Next == \E p \in Proc : Call(p) \/ Lock(p) \/ Unlock(p) \/ Die(p)

Spec == Init /\ [][Next]_vars

-----------------------------------------------------------------------------

\* As long as no process has died inside, one at a time is there: the steps
\* of Shdict and Slab are steps.
OneInside == ~harmed => Cardinality(Inside) <= 1

\* Exclusion outlives the death of an owner until the one that took over from
\* it is done: only then is the mutex unusable.
OneInsideWhileUsable ==
    state # "notrecoverable" => Inside \subseteq {owner}

\* The mutex is not lost with a process that dies: where one waits, someone
\* gets in, or the one that waits does not any more.
SomeoneGetsIn ==
    \A p \in Proc : pc[p] = "waiting" ~> (pc[p] # "waiting" \/ Inside # {})
=============================================================================
