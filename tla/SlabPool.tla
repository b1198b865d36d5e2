------------------------------ MODULE SlabPool ------------------------------
(***************************************************************************)
(* The promise of mps_slab.c as a state machine over SlabContract: what a  *)
(* caller sees of the allocator.  Slab implements it, and Shdict uses the  *)
(* same operators Free and Release.                                        *)
(***************************************************************************)
EXTENDS SlabContract

CONSTANT None

VARIABLES
    used,           \* the blocks that are allocated
    refused         \* the class of the last call, if it was a request without
                    \* success; else None

vars == <<used, refused>>

Init == used = {} /\ refused = None

\* A request is given a block that overlaps no other, and is refused only if
\* there is none.
Alloc(c) ==
    \/ \E b \in Free(used, c) : used' = used \cup {b} /\ refused' = None
    \/ Free(used, c) = {} /\ refused' = c /\ UNCHANGED used

Dealloc(b) == used' = Release(used, {b}) /\ refused' = None

\* A pointer that is no block's is not freed.
DeallocNothing == refused' = None /\ UNCHANGED used

Next ==
    \/ \E c \in Class : Alloc(c)
    \/ \E b \in used : Dealloc(b)
    \/ DeallocNothing

Spec == Init /\ [][Next]_vars
=============================================================================
