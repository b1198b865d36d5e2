---------------------------- MODULE SlabContract ----------------------------
(***************************************************************************)
(* What mps_slab.c promises to its callers.                                *)
(*                                                                         *)
(* The pool is an array of NPages pages.  A request is rounded up to a     *)
(* size class.  A class whose objects are smaller than a page cuts one     *)
(* page into PerPage equal chunks; a larger one takes a run of Span        *)
(* contiguous pages.  Two allocated blocks never share memory: they lie on *)
(* different pages, or are different chunks of one page that was cut for   *)
(* their class.                                                            *)
(*                                                                         *)
(* Which of the possible blocks the slot lists and the page free list      *)
(* yield is left open.  That a block is found whenever there is one, and   *)
(* that blocks do not overlap, is checked of the allocator in Slab.        *)
(***************************************************************************)
EXTENDS Integers, FiniteSets

CONSTANTS
    NPages,     \* pages of the pool after its header and slot arrays
    Class,      \* size classes of the requests made by the caller
    Span,       \* Span[c]: pages taken by one block, or by one cut page
    PerPage     \* PerPage[c]: blocks of class c that one such run holds

ASSUME SlabAssumption ==
    /\ NPages \in Nat
    /\ Span \in [Class -> Nat \ {0}]
    /\ PerPage \in [Class -> Nat \ {0}]
    /\ \A c \in Class : Span[c] > 1 => PerPage[c] = 1

\* The blocks of class c: first page, class, chunk number on that page.
BlocksOf(c) ==
    [lo : 0 .. NPages - Span[c], class : {c}, idx : 0 .. PerPage[c] - 1]

Block == UNION {BlocksOf(c) : c \in Class}

Pages(b) == b.lo .. b.lo + Span[b.class] - 1

\* a and b can be allocated at the same time.
Compatible(a, b) ==
    \/ Pages(a) \cap Pages(b) = {}
    \/ a.class = b.class /\ a.lo = b.lo /\ a.idx # b.idx

\* mps_slab_alloc_locked: the blocks a request of class c may be given; it
\* returns NULL exactly when there is none.
Free(used, c) == {b \in BlocksOf(c) : \A u \in used : Compatible(b, u)}

\* mps_slab_free_locked: the pool without the freed blocks.
Release(used, blocks) == used \ blocks
=============================================================================
