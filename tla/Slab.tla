-------------------------------- MODULE Slab --------------------------------
(***************************************************************************)
(* The slab allocator of mps_slab.c: an array of page descriptors that are *)
(* linked into the list of free runs or into the list of a chunk size, and *)
(* the bitmaps of the pages that are cut into chunks.                      *)
(*                                                                         *)
(* A pointer into the array is the number of its page, from 1 to NPages;   *)
(* the heads of the lists, which are descriptors too, have numbers outside *)
(* that range.  The field prev carries the type of the page in its low     *)
(* bits: here it is a record [at, type].  The field slab is a record       *)
(* [tag, n, map] for its three uses: the length of a run, free or          *)
(* allocated; the mark of the pages inside an allocated run; and the chunk *)
(* size with the set of busy chunks, whether that set is kept in slab      *)
(* (EXACT, BIG) or in the first chunks of the page (SMALL).                *)
(*                                                                         *)
(* Both functions run under the mutex of the pool, so each call is a step. *)
(***************************************************************************)
EXTENDS Integers, FiniteSets

CONSTANTS
    NPages,
    PageSize,
    MinSize,        \* pool->min_size, a power of two
    ExactSize,      \* mps_slab_exact_size, the chunk size with one bit per bit
    Request,        \* sizes the callers ask for
    MaxBlocks,      \* bound: blocks that the callers hold at a time
    Strays,         \* callers also free what they have freed before
    None            \* no allocation was refused

Null == 0
Page == 1 .. NPages
FreeHead == NPages + 1
Slot(c) == -c

-----------------------------------------------------------------------------
(* Sizes *)

Pow2[i \in 0 .. PageSize] == IF i = 0 THEN 1 ELSE 2 * Pow2[i - 1]

\* Pages and smallest chunks are powers of two, and a page holds two chunks.
ASSUME SlabSizes ==
    /\ NPages \in Nat \ {0}
    /\ PageSize \in Nat
    /\ \E i, j \in 0 .. PageSize : i < j /\ MinSize = Pow2[i] /\ PageSize = Pow2[j]
    /\ ExactSize \in Nat
    /\ Request \subseteq Nat \ {0}
    /\ MaxBlocks \in Nat /\ Strays \in BOOLEAN

\* The loop "for (s = size - 1; s >>= 1; shift++)" from shift = 1.
Shift[s \in 0 .. PageSize] == IF s \div 2 = 0 THEN 1 ELSE 1 + Shift[s \div 2]

ChunkFor(size) == IF size > MinSize THEN Pow2[Shift[size - 1]] ELSE MinSize

IsLarge(size) == size > PageSize \div 2

PagesFor(size) == size \div PageSize + (IF size % PageSize # 0 THEN 1 ELSE 0)

\* The size a request is rounded up to.
ClassOf(size) == IF IsLarge(size) THEN PagesFor(size) * PageSize ELSE ChunkFor(size)

Class == {ClassOf(size) : size \in Request}
ChunkClass == {c \in Class : ~IsLarge(c)}

Tag(c) == IF c < ExactSize THEN "SMALL" ELSE IF c = ExactSize THEN "EXACT" ELSE "BIG"

Chunks(c) == PageSize \div c

\* The chunks at the start of a SMALL page that hold its bitmap.
Reserved(c) ==
    IF Tag(c) # "SMALL" THEN 0
    ELSE IF Chunks(c) \div (8 * c) = 0 THEN 1 ELSE Chunks(c) \div (8 * c)

\* The page sizes of real machines: a page that is cut for a first chunk has
\* another one, so that it belongs into the list of its size.
ASSUME ChunksLeft == \A c \in ChunkClass : Chunks(c) - Reserved(c) >= 2

-----------------------------------------------------------------------------

VARIABLES
    page,       \* descriptors: pages, the free list's head, the slots' heads
    pfree,      \* number of free pages
    stats,      \* per chunk size, chunks on cut pages and chunks in use
    used,       \* the blocks the callers hold
    refused     \* the class of the last call, if it was an allocation that failed

vars == <<page, pfree, stats, used, refused>>

Node == Page \cup {FreeHead} \cup {Slot(c) : c \in ChunkClass}

Length(n) == [tag |-> "length", n |-> n, map |-> {}]
Start(n) == [tag |-> "start", n |-> n, map |-> {}]
Busy == [tag |-> "busy", n |-> 0, map |-> {}]
Bits(c, m) == [tag |-> "bits", n |-> c, map |-> m]

\* MPS_SLAB_PAGE_FREE; also what ngx_memzero leaves.
PageFree == Length(0)

Untyped(p) == [at |-> p, type |-> "PAGE"]
Typed(p, type) == [at |-> p, type |-> type]

Cleared == [slab |-> PageFree, next |-> Null, prev |-> Untyped(Null)]

\* A block as SlabContract names it: [lo, class, idx].
BlockAt(p, c, i) == [lo |-> p - 1, class |-> c, idx |-> i - Reserved(c)]
PageBlock(p, n) == [lo |-> p - 1, class |-> n * PageSize, idx |-> 0]

\* The address of a block, as a page and an offset in it.
PageOf(b) == b.lo + 1
OffsetOf(b) == IF IsLarge(b.class) THEN 0 ELSE (b.idx + Reserved(b.class)) * b.class

-----------------------------------------------------------------------------
(* Lists and runs of pages *)

Unlink(pg, p) ==
    [pg EXCEPT ![pg[p].prev.at].next = pg[p].next,
               ![pg[p].next].prev = pg[p].prev]

\* Into the list of free runs; pool->free.prev is written too, but not used.
LinkFree(pg, p) ==
    [pg EXCEPT ![p].prev = Untyped(FreeHead),
               ![p].next = pg[FreeHead].next,
               ![pg[FreeHead].next].prev = Untyped(p),
               ![FreeHead].next = p]

\* Mistake: a page that was full stays out of the list of its size.
LinkSlotNever(pg, p, c) == pg

\* Into the list of a chunk size.
LinkSlot(pg, p, c) ==
    [pg EXCEPT ![p].next = pg[Slot(c)].next,
               ![p].prev = Typed(Slot(c), Tag(c)),
               ![pg[Slot(c)].next].prev = Typed(p, Tag(c)),
               ![Slot(c)].next = p]

\* The descriptors that the list of h goes through; it ends at h.
Chain(pg, h) ==
    LET nth[i \in 0 .. NPages] ==
          IF i = 0 THEN pg[h].next
          ELSE IF nth[i - 1] \in Page THEN pg[nth[i - 1]].next ELSE nth[i - 1]
    IN nth

\* The first run in the free list that has n pages, or FreeHead.
FirstFit(pg, n) ==
    LET nth == Chain(pg, FreeHead)
        fits(i) == nth[i] = FreeHead \/ pg[nth[i]].slab.n >= n
    IN nth[CHOOSE i \in 0 .. NPages : fits(i) /\ \A j \in 0 .. i - 1 : ~fits(j)]

\* Mistake: the last page of the rest still points to the old head.
SplitRunKeepsTail(pg, p, n) ==
    [pg EXCEPT ![p + n].slab = Length(pg[p].slab.n - n),
               ![p + n].next = pg[p].next,
               ![p + n].prev = pg[p].prev,
               ![pg[p].prev.at].next = p + n,
               ![pg[p].next].prev = Untyped(p + n)]

\* The rest of a run takes its place in the list.
SplitRun(pg, p, n) ==
    [pg EXCEPT ![p + pg[p].slab.n - 1].prev = Untyped(p + n),
               ![p + n].slab = Length(pg[p].slab.n - n),
               ![p + n].next = pg[p].next,
               ![p + n].prev = pg[p].prev,
               ![pg[p].prev.at].next = p + n,
               ![pg[p].next].prev = Untyped(p + n)]

\* mps_slab_alloc_pages, once it has found the run p.
TakePages(pg, p, n) ==
    LET rest == IF pg[p].slab.n > n THEN SplitRun(pg, p, n) ELSE Unlink(pg, p)
    IN [q \in Node |->
          IF q = p THEN [Cleared EXCEPT !.slab = Start(n)]
          ELSE IF q \in p + 1 .. p + n - 1 THEN [Cleared EXCEPT !.slab = Busy]
          ELSE rest[q]]

\* The free runs a and b become one; y, the one of them in the list, leaves it.
Absorb(pg, y, a, b) ==
    [Unlink(pg, y) EXCEPT ![a].slab = Length(pg[a].slab.n + pg[b].slab.n), ![b] = Cleared]

\* The free run that starts after the run p becomes part of it.
JoinNext(pg, p) ==
    LET join == p + pg[p].slab.n
    IN IF join \in Page /\ pg[join].prev.type = "PAGE" /\ pg[join].next # Null
       THEN Absorb(pg, join, p, join) ELSE pg

\* Mistake: only the page before is looked at, not the head of its run.
RunBeforeOnePage(pg, p) ==
    LET last == p - 1
    IN IF p > 1 /\ pg[last].prev.type = "PAGE" /\ pg[last].next # Null
       THEN last ELSE Null

\* The head of the free run that ends before the page p, or Null.
RunBefore(pg, p) ==
    LET last == p - 1
        head == IF pg[last].slab = PageFree THEN pg[last].prev.at ELSE last
    IN IF p > 1 /\ pg[last].prev.type = "PAGE" /\ pg[head].next # Null
       THEN head ELSE Null

\* The pages of a block become a run, which is in no list.
Blank(pg, p, n) ==
    LET blank == [q \in Node |->
                    IF q = p THEN [pg[p] EXCEPT !.slab = Length(n)]
                    ELSE IF q \in p + 1 .. p + n - 1 THEN Cleared ELSE pg[q]]
    IN IF pg[p].next # Null THEN Unlink(blank, p) ELSE blank

\* A run enters the list; its last page comes to point to its first.
LinkRun(pg, p) ==
    LET last == p + pg[p].slab.n - 1
    IN LinkFree(IF last = p THEN pg ELSE [pg EXCEPT ![last].prev = Untyped(p)], p)

\* mps_slab_free_pages
FreePages(pg, p, n) ==
    LET joined == JoinNext(Blank(pg, p, n), p)
        before == RunBefore(joined, p)
    IN IF before = Null THEN LinkRun(joined, p)
       ELSE LinkRun(Absorb(joined, before, before, p), before)

-----------------------------------------------------------------------------
(* The operations *)

Fail(c) ==
    /\ refused' = c
    /\ UNCHANGED <<page, pfree, stats, used>>

\* mps_shdict_free_space
FreeSpace == pfree * PageSize

Give(b) == used' = used \cup {b} /\ refused' = None

\* mps_slab_alloc_locked of more than half a page.
AllocLarge(size) ==
    LET n == PagesFor(size)
        p == FirstFit(page, n)
    IN /\ IsLarge(size)
       /\ \/ p = FreeHead /\ Fail(ClassOf(size))
          \/ /\ p # FreeHead
             /\ page' = TakePages(page, p, n)
             /\ pfree' = pfree - n
             /\ Give(PageBlock(p, n))
             /\ UNCHANGED stats

\* Mistake: a page whose last chunk was given stays in the list of its size.
MarkBusyStays(pg, p, c, m) == [pg EXCEPT ![p].slab = Bits(c, m)]

\* A page without a free chunk leaves the list of its size.
MarkBusy(pg, p, c, m) ==
    LET set == [pg EXCEPT ![p].slab = Bits(c, m)]
    IN IF m # 0 .. Chunks(c) - 1 THEN set
       ELSE [Unlink(set, p) EXCEPT ![p].next = Null, ![p].prev = Typed(Null, Tag(c))]

\* A page is cut into chunks of c, of which the first is given; it becomes the
\* only page in the list of their size.
CutPage(pg, p, c) ==
    [pg EXCEPT ![p] = [slab |-> Bits(c, 0 .. Reserved(c)), next |-> Slot(c),
                       prev |-> Typed(Slot(c), Tag(c))],
               ![Slot(c)].next = p]

\* mps_slab_alloc_locked of less: the lowest chunk of the first page in the
\* list of the chunk size, or of a page that is cut for it.  The list holds no
\* page without a chunk left (SlotListsExact), so "page is busy" is not logged.
AllocChunk(size) ==
    LET c == ChunkFor(size)
        s == page[Slot(c)].next
        p == FirstFit(page, 1)
    IN /\ ~IsLarge(size)
       /\ \/ /\ page[s].next # s
             /\ \E i \in 0 .. Chunks(c) - 1 \ page[s].slab.map :
                   /\ 0 .. i - 1 \subseteq page[s].slab.map
                   /\ page' = MarkBusy(page, s, c, page[s].slab.map \cup {i})
                   /\ Give(BlockAt(s, c, i))
             /\ stats' = [stats EXCEPT ![c].used = @ + 1]
             /\ UNCHANGED pfree
          \/ page[s].next = s /\ p = FreeHead /\ Fail(c)
          \/ /\ page[s].next = s /\ p # FreeHead
             /\ page' = CutPage(TakePages(page, p, 1), p, c)
             /\ pfree' = pfree - 1
             /\ stats' = [stats EXCEPT ![c].total = @ + Chunks(c) - Reserved(c),
                                       ![c].used = @ + 1]
             /\ Give(BlockAt(p, c, Reserved(c)))

\* The pointer p + off is one to a chunk that is in use, or to allocated pages.
IsChunk(p, off) ==
    /\ page[p].prev.type # "PAGE"
    /\ off % page[p].slab.n = 0
    /\ off \div page[p].slab.n \in page[p].slab.map

\* Mistake: MPS_SLAB_PAGE_START is not tested.
IsRunAny(p, off) ==
    /\ page[p].prev.type = "PAGE" /\ off = 0
    /\ page[p].slab.tag # "busy" /\ page[p].slab.n > 0

IsRun(p, off) ==
    /\ page[p].prev.type = "PAGE" /\ off = 0
    /\ page[p].slab.tag = "start"

\* Mistake: the chunks of the bitmap are taken for chunks in use.
NoneInUseNotReserved(c, m) == m = {}

NoneInUse(c, m) == m \subseteq 0 .. Reserved(c) - 1

\* A page that had no free chunk enters the list of its size again.
MarkFree(pg, p, c, m) ==
    LET listed == IF pg[p].next = Null THEN LinkSlot(pg, p, c) ELSE pg
    IN [listed EXCEPT ![p].slab = Bits(c, m)]

\* mps_slab_free_locked of a chunk; a page with no other in use is freed.
FreeChunk(p, off) ==
    LET c == page[p].slab.n
        i == off \div c
        m == page[p].slab.map \ {i}
        marked == MarkFree(page, p, c, m)
    IN /\ IsChunk(p, off)
       /\ IF NoneInUse(c, m)
          THEN /\ page' = FreePages(marked, p, 1)
               /\ pfree' = pfree + 1
               /\ stats' = [stats EXCEPT ![c].total = @ - (Chunks(c) - Reserved(c)),
                                         ![c].used = @ - 1]
          ELSE /\ page' = marked
               /\ stats' = [stats EXCEPT ![c].used = @ - 1]
               /\ UNCHANGED pfree
       /\ used' = used \ {BlockAt(p, c, i)}
       /\ refused' = None

\* mps_slab_free_locked of pages.
FreeRun(p, off) ==
    /\ IsRun(p, off)
    /\ page' = FreePages(page, p, page[p].slab.n)
    /\ pfree' = pfree + page[p].slab.n
    /\ used' = used \ {PageBlock(p, page[p].slab.n)}
    /\ refused' = None
    /\ UNCHANGED stats

\* "wrong chunk", "chunk is already free", "page is already free", "wrong page"
Refuse(p, off) ==
    /\ ~IsChunk(p, off) /\ ~IsRun(p, off)
    /\ refused' = None
    /\ UNCHANGED <<page, pfree, stats, used>>

FreeLocked(p, off) == FreeChunk(p, off) \/ FreeRun(p, off) \/ Refuse(p, off)

\* No block that is in use begins here, nor do the chunks of a bitmap: these
\* are marked busy like any other, and mps_slab_free_locked would free them.
Stray(p, off) ==
    /\ \A b \in used : ~(PageOf(b) = p /\ OffsetOf(b) = off)
    /\ page[p].prev.type = "SMALL" =>
         off \div page[p].slab.n >= Reserved(page[p].slab.n)

Init ==
    /\ page = [q \in Node |->
                 IF q = 1 THEN [slab |-> Length(NPages), next |-> FreeHead,
                                prev |-> Untyped(FreeHead)]
                 ELSE IF q \in Page THEN Cleared
                 ELSE [slab |-> PageFree, next |-> IF q = FreeHead THEN 1 ELSE q,
                       prev |-> Untyped(Null)]]
    /\ pfree = NPages
    /\ stats = [c \in ChunkClass |-> [total |-> 0, used |-> 0]]
    /\ used = {}
    /\ refused = None

Next ==
    \/ \E size \in Request :
          Cardinality(used) < MaxBlocks /\ (AllocLarge(size) \/ AllocChunk(size))
    \/ \E b \in used : FreeLocked(PageOf(b), OffsetOf(b))
    \/ \E p \in Page, off \in 0 .. PageSize - 1 :
          Strays /\ Stray(p, off) /\ FreeLocked(p, off)

Spec == Init /\ [][Next]_vars

-----------------------------------------------------------------------------
(* Invariants *)

\* The descriptors on the list of a head, followed through next.
Listed(h) == LET nth == Chain(page, h) IN {nth[i] : i \in 0 .. NPages} \ {h}

\* The list of h is a circle through prev as well.
LinkedBothWays(h) ==
    \A p \in Listed(h) :
        page[page[p].prev.at].next = p /\ (page[p].next # h => page[page[p].next].prev.at = p)

FreeRuns == {p \in Page : page[p].prev.type = "PAGE" /\ page[p].slab.tag = "length"
                            /\ page[p].slab.n > 0}
PagesOf(p) == p .. p + page[p].slab.n - 1

CutPages(c) == {p \in Page : page[p].slab.tag = "bits" /\ page[p].slab.n = c}

\* The list of free runs holds each of them once, linked both ways, with the
\* last page of each pointing to its first: mps_slab_free_pages follows it when
\* the page behind is freed, so the last page of the pool needs none.
FreeListExact ==
    /\ Listed(FreeHead) = FreeRuns /\ LinkedBothWays(FreeHead)
    /\ \A p \in FreeRuns :
         /\ PagesOf(p) \subseteq Page
         /\ \A q \in PagesOf(p) \ {p} : page[q].slab = PageFree
         /\ (page[p].slab.n > 1 /\ p + page[p].slab.n - 1 < NPages)
              => page[p + page[p].slab.n - 1].prev = Untyped(p)

\* No two free runs touch: every free joins its neighbours.
RunsMaximal == \A p \in FreeRuns : p + page[p].slab.n \notin FreeRuns

\* The list of a chunk size holds exactly the pages cut for it that have a
\* chunk left; a page without one is in no list.
SlotListsExact ==
    \A c \in ChunkClass :
        /\ LinkedBothWays(Slot(c))
        /\ Listed(Slot(c)) =
             {p \in CutPages(c) : page[p].slab.map # 0 .. Chunks(c) - 1}
        /\ \A p \in CutPages(c) \ Listed(Slot(c)) : page[p].next = Null

\* Every page is free, inside one block, or cut; the bitmaps agree with the
\* blocks in use, no cut page is without one, and so do the counters.
PagesAccounted ==
    LET large == {b \in used : IsLarge(b.class)}
        free == UNION {PagesOf(p) : p \in FreeRuns}
        taken == UNION {PageOf(b) .. PageOf(b) + b.class \div PageSize - 1 : b \in large}
        cut == UNION {CutPages(c) : c \in ChunkClass}
    IN /\ free \cap taken = {} /\ free \cap cut = {} /\ taken \cap cut = {}
       /\ free \cup taken \cup cut = Page
       /\ FreeSpace = Cardinality(free) * PageSize
       /\ \A c \in ChunkClass :
            LET inUse == {b \in used : b.class = c}
            IN /\ stats[c].used = Cardinality(inUse)
               /\ stats[c].total = Cardinality(CutPages(c)) * (Chunks(c) - Reserved(c))
               /\ \A p \in CutPages(c) :
                    /\ page[p].slab.map = 0 .. Reserved(c) - 1
                         \cup {b.idx + Reserved(c) : b \in {x \in inUse : PageOf(x) = p}}
                    /\ \E b \in inUse : PageOf(b) = p

\* A free of what is not in use changes nothing.
StrayFreeIgnored == [][used' = used => UNCHANGED <<page, pfree, stats>>]_vars

\* mps_slab.c keeps the promise of SlabContract that Shdict is built on: blocks
\* never overlap, and a request is refused only if no block is left for it.
Span == [c \in Class |-> IF IsLarge(c) THEN c \div PageSize ELSE 1]
PerPage == [c \in Class |-> IF IsLarge(c) THEN 1 ELSE Chunks(c) - Reserved(c)]

Pool == INSTANCE SlabPool

KeepsContract == Pool!Spec
=============================================================================
