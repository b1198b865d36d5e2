# A verification of ats-ngx-lua-shdict

The repository is a port of the `lua_shared_dict` of OpenResty to a library
that several processes (nginx, Apache Traffic Server, a plain LuaJIT program)
load to share one dictionary in a shared memory file. This directory holds TLA+
modules of it, TLC configurations that check them on small instances, and
theorems that TLAPS proves for every instance. Paths below are relative to the
root of the repository; `src/...` in `PROJECT.json` adds one `src/` in front.

## 1. Inventory

| Component | Source | State it keeps | Operations |
|---|---|---|---|
| Dictionary | `src/mps_shdict.c`, `.h` | red-black tree of entries, LRU queue through the entries, each with value, type, `expires`, and for a list a queue of nodes | `set add replace delete safe_set safe_add get incr flush_all get_ttl set_expire lpush rpush lpop rpop llen capacity free_space`; internally `lookup`, `peek`, `expire(n)` |
| Registry of dictionaries | `src/mps_shdict.c` 36-108, 210-315 | per process: array of open dictionaries with name, pool and size, a process-local mutex | `open_or_create`, `close`, find by path, index of |
| Slab allocator | `src/mps_slab.c` 91-104, 146-224, 401-1049 | page array with types and links, slot lists per size class, chunk bitmaps, list of free page runs | `alloc_locked`, `calloc_locked`, `free_locked`, page alloc and free with coalescing |
| Pool creation | `src/mps_slab.c` 113-144, 229-399 | the file, its size, the initialised header | `create`, `open` (waits for the creator), `open_or_create`, `close` |
| Pool mutex | `src/mps_slab.c` 113-144, 401-409 | robust, process-shared pthread mutex | `lock`, `unlock` |
| Red-black tree | `src/mps_rbtree.c`, `.h` | nodes with colour and offset links | `insert`, `delete`, `next`, rotations |
| Queue | `src/mps_queue.h` | circular list with offset links | `init`, `insert_head`, `insert_tail`, `remove`, `last`, ... |
| Lua bindings | `mps_shdict_setup.lua` and its loaders | metatable of a handle, reused buffers | argument checks, seconds to milliseconds, one FFI call per method |
| Hashing, strings | `src/ngx_murmurhash.c`, `src/ngx_string.c` | none | pure functions |
| Logging | `src/mps_log_*.c` | none | output |

How they interact. A Lua method calls one function of the dictionary. That
function takes the pool mutex, works on tree, queue and allocator (all in the
shared mapping, linked by offsets because each process maps it elsewhere), and
unlocks. There are no messages and no callbacks but the tree's insertion
function. The only things processes share are the mapping and the file that
backs it; the only thing threads share besides is the registry.

What is hard.

* Memory runs out in the middle of calls: a store has already removed the old
  entry, a push has already created the list. `store` and `incr` then evict in a
  loop of at most 30 rounds; `safe_*` and `push` must not.
* Every function that removes an entry repeats, by hand, "unlink from the queue,
  unlink from the tree, free the list nodes, free the node"; there are nine such
  places, and they differ in what they keep.
* Entries are overwritten in place when the length agrees, across types.
* Expiry is lazy. An expired entry stays until something meets it, `lookup` and
  `expire` disagree by one millisecond on when it is expired, `set_expire` and
  `get_ttl` do not look at all, and `flush_all` only marks.
* The wall clock is used. It can be set back; two functions read it before they
  wait for the mutex; two read a field after they released it.
* Processes race to create the pool, and may die while they hold the mutex.
* The registry moves its elements when one is closed.

What makes each component correct. *Dictionary*: tree and queue hold the same
entries; every block has one owner; a value fits its block; nothing unexpired
is lost but by an announced eviction, oldest first; a call that fails spoils
nothing; the eviction loop ends. *Registry*: a handle names the dictionary it
was opened for until it is closed. *Slab allocator*: live blocks are disjoint;
a request is refused only if no block of the class is left; free runs are
maximal. *Pool creation*: no opener uses an uninitialised pool, everyone who
waits gets an answer. *Mutex*: exclusion, and a dead holder does not block the
others for ever. *Tree, queue*: they are an ordered map and a sequence.

`PROJECT.json` lists under `hazards` each of these at its line.

## 2. Modules

| Module | Models |
|---|---|
| `SlabContract` | what the allocator promises the dictionary |
| `Shdict` | the dictionary: every call that reads or changes an entry, its eviction loop and the clock |
| `ExpiringMap` | what the dictionary promises its callers; `Shdict` implements it |
| `MCShdict` | small instances of `Shdict` for TLC |
| `ShdictProofs`, `ShdictCallProofs` | theorems about `Shdict` |
| `Slab`, `SlabProofs` | the allocator: page descriptors, free runs, slot lists, bitmaps; theorems about it |
| `SlabPool` | `SlabContract` as a state machine; `Slab` implements it |
| `SlabOpen`, `SlabOpenProofs` | processes that create and open the pool, fail and die between any two system calls |
| `ShmLock` | the robust mutex, and what ignoring `EOWNERDEAD` means |
| `MpsRbtree`, `RbtreeUse` | the red-black tree, link by link; those that link and unlink nodes |
| `MCRbtree`, `RbtreeProofs` | small instances of `RbtreeUse` for TLC; theorems about it |
| `RbtreeLemmas` | what each operation of `MpsRbtree` does to a red-black search tree of any size |
| `MpsQueue` | the queue, link by link |
| `SharedIndex`, `MCSharedIndex` | tree and queue of a dictionary under `ShmLock`, with processes that die between two changes of the links |
| `SharedIndexProofs` | theorems about `ShmLock`, `MpsQueue` and `SharedIndex` |
| `LruIndex` | what the dictionary needs of tree and queue; `SharedIndex` implements it |
| `DictRegistry`, `MCDictRegistry`, `DictRegistryProofs` | `open_or_create` and `close` with the array that moves |

How they fit together, from the top:

```
DictRegistry      each element of its array is a mapping that
  SlabOpen        has made, initialised and opened; in it lives
  Shdict          a dictionary, which implements ExpiringMap, allocates by
    SlabContract  the operators of which SlabPool is a state machine, which
      Slab        implements; and keeps its entries in the set in LRU order
    LruIndex      that
      SharedIndex implements with MpsRbtree and MpsQueue, under
        ShmLock   which serialises the calls.
```

`Shdict` uses the first two of these interfaces as data (`SlabContract` by its
operators, `LruIndex` by doing to `tree` and `lru` in `Insert`, `Touch` and `DropNode`
what `LruIndex` does to its `lru`), so that a call stays one step. That a call may be one
step is what `ShmLock` and `SharedIndex` are about.

### 2.1 `SlabContract`

A block is `[lo, class, idx]`: its first page, the size class of the request,
and the chunk number on that page. `Free(used, c)` are the blocks a request of
class `c` may get, `Release` gives blocks back. A page that was cut for one class
serves no other until all its chunks are free; two chunks of one page differ in
`idx`. `Span` and `PerPage` describe a class, so that "smaller than a page", "one
page" and "several pages" are all instances. The module does not say which block
comes next, and it says that a request fails only if no block is free: that the
page list coalesces well enough for this is what `Slab` shows.

### 2.2 `Shdict`

State. `dict.tree` is the red-black tree as a function from key to entry (the
nodes are found by hash and compared by key, so the key identifies the node);
`dict.lru` is the queue, head first; `dict.used` are the allocated blocks. An
entry has the fields of `mps_shdict_node_t` (`type`, `len` for `value_len`, `data`,
`expires`), the `block` it lies in and, for a list, `items`, the queue of
`mps_shdict_list_node_t` embedded in it. `now` is the clock, `ret` what the last
call returned, `call` a store or incr that is inside its eviction loop.

Steps. A call holds the pool mutex from its first access to its last, so it is
one action: `Store` (the six flavours and delete), `Get`, `Incr`, `FlushAll`,
`SetExpire`, `GetTtl`, `Push`, `Pop`, `Llen`. Each starts, as the code does, with
`ExpireTwo` where the code calls `mps_shdict_expire(tree, 1)` and with `Lookup`,
which moves the entry to the head of the queue even if it has expired. The
eviction loop is not one action: it reads the clock in every round, so each round
is an `Evict` step, with time passing in between, and no other call runs
meanwhile because `Begin` requires `call = None`.

Clock. Inside a call the code reads the clock up to two times; the first
reading is `now`, the second is some `t` at most `MaxElapse` later. `incr` and
`set_expire` read it before the lock; that reading `t0` comes from `Before`, which
also holds later values when the clock may be set back (`SteadyClock = FALSE`).
What `push` and `llen` read from the entry after unlocking is the value they left
there or any element of `Late`.

What the result `ret` keeps: the code (`rc`), the value stored or returned, one
number (length, ttl, staleness flag), and `forcible`.

Left out of the module: `user_flags` and `err` strings, `capacity` (a constant of the
pool) and `free_space` (which is `FreeSpace` of `Slab`), key bytes and hashes (see
`SharedIndex`), the buffers that `get` and `pop` copy into except whether they had room.

`ExpiringMap` is what is left of this for a caller who sees neither memory nor LRU order:
a map from keys to values or lists with an expiry each, that may forget an entry once its
time has come, and forgets others only in `flush_all` or by a call that makes room. The
refinement mapping keeps of an entry its type, length, data and time, of a list the
values of its nodes in order, and of a call in its loop everything but the number of
its rounds. The visible clock is that of `Shdict`. What the map leaves to choice is
whether memory is there, whether a buffer has room, and which of the entries that are
due are gone already.

### 2.3 `Slab` and `SlabPool`

`page` are the descriptors `mps_slab_page_t`, those of the pages, that of
`pool->free` and those of the slots, with `slab`, `next` and `prev`. The type in the
low bits of `prev` is a field of its own. The word `slab` is a record for its three
uses: length of a run, mark of a page inside an allocated run, chunk size with the
set of busy chunks; the bitmap of a SMALL page, which the code keeps in the first
chunks, is that set as well. `pfree` and `stats` are the counters of free pages
and of chunks. `used` is what the callers hold, `refused` the class that the last
call did not get.

`AllocLarge` and `AllocChunk` are the two branches of `mps_slab_alloc_locked`, with
`TakePages` for `mps_slab_alloc_pages`. `FreeLocked` takes a page and an offset, as
the code computes them from the pointer, and is `FreeChunk`, `FreeRun` or `Refuse`
(the messages "wrong chunk", "chunk is already free", "page is already free",
"wrong page"); `FreePages` joins a run with its neighbours as
`mps_slab_free_pages` does. A `Stray` call frees what is not in use; excluded is the
address of a SMALL page's own bitmap, whose bits are set like those of any chunk:
the code would free it, and no caller was ever given it.

Left out: the counters of requests and failures, `log_nomem`, and the wrappers
`mps_slab_alloc`, `calloc` and `free`, which lock around the same functions and which only
tests call. `FreeSpace` is `mps_shdict_free_space`: whole free pages.

`SlabPool` says what a caller may rely on: a request gets a block that overlaps no
other or is refused because none is free. `Slab` implements it (`KeepsContract`)
with the same `used` and `refused`; a block names its page, its class and its
chunk, counted after those of the bitmap.

### 2.4 `SlabOpen`

`path` is the file the pathname names, `file` how far each file is made and whether
others may open it for writing, `pc` the next system call of each process, `uses` the
file it works on. The actions are the system calls of `mps_slab_open_or_create` in
order: `Open`, `Create` (`O_CREAT` and `O_EXCL`, mode `S_IRUSR`), `Truncate`, `Mmap`,
`SlabInit`, `OnInit`, `Fchmod`, `CloseFd` for the creator; `Sleep` and `Reopen` for the
one that found the file. Each may fail, and a process may die before each. `Unlink`
is someone who removes the file. A `Privileged` process is one whose `open` does not
heed the mode of the file (root, `CAP_DAC_OVERRIDE`).

The mode of the file is what makes openers wait: until `fchmod` they get `EACCES`.
Left out: the mapping of a creator whose initialisation fails stays (the code goes
to `close:` without `munmap`), as does the descriptor of an opener whose `mmap` fails;
the size each process maps, which the callers must agree on.

### 2.5 `ShmLock`

`state`, `owner` and `pc` are the mutex and where each process is; `harmed` remembers
that one died between lock and unlock. `Lock` goes on with every result of
`pthread_mutex_lock`, as `mps_slab_lock` does, and `Unlock` makes a mutex that came
from a dead owner unusable, because nothing calls `pthread_mutex_consistent`.
The mutex itself is external: `Lock`, `Unlock` and `Die` follow POSIX for a robust one.

### 2.6 `DictRegistry`

`dicts` is the array, `base` its address, `mapped` the mappings of the process, and
`handle` what each caller holds: an address and an index, with the name it was got
for. `Open` is `mps_shdict_open_or_create`: found, opened, not opened, or failed after
the pool was mapped. `Close` is `mps_shdict_close`, by a caller that may have closed
before: the last element fills the gap, and `realloc` may move the array. Both hold
`dicts_lock`, so each is a step.

### 2.7 `MpsRbtree` and `MpsQueue`

A tree is a record with one function of the node per field of the C structures, and each
operation a function from trees to trees. The mirror images that the code spells out
(`left_rotate` and `right_rotate`, the two halves of both fixups) are one operator of the
side. A loop is as many rounds as the tree has nodes (`Loop`), a round being the body of the loop
if its condition holds and nothing otherwise; that the condition is false by then is proved (section 4). What the code does not write keeps its value: the
parent that a delete leaves in the sentinel and in a node that becomes the root, the
fields of a sentinel. A node that is not allocated has no fields at all, so a
computation that reads one stops TLC. The three `insert_value` functions differ
in `Before` only; `mps_shdict_rbtree_insert_value` is the third. `RbtreeUse` is any sequence of
insertions (`Link`) and removals (`Unlink`); its callers must keep timers less than half the
range of keys apart (`Near`), as the comment on the timers asks.

`MpsQueue` has two functions for the links of all heads and nodes, because the queues of
the lists lie in the same pool as the LRU queue. `Represents(q, h, s)` says that the ring
through the head `h` is the sequence `s`, in both directions.

### 2.8 `SharedIndex` and `LruIndex`

`tree` and `queue` are the links of one dictionary, with the key as the address of its
node. Between `Lock` and `Unlock` of `ShmLock` a process does any sequence of `Find`
(`mps_shdict_lookup`), `Peek`, `PeekAll` (the loop of `flush_all`), `Insert` and `Drop`,
which are what the calls of `mps_shdict.c` consist of. `Find`, `Insert` and `Drop` change
links in two operations; `half` is what a process has still to do, and it may die before it
does it. The tree is searched as the code searches it: by hash, then by name with
`ngx_memn2cmp`, against the name an entry has after its length was cut to `key_len`; the search and
the walk are loops as in `MpsRbtree`.
The binding's `validate_key` is the guard `Accepted`. The hash itself is a constant:
any function of the name, so that names may collide.

`LruIndex` is a sequence of keys with searches that move what they find to the head.
A `Find` or `Insert` happens in it at its first half, when the second is certain unless
the process dies; hence the mapping puts an entry that is still to be threaded first.

Not modelled: a death in the middle of one operation on tree or queue, and what the next
owner of the mutex does with links that a death has torn (`Ready`): it goes on, and may
follow the stale links of the entry that is in one structure only.

## 3. Runs

`store`, `lists`, `counters`, `safe_set`, `flush` and `ttl` are instances of `MCShdict`.

| Run | Question | Instance |
|---|---|---|
| `store` | Do the stores and `flush_all` keep tree, queue and pool in step, and lose nothing silently or out of order? | 3 keys, strings of two lengths, ttl 0 or 1, clock 2..4, 2 pages |
| `lists` | Do lists keep their nodes and lengths when keys change type, expire or find no memory, and do values come out in order? | 2 keys, numbers and long strings, ttl 1, clock 2..4, 3 pages of which the root has one |
| `counters` | Do `incr`, `get` and `set_expire` stand clock readings from before the lock and a clock set back, and does a call end that no eviction can help? | booleans, long strings, counts up to 3, clock not steady, 2 pages of which a long string needs both, lengths misread after the unlock |
| `slab` | Do lists, bitmaps and counters agree with the blocks in use, and is no request refused that could be served? | 4 pages, sizes for a SMALL and an EXACT page and for runs of two and three pages, at most 5 blocks at a time, everything freed twice |
| `rbtree` | Is the tree a balanced search tree after any inserts and deletes, and does the walk meet every node once? | from empty, 7 nodes with equal keys, 5 timers around the largest key, 5 names that share hashes; any deletes from trees of 9 and 10 nodes |
| `shared` | Are tree and queue a set in LRU order while processes take turns, how far apart can a death leave them, and how long does the mutex exclude? | 2 processes, 4 names: two of one hash, one a prefix of the other, one of another hash, one too long |
| `registry` | Is the registry right, and when does a handle go bad? | 3 names, 2 callers, 4 addresses, failures |
| `slab_open` | Does everyone who gets a pool get a whole one, and does every call return? | 3 processes, one privileged, 2 files, failures and deaths |
| `safe_set` | Comment of `safe_set`: "never overrides an unexpired value" | **violated** |
| `flush` | Test of `flush_all`: "Delete all keys" | **violated** |
| `ttl` | Binding of `get_ttl`: `NGX_DECLINED` means not found | **violated** |
| `close_twice` | Test of `close`: "It is OK to close twice" | **violated** |

The properties, by name:

* `LruMatchesTree`, `MemoryExact`, `BlocksFit`, `ListsExact`: consistency of the data
  structure between any two steps, the eviction rounds included.
* `EvictingKeyAbsent`: while a store evicts, its own key is absent, so the
  insertion makes no duplicate (the tree would accept one).
* `AckedWriteStored`: what was reported stored is there, at the head of the queue.
* `NoSilentLoss`: an unexpired entry of another key disappears only in `flush_all`
  or in a call that reports `forcible`; never in a `safe_*`, a list call or `get`.
* `OldestLeaveFirst`: but for the key of the call, what is lost is lost from the tail, and the
  rest keeps its order.
* `FailureKeepsValues`: a call that fails leaves the unexpired values as they were;
  a *store* that fails for lack of memory is excluded, see `safe_set`.
* `EvictionEnds`: a call that evicts gets its memory or gives up.
* `ImplementsExpiringMap`: `Shdict` implements `ExpiringMap`, in three instances that
  together have every operation (and see section 4).
* `FreeListExact`, `RunsMaximal`, `SlotListsExact`, `PagesAccounted`: the structures of
  the allocator against the blocks in use. The last page of a free run points to the
  first; the last page of the pool is exempt, `mps_slab_init` does not set its pointer
  and nothing reads it. `StrayFreeIgnored`: freeing what is not in use changes
  nothing. `KeepsContract`: `Slab` implements `SlabPool`.
* `RegistryExact`: no name is registered twice, and each with a pool that is mapped.
  `LeaksReported`: only an `open_or_create` that returns `NULL` leaves a mapping that
  nothing refers to. `HandleLostOnlyByMove`: someone else's handle goes bad only when
  the array moves or something is closed.
* `ReadyIsWhole`, `MadeOnce`, `HalfMadeStaysShut`: see the theorems in section 4.
  `EveryCallReturns`: also one that waits for a creator that never finishes.
* `OneInside`, `OneInsideWhileUsable`: exclusion. `SomeoneGetsIn`: a death does not
  lock the others out.
* `SearchTree`, `Balanced`: the links are a tree of exactly the linked nodes, in order, with
  the red-black rules. `NextEnumerates`: `mps_rbtree_next` meets every node once and ends.
  `EqualsStayInOrder`: nothing moves past another node, and a new node comes after its equals.
* `ImplementsLruIndex`: until a process dies inside, `SharedIndex` implements `LruIndex`.
  `TornByOneEntry`: at any moment the two structures differ by one entry at most, which is in
  the tree only. That it is never in the queue only is owed to the order of the two changes
  in every insertion and removal; the mutant that swaps them breaks it.

Bounds, and why they are enough. Two pages hold three small entries besides the
root, or one small and one large: every store of a fourth entry, or of a large
one next to a small one, evicts, and a large one after two small ones evicts
twice. `MaxEvict` is 2 (30 in the code), so that a run meets the end of the loop by
success, by an empty queue and by exhaustion. An entry
with a ttl of 1 is live, exactly at its time (where `lookup` and `expire` differ) or beyond it. The
clock of `store` reads 2 and 3: the first two cases, and `flush_all`, which dates every entry back
to time 1, gives the third. The clocks of `lists` and `counters` read 2 and 4: live, or beyond;
`flush` has 2..4, and `ttl` needs more (2..8) for a difference of 5. `MaxElapse` is one step of the
clock in `ttl`, `lists` and `counters`, so that an entry may expire between two readings in one
call; in `counters` that is also how far the readings before the lock go back. In `store` and
`flush` it is 0: the clock moves between the calls and between the rounds of an eviction.
`lists` has two keys with a list each, or a list and a scalar, and four small blocks or two big
ones besides the root, so that memory runs out at the list, at its first node, and at a later one.
`MaxNumber` only stops the counting. Keys are symmetric where no liveness is
checked. A failing `clock_gettime`, for which the code returns 0, is not enumerated.

The largest instance of `rbtree` grows to seven nodes from empty, in all orders; the trees of
nine (the one of `src/test/main.c`) and ten nodes are deep enough for both loops to climb twice and
for a delete to meet every case of the fixup, on both sides, and shrink in all
orders. `HalfRange` 8 instead of 2^63 puts the wrap-around of the timers among five nodes.
In `shared`, `LenRange` 4 instead of 2^16 makes a name of four bytes the first that is too long.
Two processes are enough for a death and a takeover, and the entry a third would find torn
is the one the second finds.

Four pages let a run of three be freed and split again with a page in use behind it,
the one case in which the pointer of its last page matters; a page of size 8 with
chunks of 2 is SMALL with three chunks left beside its bitmap, one of 4 is EXACT with
two. With five blocks a page of each kind can be full while another is in use.
Three names let the registry move an element while a third stays; four addresses
leave one for a mapping that leaks. `ShrinkFails` is `FALSE`: should a `realloc` to
a smaller size fail, `close` returns with the array as long as before and its last
element in it twice, and `RegistryExact` does not hold; C libraries do not fail there.
Two files let one be removed while a creator is at work on it; of two unprivileged
processes one creates while the other opens, and the privileged one gets in between.

Fairness. In `Shdict` only `EvictStep` is fair, weakly: a process inside its loop holds the
mutex, waits for nothing, and goes on as long as it is scheduled. Nothing is
assumed about callers. `SlabOpen` is fair to each process inside the function: its
calls return, `nanosleep` after 10 ms. In `SharedIndex` a free mutex is given to one of those
that wait, which need not be the same one in the end: that a particular caller gets
in is not claimed, nor that one inside ever leaves.

What the violations show.

* `safe_set`: when the key has an unexpired value of another length, the code frees
  it before it asks for memory; if the request is refused the call returns
  "no memory" and the old value is gone.
* `flush`: `flush_all` marks all entries but removes at most three; `set_expire` on
  one of the others brings the old value back.
* `ttl`: the time left of an expired entry is negative; five milliseconds after its
  expiry it equals the code for "not found".

* `close_twice`: a handle is known by its address alone. Once another element has
  moved there, or a new dictionary was put there, the second close unmaps that one.

Observations that no run states. Of `safe_add`, `src/mps_shdict.h` says that it
"does not override an expired value"; the branch for an expired entry does not look
at the flag for "safe", so it does. A privileged process may get a pool that is not
initialised yet. After a process has died inside, the next one works on what it left,
and after that one's unlock the mutex excludes nobody any more. Two callers that open
the same name share a handle that the first close takes away from both. A value larger than the pool can ever hold
makes a plain `set` evict up to 30 rounds of unexpired entries before it reports
"no memory" (with `forcible` set). `counters` goes through these states.

## 4. Proofs

`ShdictProofs` proves, for every set of keys and values, every pool and every
bound that satisfies `SlabAssumption`, `ShdictAssumption` and `NoneAssumption`:

| Theorem | Statement |
|---|---|
| `Invariance` | `Spec => []IInv` |
| `TypeCorrect`, `LruMatches`, `NoLeak`, `NoOverrun`, `ListsCorrect`, `NoDuplicate` | `Spec => []P` for `TypeOK`, `LruMatchesTree`, `MemoryExact`, `BlocksFit`, `ListsExact`, `EvictingKeyAbsent` |
| `NothingLostSilently` | `Spec => NoSilentLoss` |

Argument. The consistency properties hold only together: freeing an entry keeps
`MemoryExact` only if the entry was in tree and queue once, and owns its blocks
alone; popping keeps `ListsExact` only if the length was right before. So the
inductive invariant is `IInv`: the dictionary is `Sound` (typed, `LruExact`,
`UsedExact`, every entry fits its blocks and has its exact length, no list is
empty), `now` and `ret` are typed, and a call in its loop is sound, which includes
that its key is absent and that its operation is not a `safe_*`. Inside a push the
dictionary passes through a state with an empty list; the lemmas are therefore
stated for `Consistent`, which is `Sound` without that conjunct, and `Sound` is
recovered at the end of the action.

The module goes bottom up: the queue (removing and adding a key keeps it
injective), the pool (`Free` and `Release` against `UsedExact`), one lemma per
helper (`DropNode`, `FreeItems`, `Insert`, `Touch`, `Update`, `ExpireTwo`,
`ExpireForced`), one per action, and the theorems. For `NothingLostSilently`
each helper also has a lemma on which keys it can remove.

`ShdictCallProofs` has what a call answers and leaves. `AckedIsStored`: `Spec => []AckedWriteStored`. It needs nothing of
the state before a step but `IInv`: a call that returns OK with a value has just inserted the
entry, at the head, or changed the one it had touched, and `IInv` makes `Head` and `Last` of
the items what the push put there.

`FailuresKeepValues`: `Spec => FailureKeepsValues`. Before a call fails it
may have expired two entries, moved the one it looked up and, in a push, emptied or freed the
entry of its own key, which had expired (`ExpiredOnly`). That a push without memory frees no list
that has nodes rests on `IInv`: the length it tests is that of the queue.

`OldestLeavesFirst`: `Spec => OldestLeaveFirst`. A queue is in the order of another but for a key `k`
(`InOrder`) when it holds nothing else new, and all that stood before what it holds is still there
and before it. The relation is transitive, so it is enough that each step a call consists of keeps
it: `RemoveFirst` of the last key for any `k`, of `k` itself and its insertion at the head for `k`. This
needs of a dictionary only that its queue holds nothing twice (`Queued`), also in the middle of a call.

It also proves the refinement, `MapImplemented`: `Spec => ImplementsExpiringMap`. The map
depends on the tree alone, so each action is followed from the tree it finds to the tree it leaves,
through a few forms a step can have: no entry changed, some gone that were due, one set, one
replaced. Queue and pool matter only through `IInv`, by which a key in the queue is in the tree. A call in its loop stays the same call for the map, and each round is a step of
`MakeRoom`, because `IInv` says that the key of the call is absent and that the operation may evict.
`NoneAssumption` also says that `None` is not what a caller knows of a call in its loop (`Waiting`),
so that the map tells whether there is one.

`SlabProofs` proves, for every number of pages, page size, set of request sizes and bound, with
or without stray calls:

| Theorem | Statement |
|---|---|
| `FreeListCorrect`, `RunsAreMaximal`, `SlotListsCorrect`, `PagesAreAccounted` | `Spec => []P` for `FreeListExact`, `RunsMaximal`, `SlotListsExact`, `PagesAccounted` |
| `StrayFreesIgnored` | `Spec => StrayFreeIgnored` |
| `SlabKeepsContract` | `Spec => KeepsContract`, the refinement of `SlabPool` |

Assumptions. `SlabSizes`: page size and smallest chunk are powers of two and a page holds two
chunks of it, as `mps_slab_init` computes them. `ChunksLeft`: a page cut for a chunk size that is
asked for has two chunks beside those of its bitmap. It is what the code relies on when it puts the
page into the list of its size without looking; with pages of 4096 bytes and chunks of 8 or more it holds.

Argument. None of the properties is inductive alone: joining two runs is right only if the
links are, the links stay right only if the types and lengths in the descriptors are, and the
types only if no two blocks share a page they should not. `IInv` says of the table
(`Kept`) that runs and allocated blocks tile the pages (`Tiled`); that a cut page has a size and a
set of its chunks (`CutSound`); that the list of free runs and the list of each chunk size hold
exactly the pages they should, linked both ways (`Ring`); that the type in `prev` is that of the
page (`Types`); that a page in no list has no `next`, by which the code knows (`Unlisted`); that the
last page of a free run points to its first (`Lasts`); and that no free run ends where another
begins (`Apart`). Beside the table it says that the marks of the bitmap's own chunks stay set
(`Marked`), that `used` is what the table says is in use (`Held`), and that the counters count
(`Counted`).

Two choices make this provable. That a list reaches all its pages is said by a rank that grows
along `next` (`Ring`), so that each change of a list is a change of the rank and no induction along the
list is needed; only what the walk of `mps_slab_alloc_pages` finds (`WalkEnds`, `FirstFitIs`) needs one,
over numbers, by a least counterexample (`HasLeast`). And in the middle of `mps_slab_free_pages`
one run is in no list yet: `Kept(pg, x)` leaves that page `x` out, and the parts of
`FreePages` are each a lemma from one such table to the next (`BlankRun` or `BlankCut`, then
`AbsorbKept` for either neighbour, then `LinkRunIs`). The powers of two and the shift of a
request are recursive functions on a bounded domain, whose equations come from the same kind of
least counterexample (`Pow2Is`, `ShiftIs`).

For the refinement, blocks in use do not overlap because each page says in which block it
lies (`BlockPages`); a refused request finds every page taken by blocks of another class or full, from
`Ring`: the list it looked at was empty (`ChunkFree`, `NoRun`).

`SlabOpenProofs` proves, for every set of processes and files and with or without
failures and deaths:

| Theorem | Statement |
|---|---|
| `WholeWhenReady` | `Spec => []ReadyIsWhole` |
| `FileMadeOnce` | `Spec => MadeOnce` |
| `HalfMadeShut` | `Spec => HalfMadeStaysShut` |

Argument. `OpenInv` adds to the types that the stage of a file can be told from the call
its creator is at (`AtStage`), that a file has one creator at most (`CreatorsApart`), and
that a file others may open is whole (`OpenIsWhole`). A step of a creator can spoil
another process's pool only if that file is not whole, and then nobody unprivileged
has it.

`DictRegistryProofs` proves, for every set of names, clients and addresses, with or without
failures:

| Theorem | Statement |
|---|---|
| `TypeCorrect` | `Spec => []TypeOK` |
| `RegistryIsExact` | `~ShrinkFails => (Spec => []RegistryExact)` |
| `LeaksAreReported` | `Spec => LeaksReported` |
| `HandlesLostOnlyByMove` | `~ShrinkFails => (Spec => HandleLostOnlyByMove)` |

Argument. `RegistryExact` with the types is inductive. The work is in `close`, where the last
element takes the place of the closed one (`FillGap`): every remaining element was one
before, so names and pools stay apart. The hypothesis `~ShrinkFails` is needed, not
convenient: when `realloc` to the smaller size fails, the last element is there twice.
The lemma that a set of positions has a first one (`HasLeast`, for the search of
`find_dict_by_pathname`) comes from the well-foundedness of `<` on `Nat`.

`RbtreeProofs`, from the lemmas of `RbtreeLemmas`, proves, for trees of any size, any keys and names, all three insert types and
any sequence of insertions and removals, from `RbtreeAssumption` and `UsesAssumption`:

| Theorem | Statement |
|---|---|
| `TreeAlways` | `Spec => []TreeInvariant` |
| `SearchTreeAlways`, `BalancedAlways`, `NextEnumeratesAlways` | `Spec => []P` for `SearchTree`, `Balanced`, `NextEnumerates` |
| `EqualsKeepOrder` | `Spec => EqualsStayInOrder` |

Argument. None of the properties is inductive, and stated over the walk `InOrder` they cannot be
followed through a rotation without an induction. So `TreeInvariant` says that three functions
exist beside the links: `sub[x]`, the nodes from `x` downwards, which makes the links a tree
(`Rooted`); `pos[x]`, a number that grows from left to right (`Ord`) and agrees with the
comparison of the insert type (`Sorted`); and `h[x]`, the number of black nodes on every way down
from `x` (`Good`, with the rules for red nodes). A rotation changes `sub` at two nodes, and `pos`
nowhere; an insertion gives `pos` a new value between two others, from the turns of the way down;
a removal takes one out.

In the middle of a call the colours are wrong in one place, and the loops move it upwards. Their
invariants are `Hot`, for the insert: one node may be red below a red parent; and `Low`, for the
delete: the subtree of one node is one black node short. A round keeps the invariant and moves to
a node with a larger `sub`, or ends the loop; a set of nodes cannot grow more often than there
are nodes, so the rounds of `Loop` are enough and the loops of the code end. As no induction over the
rounds is available, a loop is a sequence of states on `0 .. n`, and what holds in it is shown by a
least counterexample (`HasLeast`).

The properties follow at the end: `InOrder` lists the nodes by `pos` (`InOrderLists`),
because a walk that has gone `n` levels deep is right for every node whose `sub` has at most `n`
nodes; the way of `mps_rbtree_next` ends at the node with the next larger `pos` (`NextFollows`);
and each way down counts to `h`. That the comparison by name orders names, and that by wrapped
difference orders timers which are `Near` one another, are `NamesBetween` and `NearTimers`.

`SharedIndexProofs` proves what the processes do to tree and queue under the mutex, from
`LockAssumption`, `RbtreeAssumption` and `IndexAssumption`: the addresses of tree, queue and
entries differ, names are sequences of bytes, and a hash fits the key of a node.

| Theorem | Statement |
|---|---|
| `LinksSurviveDeaths` | `SharedSpec => []TornByOneEntry` |
| `IndexImplemented` | `SharedSpec => ImplementsLruIndex` |
| `MutexUsed` | `SharedSpec => Spec`, with the `Spec` of `ShmLock` |
| `UsableMutexExcludes`, `NobodyElseInside` | `Spec => []P` for `OneInsideWhileUsable`, `OneInside`, and so for `SharedSpec` by `MutexUsed` |

Of the mutex it proves `UsableMutexExcludes` (`Spec => []OneInsideWhileUsable`) and
`NobodyElseInside` (`Spec => []OneInside`) for every set of processes: inside is its
owner only, an unusable mutex has no owner, and it can have become so by a death.

Of the queue it proves, for any number of nodes and queues that share the links, what
`Shdict` and `SharedIndex` take from `mps_queue.h`: on links that represent a sequence
`InitEmpty`, `EndsRead`, `InsertHeadConses`, `InsertTailAppends` and `RemoveRemoves` say that init,
the reads, the two insertions and the removal are the empty sequence, its ends, `Cons`,
`Append` and `RemoveAt`; `OthersUntouched` says that a queue that shares no node with the one
worked on is not changed. These are lemmas about operators, not about a behaviour. Each
goes through the links one by one: a link that is not written is between two nodes of the
sequence that remain neighbours, and one that is written is at the place of the change.

Of both together the invariant is `IndexInv`. The tree is one as `RbtreeLemmas` has it and
holds each entry under the hash of its name and with its whole name (`Entries`), which is where the
guard of `validate_key` is needed; the queue is a ring through entries of the tree (`Ring`). What
is in the tree and not in the queue is what a process has in hand (`Owed`), and only one process
has something in hand, as it is inside and nobody has died there (`OnlyInside`, by the invariant of
the mutex). A death gives up what was in hand; from then on the difference stays as it is.

That a search finds what is there (`SearchFinds`) is once more a loop: each round that does not
find the entry goes to a subtree with fewer nodes that still holds it (`NarrowedDown`), so that
the rounds end at the entry or outside the tree. It rests on `NamesTotal`: of two different names
one is less. A walk over the queue has met the first `i` entries after `i` rounds
(`ChainIs`). With both, each action has one lemma that it keeps `IndexInv` and is a step of
`LruIndex`: the first half of a change is its step, the second half is a stuttering one.

Only model-checked: `EvictionEnds`, `EveryCallReturns` and `SomeoneGetsIn`. They are liveness
properties, out of the prover's reach. The four properties that the code violates are refuted by
a run each, and that no run deadlocks has no theorem.

## 5. Not modelled

* Logging, the vendored nginx headers and the test framework have no state of interest.
* The Lua binding converts arguments around the calls; of it there is `validate_key`,
  on which `key_len` depends. Its reused FFI cells are per Lua state and used within one method.
* `ngx_murmur_hash2`: any function of the name.
* `mps_queue_split` and `mps_queue_add`, which nothing uses, and the variant of
  `mps_queue_remove` for debug builds, which clears the links of the node.
* The address one past the pool, which `mps_slab_free_locked` lets through its bounds check
  (`src/mps_slab.c:706`), and an opener that maps another size than the creator made
  (`src/mps_slab.c:311`): both are outside the contract of the callers in this repository.
* The loops that free a list read a node's link after they have freed it. Freed memory has no
  contents in the model; the loops are right while `mps_slab_free_locked` leaves it alone,
  which a build with `NGX_DEBUG_MALLOC` does not.
* `value_len` read after the unlock is modelled (`ReadUnlocked`), and no property limits what is
  read: the code does not.
* A death in the middle of an operation on tree, queue or pool, and the work of the next owner on
  what a death left.
