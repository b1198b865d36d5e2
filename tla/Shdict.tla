------------------------------- MODULE Shdict -------------------------------
(***************************************************************************)
(* The shared dictionary of mps_shdict.c: a red-black tree of entries, the *)
(* LRU queue that threads them, and the slab pool both live in.            *)
(*                                                                         *)
(* Every call runs under the pool's mutex, so a call is one step.  The     *)
(* exception is the loop that evicts unexpired entries when memory is      *)
(* short: it reads the clock in every round, so each round is a step, and  *)
(* the call that runs it (in the variable call) holds the mutex meanwhile. *)
(*                                                                         *)
(* A call reads the clock several times: mps_shdict_expire reads now, the  *)
(* lookup and the expiry of a new entry read a later t, which becomes now. *)
(* incr and set_expire read it before they lock, hence their extra t0.     *)
(***************************************************************************)
EXTENDS Integers, Sequences, SequencesExt, SlabContract

CONSTANTS
    Key,
    Value,         \* values the callers store: [type, len, data]
    Ttl,           \* exptime arguments; 0 stands for every exptime <= 0
    By,            \* increments, and initial values, that incr is given
    MaxNumber,     \* bound: incr is not called to count beyond it
    Time,          \* clock readings
    MaxElapse,     \* bound: how far the clock moves during one call
    SteadyClock,   \* CLOCK_REALTIME is never set back
    Ops,           \* the functions of the API the callers use
    MaxEvict,      \* rounds of the eviction loop, 30 in the code
    NodeClass,     \* NodeClass[len]: size class of an entry of a value
    ListClass,     \* size class of the entry of a list
    ItemClass,     \* ItemClass[len]: size class of a list node
    Root,          \* the block of the tree and the queue head themselves
    Late,          \* what other processes may have left of sd->value_len when
                   \* push and llen read it, after they unlocked
    None           \* no key, no initial value, no call in its eviction loop

SizeofDouble == 8
SizeofUChar == 1

\* What a value of each type looks like in memory; every string length is legal.
WellSized(e) ==
    /\ e.type = "number" => e.len = SizeofDouble
    /\ e.type = "boolean" => e.len = SizeofUChar

Nil == [type |-> "nil", len |-> 0, data |-> 0]

\* Mistake: safe_add forgets the flag MPS_SHDICT_SAFE_STORE.
SafeOpsSetOnly == {"safe_set"}

SafeOps == {"safe_set", "safe_add"}
AddOps == {"add", "safe_add"}
StoreOps == SafeOps \cup AddOps \cup {"set", "replace"}
PushOps == {"lpush", "rpush"}
PopOps == {"lpop", "rpop"}
Api == StoreOps \cup PushOps \cup PopOps \cup
       {"get", "incr", "flush_all", "set_expire", "get_ttl", "llen"}

Lengths == {v.len : v \in Value} \cup {SizeofDouble}

ASSUME ShdictAssumption ==
    /\ Value \subseteq
         [type : {"boolean", "number", "string"}, len : Nat, data : Int]
    /\ \A v \in Value : WellSized(v)
    /\ Ttl \subseteq Nat /\ By \subseteq Int /\ Time \subseteq Nat
    /\ MaxNumber \in Int /\ MaxElapse \in Nat /\ MaxEvict \in Nat
    /\ SteadyClock \in BOOLEAN
    /\ \A n \in Lengths : NodeClass[n] \in Class /\ ItemClass[n] \in Class
    /\ ListClass \in Class
    /\ Root \in Block
    /\ Ops \subseteq Api
    /\ Late \subseteq Nat

-----------------------------------------------------------------------------

VARIABLES
    dict,   \* [tree, lru, used]: entries by key, keys from the most to the
            \* least recently used, allocated blocks
    now,    \* the clock
    call,   \* the call that is evicting and holds the mutex, or None
    ret     \* what the last call returned

vars == <<dict, now, call, ret>>

Item == [type : {"number", "string"}, len : Nat, data : Int, block : Block]

Entry == [type : {"boolean", "number", "string", "list"}, len : Nat,
          data : Int, expires : Nat, block : Block, items : Seq(Item)]

IsDict(d) ==
    /\ d = [tree |-> d.tree, lru |-> d.lru, used |-> d.used]
    /\ DOMAIN d.tree \subseteq Key /\ d.tree \in [DOMAIN d.tree -> Entry]
    /\ d.lru \in Seq(Key)
    /\ d.used \subseteq Block

Call == [op : StoreOps \cup {"incr"}, key : Key,
         val : [type : {"boolean", "number", "string"}, len : Lengths, data : Int],
         ttl : Nat, base : Nat, tries : 0 .. MaxEvict]

\* What the caller of such a call can know of it.
Waiting == [op : Api, key : Key,
            val : [type : {"boolean", "number", "string"}, len : Nat, data : Int],
            ttl : Nat, base : Nat, forced : BOOLEAN]

ASSUME NoneAssumption ==
    None \notin Call /\ None \notin Waiting /\ None \notin Key /\ None \notin By

-----------------------------------------------------------------------------
(* Entries, the tree, the queue and the pool they are kept in *)

\* Mistake: -1 for "never", in an unsigned field.
ExpiresMinusOne(t, ttl) == IF ttl > 0 THEN t + ttl ELSE -1

Expires(t, ttl) == IF ttl > 0 THEN t + ttl ELSE 0

\* The test of mps_shdict_lookup and the one of mps_shdict_expire: they
\* disagree on an entry whose time is exactly t.
Expired(e, t) == e.expires # 0 /\ e.expires < t
Reclaimable(e, t) == e.expires # 0 /\ e.expires <= t

ItemBlocks(e) == {e.items[i].block : i \in DOMAIN e.items}

\* Mistake: the node is unlinked but not freed.
DropNodeLeaks(d, k) ==
    [tree |-> [x \in DOMAIN d.tree \ {k} |-> d.tree[x]],
     lru  |-> RemoveFirst(d.lru, k),
     used |-> d.used]

\* Unlink the entry of k and free its node; a list's nodes stay allocated.
DropNode(d, k) ==
    [tree |-> [x \in DOMAIN d.tree \ {k} |-> d.tree[x]],
     lru  |-> RemoveFirst(d.lru, k),
     used |-> Release(d.used, {d.tree[k].block})]

\* Free the nodes of a list, leaving the queue head of the entry dangling.
FreeItems(d, k) == [d EXCEPT !.used = Release(d.used, ItemBlocks(d.tree[k]))]

FreeEntry(d, k) == DropNode(FreeItems(d, k), k)

\* Mistake: the old entry is left in the tree when it cannot be reused.
WithoutNothing(d, k) == d

Without(d, k) == IF k \in DOMAIN d.tree THEN FreeEntry(d, k) ELSE d

\* Mistake: mps_queue_insert_tail for mps_queue_insert_head.
InsertAtTail(d, k, e) ==
    [tree |-> [x \in DOMAIN d.tree \cup {k} |-> IF x = k THEN e ELSE d.tree[x]],
     lru  |-> Append(d.lru, k),
     used |-> d.used \cup {e.block}]

Insert(d, k, e) ==
    [tree |-> [x \in DOMAIN d.tree \cup {k} |-> IF x = k THEN e ELSE d.tree[x]],
     lru  |-> Cons(k, d.lru),
     used |-> d.used \cup {e.block}]

Update(d, k, e) == [d EXCEPT !.tree[k] = e]

\* Mistake: no mps_queue_remove.
TouchTwice(d, k) == [d EXCEPT !.lru = Cons(k, @)]

\* mps_queue_remove then mps_queue_insert_head.
Touch(d, k) == [d EXCEPT !.lru = Cons(k, RemoveFirst(@, k))]

\* mps_shdict_lookup: its result, and the dictionary it leaves.
LookupRc(d, k, t) ==
    IF k \notin DOMAIN d.tree THEN "DECLINED"
    ELSE IF Expired(d.tree[k], t) THEN "DONE" ELSE "OK"

Lookup(d, k) == IF k \in DOMAIN d.tree THEN Touch(d, k) ELSE d

\* Mistake: an entry that never expires has its time come.
ReclaimTailZero(d, t) ==
    IF d.lru # <<>> /\ d.tree[Last(d.lru)].expires <= t
    THEN FreeEntry(d, Last(d.lru)) ELSE d

\* mps_shdict_expire with n = 1 and with n = 0.
ReclaimTail(d, t) ==
    IF d.lru # <<>> /\ Reclaimable(d.tree[Last(d.lru)], t)
    THEN FreeEntry(d, Last(d.lru)) ELSE d

ExpireTwo(d, t) == ReclaimTail(ReclaimTail(d, t), t)

\* Mistake: the most recently used entry goes first.
ExpireForcedHead(d, t) ==
    IF d.lru = <<>> THEN d ELSE ExpireTwo(FreeEntry(d, Head(d.lru)), t)

ExpireForced(d, t) ==
    IF d.lru = <<>> THEN d ELSE ExpireTwo(FreeEntry(d, Last(d.lru)), t)

NewEntry(v, x, b) ==
    [type |-> v.type, len |-> v.len, data |-> v.data, expires |-> x,
     block |-> b, items |-> <<>>]

-----------------------------------------------------------------------------
(* How a call begins and ends *)

\* Readings of the clock inside a call, and one taken before it got the lock.
Reads == {t \in Time : now <= t /\ t <= now + MaxElapse}
Before == {t \in Time : SteadyClock => t <= now /\ now <= t + MaxElapse}

Begin(op, t) == op \in Ops /\ call = None /\ now' = t

Return(op, k, rc, val, num, forcible) ==
    /\ call' = None
    /\ ret' = [op |-> op, key |-> k, rc |-> rc, val |-> val, num |-> num,
               forcible |-> forcible]

Fail(op, k, rc) == Return(op, k, rc, Nil, 0, FALSE)

\* A new entry for the call c in d: at once, or by going on to evict.
Allocate(c, d, t) ==
    LET free == Free(d.used, NodeClass[c.val.len])
        base == IF c.op = "incr" THEN c.base ELSE t
    IN \/ \E b \in free :
            /\ dict' = Insert(d, c.key, NewEntry(c.val, Expires(base, c.ttl), b))
            /\ Return(c.op, c.key, "OK", c.val, 0, c.tries > 0)
       \/ /\ free = {} /\ c.op \in SafeOps
          /\ dict' = d
          /\ Fail(c.op, c.key, "NOMEM")
       \/ /\ free = {} /\ c.op \notin SafeOps
          /\ dict' = d /\ call' = c
          /\ UNCHANGED ret

-----------------------------------------------------------------------------
(* The operations *)

\* Mistake: the rounds are not counted and an empty queue is not noticed.
EvictForever(t) ==
    /\ call # None
    /\ now' = t
    /\ Allocate(call, ExpireForced(dict, now), t)

\* One round of the loop "for (i = 0; i < 30; i++)".
Evict(t) ==
    /\ call # None
    /\ now' = t
    /\ \/ /\ call.tries = MaxEvict \/ dict.lru = <<>>
          /\ dict' = dict
          /\ Return(call.op, call.key, "NOMEM", Nil, 0, call.tries > 0)
       \/ /\ call.tries < MaxEvict /\ dict.lru # <<>>
          /\ Allocate([call EXCEPT !.tries = @ + 1], ExpireForced(dict, now), t)

\* The existing or missing entry stops a replace or an add.
Declines(op, rc) ==
    \/ op = "replace" /\ rc # "OK"
    \/ op \in AddOps /\ rc = "OK"

\* Mistake: any scalar is overwritten, whatever its length.
ReusableAnyLength(d, k, v) ==
    /\ k \in DOMAIN d.tree
    /\ v # Nil
    /\ d.tree[k].type # "list"

\* The old entry of k has the room for v.
Reusable(d, k, v) ==
    /\ k \in DOMAIN d.tree
    /\ v # Nil
    /\ d.tree[k].type # "list" /\ d.tree[k].len = v.len

\* mps_shdict_store; delete(k) is set(k, Nil).
Store(op, k, v, ttl, t) ==
    LET e == ExpireTwo(dict, now)
        rc == LookupRc(e, k, t)
        d == Lookup(e, k)
    IN /\ Begin(op, t)
       /\ \/ /\ v = Nil /\ op \in AddOps \cup {"replace"}
             /\ dict' = dict
             /\ Fail(op, k, "ERROR")
          \/ /\ v # Nil \/ op \in {"set", "safe_set"}
             /\ \/ /\ Declines(op, rc)
                   /\ dict' = d
                   /\ Fail(op, k, "DECLINED")
                \/ /\ ~Declines(op, rc) /\ Reusable(d, k, v)
                   /\ dict' = Update(Touch(d, k), k,
                                NewEntry(v, Expires(t, ttl), d.tree[k].block))
                   /\ Return(op, k, "OK", v, 0, FALSE)
                \/ /\ ~Declines(op, rc) /\ v = Nil
                   /\ dict' = Without(d, k)
                   /\ Return(op, k, "OK", Nil, 0, FALSE)
                \/ /\ ~Declines(op, rc) /\ v # Nil /\ ~Reusable(d, k, v)
                   /\ Allocate([op |-> op, key |-> k, val |-> v, ttl |-> ttl,
                                base |-> 0, tries |-> 0], Without(d, k), t)

\* mps_shdict_get; room: the buffer is large enough, or malloc gave one.
Get(k, stale, room, t) ==
    LET rc == LookupRc(dict, k, t)
        e == dict.tree[k]
        hit == rc = "OK" \/ (rc = "DONE" /\ stale)
        good == /\ e.type # "list" /\ WellSized(e)
                /\ e.type \in {"boolean", "string"} => room
    IN /\ Begin("get", t)
       /\ dict' = Lookup(dict, k)
       /\ \/ ~hit /\ Return("get", k, "OK", Nil, 0, FALSE)
          \/ hit /\ ~good /\ Fail("get", k, "ERROR")
          \/ /\ hit /\ good
             /\ Return("get", k, "OK",
                       [type |-> e.type, len |-> e.len, data |-> e.data],
                       IF rc = "DONE" THEN 1 ELSE 0, FALSE)

Number(n) == [type |-> "number", len |-> SizeofDouble, data |-> n]

\* mps_shdict_incr; init is None when the caller gives no initial value.
Incr(k, by, init, ttl, t0, t) ==
    LET e == ExpireTwo(dict, now)
        rc == LookupRc(e, k, t)
        d == Lookup(e, k)
        old == d.tree[k]
        sum == Number(by + init)
        new == Number(old.data + by)
    IN /\ Begin("incr", t)
       /\ \/ /\ rc # "OK" /\ init = None
             /\ dict' = d
             /\ Fail("incr", k, "ERROR")
          \/ /\ rc # "OK" /\ init # None
             /\ by + init <= MaxNumber
             /\ IF Reusable(d, k, sum)
                THEN /\ dict' = Update(Touch(d, k), k,
                                  NewEntry(sum, Expires(t0, ttl), old.block))
                     /\ Return("incr", k, "OK", sum, 0, FALSE)
                ELSE Allocate([op |-> "incr", key |-> k, val |-> sum, ttl |-> ttl,
                               base |-> t0, tries |-> 0], Without(d, k), t)
          \/ /\ rc = "OK" /\ (old.type # "number" \/ old.len # SizeofDouble)
             /\ dict' = d
             /\ Fail("incr", k, "ERROR")
          \/ /\ rc = "OK" /\ old.type = "number" /\ old.len = SizeofDouble
             /\ old.data + by <= MaxNumber
             /\ dict' = Update(Touch(d, k), k, [old EXCEPT !.data = @ + by])
             /\ Return("incr", k, "OK", new, 0, FALSE)

\* mps_shdict_flush_all: every entry expires at 1 ms after the epoch.
FlushAll(t) ==
    LET d == [dict EXCEPT !.tree =
                [k \in DOMAIN dict.tree |->
                    [dict.tree[k] EXCEPT !.expires = 1]]]
    IN /\ Begin("flush_all", t)
       /\ dict' = ExpireForced(d, now)
       /\ Return("flush_all", None, "OK", Nil, 0, FALSE)

\* mps_shdict_set_expire: the entry is peeked at, expired or not.
SetExpire(k, ttl, t0, t) ==
    /\ Begin("set_expire", t)
    /\ \/ /\ k \notin DOMAIN dict.tree
          /\ dict' = dict
          /\ Fail("set_expire", k, "DECLINED")
       \/ /\ k \in DOMAIN dict.tree
          /\ dict' = Update(dict, k, [dict.tree[k] EXCEPT !.expires = Expires(t0, ttl)])
          /\ Return("set_expire", k, "OK", Nil, 0, FALSE)

NGX_DECLINED == -5

\* mps_shdict_get_ttl: one number stands for the time left and for "absent".
GetTtl(k, t) ==
    /\ Begin("get_ttl", t)
    /\ dict' = dict
    /\ LET ttl == IF k \notin DOMAIN dict.tree THEN NGX_DECLINED
                  ELSE IF dict.tree[k].expires = 0 THEN 0
                  ELSE dict.tree[k].expires - t
       IN Return("get_ttl", k, "OK", Nil, ttl, FALSE)

-----------------------------------------------------------------------------
(* Lists *)

EmptyList(b) == NewEntry([type |-> "list", len |-> 0, data |-> 0], 0, b)

\* Mistake: the length of the emptied list is kept.
ResetListKeepsLen(d, k) ==
    Update(Touch(FreeItems(d, k), k), k,
           [EmptyList(d.tree[k].block) EXCEPT !.len = d.tree[k].len])

\* An expired list is emptied and kept.
ResetList(d, k) ==
    Update(Touch(FreeItems(d, k), k), k, EmptyList(d.tree[k].block))

\* Mistake: both pushes add at the tail.
AddItemAtTail(dir, e, item) ==
    [e EXCEPT !.len = @ + 1, !.items = Append(@, item)]

\* The readings of a length n after the mutex was unlocked: another process
\* may have changed it, or freed and reused its memory.
ReadUnlocked(n) == {n} \cup Late

AddItem(dir, e, item) ==
    [e EXCEPT !.len = @ + 1,
              !.items = IF dir = "lpush" THEN Cons(item, @) ELSE Append(@, item)]

\* Mistake: a push without memory frees any list.
PushNodeDropsList(dir, k, v, d) ==
    LET free == Free(d.used, ItemClass[v.len])
        e == d.tree[k]
    IN \/ \E b \in free, n \in ReadUnlocked(e.len + 1) :
            LET item == [type |-> v.type, len |-> v.len, data |-> v.data, block |-> b]
            IN /\ dict' = [Update(d, k, AddItem(dir, e, item))
                             EXCEPT !.used = @ \cup {b}]
               /\ Return(dir, k, "OK", v, n, FALSE)
       \/ /\ free = {}
          /\ dict' = FreeEntry(d, k)
          /\ Fail(dir, k, "NOMEM")

\* The label push_node of mps_shdict_push_helper.
PushNode(dir, k, v, d) ==
    LET free == Free(d.used, ItemClass[v.len])
        e == d.tree[k]
    IN \/ \E b \in free, n \in ReadUnlocked(e.len + 1) :
            LET item == [type |-> v.type, len |-> v.len, data |-> v.data, block |-> b]
            IN /\ dict' = [Update(d, k, AddItem(dir, e, item))
                             EXCEPT !.used = @ \cup {b}]
               /\ Return(dir, k, "OK", v, n, FALSE)
       \/ /\ free = {}
          /\ dict' = IF e.len = 0 THEN DropNode(d, k) ELSE d
          /\ Fail(dir, k, "NOMEM")

\* mps_shdict_lpush and mps_shdict_rpush (dir).
Push(dir, k, v, t) ==
    LET e == ExpireTwo(dict, now)
        rc == LookupRc(e, k, t)
        d == Lookup(e, k)
        type == d.tree[k].type
        bare == IF rc = "DONE" THEN DropNode(d, k) ELSE d
        free == Free(bare.used, ListClass)
    IN /\ Begin(dir, t)
       /\ \/ /\ v.type \notin {"number", "string"}
             /\ dict' = dict
             /\ Fail(dir, k, "ERROR")
          \/ /\ v.type \in {"number", "string"}
             /\ \/ /\ rc = "OK" /\ type # "list"
                   /\ dict' = d
                   /\ Fail(dir, k, "ERROR")
                \/ /\ rc = "OK" /\ type = "list"
                   /\ PushNode(dir, k, v, Touch(d, k))
                \/ /\ rc = "DONE" /\ type = "list"
                   /\ PushNode(dir, k, v, ResetList(d, k))
                \/ /\ rc = "DECLINED" \/ (rc = "DONE" /\ type # "list")
                   /\ \/ \E b \in free :
                           PushNode(dir, k, v, Insert(bare, k, EmptyList(b)))
                      \/ free = {} /\ dict' = bare /\ Fail(dir, k, "NOMEM")

Pick(dir, items) == IF dir = "lpop" THEN Head(items) ELSE Last(items)
Rest(dir, items) == IF dir = "lpop" THEN Tail(items) ELSE Front(items)

RemoveItem(dir, e) == [e EXCEPT !.len = @ - 1, !.items = Rest(dir, @)]

\* mps_shdict_lpop and mps_shdict_rpop (dir); room as for Get.
Pop(dir, k, room, t) ==
    LET e == ExpireTwo(dict, now)
        rc == LookupRc(e, k, t)
        d == Lookup(e, k)
        old == d.tree[k]
        item == Pick(dir, old.items)
        good == /\ old.type = "list" /\ old.len > 0
                /\ item.type = "string" => room
                /\ item.type = "number" => item.len = SizeofDouble
        left == [d EXCEPT !.used = Release(@, {item.block})]
    IN /\ Begin(dir, t)
       /\ \/ /\ rc # "OK"
             /\ dict' = d
             /\ Return(dir, k, "OK", Nil, 0, FALSE)
          \/ /\ rc = "OK" /\ ~good
             /\ dict' = d
             /\ Fail(dir, k, "ERROR")
          \/ /\ rc = "OK" /\ good
             /\ dict' = IF old.len = 1 THEN DropNode(left, k)
                        ELSE Update(Touch(left, k), k, RemoveItem(dir, old))
             /\ Return(dir, k, "OK",
                       [type |-> item.type, len |-> item.len, data |-> item.data],
                       0, FALSE)

\* mps_shdict_llen
Llen(k, t) ==
    LET e == ExpireTwo(dict, now)
        rc == LookupRc(e, k, t)
        d == Lookup(e, k)
        old == d.tree[k]
    IN /\ Begin("llen", t)
       /\ dict' = d
       /\ \/ rc # "OK" /\ Return("llen", k, "OK", Nil, 0, FALSE)
          \/ rc = "OK" /\ old.type # "list" /\ Fail("llen", k, "ERROR")
          \/ /\ rc = "OK" /\ old.type = "list"
             /\ \E n \in ReadUnlocked(old.len) : Return("llen", k, "OK", Nil, n, FALSE)

-----------------------------------------------------------------------------

\* Time passes between the calls, and between the rounds of an eviction.
Tick ==
    /\ \E t \in Time \ {now} : (SteadyClock => t > now) /\ now' = t
    /\ UNCHANGED <<dict, call, ret>>

\* The dictionary as mps_shdict_on_init leaves it.
Init ==
    /\ dict = [tree |-> [k \in {} |-> Nil], lru |-> <<>>, used |-> {Root}]
    /\ now \in Time
    /\ call = None
    /\ ret = [op |-> "init", key |-> None, rc |-> "OK", val |-> Nil, num |-> 0,
              forcible |-> FALSE]

EvictStep == \E t \in Reads : Evict(t)

ScalarStep(k, t) ==
    \/ \E op \in StoreOps, v \in Value \cup {Nil}, ttl \in Ttl : Store(op, k, v, ttl, t)
    \/ \E stale, room \in BOOLEAN : Get(k, stale, room, t)
    \/ \E by \in By, init \in By \cup {None}, ttl \in Ttl, t0 \in Before :
          Incr(k, by, init, ttl, t0, t)
    \/ \E ttl \in Ttl, t0 \in Before : SetExpire(k, ttl, t0, t)
    \/ GetTtl(k, t)

ListStep(k, t) ==
    \/ \E dir \in PushOps, v \in Value : Push(dir, k, v, t)
    \/ \E dir \in PopOps, room \in BOOLEAN : Pop(dir, k, room, t)
    \/ Llen(k, t)

Next ==
    \/ \E k \in Key, t \in Reads : ScalarStep(k, t) \/ ListStep(k, t)
    \/ \E t \in Reads : FlushAll(t)
    \/ EvictStep
    \/ Tick

Spec == Init /\ [][Next]_vars

\* A call in its loop holds the mutex and runs on: nothing else can stop it.
FairSpec == Spec /\ WF_vars(EvictStep)

-----------------------------------------------------------------------------
(* Invariants *)

Returned == [type : {"nil", "boolean", "number", "string"}, len : Nat, data : Int]

Ret == [op : Api \cup {"init"}, key : Key \cup {None},
        rc : {"OK", "DECLINED", "ERROR", "NOMEM"},
        val : Returned, num : Int, forcible : BOOLEAN]

\* The variables are what the C structures can hold.
TypeOK ==
    /\ IsDict(dict)
    /\ now \in Time
    /\ call \in Call \cup {None}
    /\ ret \in Ret

LruExact(d) == IsInjective(d.lru) /\ ToSet(d.lru) = DOMAIN d.tree

\* Every entry of the tree is in the LRU queue exactly once, and nothing else
\* is: each of the functions that unlink an entry does both halves.
LruMatchesTree == LruExact(dict)

EntryBlocks(e) == {e.block} \cup ItemBlocks(e)

OwnsItsBlocks(e) ==
    /\ Root \notin EntryBlocks(e)
    /\ e.block \notin ItemBlocks(e)
    /\ \A i, j \in DOMAIN e.items : e.items[i].block = e.items[j].block => i = j

UsedExact(d) ==
    /\ d.used = {Root} \cup UNION {EntryBlocks(d.tree[k]) : k \in DOMAIN d.tree}
    /\ \A k \in DOMAIN d.tree : OwnsItsBlocks(d.tree[k])
    /\ \A k, l \in DOMAIN d.tree : k # l =>
         EntryBlocks(d.tree[k]) \cap EntryBlocks(d.tree[l]) = {}

\* The allocated blocks are the root, the entries and their list nodes, each
\* with one owner: no path of store, incr, push, pop or expire leaks a block,
\* frees one twice or keeps a pointer to a freed one.
MemoryExact == UsedExact(dict)

FitsItsBlocks(e) ==
    /\ e.block.class = IF e.type = "list" THEN ListClass ELSE NodeClass[e.len]
    /\ \A i \in DOMAIN e.items : e.items[i].block.class = ItemClass[e.items[i].len]

\* The block of an entry or a list node is of the class its own length asks
\* for: reusing an entry for a value of another type never writes past it.
BlocksFit == \A k \in DOMAIN dict.tree : FitsItsBlocks(dict.tree[k])

LenExact(e) ==
    /\ e.type = "list" => e.len = Len(e.items)
    /\ e.type # "list" => e.items = <<>> /\ WellSized(e)
    /\ \A i \in DOMAIN e.items : WellSized(e.items[i])

\* What get and pop check before they copy always holds: a list between two
\* calls is never empty and its length is that of its queue, numbers and
\* booleans have their size.  "bad empty value" is never returned.
ListsExact ==
    \A k \in DOMAIN dict.tree :
        /\ LenExact(dict.tree[k])
        /\ dict.tree[k].type = "list" => dict.tree[k].items # <<>>

\* While a call evicts to make room for its key, the key is not in the tree:
\* the insertion that ends the loop cannot make a duplicate.
EvictingKeyAbsent == call # None => call.key \notin DOMAIN dict.tree

\* A write the caller was told succeeded is in the dictionary, at the head of
\* the LRU queue, whatever had to be evicted for it.
AckedWriteStored ==
    (call = None /\ ret.rc = "OK" /\ ret.val # Nil
        /\ ret.op \in StoreOps \cup PushOps \cup {"incr"})
    => /\ ret.key \in DOMAIN dict.tree /\ Head(dict.lru) = ret.key
       /\ LET e == dict.tree[ret.key]
              s == IF ret.op = "lpush" THEN Head(e.items)
                   ELSE IF ret.op = "rpush" THEN Last(e.items) ELSE e
          IN <<s.type, s.len, s.data>> = <<ret.val.type, ret.val.len, ret.val.data>>

-----------------------------------------------------------------------------
(* Action properties *)

\* The key the call that takes the step was made for.
StepKey ==
    IF call # None THEN call.key
    ELSE IF call' # None THEN call'.key ELSE ret'.key

\* The call says that it evicts, and may; or it is flush_all.
Announced ==
    IF call' = None
    THEN \/ ret'.forcible /\ ret'.op \in {"set", "add", "replace", "incr"}
         \/ ret'.op = "flush_all"
    ELSE call'.tries > 0

LossExplained ==
    \A k \in DOMAIN dict.tree \ DOMAIN dict'.tree :
        Reclaimable(dict.tree[k], now) \/ k = StepKey \/ Announced

\* An entry that is neither expired nor the call's own is lost only to
\* flush_all or to a call that reports forcible; safe_set, safe_add, lpush,
\* rpush, lpop, rpop, llen and get never make another key disappear.
NoSilentLoss == [][LossExplained]_vars

\* x stands before y in a queue, and was used after it.
Ahead(s, x, y) == \E i, j \in DOMAIN s : i < j /\ s[i] = x /\ s[j] = y

\* Entries leave in LRU order: but for the call's own key, no entry comes into
\* the queue, and all that stand before one that remains remain, before it.
OldestLeaveFirst ==
    [][\A x \in ToSet(dict'.lru) \ {StepKey} :
         /\ x \in ToSet(dict.lru)
         /\ \A y \in ToSet(dict.lru) \ {StepKey} :
              Ahead(dict.lru, y, x) => Ahead(dict'.lru, y, x)]_vars

\* A call that fails, short of a store that had no memory, leaves every value
\* that was not expired as it found it: a push that finds no memory, a pop
\* into a short buffer or an incr of a string spoil nothing.
FailureKeepsValues ==
    [][(/\ call' = None
        /\ \/ ret'.rc \in {"ERROR", "DECLINED"}
           \/ ret'.rc = "NOMEM" /\ ret'.op \in PushOps)
       => \A k \in DOMAIN dict.tree :
            \/ Reclaimable(dict.tree[k], now) \/ Expired(dict.tree[k], now')
            \/ k \in DOMAIN dict'.tree /\ dict'.tree[k] = dict.tree[k]]_vars

Scalar(e) == [type |-> e.type, len |-> e.len, data |-> e.data]

Scalars(items) == [i \in DOMAIN items |-> Scalar(items[i])]

\* What a caller can know of an entry, of the dictionary, and of a call that evicts.
Contents(e) ==
    [val |-> IF e.type = "list" THEN [type |-> "list", len |-> 0, data |-> 0]
             ELSE Scalar(e),
     items |-> Scalars(e.items),
     expires |-> e.expires]

MapOf(d) == [k \in DOMAIN d.tree |-> Contents(d.tree[k])]

Making(c) ==
    IF c = None THEN None
    ELSE [op |-> c.op, key |-> c.key, val |-> c.val, ttl |-> c.ttl,
          base |-> c.base, forced |-> c.tries > 0]

Map == INSTANCE ExpiringMap WITH
    map <- MapOf(dict),
    making <- Making(call)

\* To its callers the dictionary is a map whose entries expire: get and pop
\* return what was stored last and in the order of the pushes, an entry that
\* is not due goes only by a call that says so, and a call that evicts its way
\* to memory or fails on the way leaves every other value as it was.
ImplementsExpiringMap == Map!Spec

\* A call that evicts gets its memory or gives up.
EvictionEnds == call # None ~> call = None

-----------------------------------------------------------------------------
(* What comments and tests of the repository say and the code does not do *)

\* mps_shdict.h of safe_set: "never overrides an unexpired value".
SafeSetKeepsUnexpired ==
    [][\A k \in DOMAIN dict.tree :
         (/\ call' = None /\ ret'.op = "safe_set" /\ ret'.rc # "OK"
          /\ ~Reclaimable(dict.tree[k], now) /\ ~Expired(dict.tree[k], now'))
         => k \in DOMAIN dict'.tree]_vars

\* test_flush_all: "Delete all keys", so that set_expire of one is declined.
FlushDeletes ==
    [][\A k \in DOMAIN dict.tree \cap DOMAIN dict'.tree :
         (dict.tree[k].expires = 1 /\ ret'.op = "set_expire")
         => dict'.tree[k] = dict.tree[k]]_vars

\* test_get_ttl_set_expire and the Lua binding: NGX_DECLINED means not found.
DeclinedMeansAbsent ==
    (ret.op = "get_ttl" /\ ret.num = NGX_DECLINED) => ret.key \notin DOMAIN dict.tree
=============================================================================
