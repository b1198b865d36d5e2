---------------------------- MODULE SharedIndex ----------------------------
(***************************************************************************)
(* Tree and queue of a dictionary that several processes use: what the     *)
(* calls of mps_shdict.c do to the links between mps_slab_lock and         *)
(* mps_slab_unlock, and what a process that dies there leaves behind.      *)
(*                                                                         *)
(* A call is any sequence of searches, insertions and removals.  Each of   *)
(* them changes the links twice, the tree's and the queue's or the queue's *)
(* two times, and a process may die between the two.  One that dies in the *)
(* middle of an operation on the tree or the queue is not modelled.        *)
(***************************************************************************)
EXTENDS ShmLock, MpsRbtree, MpsQueue

CONSTANTS
    Key,        \* names: sequences of bytes
    Hash,       \* Hash[k]: ngx_murmur_hash2 of the name
    LenRange,   \* the number of lengths that key_len can hold, 2^16 in the code
    LruHead     \* the head of the queue in mps_shdict_tree_t

ASSUME IndexAssumption ==
    /\ LenRange \in Nat \ {0}
    /\ Key \subseteq Seq(Nat) /\ Hash \in [Key -> 0 .. 2 * HalfRange - 1]
    /\ {Sentinel, Null, LruHead} \cap Key = {}
    /\ None \notin [do : {"thread", "unplant"}, entry : Key]

VARIABLES
    tree, queue,   \* the links; the node of a key has the key as its address
    answer,        \* the keys last asked for, and those of them found
    half           \* per process: what it has still to do to an entry, or None

indexVars == <<tree, queue, answer, half>>
sharedVars == <<vars, indexVars>>

\* The binding refuses the names whose length key_len cannot hold.
Accepted(k) == Len(k) < LenRange

\* The name an entry is compared by: key_len is cut to its width.
StoredName(k) == SubSeq(k, 1, Len(k) % LenRange)

-----------------------------------------------------------------------------
(* Searching and walking *)

\* Mistake: equal hashes are taken for equal names.
SameHash(t, k, x) == Hash[k] = t.key[x]

\* The node x is that of k; or k is to the left of it.
Matches(t, k, x) == Hash[k] = t.key[x] /\ k = t.name[x]

GoesLeft(t, k, x) ==
    \/ Hash[k] < t.key[x]
    \/ Hash[k] = t.key[x] /\ NameLess(k, t.name[x])

\* The loop of mps_shdict_lookup and mps_shdict_peek.
Search(t, k) ==
    LET Down(x) == IF x = Sentinel \/ Matches(t, k, x) THEN x
                   ELSE IF GoesLeft(t, k, x) THEN t.left[x] ELSE t.right[x]
        end == Loop(Down, t.root, Rounds(t))
    IN IF end = Sentinel THEN Null ELSE end

Entry(k) == Search(tree, k)

\* The entries that a loop over the queue visits, as many rounds as there are links.
Chain(q) ==
    LET Onward(s) ==
            LET x == IF s = <<>> THEN QueueHead(q, LruHead) ELSE q.next[Last(s)]
            IN IF x = LruHead THEN s ELSE Append(s, x)
    IN Loop(Onward, <<>>, Cardinality(DOMAIN q.next))

Threaded == Chain(queue)

-----------------------------------------------------------------------------
(* What a process does inside *)

\* Its next operation, on links that no death has torn.
Ready(p) == pc[p] = "inside" /\ half[p] = None /\ ~harmed

Then(p, do, x) == half' = [half EXCEPT ![p] = [do |-> do, entry |-> x]]
Done(p) == half' = [half EXCEPT ![p] = None]

\* mps_shdict_lookup
Find(p, k) ==
    /\ Ready(p) /\ Accepted(k)
    /\ UNCHANGED <<vars, tree>>
    /\ \/ /\ Entry(k) = Null
          /\ answer' = <<{k}, {}>>
          /\ UNCHANGED <<queue, half>>
       \/ /\ Entry(k) # Null
          /\ answer' = <<{k}, {Entry(k)}>>
          /\ queue' = QueueRemove(queue, Entry(k))
          /\ Then(p, "thread", Entry(k))

\* mps_shdict_peek
Peek(p, k) ==
    /\ Ready(p) /\ Accepted(k)
    /\ answer' = <<{k}, {Entry(k)} \ {Null}>>
    /\ UNCHANGED <<vars, tree, queue, half>>

\* The loop of mps_shdict_flush_all
PeekAll(p) ==
    /\ Ready(p)
    /\ answer' = <<Key, ToSet(Threaded)>>
    /\ UNCHANGED <<vars, tree, queue, half>>

\* The end of a store, incr or push whose lookup found nothing.
Insert(p, k) ==
    /\ Ready(p) /\ Accepted(k) /\ Entry(k) = Null
    /\ tree' = RbInsert(WithNode(tree, k, Hash[k], StoredName(k)), k)
    /\ queue' = WithLinks(queue, k)
    /\ Then(p, "thread", k)
    /\ UNCHANGED <<vars, answer>>

\* mps_queue_insert_head, for the entry inserted or found.
Thread(p) ==
    /\ pc[p] = "inside" /\ half[p] # None /\ half[p].do = "thread"
    /\ queue' = QueueInsertHead(queue, LruHead, half[p].entry)
    /\ Done(p)
    /\ UNCHANGED <<vars, tree, answer>>

\* Mistake: the tree loses the entry first.
DropTreeFirst(p) ==
    /\ Ready(p) /\ ~QueueEmpty(queue, LruHead)
    /\ \E x \in {QueueHead(queue, LruHead), QueueLast(queue, LruHead)} :
         /\ tree' = WithoutNode(RbDelete(tree, x), x)
         /\ Then(p, "unthread", x)
    /\ UNCHANGED <<vars, queue, answer>>

\* The removal of the entry just found, at the head, or of the last one.
Drop(p) ==
    /\ Ready(p) /\ ~QueueEmpty(queue, LruHead)
    /\ \E x \in {QueueHead(queue, LruHead), QueueLast(queue, LruHead)} :
         /\ queue' = QueueRemove(queue, x)
         /\ Then(p, "unplant", x)
    /\ UNCHANGED <<vars, tree, answer>>

\* mps_rbtree_delete, after which the entry is freed.
Unplant(p) ==
    /\ pc[p] = "inside" /\ half[p] # None /\ half[p].do = "unplant"
    /\ tree' = WithoutNode(RbDelete(tree, half[p].entry), half[p].entry)
    /\ queue' = WithoutLinks(queue, half[p].entry)
    /\ Done(p)
    /\ UNCHANGED <<vars, answer>>

Section(p) ==
    \/ \E k \in Key : Find(p, k) \/ Peek(p, k) \/ Insert(p, k)
    \/ PeekAll(p) \/ Drop(p) \/ Thread(p) \/ Unplant(p)

Locking(p) ==
    \/ (Call(p) \/ Lock(p)) /\ UNCHANGED indexVars
    \/ half[p] = None /\ Unlock(p) /\ UNCHANGED indexVars
    \/ Die(p) /\ Done(p) /\ UNCHANGED <<tree, queue, answer>>

-----------------------------------------------------------------------------

SharedInit ==
    /\ Init
    /\ tree = RbInit("LUADICT") /\ queue = QueueInit(LruHead)
    /\ answer = <<{}, {}>> /\ half = [p \in Proc |-> None]

SharedNext == \E p \in Proc : Section(p) \/ Locking(p)

SharedSpec == SharedInit /\ [][SharedNext]_sharedVars

\* A free mutex is given to one of those that wait, in no order in particular.
SharedFairSpec == SharedSpec /\ WF_sharedVars(\E p \in Proc : Lock(p) /\ UNCHANGED indexVars)

-----------------------------------------------------------------------------
(* Properties *)

\* The entry in the hands of a process that has changed one of two.
Held(do) == {half[p].entry : p \in {r \in Proc : half[r] # None /\ half[r].do = do}}

\* The keys in the order of their last use; an operation counts as done from
\* its first half on.
Used == IF Held("thread") = {} THEN Threaded
        ELSE Cons(CHOOSE x \in Held("thread") : TRUE, Threaded)

Abstract == INSTANCE LruIndex WITH lru <- Used

\* Until a process dies inside, the links of tree and queue are a set of keys
\* in the order of their last use: searches find exactly the keys that are
\* there, also those of equal hash, and a walk meets every entry once.
ImplementsLruIndex ==
    /\ Abstract!Init
    /\ [][harmed' \/ Abstract!Next]_<<Used, answer>>

\* At any moment, and so after a death between two changes of the links, the
\* tree is a search tree, the queue a ring, and all but one entry in both; the
\* one is in the tree only, where a removal by LRU order never meets it.
TornByOneEntry ==
    /\ IsTree(tree) /\ IsBalanced(tree)
    /\ Represents(queue, LruHead, Threaded)
    /\ ToSet(Threaded) \subseteq Linked(tree)
    /\ Cardinality(Linked(tree) \ ToSet(Threaded)) <= 1
=============================================================================
