---------------------------- MODULE DictRegistry ----------------------------
(***************************************************************************)
(* The dictionaries a process has open: the array "dicts" of mps_shdict.c, *)
(* which open_or_create and close reallocate under the lock dicts_lock.    *)
(*                                                                         *)
(* The handle a caller gets is a pointer to an element of the array, here  *)
(* [base, index].  It names whatever lies there when it is used: nothing   *)
(* tells the callers when realloc moves the array, or when close puts the  *)
(* last element in the place of the closed one.                            *)
(***************************************************************************)
EXTENDS Naturals, Sequences, SequencesExt, FiniteSets

CONSTANTS
    Name,           \* pathnames
    Client,         \* callers in the process, each with one handle at a time
    Address,        \* where malloc puts the array and mmap the pools
    Fails,          \* opening the pool, strdup and realloc may fail
    ShrinkFails,    \* and so may the realloc to a smaller size
    None            \* no array, no handle, no mapping

ASSUME RegistryAssumption ==
    /\ Fails \in BOOLEAN /\ ShrinkFails \in BOOLEAN
    /\ None \notin Name \cup Address

VARIABLES
    dicts,      \* the array: a sequence of [name, pool]
    base,       \* its address
    mapped,     \* for each address, the file that is mapped there, or None
    handle      \* what each client holds: [base, index, name, open], or None

vars == <<dicts, base, mapped, handle>>

Dict == [name : Name, pool : Address]

Handle == [base : Address, index : Nat \ {0}, name : Name, open : BOOLEAN]

\* The array may be moved, or stay where it is.
Reallocated == base' \in Address

\* Mistake: the name is not looked for.
FoundNever(name) == {}

\* find_dict_by_pathname
Found(name) == {i \in DOMAIN dicts : dicts[i].name = name}

\* index_of_dict: 0 for a pointer that is to no element.
IndexOf(h) == IF h.base = base /\ h.index \in DOMAIN dicts THEN h.index ELSE 0

IsOpen(c) == handle[c] # None /\ handle[c].open

Hold(c, i, name, b) ==
    handle' = [handle EXCEPT ![c] = [base |-> b, index |-> i, name |-> name, open |-> TRUE]]

-----------------------------------------------------------------------------

\* mps_shdict_open_or_create of a name that is open.
OpenAgain(c, name) ==
    /\ Found(name) # {}
    /\ Hold(c, CHOOSE i \in Found(name) : \A j \in Found(name) : i <= j, name, base)
    /\ UNCHANGED <<dicts, base, mapped>>

\* Mistake: the new element is put first.
GrownAtFront(name, a) == <<[name |-> name, pool |-> a]>> \o dicts

Grown(name, a) == Append(dicts, [name |-> name, pool |-> a])

\* mps_slab_open_or_create maps the file, the array grows by one element.
\* Bound, which matters only where ShrinkFails: the array has at most as many
\* elements as there are addresses.
OpenNew(c, name) ==
    /\ Found(name) = {} /\ Len(dicts) < Cardinality(Address)
    /\ \E a \in {x \in Address : mapped[x] = None} :
         /\ mapped' = [mapped EXCEPT ![a] = name]
         /\ dicts' = Grown(name, a)
    /\ Reallocated
    /\ Hold(c, Len(dicts) + 1, name, base')

\* The pool cannot be opened.
OpenFails(name) == Fails /\ Found(name) = {} /\ UNCHANGED vars

\* strdup or realloc fails, when the file has been mapped: it stays mapped.
OpenLeaks(name) ==
    /\ Fails /\ Found(name) = {}
    /\ \E a \in {x \in Address : mapped[x] = None} : mapped' = [mapped EXCEPT ![a] = name]
    /\ UNCHANGED <<dicts, base, handle>>

Open(c, name) ==
    /\ ~IsOpen(c)
    /\ OpenAgain(c, name) \/ OpenNew(c, name) \/ OpenFails(name) \/ OpenLeaks(name)

Released(h) == [h EXCEPT !.open = FALSE]

\* Mistake: the pool stays mapped.
UnmappedNot(i) == mapped

Unmapped(i) == [mapped EXCEPT ![dicts[i].pool] = None]

\* mps_shdict_close, by a client that holds a handle, closed already or not.
Close(c) ==
    LET h == handle[c]
        i == IndexOf(h)
        filled == [dicts EXCEPT ![i] = Last(dicts)]
    IN /\ h # None
       /\ handle' = [handle EXCEPT ![c] = Released(h)]
       /\ \/ i = 0 /\ UNCHANGED <<dicts, base, mapped>>
          \/ /\ i # 0
             /\ mapped' = Unmapped(i)
             /\ \/ Len(dicts) = 1 /\ dicts' = <<>> /\ base' = None
                \/ Len(dicts) > 1 /\ dicts' = Front(filled) /\ Reallocated
                \/ /\ Len(dicts) > 1 /\ ShrinkFails
                   /\ dicts' = filled /\ UNCHANGED base

Init ==
    /\ dicts = <<>>
    /\ base = None
    /\ mapped = [a \in Address |-> None]
    /\ handle = [c \in Client |-> None]

Next == \E c \in Client : Close(c) \/ \E name \in Name : Open(c, name)

Spec == Init /\ [][Next]_vars

-----------------------------------------------------------------------------
(* Properties *)

TypeOK ==
    /\ dicts \in Seq(Dict)
    /\ base \in Address \cup {None} /\ (base = None <=> dicts = <<>>)
    /\ mapped \in [Address -> Name \cup {None}]
    /\ handle \in [Client -> Handle \cup {None}]

\* The process has no dictionary open twice, and what is registered under a
\* name is a mapping of that file: open_or_create hands out no pool that close
\* has unmapped.
RegistryExact ==
    /\ \A i, j \in DOMAIN dicts : dicts[i].name = dicts[j].name => i = j
    /\ \A i \in DOMAIN dicts : mapped[dicts[i].pool] = dicts[i].name

Unreachable == {a \in Address : mapped[a] # None /\ \A i \in DOMAIN dicts : dicts[i].pool # a}

\* A mapping that no element refers to was left by an open_or_create that
\* returned NULL; close leaves none.
LeaksReported == [][Unreachable' \subseteq Unreachable \/ handle' = handle]_vars

\* A handle names the dictionary it was got for.
Right(h) == IndexOf(h) # 0 /\ dicts[IndexOf(h)].name = h.name

\* The handle of a client that neither opens nor closes stays right as long as
\* the array stays where it is and no one closes a dictionary.
HandleLostOnlyByMove ==
    [][\A c \in Client :
         (/\ handle[c] # None /\ handle'[c] = handle[c]
          /\ Right(handle[c]) /\ ~Right(handle[c])')
         => base' # base \/ Len(dicts') < Len(dicts)]_vars

-----------------------------------------------------------------------------
(* What a test of the repository says and the code does not do *)

\* test_open_multi: "It is OK to close twice."
CloseTwiceHarmless == [][handle' = handle => dicts' = dicts]_vars
=============================================================================
