------------------------------ MODULE SlabOpen ------------------------------
(***************************************************************************)
(* How processes come to share a pool: mps_slab_open_or_create.            *)
(*                                                                         *)
(* A process opens the file; if that fails for want of it, or of           *)
(* permission, it tries to create it; if another process was faster, it    *)
(* sleeps for 10 ms and opens it again, once.  The creator keeps the file  *)
(* read-only for others until the pool is initialised: the permission is   *)
(* the signal the others wait for.  A privileged process does not see it.  *)
(*                                                                         *)
(* Each system call is a step, so that processes interleave, fail and die  *)
(* between any two of them.  How long 10 ms are is left open.              *)
(***************************************************************************)
EXTENDS Naturals

CONSTANTS
    Proc,
    Privileged,     \* processes that may open any file for writing
    File,           \* files the path can name, one after the other
    Fails,          \* a system call may fail
    Dies,           \* a process may die
    None            \* no file

ASSUME OpenAssumption ==
    /\ Privileged \subseteq Proc
    /\ Fails \in BOOLEAN /\ Dies \in BOOLEAN
    /\ None \notin File

VARIABLES
    path,       \* the file the path names, or None
    file,       \* per file: may others write it, and how far it is made
    pc,         \* the next call of each process, or the result
    uses        \* the file each process has open or mapped, or None

vars == <<path, file, pc, uses>>

\* What the creator makes of a file, in this order: of its full size, with
\* the allocator's structures, with those of the dictionary.
Rank == [none |-> 0, empty |-> 1, sized |-> 2, slab |-> 3, dict |-> 4]
Stage == DOMAIN Rank

Creating == {"truncate", "mmap", "init", "on_init", "fchmod"}
Result == {"ready", "failed"}
Label == {"idle", "open", "create", "sleep", "reopen", "close"} \cup Creating \cup Result

-----------------------------------------------------------------------------

Goto(p, label) == pc' = [pc EXCEPT ![p] = label]

\* The call fails: whatever has been made of the file stays as it is.  (So does
\* the mapping of a creator whose initialisation or last close fails; nothing
\* refers to it any more, and it is left out.)
Fail(p) ==
    /\ Fails
    /\ Goto(p, "failed")
    /\ uses' = [uses EXCEPT ![p] = None]
    /\ UNCHANGED <<path, file>>

Start(p) == pc[p] = "idle" /\ Goto(p, "open") /\ UNCHANGED <<path, file, uses>>

MayWrite(p) == path # None /\ (file[path].open \/ p \in Privileged)

\* mps_slab_open maps the file as it is.
MapFile(p) ==
    /\ MayWrite(p)
    /\ uses' = [uses EXCEPT ![p] = path]
    /\ Goto(p, "ready")
    /\ UNCHANGED <<path, file>>

\* The first attempt: ENOENT and EACCES lead on.
Open(p) ==
    /\ pc[p] = "open"
    /\ \/ MapFile(p)
       \/ ~MayWrite(p) /\ Goto(p, "create") /\ UNCHANGED <<path, file, uses>>
       \/ Fail(p)

MadeBy(p, f, open) ==
    /\ path' = f
    /\ file' = [file EXCEPT ![f] = [open |-> open, stage |-> "empty"]]
    /\ uses' = [uses EXCEPT ![p] = f]
    /\ Goto(p, "truncate")

\* Mistakes: no O_EXCL; the file has its final mode from the start.
CreateOver(p) ==
    /\ pc[p] = "create"
    /\ \E f \in File :
          /\ f = path \/ (path = None /\ file[f].stage = "none")
          /\ MadeBy(p, f, FALSE)

CreateWritable(p) ==
    /\ pc[p] = "create"
    /\ \/ path # None /\ Goto(p, "sleep") /\ UNCHANGED <<path, file, uses>>
       \/ path = None /\ \E f \in File : file[f].stage = "none" /\ MadeBy(p, f, TRUE)
       \/ Fail(p)

\* mps_slab_create: O_CREAT and O_EXCL with mode S_IRUSR; EEXIST leads on.
Create(p) ==
    /\ pc[p] = "create"
    /\ \/ path # None /\ Goto(p, "sleep") /\ UNCHANGED <<path, file, uses>>
       \/ path = None /\ \E f \in File : file[f].stage = "none" /\ MadeBy(p, f, FALSE)
       \/ Fail(p)

\* A call of the creator that brings its file to the next stage.
Make(p, label, stage, next) ==
    /\ pc[p] = label
    /\ \/ /\ file' = [file EXCEPT ![uses[p]].stage = stage]
          /\ Goto(p, next)
          /\ UNCHANGED <<path, uses>>
       \/ Fail(p)

Truncate(p) == Make(p, "truncate", "sized", "mmap")

Mmap(p) ==
    /\ pc[p] = "mmap"
    /\ \/ Goto(p, "init") /\ UNCHANGED <<path, file, uses>>
       \/ Fail(p)

SlabInit(p) == Make(p, "init", "slab", "on_init")

OnInit(p) == Make(p, "on_init", "dict", "fchmod")

Fchmod(p) ==
    /\ pc[p] = "fchmod"
    /\ \/ /\ file' = [file EXCEPT ![uses[p]].open = TRUE]
          /\ Goto(p, "close")
          /\ UNCHANGED <<path, uses>>
       \/ Fail(p)

\* The descriptor is closed; an error makes the creation one that failed.
CloseFd(p) ==
    /\ pc[p] = "close"
    /\ \/ Goto(p, "ready") /\ UNCHANGED <<path, file, uses>>
       \/ Fail(p)

Sleep(p) ==
    /\ pc[p] = "sleep"
    /\ \/ Goto(p, "reopen") /\ UNCHANGED <<path, file, uses>>
       \/ Fail(p)

\* Mistake: the second attempt is repeated until it succeeds.
ReopenForever(p) ==
    /\ pc[p] = "reopen"
    /\ \/ MapFile(p)
       \/ ~MayWrite(p) /\ Goto(p, "sleep") /\ UNCHANGED <<path, file, uses>>
       \/ Fail(p)

\* The second attempt: the creator has had its time.
Reopen(p) ==
    /\ pc[p] = "reopen"
    /\ \/ MapFile(p)
       \/ ~MayWrite(p) /\ Goto(p, "failed") /\ UNCHANGED <<path, file, uses>>
       \/ Fail(p)

\* mps_slab_open_or_create
Step(p) ==
    \/ Open(p) \/ Create(p) \/ Truncate(p) \/ Mmap(p) \/ SlabInit(p) \/ OnInit(p)
    \/ Fchmod(p) \/ CloseFd(p) \/ Sleep(p) \/ Reopen(p)

\* mps_slab_close, or a caller that tries again after a failure.
Leave(p) ==
    /\ pc[p] \in Result
    /\ Goto(p, "idle")
    /\ uses' = [uses EXCEPT ![p] = None]
    /\ UNCHANGED <<path, file>>

\* A process dies inside the function, and another one comes for it.
Die(p) ==
    /\ Dies /\ pc[p] \notin Result \cup {"idle"}
    /\ Goto(p, "idle")
    /\ uses' = [uses EXCEPT ![p] = None]
    /\ UNCHANGED <<path, file>>

\* Someone removes the file; bound: while there is another one to create.
Unlink ==
    /\ path # None /\ \E f \in File : file[f].stage = "none"
    /\ path' = None
    /\ UNCHANGED <<file, pc, uses>>

Init ==
    /\ path = None
    /\ file = [f \in File |-> [open |-> FALSE, stage |-> "none"]]
    /\ pc = [p \in Proc |-> "idle"]
    /\ uses = [p \in Proc |-> None]

Next ==
    \/ \E p \in Proc : Start(p) \/ Step(p) \/ Leave(p) \/ Die(p)
    \/ Unlink

Spec == Init /\ [][Next]_vars

\* A process inside the function goes on, or dies.
FairSpec == Spec /\ \A p \in Proc : WF_vars(Step(p))

-----------------------------------------------------------------------------

TypeOK ==
    /\ path \in File \cup {None}
    /\ file \in [File -> [open : BOOLEAN, stage : Stage]]
    /\ pc \in [Proc -> Label]
    /\ uses \in [Proc -> File \cup {None}]

\* What an unprivileged process gets is a pool with a dictionary in it, made
\* to the end: it cannot get in between the calls of the creator.
ReadyIsWhole ==
    \A p \in Proc \ Privileged : pc[p] = "ready" => file[uses[p]].stage = "dict"

\* No two processes make the same file, and a file is made once: no step takes
\* back what has been made of it, under the processes that use it.
MadeOnce ==
    [][\A f \in File : Rank[file[f].stage] <= Rank[file'[f].stage]]_vars

\* A creator that stopped half way leaves a file that no one else completes or
\* opens up: until it is removed, no unprivileged process gets it.
HalfMadeStaysShut ==
    [][\A f \in File :
         (/\ file[f].stage # "none" /\ ~file[f].open
          /\ \A p \in Proc : pc[p] \in Creating => uses[p] # f)
         => /\ ~file'[f].open
            /\ \A p \in Proc \ Privileged : uses'[p] = f => uses[p] = f]_vars

\* Every call returns, also when the creator it waits for never finishes.
EveryCallReturns ==
    \A p \in Proc : pc[p] \notin Result \cup {"idle"} ~> pc[p] \in Result \cup {"idle"}
=============================================================================
