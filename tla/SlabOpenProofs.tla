--------------------------- MODULE SlabOpenProofs ---------------------------
(***************************************************************************)
(* SlabOpen, for any processes and files: an unprivileged process gets a   *)
(* pool that is made to the end, a file is made once, and one that was     *)
(* left half made stays shut.                                              *)
(*                                                                         *)
(* The permission of the file does it, together with O_EXCL: each file has *)
(* at most one creator, what it has made so far can be told from the call  *)
(* it is at, and the file is opened to others after the last of them.      *)
(***************************************************************************)
EXTENDS SlabOpen, TLAPS

\* The stage of the file at each call of its creator, and after.
StageAt ==
    [truncate |-> "empty", mmap |-> "sized", init |-> "sized", on_init |-> "slab",
     fchmod |-> "dict", close |-> "dict"]

AtStage == \A p \in Proc : pc[p] \in DOMAIN StageAt => file[uses[p]].stage = StageAt[pc[p]]

UsesFile ==
    /\ \A p \in Proc : pc[p] \in DOMAIN StageAt \cup {"ready"} => uses[p] \in File
    /\ \A p \in Proc : uses[p] \in File => file[uses[p]].stage # "none"

PathMade == path \in File => file[path].stage # "none"

CreatorsApart ==
    \A p, q \in Proc : pc[p] \in Creating /\ pc[q] \in Creating /\ uses[p] = uses[q] => p = q

OpenIsWhole == \A f \in File : file[f].open => file[f].stage = "dict"

OpenInv ==
    /\ TypeOK /\ AtStage /\ UsesFile /\ PathMade /\ CreatorsApart
    /\ OpenIsWhole /\ ReadyIsWhole

\* At the start there is no file and nobody has called.
LEMMA OpenInit == Init => OpenInv
BY OpenAssumption DEF Init, OpenInv, TypeOK, Stage, Rank, Label, Creating, Result, AtStage,
   StageAt, UsesFile, PathMade, CreatorsApart, OpenIsWhole, ReadyIsWhole

\* Every call of every process keeps the invariant, and so do deaths and the
\* removal of the file.
LEMMA OpenStep == OpenInv /\ [Next]_vars => OpenInv'
<1> SUFFICES ASSUME OpenInv, [Next]_vars PROVE OpenInv'
  OBVIOUS
<1> USE OpenAssumption
    DEF OpenInv, TypeOK, Stage, Rank, Label, Creating, Result, AtStage, StageAt, UsesFile,
        PathMade, CreatorsApart, OpenIsWhole, ReadyIsWhole, Goto
\* Where no file changes, only the new place of p and what it uses count.
<1>a. ASSUME NEW p \in Proc, NEW l \in Label \ (Creating \cup {"close", "ready"}),
             Goto(p, l), uses' = uses \/ uses' = [uses EXCEPT ![p] = None],
             UNCHANGED <<path, file>>
      PROVE  OpenInv'
  BY <1>a
<1>f. ASSUME NEW p \in Proc, Fail(p) PROVE OpenInv'
  BY <1>f, <1>a DEF Fail
<1>m. ASSUME NEW p \in Proc, MapFile(p) PROVE OpenInv'
  BY <1>m DEF MapFile, MayWrite
<1>1. ASSUME NEW p \in Proc, Start(p) PROVE OpenInv'
  BY <1>1, <1>a DEF Start
<1>2. ASSUME NEW p \in Proc, Open(p) PROVE OpenInv'
  BY <1>2, <1>a, <1>f, <1>m DEF Open
<1>3. ASSUME NEW p \in Proc, Create(p) PROVE OpenInv'
  <2>1. ASSUME NEW f \in File, file[f].stage = "none", MadeBy(p, f, FALSE) PROVE OpenInv'
    BY <2>1 DEF MadeBy
  <2> QED
    BY <1>3, <1>a, <1>f, <2>1 DEF Create
\* A creator brings the file it alone is making to the next stage.
<1>s. ASSUME NEW p \in Proc, NEW l \in Creating, pc[p] \in Creating, Goto(p, l),
             file[uses[p]].stage # "dict",
             file' = [file EXCEPT ![uses[p]].stage = StageAt[l]],
             UNCHANGED <<path, uses>>
      PROVE  OpenInv'
  <2>1. uses[p] \in File /\ ~file[uses[p]].open
    BY <1>s
  <2>2. StageAt[l] \in Stage \ {"none"}
    OBVIOUS
  <2>3. TypeOK'
    BY <1>s, <2>1, <2>2
  <2>4. \A f \in File : f # uses[p] => file'[f] = file[f]
    BY <1>s
  <2>5. file'[uses[p]].stage = StageAt[l] /\ ~file'[uses[p]].open
    BY <1>s, <2>1
  <2>6. AtStage'
    BY <1>s, <2>1, <2>4, <2>5
  <2>7. UsesFile' /\ PathMade'
    BY <1>s, <2>1, <2>2, <2>4, <2>5
  <2>8. CreatorsApart'
    BY <1>s
  <2>9. OpenIsWhole' /\ ReadyIsWhole'
    BY <1>s, <2>1, <2>4, <2>5
  <2> QED
    BY <2>3, <2>6, <2>7, <2>8, <2>9
<1>4. ASSUME NEW p \in Proc, Truncate(p) PROVE OpenInv'
  BY <1>4, <1>f, <1>s DEF Truncate, Make
<1>5. ASSUME NEW p \in Proc, Mmap(p) PROVE OpenInv'
  BY <1>5, <1>f DEF Mmap
<1>6. ASSUME NEW p \in Proc, SlabInit(p) PROVE OpenInv'
  BY <1>6, <1>f, <1>s DEF SlabInit, Make
<1>7. ASSUME NEW p \in Proc, OnInit(p) PROVE OpenInv'
  BY <1>7, <1>f, <1>s DEF OnInit, Make
<1>8. ASSUME NEW p \in Proc, Fchmod(p) PROVE OpenInv'
  <2>1. CASE Fail(p)
    BY <2>1, <1>f
  <2>2. CASE /\ file' = [file EXCEPT ![uses[p]].open = TRUE]
             /\ Goto(p, "close")
             /\ UNCHANGED <<path, uses>>
    <3>1. pc[p] = "fchmod" /\ uses[p] \in File /\ file[uses[p]].stage = "dict"
      BY <1>8 DEF Fchmod
    <3>2. TypeOK'
      <4>1. file' \in [File -> [open : BOOLEAN, stage : Stage]]
        <5> HIDE DEF Stage
        <5>1. file[uses[p]] \in [open : BOOLEAN, stage : Stage]
          BY <3>1
        <5>2. [file[uses[p]] EXCEPT !.open = TRUE] \in [open : BOOLEAN, stage : Stage]
          BY <5>1
        <5> QED
          BY <2>2, <3>1, <5>2
      <4>2. pc' \in [Proc -> Label]
        BY <2>2
      <4> QED
        BY <2>2, <4>1, <4>2
    <3>3. \A f \in File : file'[f].stage = file[f].stage
      BY <2>2, <3>1
    <3>4. \A f \in File : file'[f].open => file[f].open \/ f = uses[p]
      BY <2>2, <3>1
    <3>5. AtStage' /\ UsesFile' /\ PathMade'
      BY <2>2, <3>1, <3>3
    <3>6. CreatorsApart'
      BY <2>2
    <3>7. OpenIsWhole' /\ ReadyIsWhole'
      BY <2>2, <3>1, <3>3, <3>4
    <3> QED
      BY <3>2, <3>5, <3>6, <3>7
  <2> QED
    BY <1>8, <2>1, <2>2 DEF Fchmod
<1>9. ASSUME NEW p \in Proc, CloseFd(p) PROVE OpenInv'
  <2>1. CASE Fail(p)
    BY <2>1, <1>f
  <2>2. CASE Goto(p, "ready") /\ UNCHANGED <<path, file, uses>>
    \* The file is whole, and nothing else depends on where p is.
    <3>1. pc[p] = "close" /\ uses[p] \in File /\ file[uses[p]].stage = "dict"
      BY <1>9 DEF CloseFd
    <3>2. TypeOK' /\ PathMade' /\ OpenIsWhole'
      BY <2>2
    <3>3. AtStage' /\ UsesFile' /\ CreatorsApart'
      BY <2>2, <3>1
    <3>4. ReadyIsWhole'
      BY <2>2, <3>1
    <3> QED
      BY <3>2, <3>3, <3>4
  <2> QED
    BY <1>9, <2>1, <2>2 DEF CloseFd
<1>10. ASSUME NEW p \in Proc, Sleep(p) PROVE OpenInv'
  BY <1>10, <1>a, <1>f DEF Sleep
<1>11. ASSUME NEW p \in Proc, Reopen(p) PROVE OpenInv'
  BY <1>11, <1>a, <1>f, <1>m DEF Reopen
<1>12. ASSUME NEW p \in Proc, Leave(p) \/ Die(p) PROVE OpenInv'
  BY <1>12, <1>a DEF Leave, Die
<1>13. CASE Unlink
  BY <1>13 DEF Unlink
<1>14. CASE UNCHANGED vars
  BY <1>14 DEF vars
<1> QED
  BY <1>1, <1>2, <1>3, <1>4, <1>5, <1>6, <1>7, <1>8, <1>9, <1>10, <1>11, <1>12, <1>13, <1>14
  DEF Next, Step

LEMMA OpenInvariance == Spec => []OpenInv
BY OpenInit, OpenStep, PTL DEF Spec

\* An unprivileged process whose mps_slab_open_or_create succeeds has a pool
\* with a dictionary in it.
THEOREM WholeWhenReady == Spec => []ReadyIsWhole
<1>1. OpenInv => ReadyIsWhole
  BY DEF OpenInv
<1> QED
  BY OpenInvariance, <1>1, PTL

\* What has been made of a file is never taken back by another creator.
THEOREM FileMadeOnce == Spec => MadeOnce
<1>1. OpenInv /\ [Next]_vars =>
        [\A f \in File : Rank[file[f].stage] <= Rank[file'[f].stage]]_vars
  <2> SUFFICES ASSUME OpenInv, [Next]_vars, NEW f \in File
               PROVE  Rank[file[f].stage] <= Rank[file'[f].stage]
    OBVIOUS
  <2> USE OpenAssumption DEF OpenInv, TypeOK, Stage, Rank
  <2>1. CASE file' = file
    BY <2>1
  <2>2. ASSUME NEW p \in Proc, Create(p) PROVE Rank[file[f].stage] <= Rank[file'[f].stage]
    BY <2>2 DEF Create, MadeBy, Fail
  <2>3. ASSUME NEW p \in Proc, Truncate(p) \/ SlabInit(p) \/ OnInit(p) \/ Fchmod(p)
        PROVE  Rank[file[f].stage] <= Rank[file'[f].stage]
    BY <2>3 DEF Truncate, SlabInit, OnInit, Fchmod, Make, Fail, AtStage, StageAt, UsesFile
  <2> QED
    BY <2>1, <2>2, <2>3 DEF Next, Step, Start, Open, MapFile, Fail, Mmap, CloseFd, Sleep, Reopen,
       Leave, Die, Unlink, vars
<1> QED
  BY OpenInvariance, <1>1, PTL DEF MadeOnce, Spec

\* A file whose creator has failed or died half way is opened up by no one, and
\* no unprivileged process gets it.
THEOREM HalfMadeShut == Spec => HalfMadeStaysShut
<1> DEFINE Shut(f) ==
        (/\ file[f].stage # "none" /\ ~file[f].open
         /\ \A p \in Proc : pc[p] \in Creating => uses[p] # f)
        => /\ ~file'[f].open
           /\ \A p \in Proc \ Privileged : uses'[p] = f => uses[p] = f
<1>1. OpenInv /\ [Next]_vars => [\A f \in File : Shut(f)]_vars
  <2> SUFFICES ASSUME OpenInv, [Next]_vars, NEW f \in File,
                      file[f].stage # "none", ~file[f].open,
                      \A p \in Proc : pc[p] \in Creating => uses[p] # f
               PROVE  /\ ~file'[f].open
                      /\ \A p \in Proc \ Privileged : uses'[p] = f => uses[p] = f
    OBVIOUS
  <2> USE OpenAssumption DEF OpenInv, TypeOK, Creating
  <2> DEFINE Goal == /\ ~file'[f].open
                     /\ \A p \in Proc \ Privileged : uses'[p] = f => uses[p] = f
  <2>1. ASSUME NEW p \in Proc, Open(p) \/ Reopen(p) PROVE Goal
    BY <2>1 DEF Open, Reopen, MapFile, MayWrite, Fail
  <2>2. ASSUME NEW p \in Proc, Create(p) PROVE Goal
    BY <2>2 DEF Create, MadeBy, Fail
  <2>3. ASSUME NEW p \in Proc, Truncate(p) \/ SlabInit(p) \/ OnInit(p) \/ Fchmod(p) PROVE Goal
    BY <2>3 DEF Truncate, SlabInit, OnInit, Fchmod, Make, Fail
  <2>4. ASSUME NEW p \in Proc,
               Start(p) \/ Mmap(p) \/ CloseFd(p) \/ Sleep(p) \/ Leave(p) \/ Die(p)
        PROVE  Goal
    BY <2>4 DEF Start, Mmap, CloseFd, Sleep, Leave, Die, Fail
  <2>5. CASE Unlink \/ UNCHANGED vars
    BY <2>5 DEF Unlink, vars
  <2> QED
    BY <2>1, <2>2, <2>3, <2>4, <2>5 DEF Next, Step
<1> QED
  BY OpenInvariance, <1>1, PTL DEF HalfMadeStaysShut, Spec
=============================================================================
