--------------------------- MODULE WorkspaceProofs ---------------------------
(***************************************************************************)
(* Proofs about Workspace: its type invariant, that segments run on whole   *)
(* workspaces as long as none is lost, that a claimed one is kept, that a   *)
(* close leaves nothing, and that segments work where they were asked to.   *)
(*                                                                         *)
(* The argument: a path under the root of the execution is recorded when    *)
(* the copy is complete, and from then on every step that removes a part of *)
(* it either comes from a close, or ends the execution for its client. A    *)
(* close waits for the run it finds; what it does not find makes it stray.  *)
(***************************************************************************)
EXTENDS Workspace, TLAPS

-----------------------------------------------------------------------------
(* Types. row and work are records of their fields, whatever the            *)
(* configurations in them.                                                 *)

RowTyped ==
  /\ row.status \in {"none", "pending", "running", "awaiting", "completed", "failed"}
  /\ row.path \in Dirs
  /\ row.closing \in BOOLEAN
  /\ row.closed \in BOOLEAN
  /\ row = [status |-> row.status, config |-> row.config, path |-> row.path,
            closing |-> row.closing, closed |-> row.closed]

WorkTyped ==
  /\ work.stage \in {"idle", "failing"} \cup Asking \cup Working
  /\ work.dir \in Dirs
  /\ work.got \in SUBSET Parts
  /\ work = [stage |-> work.stage, dir |-> work.dir, got |-> work.got,
             config |-> work.config]

DiskTyped ==
  /\ made \in BOOLEAN
  /\ tree \in SUBSET Parts
  /\ runtime \in BOOLEAN

RestTyped ==
  /\ req \in Requests
  /\ offers \in SUBSET Parts
  /\ caller \in BOOLEAN
  /\ opened \in {"no", "opening", "yes", "failed", "over"}
  /\ claim \in BOOLEAN
  /\ refused \in BOOLEAN
  /\ lost \in BOOLEAN
  /\ stray \in BOOLEAN

Shape == RowTyped /\ WorkTyped /\ DiskTyped /\ RestTyped

\* What a failing segment leaves of the disk.
LEMMA FailFacts ==
  Fail \/ TooLarge
    => /\ made' \in BOOLEAN /\ tree' \in SUBSET Parts
       /\ Remains(made', tree')
       /\ FailWith(made', tree')
  BY DEF Fail, TooLarge, FailWith

\* What a failing step leaves of it that is not a clean-up.
LEMMA FailKeeps ==
  Fail => Cleans \/ (made' = made /\ tree' = tree)
  BY DEF Fail, FailWith

\* Every step keeps the types.
LEMMA ShapeInductive ==
  /\ Init => Shape
  /\ Shape /\ [Next]_vars => Shape'
<1>1. ASSUME Init
      PROVE  Shape
  <2> USE <1>1 DEF Init
  <2>1. RowTyped
    BY DEF RowTyped, Dirs
  <2>2. WorkTyped
    BY DEF WorkTyped, Idle, Dirs, Asking, Working
  <2>3. DiskTyped
    BY DEF DiskTyped
  <2>4. offers \in SUBSET Parts
    BY DEF Parts
  <2>5. /\ caller \in BOOLEAN /\ claim \in BOOLEAN
        /\ refused \in BOOLEAN /\ lost \in BOOLEAN /\ stray \in BOOLEAN
    OBVIOUS
  <2>6. RestTyped
    BY <2>4, <2>5 DEF RestTyped
  <2> QED
    BY <2>1, <2>2, <2>3, <2>6 DEF Shape
<1>2. ASSUME Shape, [Next]_vars
      PROVE  Shape'
  <2> USE <1>2 DEF Shape, setting, disk, history, RowTyped, WorkTyped, DiskTyped, RestTyped,
     Dirs, Idle, Asking, Working
  <2>1. CASE Initiate
    BY <2>1 DEF Initiate
  <2>2. CASE AguiRun
    <3> USE <2>2 DEF AguiRun
    <3>1. RowTyped'
      OBVIOUS
    <3>2. WorkTyped'
      OBVIOUS
    <3>3. DiskTyped'
      OBVIOUS
    <3>4. RestTyped'
      OBVIOUS
    <3> QED
      BY <3>1, <3>2, <3>3, <3>4
  <2>3. CASE StartSegment
    <3> USE <2>3 DEF StartSegment
    <3>1. RowTyped'
      OBVIOUS
    <3>2. WorkTyped'
      OBVIOUS
    <3>3. DiskTyped'
      OBVIOUS
    <3>4. RestTyped'
      OBVIOUS
    <3> QED
      BY <3>1, <3>2, <3>3, <3>4
  <2>4. CASE CleanupInitiate
    <3> USE <2>4 DEF CleanupInitiate, RemoveRoot, Remains
    <3>1. RowTyped'
      OBVIOUS
    <3>2. WorkTyped'
      OBVIOUS
    <3>3. DiskTyped'
      OBVIOUS
    <3>4. RestTyped'
      OBVIOUS
    <3> QED
      BY <3>1, <3>2, <3>3, <3>4
  <2>5. CASE Reuse
    <3> USE <2>5 DEF Reuse
    <3>1. RowTyped'
      OBVIOUS
    <3>2. WorkTyped'
      OBVIOUS
    <3>3. DiskTyped'
      OBVIOUS
    <3>4. RestTyped'
      OBVIOUS
    <3> QED
      BY <3>1, <3>2, <3>3, <3>4
  <2>6. CASE InPlaceMissing
    BY <2>6, FailFacts, FailKeeps DEF InPlaceMissing, FailWith, Remains, Cleans
  <2>7. CASE RunBare
    BY <2>7 DEF RunBare
  <2>8. CASE Refuse
    BY <2>8, FailFacts, FailKeeps DEF Refuse, FailWith, Remains, Cleans
  <2>9. CASE BindInPlace
    <3> USE <2>9 DEF BindInPlace
    <3>1. RowTyped'
      OBVIOUS
    <3>2. WorkTyped'
      OBVIOUS
    <3>3. DiskTyped'
      OBVIOUS
    <3>4. RestTyped'
      OBVIOUS
    <3> QED
      BY <3>1, <3>2, <3>3, <3>4
  <2>10. CASE CannotStart
    BY <2>10, FailFacts, FailKeeps DEF CannotStart, FailWith, Remains, Cleans
  <2>11. CASE StartFetch
    BY <2>11 DEF StartFetch, MakeDirectory, RecordNothing
  <2>12. CASE Fetch
    <3> USE <2>12 DEF Fetch, MakeDirectory
    <3>1. RowTyped'
      OBVIOUS
    <3>2. WorkTyped'
      <4>1. PICK part \in offers : work' = [work EXCEPT !.got = @ \cup {part}]
        OBVIOUS
      <4>2. work.got \cup {part} \in SUBSET Parts
        BY <4>1
      <4>3. work' = [stage |-> work.stage, dir |-> work.dir, got |-> work.got \cup {part},
                     config |-> work.config]
        BY <4>1
      <4> QED
        BY <4>2, <4>3
    <3>3. DiskTyped'
      <4>1. PICK part \in offers : tree' = tree \cup {part}
        OBVIOUS
      <4> QED
        BY <4>1
    <3>4. RestTyped'
      OBVIOUS
    <3> QED
      BY <3>1, <3>2, <3>3, <3>4
  <2>13. CASE FetchFails
    BY <2>13, FailFacts, FailKeeps DEF FetchFails, FailWith, Remains, Cleans
  <2>14. CASE TooLarge
    BY <2>14, FailFacts, FailKeeps DEF TooLarge, FailWith, Remains, Cleans
  <2>15. CASE Fetched
    <3> USE <2>15 DEF Fetched
    <3>1. RowTyped'
      OBVIOUS
    <3>2. WorkTyped'
      OBVIOUS
    <3>3. DiskTyped'
      OBVIOUS
    <3>4. RestTyped'
      OBVIOUS
    <3> QED
      BY <3>1, <3>2, <3>3, <3>4
  <2>16. CASE SelectFails
    BY <2>16, FailFacts, FailKeeps DEF SelectFails, FailWith, Remains, Cleans
  <2>17. CASE Select
    <3> USE <2>17 DEF Select
    <3>1. RowTyped'
      <4>1. Selected \in Dirs
        BY DEF Selected, Within
      <4>2. /\ row'.status = row.status /\ row'.path = Selected
            /\ row'.closing = row.closing /\ row'.closed = row.closed
            /\ row' = [status |-> row'.status, config |-> row'.config, path |-> row'.path,
                       closing |-> row'.closing, closed |-> row'.closed]
        OBVIOUS
      <4> QED
        BY <4>1, <4>2
    <3>2. WorkTyped'
      <4>1. Selected \in Dirs
        BY DEF Selected, Within
      <4>2. CASE Opening /\ Rest
        BY <4>2
      <4>3. CASE ~ (Opening /\ Rest)
        <5>1. work' = [stage |-> "running", dir |-> Selected, got |-> work.got,
                       config |-> work.config]
          BY <4>3
        <5> QED
          BY <4>1, <5>1
      <4> QED
        BY <4>2, <4>3
    <3>3. DiskTyped'
      OBVIOUS
    <3>4. RestTyped'
      OBVIOUS
    <3> QED
      BY <3>1, <3>2, <3>3, <3>4
  <2>18. CASE WriteRuntime
    BY <2>18 DEF WriteRuntime
  <2>19. CASE Settle
    <3> USE <2>19 DEF Settle
    <3>1. RowTyped'
      OBVIOUS
    <3>2. WorkTyped'
      OBVIOUS
    <3>3. DiskTyped'
      OBVIOUS
    <3>4. RestTyped'
      OBVIOUS
    <3> QED
      BY <3>1, <3>2, <3>3, <3>4
  <2>20. CASE Cancelled
    BY <2>20, FailFacts, FailKeeps DEF Cancelled, FailWith, Remains, Cleans
  <2>21. CASE Crash
    BY <2>21 DEF Crash
  <2>22. CASE Reap
    <3> USE <2>22 DEF Reap
    <3>1. RowTyped'
      OBVIOUS
    <3>2. WorkTyped'
      OBVIOUS
    <3>3. DiskTyped'
      OBVIOUS
    <3>4. RestTyped'
      OBVIOUS
    <3> QED
      BY <3>1, <3>2, <3>3, <3>4
  <2>23. CASE RequestClose
    <3> USE <2>23 DEF RequestClose
    <3>1. RowTyped'
      OBVIOUS
    <3>2. WorkTyped'
      OBVIOUS
    <3>3. DiskTyped'
      OBVIOUS
    <3>4. RestTyped'
      OBVIOUS
    <3> QED
      BY <3>1, <3>2, <3>3, <3>4
  <2>24. CASE Finalize
    <3> USE <2>24 DEF Finalize
    <3>1. RowTyped'
      <4>1. PICK exists \in BOOLEAN, keeps \in BOOLEAN :
              row' = [row EXCEPT !.closed = Cleaned(exists, keeps),
                                 !.status = IF @ = "completed" \/ ~ Listed THEN @ ELSE "failed"]
        OBVIOUS
      <4>2. Cleaned(exists, keeps) \in BOOLEAN
        BY DEF Cleaned
      <4>3. row' = [status |-> IF row.status = "completed" \/ ~ Listed
                                 THEN row.status ELSE "failed",
                    config |-> row.config, path |-> row.path,
                    closing |-> row.closing, closed |-> Cleaned(exists, keeps)]
        BY <4>1
      <4> QED
        BY <4>2, <4>3
    <3>2. WorkTyped'
      OBVIOUS
    <3>3. DiskTyped'
      <4>1. PICK exists \in BOOLEAN, keeps \in BOOLEAN, parts \in SUBSET Parts :
              made' = exists /\ tree' = parts /\ runtime' = keeps
        OBVIOUS
      <4> QED
        BY <4>1
    <3>4. RestTyped'
      OBVIOUS
    <3> QED
      BY <3>1, <3>2, <3>3, <3>4
  <2>25. CASE CloseAgain
    <3> USE <2>25 DEF CloseAgain
    <3>1. RowTyped'
      OBVIOUS
    <3>2. WorkTyped'
      OBVIOUS
    <3>3. DiskTyped'
      <4>1. PICK exists \in BOOLEAN, keeps \in BOOLEAN, parts \in SUBSET Parts :
              made' = exists /\ tree' = parts /\ runtime' = keeps
        OBVIOUS
      <4> QED
        BY <4>1
    <3>4. RestTyped'
      OBVIOUS
    <3> QED
      BY <3>1, <3>2, <3>3, <3>4
  <2>26. CASE LoseSandbox
    <3> USE <2>26 DEF LoseSandbox
    <3>1. RowTyped'
      OBVIOUS
    <3>2. WorkTyped'
      OBVIOUS
    <3>3. DiskTyped'
      OBVIOUS
    <3>4. RestTyped'
      OBVIOUS
    <3> QED
      BY <3>1, <3>2, <3>3, <3>4
  <2>27. CASE MoveFolder
    BY <2>27 DEF MoveFolder
  <2>28. CASE UNCHANGED vars
    BY <2>28 DEF vars
  <2>29. CASE CheckRun
    <3> USE <2>29 DEF CheckRun
    <3>1. RowTyped'
      OBVIOUS
    <3>2. WorkTyped'
      OBVIOUS
    <3>3. DiskTyped'
      OBVIOUS
    <3>4. RestTyped'
      OBVIOUS
    <3> QED
      BY <3>1, <3>2, <3>3, <3>4
  <2>30. CASE EnsureRuntime
    <3> USE <2>30 DEF EnsureRuntime
    <3>1. RowTyped'
      OBVIOUS
    <3>2. WorkTyped'
      OBVIOUS
    <3>3. DiskTyped'
      OBVIOUS
    <3>4. RestTyped'
      OBVIOUS
    <3> QED
      BY <3>1, <3>2, <3>3, <3>4
  <2>31. CASE CreateExecution
    <3> USE <2>31 DEF CreateExecution
    <3>1. RowTyped'
      OBVIOUS
    <3>2. WorkTyped'
      OBVIOUS
    <3>3. DiskTyped'
      OBVIOUS
    <3>4. RestTyped'
      OBVIOUS
    <3> QED
      BY <3>1, <3>2, <3>3, <3>4
  <2>32. CASE CheckSegment
    <3> USE <2>32 DEF CheckSegment
    <3>1. RowTyped'
      OBVIOUS
    <3>2. WorkTyped'
      OBVIOUS
    <3>3. DiskTyped'
      OBVIOUS
    <3>4. RestTyped'
      OBVIOUS
    <3> QED
      BY <3>1, <3>2, <3>3, <3>4
  <2>33. CASE TurnedAway
    <3> USE <2>33 DEF TurnedAway
    <3>1. RowTyped'
      OBVIOUS
    <3>2. WorkTyped'
      OBVIOUS
    <3>3. DiskTyped'
      OBVIOUS
    <3>4. RestTyped'
      OBVIOUS
    <3> QED
      BY <3>1, <3>2, <3>3, <3>4
  <2>34. CASE WriteFile
    <3> USE <2>34 DEF WriteFile
    <3>1. RowTyped'
      OBVIOUS
    <3>2. WorkTyped'
      OBVIOUS
    <3>3. DiskTyped'
      OBVIOUS
    <3>4. RestTyped'
      OBVIOUS
    <3> QED
      BY <3>1, <3>2, <3>3, <3>4
  <2> QED
    BY <2>1, <2>2, <2>3, <2>4, <2>5, <2>6, <2>7, <2>8, <2>9, <2>10, <2>11, <2>12, <2>13,
       <2>14, <2>15, <2>16, <2>17, <2>18, <2>19, <2>20, <2>21, <2>22, <2>23, <2>24, <2>25,
       <2>26, <2>27, <2>28, <2>29, <2>30, <2>31, <2>32, <2>33, <2>34
    DEF Next, Provision
<1> QED
  BY <1>1, <1>2

-----------------------------------------------------------------------------
(* The inductive invariant.                                                *)

Owned == {"root", "root/sub"}

\* Nothing is under way for an execution that was not opened yet, is over, or was
\* closed when nothing was.
NothingRuns ==
  /\ opened \in {"no", "over"} => work = Idle
  /\ opened = "no" => row.path = "none" /\ ~ row.closing
  /\ row.closed => row.closing
  /\ row.closed /\ ~ stray => work = Idle

\* An initiate claims nothing, and no close can name its execution.
RunningHeld ==
  /\ Rest /\ Opening => ~ row.closing
  /\ work.stage = "failing" => Rest /\ Opening
  /\ work.stage = "running" /\ Opening => ~ Rest
  /\ work.stage = "checked" /\ Opening => ~ Rest
  /\ work.stage \in {"ensured", "created"} => Opening /\ ~ Rest
  /\ work.stage = "idle" => work = Idle

\* What was copied so far is there, and all of it when the copy is complete.
Copying ==
  /\ tree # {} => made
  /\ work.stage \in Asking \cup {"preparing"} => work.dir = "none" /\ work.got = {}
  /\ work.stage = "fetching" => stray \/ (made /\ work.got \subseteq tree)
  /\ work.stage = "fetched" /\ work.dir \in Owned => stray \/ (made /\ offers \subseteq tree)
  /\ work.stage = "fetched" => work.dir \in {"root", "caller"}

\* No path is recorded before.
NotRecorded ==
  /\ Opening /\ work.stage \in Asking \cup {"preparing"} => row.path \notin Owned
  /\ work.stage \in {"fetching", "fetched", "failing"} => row.path \notin Owned

\* A recorded path names a whole workspace, until the close removes it.
Recorded ==
  opened # "over" /\ row.path \in Owned /\ (~ row.closing \/ work # Idle)
    => /\ made
       /\ offers \subseteq tree
       /\ row.path = "root/sub" => "sub" \in tree

\* A segment works where the row says, or nowhere.
WorksThere == work.stage = "running" => work.dir \in {"none", row.path}

IInv ==
  /\ Shape
  /\ NothingRuns
  /\ RunningHeld
  /\ Copying
  /\ lost \/ stray \/ NotRecorded
  /\ lost \/ stray \/ Recorded
  /\ WorksThere

\* What the presence of a recorded path tells of the disk.
LEMMA ExistsOwned ==
  /\ row.path = "root" => (Exists(row.path) <=> made)
  /\ row.path = "root/sub" => (Exists(row.path) <=> "sub" \in tree)
  BY DEF Exists

\* Every step keeps the invariant.
LEMMA Inductive ==
  /\ Init => IInv
  /\ IInv /\ [Next]_vars => IInv'
<1>1. Init => IInv
  BY ShapeInductive DEF Init, IInv, NothingRuns, RunningHeld, Copying, NotRecorded,
     Recorded, WorksThere, Idle, Opening, Rest, Owned, Asking
<1>2. ASSUME IInv, [Next]_vars
      PROVE  IInv'
  <2>0. Shape'
    BY <1>2, ShapeInductive DEF IInv
  <2> USE <1>2, <2>0, ExistsOwned DEF IInv, setting, disk, history, Idle, Opening, Rest, Owned,
        Asking, Working, NothingRuns, RunningHeld, Copying, NotRecorded, Recorded, WorksThere,
        Shape, RowTyped, WorkTyped, DiskTyped, RestTyped
  <2>1. CASE Initiate
    BY <2>1 DEF Initiate
  <2>2. CASE AguiRun
    BY <2>2 DEF AguiRun
  <2>3. CASE StartSegment
    BY <2>3 DEF StartSegment
  <2>4. CASE CleanupInitiate
    BY <2>4 DEF CleanupInitiate, RemoveRoot, Remains
  <2>5. CASE Reuse
    BY <2>5 DEF Reuse, Preparing
  <2>6. CASE InPlaceMissing
    BY <2>6, FailFacts, FailKeeps DEF InPlaceMissing, FailWith, Remains, Cleans, Preparing
  <2>7. CASE RunBare
    <3> USE <2>7 DEF RunBare, Preparing
    <3>1. NothingRuns'
      OBVIOUS
    <3>2. RunningHeld'
      BY RequestsResolve DEF Resolves
    <3>3. Copying'
      OBVIOUS
    <3>4. (lost \/ stray \/ NotRecorded)'
      OBVIOUS
    <3>5. (lost \/ stray \/ Recorded)'
      OBVIOUS
    <3>6. WorksThere'
      OBVIOUS
    <3> QED
      BY <3>1, <3>2, <3>3, <3>4, <3>5, <3>6
  <2>8. CASE Refuse
    <3> USE <2>8, FailFacts, FailKeeps DEF Refuse, FailWith, Remains, Cleans, Preparing
    <3>1. NothingRuns'
      OBVIOUS
    <3>2. RunningHeld'
      OBVIOUS
    <3>3. Copying'
      OBVIOUS
    <3>4. (lost \/ stray \/ NotRecorded)'
      OBVIOUS
    <3>5. (lost \/ stray \/ Recorded)'
      OBVIOUS
    <3>6. WorksThere'
      OBVIOUS
    <3> QED
      BY <3>1, <3>2, <3>3, <3>4, <3>5, <3>6
  <2>9. CASE BindInPlace
    <3> USE <2>9 DEF BindInPlace, Preparing, Provisions
    <3>1. NothingRuns'
      OBVIOUS
    <3>2. RunningHeld'
      OBVIOUS
    <3>3. Copying'
      OBVIOUS
    <3>4. (lost \/ stray \/ NotRecorded)'
      OBVIOUS
    <3>5. (lost \/ stray \/ Recorded)'
      OBVIOUS
    <3>6. WorksThere'
      OBVIOUS
    <3> QED
      BY <3>1, <3>2, <3>3, <3>4, <3>5, <3>6
  <2>10. CASE CannotStart
    <3> USE <2>10, FailFacts, FailKeeps DEF CannotStart, FailWith, Remains, Cleans, Preparing, Provisions
    <3>1. NothingRuns'
      OBVIOUS
    <3>2. RunningHeld'
      OBVIOUS
    <3>3. Copying'
      OBVIOUS
    <3>4. (lost \/ stray \/ NotRecorded)'
      OBVIOUS
    <3>5. (lost \/ stray \/ Recorded)'
      OBVIOUS
    <3>6. WorksThere'
      OBVIOUS
    <3> QED
      BY <3>1, <3>2, <3>3, <3>4, <3>5, <3>6
  <2>11. CASE StartFetch
    <3> USE <2>11 DEF StartFetch, MakeDirectory, Preparing, Provisions, RecordNothing
    <3>1. NothingRuns'
      OBVIOUS
    <3>2. RunningHeld'
      OBVIOUS
    <3>3. Copying'
      OBVIOUS
    <3>4. (lost \/ stray \/ NotRecorded)'
      <4>1. work # Idle
        OBVIOUS
      <4>2. CASE Opening
        BY <4>2 DEF RecordNothing
      <4>3. CASE ~ lost /\ ~ stray /\ ~ Opening
        <5>1. ~ Exists(row.path) /\ opened # "over"
          BY <4>1, <4>3
        <5>2. row.path \notin Owned
          BY <4>1, <4>3, <5>1, ExistsOwned
        <5>3. work'.stage = "fetching" /\ row' = row
          OBVIOUS
        <5> QED
          BY <5>2, <5>3
      <4> QED
        BY <4>2, <4>3
    <3>5. (lost \/ stray \/ Recorded)'
      OBVIOUS
    <3>6. WorksThere'
      OBVIOUS
    <3> QED
      BY <3>1, <3>2, <3>3, <3>4, <3>5, <3>6
  <2>12. CASE Fetch
    BY <2>12 DEF Fetch, MakeDirectory
  <2>13. CASE FetchFails
    BY <2>13, FailFacts, FailKeeps DEF FetchFails, FailWith, Remains, Cleans
  <2>14. CASE TooLarge
    BY <2>14, FailFacts, FailKeeps DEF TooLarge, FailWith, Remains, Cleans
  <2>15. CASE Fetched
    BY <2>15 DEF Fetched
  <2>16. CASE SelectFails
    <3> USE <2>16, FailFacts, FailKeeps DEF SelectFails, FailWith, Remains, Cleans
    <3>1. NothingRuns'
      OBVIOUS
    <3>2. RunningHeld'
      OBVIOUS
    <3>3. Copying'
      OBVIOUS
    <3>4. (lost \/ stray \/ NotRecorded)'
      OBVIOUS
    <3>5. (lost \/ stray \/ Recorded)'
      OBVIOUS
    <3>6. WorksThere'
      OBVIOUS
    <3> QED
      BY <3>1, <3>2, <3>3, <3>4, <3>5, <3>6
  <2>17. CASE Select
    <3> USE <2>17 DEF Select
    <3>1. /\ row'.path = Selected
          /\ row'.closing = row.closing /\ row'.closed = row.closed
      OBVIOUS
    <3>2. work # Idle /\ opened \notin {"no", "over"} /\ (row.closed => stray)
      OBVIOUS
    <3>3. stray \/ (Selected \in Owned =>
                      /\ made /\ offers \subseteq tree
                      /\ Selected = "root/sub" => "sub" \in tree)
      <4>1. work.dir = "root" \/ Selected \in {"caller", "caller/sub"}
        BY DEF Selected, Within
      <4>2. Selected = "root/sub" => "sub" \in tree
        BY DEF Exists
      <4> QED
        BY <4>1, <4>2
    <3>6. stray' \/ (row'.path \in Owned =>
                       /\ made' /\ offers' \subseteq tree'
                       /\ row'.path = "root/sub" => "sub" \in tree')
      BY <3>1, <3>3
    <3>4. CASE Opening /\ Rest
      <4>1. work' = Idle /\ opened' = "yes"
        BY <3>4
      <4>2. NothingRuns' /\ RunningHeld'
        BY <3>1, <3>2, <4>1, <3>4
      <4>3. Copying' /\ WorksThere' /\ NotRecorded'
        BY <4>1
      <4>4. stray' \/ Recorded'
        BY <3>6
      <4> QED
        BY <4>2, <4>3, <4>4
    <3>5. CASE ~ (Opening /\ Rest)
      <4>0. work' = [stage |-> "running", dir |-> Selected, got |-> work.got,
                     config |-> work.config]
        BY <3>5
      <4>1. /\ work'.stage = "running" /\ work'.dir = Selected
            /\ work' # Idle
            /\ opened' = opened
        BY <3>5, <4>0
      <4>3. NothingRuns' /\ RunningHeld'
        BY <3>1, <3>2, <4>1, <3>5
      <4>4. Copying' /\ WorksThere' /\ NotRecorded'
        BY <3>1, <4>1
      <4>5. stray' \/ Recorded'
        BY <3>6
      <4> QED
        BY <4>3, <4>4, <4>5
    <3> QED
      BY <3>4, <3>5
  <2>18. CASE WriteRuntime
    BY <2>18 DEF WriteRuntime
  <2>19. CASE Settle
    BY <2>19 DEF Settle
  <2>20. CASE Cancelled
    BY <2>20, FailFacts, FailKeeps DEF Cancelled, FailWith, Remains, Cleans
  <2>21. CASE Crash
    BY <2>21 DEF Crash
  <2>22. CASE Reap
    BY <2>22 DEF Reap
  <2>23. CASE RequestClose
    BY <2>23 DEF RequestClose
  <2>24. CASE Finalize
    <3> USE <2>24 DEF Finalize, MayFinalize
    <3>1. NothingRuns'
      <4>1. work = Idle \/ stray'
        OBVIOUS
      <4>2. row'.path = row.path /\ row'.closing = row.closing /\ opened # "no"
        OBVIOUS
      <4> QED
        BY <4>1, <4>2
    <3>2. RunningHeld'
      OBVIOUS
    <3>3. Copying'
      <4>1. work = Idle \/ stray'
        OBVIOUS
      <4>2. tree' # {} => made'
        BY DEF Leaves, Remains
      <4> QED
        BY <4>1, <4>2
    <3>4. (lost \/ stray \/ NotRecorded)'
      OBVIOUS
    <3>5. (lost \/ stray \/ Recorded)'
      OBVIOUS
    <3>6. WorksThere'
      OBVIOUS
    <3> QED
      BY <3>1, <3>2, <3>3, <3>4, <3>5, <3>6
  <2>25. CASE CloseAgain
    <3> USE <2>25 DEF CloseAgain
    <3>1. NothingRuns'
      OBVIOUS
    <3>2. RunningHeld'
      OBVIOUS
    <3>3. Copying'
      <4>1. work = Idle \/ stray'
        OBVIOUS
      <4>2. tree' # {} => made'
        BY DEF Leaves, Remains
      <4> QED
        BY <4>1, <4>2
    <3>4. (lost \/ stray \/ NotRecorded)'
      OBVIOUS
    <3>5. (lost \/ stray \/ Recorded)'
      OBVIOUS
    <3>6. WorksThere'
      OBVIOUS
    <3> QED
      BY <3>1, <3>2, <3>3, <3>4, <3>5, <3>6
  <2>26. CASE LoseSandbox
    BY <2>26 DEF LoseSandbox
  <2>27. CASE MoveFolder
    BY <2>27 DEF MoveFolder
  <2>28. CASE UNCHANGED vars
    BY <2>0, <2>28 DEF vars
  <2>29. CASE CheckRun
    <3> USE <2>29 DEF CheckRun
    <3>1. NothingRuns'
      OBVIOUS
    <3>2. RunningHeld'
      OBVIOUS
    <3>3. Copying'
      OBVIOUS
    <3>4. (lost \/ stray \/ NotRecorded)'
      OBVIOUS
    <3>5. (lost \/ stray \/ Recorded)'
      OBVIOUS
    <3>6. WorksThere'
      OBVIOUS
    <3> QED
      BY <3>1, <3>2, <3>3, <3>4, <3>5, <3>6
  <2>30. CASE EnsureRuntime
    <3> USE <2>30 DEF EnsureRuntime
    <3>1. NothingRuns'
      OBVIOUS
    <3>2. RunningHeld'
      OBVIOUS
    <3>3. Copying'
      OBVIOUS
    <3>4. (lost \/ stray \/ NotRecorded)'
      OBVIOUS
    <3>5. (lost \/ stray \/ Recorded)'
      OBVIOUS
    <3>6. WorksThere'
      OBVIOUS
    <3> QED
      BY <3>1, <3>2, <3>3, <3>4, <3>5, <3>6
  <2>31. CASE CreateExecution
    <3> USE <2>31 DEF CreateExecution
    <3>1. NothingRuns'
      OBVIOUS
    <3>2. RunningHeld'
      OBVIOUS
    <3>3. Copying'
      OBVIOUS
    <3>4. (lost \/ stray \/ NotRecorded)'
      OBVIOUS
    <3>5. (lost \/ stray \/ Recorded)'
      OBVIOUS
    <3>6. WorksThere'
      OBVIOUS
    <3> QED
      BY <3>1, <3>2, <3>3, <3>4, <3>5, <3>6
  <2>32. CASE CheckSegment
    <3> USE <2>32 DEF CheckSegment
    <3>1. NothingRuns'
      OBVIOUS
    <3>2. RunningHeld'
      OBVIOUS
    <3>3. Copying'
      OBVIOUS
    <3>4. (lost \/ stray \/ NotRecorded)'
      OBVIOUS
    <3>5. (lost \/ stray \/ Recorded)'
      OBVIOUS
    <3>6. WorksThere'
      OBVIOUS
    <3> QED
      BY <3>1, <3>2, <3>3, <3>4, <3>5, <3>6
  <2>33. CASE TurnedAway
    <3> USE <2>33 DEF TurnedAway
    <3>1. NothingRuns'
      OBVIOUS
    <3>2. RunningHeld'
      OBVIOUS
    <3>3. Copying'
      OBVIOUS
    <3>4. (lost \/ stray \/ NotRecorded)'
      OBVIOUS
    <3>5. (lost \/ stray \/ Recorded)'
      OBVIOUS
    <3>6. WorksThere'
      OBVIOUS
    <3> QED
      BY <3>1, <3>2, <3>3, <3>4, <3>5, <3>6
  <2>34. CASE WriteFile
    <3> USE <2>34 DEF WriteFile
    <3>1. NothingRuns'
      OBVIOUS
    <3>2. RunningHeld'
      OBVIOUS
    <3>3. Copying'
      OBVIOUS
    <3>4. (lost \/ stray \/ NotRecorded)'
      OBVIOUS
    <3>5. (lost \/ stray \/ Recorded)'
      OBVIOUS
    <3>6. WorksThere'
      OBVIOUS
    <3> QED
      BY <3>1, <3>2, <3>3, <3>4, <3>5, <3>6
  <2> QED
    BY <2>1, <2>2, <2>3, <2>4, <2>5, <2>6, <2>7, <2>8, <2>9, <2>10, <2>11, <2>12, <2>13,
       <2>14, <2>15, <2>16, <2>17, <2>18, <2>19, <2>20, <2>21, <2>22, <2>23, <2>24, <2>25,
       <2>26, <2>27, <2>28, <2>29, <2>30, <2>31, <2>32, <2>33, <2>34
    DEF Next, Provision
<1> QED
  BY <1>1, <1>2

\* So it always holds.
LEMMA Invariant == Spec => []IInv
  BY Inductive, PTL DEF Spec

-----------------------------------------------------------------------------
(* The theorems.                                                           *)

\* Every state is well typed, and a part that is on the disk is in a directory.
THEOREM TypeCorrect == Spec => []TypeOK
<1>1. IInv => TypeOK
  BY DEF IInv, Shape, RowTyped, WorkTyped, DiskTyped, RestTyped, Copying, TypeOK
<1> QED
  BY <1>1, Invariant, PTL

\* For any requests, in place or not: as long as the sandbox is not lost, no
\* segment works on a part of its input, whatever failed, was cancelled or
\* crashed while it was provisioned.
THEOREM SegmentsRunOnWhole == Spec => []WholeUnlessLost
<1>1. IInv => WholeUnlessLost
  BY DEF IInv, NothingRuns, Recorded, WorksThere, Owned, Idle, WholeUnlessLost, RunsOnWhole
<1> QED
  BY <1>1, Invariant, PTL

\* No step removes anything of a workspace under the active run of its execution,
\* except a step of that run and the repeated close of a closed session, which an
\* execute that was checked before the close may meet.
THEOREM ClaimedIsKept == Spec => ClaimedKept
<1>1. ASSUME IInv, [Next]_vars, claim, work # Idle,
             ~ ((made => made') /\ tree \subseteq tree')
      PROVE  work' # work \/ row.closed
  <2> USE <1>1
  <2>1. ASSUME Fail \/ TooLarge, work.stage # "failing"
        PROVE  work' # work
    <3>1. work'.stage \in {"failing", "idle"} /\ (work'.stage = "idle" => work' = Idle)
      BY <2>1, FailFacts DEF FailWith, Idle
    <3> QED
      BY <2>1, <3>1
  <2>2. CASE FetchFails \/ CleanupInitiate \/ TooLarge
    BY <2>1, <2>2 DEF FetchFails, CleanupInitiate, TooLarge, FailWith, Idle
  <2>3. CASE Finalize \/ CloseAgain
    BY <2>3 DEF Finalize, MayFinalize, CloseAgain
  <2>4. ~ (LoseSandbox \/ StartFetch \/ WriteFile \/ Fetch)
    BY DEF LoseSandbox, StartFetch, MakeDirectory, WriteFile, Fetch
  <2>a. ~ UNCHANGED disk
    <3> SUFFICES ASSUME UNCHANGED disk PROVE FALSE
      OBVIOUS
    <3>1. made' = made /\ tree' = tree
      BY DEF disk
    <3> QED
      BY <3>1
  <2>5. ~ (Initiate \/ CheckRun \/ EnsureRuntime \/ CreateExecution \/ AguiRun
           \/ CheckSegment \/ StartSegment \/ TurnedAway)
    BY <2>a, Zenon DEF Initiate, CheckRun, EnsureRuntime, CreateExecution, AguiRun,
           CheckSegment, StartSegment, TurnedAway, disk
  <2>6. ~ (WriteRuntime \/ Settle \/ Crash \/ Reap \/ RequestClose \/ MoveFolder
           \/ UNCHANGED vars)
    BY <2>a, Zenon DEF WriteRuntime, Settle, Crash, Reap, RequestClose, MoveFolder, vars, disk
  <2>7. ~ (Reuse \/ RunBare \/ BindInPlace \/ Fetched \/ Select)
    BY <2>a, Zenon DEF Reuse, RunBare, BindInPlace, Fetched, Select, disk
  <2>8. CASE InPlaceMissing \/ Refuse \/ CannotStart \/ SelectFails \/ Cancelled
    <3>1. work.stage # "failing" /\ Fail
      BY <2>8 DEF InPlaceMissing, Refuse, CannotStart, SelectFails, Cancelled, Preparing,
                  Provisions, Working
    <3> QED
      BY <2>1, <3>1
  <2> QED
    BY <2>1, <2>2, <2>3, <2>4, <2>5, <2>6, <2>7, <2>8 DEF Next, Provision
<1>2. IInv /\ [Next]_vars
        => [claim /\ work # Idle /\ ~ ((made => made') /\ tree \subseteq tree')
              => work' # work \/ row.closed]_vars
  BY <1>1
<1> QED
  BY <1>2, Invariant, PTL DEF Spec, ClaimedKept

-----------------------------------------------------------------------------
(* A close leaves nothing. What is in place is never copied, and what is    *)
(* copied is marked neither in the configuration nor by its path.           *)

\* A request that binds in place names a local path: what the type of an input
\* says of its location is true of the location.
LocalInPlace ==
  \A r \in Requests : ProvisionInPlace(ResolvedBinding(r), ResolvedWritable(r))
                      => ResolvedBinding(r).uri = "local_path"

Mine == {"caller", "caller/sub"}

RowInPlace == ProvisionInPlace(row.config.input, row.config.writable)

Active == work.stage \in Working

\* An AG-UI run with a legacy folder, which has no source to prepare from.
Legacy == ~ Rest /\ ~ New(req) /\ ~ Bare(req)

\* The row says in place only of a binding that is, and has the caller's path only
\* then.
Marked ==
  /\ row.config = [input |-> row.config.input, mode |-> row.config.mode,
                   writable |-> row.config.writable, inPlace |-> row.config.inPlace]
  /\ row.config.inPlace \/ row.config.writable => RowInPlace
  /\ RowInPlace => row.config.input # NoBinding
  /\ row.path \in Mine => RowInPlace \/ Legacy

\* Where the configuration of what runs comes from.
Configured ==
  /\ opened = "no" \/ (Rest /\ opened \in {"opening", "failed"}) => row.config = NoConfig
  /\ work.stage = "created" => row.config = RequestConfig(req)
  /\ Opening /\ Active => work.config = RequestConfig(req) /\ (~ Rest => row.config = work.config)
  /\ ~ Opening /\ Active =>
       work.config = SegmentConfig(row.config, IF Rest THEN Source(req) ELSE "none")

\* What is in place is not made.
Unmade ==
  /\ opened = "no" => ~ made
  /\ Opening /\ work.stage \in Asking => ~ made
  /\ RowInPlace \/ Legacy => ~ made
  /\ Opening /\ Active /\ InPlace => ~ made
  /\ work.stage = "fetching" => ~ InPlace /\ ~ RowInPlace
  /\ Active /\ work.dir \in Owned => ~ InPlace /\ ~ RowInPlace
  /\ Legacy => /\ opened \in {"no", "opening", "over"}
               /\ work.stage \in {"idle", "preparing"} \cup Asking
  /\ Active /\ work.dir \in Mine => InPlace

Clean == ClosedClean /\ Marked /\ Configured /\ Unmade

\* The configuration of a request, and what a segment makes of a row's.
LEMMA ConfigFacts ==
  ASSUME LocalInPlace, NEW r \in Requests
  PROVE  /\ RequestConfig(r) = [input |-> RequestConfig(r).input, mode |-> RequestConfig(r).mode,
                                writable |-> RequestConfig(r).writable,
                                inPlace |-> RequestConfig(r).inPlace]
         /\ RequestConfig(r).inPlace \/ RequestConfig(r).writable =>
              ProvisionInPlace(RequestConfig(r).input, RequestConfig(r).writable)
         /\ ProvisionInPlace(RequestConfig(r).input, RequestConfig(r).writable) =>
              Source(r) \in {"none", "local_path"}
         /\ ProvisionInPlace(RequestConfig(r).input, RequestConfig(r).writable) =>
              RequestConfig(r).input # NoBinding
         /\ Source(r) = "none" => r.origin # "orchestrator"
         /\ ~ New(r) /\ ~ Bare(r) /\ r.origin # "orchestrator" => Source(r) = "none"
         /\ ~ ProvisionInPlace(NoConfig.input, NoConfig.writable)
         /\ \A s : ~ ProvisionInPlace(SegmentConfig(NoConfig, s).input,
                                      SegmentConfig(NoConfig, s).writable)
<1>1. r \in Request /\ Resolves(r)
  BY RequestsResolve
<1>2. /\ RequestConfig(r) = [input |-> ResolvedBinding(r), mode |-> ResolvedMode(r),
                             writable |-> ResolvedWritable(r),
                             inPlace |-> ProvisionInPlace(ResolvedBinding(r), ResolvedWritable(r))]
      /\ ResolvedWritable(r) => ProvisionInPlace(ResolvedBinding(r), ResolvedWritable(r))
  BY DEF RequestConfig, Sanitized, ProvisionInPlace
<1>3. ProvisionInPlace(ResolvedBinding(r), ResolvedWritable(r)) =>
        Source(r) \in {"none", "local_path"} /\ ResolvedBinding(r) # NoBinding
  BY DEF LocalInPlace, Source, NoBinding
<1>4. /\ Source(r) = "none" => r.origin # "orchestrator"
      /\ ~ New(r) /\ ~ Bare(r) /\ r.origin # "orchestrator" => Source(r) = "none"
  <2>1. r.origin = "orchestrator" => Source(r) = ResolvedBinding(r).uri /\ ~ Bare(r)
    BY <1>1 DEF Source, Resolves
  <2>2. New(r) => ResolvedBinding(r).uri \in SourceKinds
    BY <1>1 DEF ResolvedBinding, Validated, New, Request, Binding
  <2>3. ~ New(r) /\ ~ Bare(r) => ResolvedBinding(r).uri \in SourceKinds
    BY <1>1 DEF ResolvedBinding, FolderBinding, Bare, Request
  <2>4. r.origin = "orchestrator" => Source(r) \in SourceKinds
    BY <2>1, <2>2, <2>3
  <2>5. "none" \notin SourceKinds
    BY DEF SourceKinds
  <2>6. r.origin # "orchestrator" => r.origin = "agui"
    BY <1>1 DEF Request
  <2> QED
    BY <2>4, <2>5, <2>6 DEF Source
<1>5. /\ ~ ProvisionInPlace(NoConfig.input, NoConfig.writable)
      /\ \A s : ~ ProvisionInPlace(SegmentConfig(NoConfig, s).input,
                                   SegmentConfig(NoConfig, s).writable)
  BY DEF ProvisionInPlace, NoConfig, NoBinding, SegmentConfig, Sanitized, FolderBinding
<1> QED
  BY <1>2, <1>3, <1>4, <1>5

\* A later segment takes a binding for in place only if the row does.
LEMMA SegmentInPlace ==
  ASSUME NEW config, NEW source
  PROVE  /\ ProvisionInPlace(SegmentConfig(config, source).input,
                             SegmentConfig(config, source).writable)
               => ProvisionInPlace(config.input, config.writable)
         /\ config.input # NoBinding => SegmentConfig(config, source) = config
<1> QED
  BY DEF SegmentConfig, Sanitized, ProvisionInPlace, FolderBinding

\* Every step of a service whose in-place bindings are local keeps it.
LEMMA CleanInductive ==
  ASSUME LocalInPlace
  PROVE  /\ Init => Clean
         /\ IInv /\ Clean /\ [Next]_vars => Clean'
<1>1. Init => Clean
  <2> SUFFICES ASSUME Init PROVE Clean
    OBVIOUS
  <2>1. ~ RowInPlace
    BY ConfigFacts DEF Init, RowInPlace
  <2> QED
    BY <2>1 DEF Init, Clean, ClosedClean, Marked, Configured, Unmade, Active, Idle, NoConfig,
                Mine, Owned, Asking, Working
<1>2. ASSUME IInv, Clean, [Next]_vars
      PROVE  Clean'
  <2>0. Shape'
    BY <1>2, ShapeInductive DEF IInv
  <2>00. req \in Requests
    BY <1>2 DEF IInv, Shape, RestTyped
  <2> USE <1>2, <2>0, <2>00 DEF IInv, setting, disk, history, Idle, Opening, Rest, Owned,
        Asking, Working, NothingRuns, RunningHeld, Copying, WorksThere, Mine,
        Shape, RowTyped, WorkTyped, DiskTyped, RestTyped,
        Clean, ClosedClean, Marked, Configured, Unmade, Active, Legacy, RowInPlace, InPlace
  <2>1. CASE Initiate
    <3> USE <2>1 DEF Initiate
    <3>1. /\ work' = [stage |-> "preparing", dir |-> "none", got |-> {}, config |-> RequestConfig(req)]
          /\ row'.config = row.config /\ row'.path = row.path
          /\ opened' = "opening" /\ req' = req
      OBVIOUS
    <3>6. ClosedClean'
      OBVIOUS
    <3>7. Marked'
      BY <3>1
    <3>8. Configured'
      BY <3>1
    <3>9. Unmade'
      BY <3>1, ConfigFacts
    <3> QED
      BY <3>6, <3>7, <3>8, <3>9
  <2>2. CASE AguiRun
    <3> USE <2>2 DEF AguiRun
    <3>1. /\ work' = [stage |-> "preparing", dir |-> "none", got |-> {}, config |-> RequestConfig(req)]
          /\ row' = row /\ opened' = opened /\ opened = "opening" /\ req' = req
      OBVIOUS
    <3>6. ClosedClean'
      OBVIOUS
    <3>7. Marked'
      BY <3>1
    <3>8. Configured'
      BY <3>1
    <3>9. Unmade'
      BY <3>1
    <3> QED
      BY <3>6, <3>7, <3>8, <3>9
  <2>3. CASE StartSegment
    BY <2>3 DEF StartSegment
  <2>4. CASE CleanupInitiate
    BY <2>4 DEF CleanupInitiate, RemoveRoot, Remains
  <2>5. CASE Reuse
    <3> USE <2>5 DEF Reuse, Preparing
    <3>1. /\ work' = [stage |-> "running", dir |-> row.path, got |-> work.got, config |-> work.config]
          /\ row' = row /\ opened' = opened /\ req' = req /\ made' = made
      OBVIOUS
    <3>2. row.path \in Mine => InPlace
      <4>1. work.config = SegmentConfig(row.config, IF Rest THEN Source(req) ELSE "none")
        OBVIOUS
      <4>2. opened \notin {"no", "opening", "over"}
        OBVIOUS
      <4>3. row.path \in Mine => RowInPlace
        BY <4>2
      <4>4. RowInPlace => row.config.input # NoBinding
        OBVIOUS
      <4> QED
        BY <4>1, <4>3, <4>4, SegmentInPlace
    <3>3. row.path \in Owned => ~ InPlace /\ ~ RowInPlace
      <4>1. row.path \in Owned => made
        BY ExistsOwned
      <4>2. work.config = SegmentConfig(row.config, IF Rest THEN Source(req) ELSE "none")
        OBVIOUS
      <4> QED
        BY <4>1, <4>2, SegmentInPlace
    <3>6. ClosedClean'
      OBVIOUS
    <3>7. Marked'
      BY <3>1
    <3>8. Configured'
      BY <3>1
    <3>9. Unmade'
      BY <3>1, <3>2, <3>3
    <3> QED
      BY <3>6, <3>7, <3>8, <3>9
  <2>6. CASE InPlaceMissing
    BY <2>6, FailFacts, FailKeeps DEF InPlaceMissing, FailWith, Remains, Cleans, Preparing
  <2>7. CASE RunBare
    BY <2>7 DEF RunBare, Preparing
  <2>8. CASE Refuse
    BY <2>8, FailFacts, FailKeeps DEF Refuse, FailWith, Remains, Cleans, Preparing
  <2>9. CASE BindInPlace
    <3> USE <2>9 DEF BindInPlace, Preparing, Provisions, Binds
    <3>1. /\ work' = [stage |-> "fetched", dir |-> "caller", got |-> work.got, config |-> work.config]
          /\ row' = row /\ opened' = opened /\ req' = req /\ made' = made
      OBVIOUS
    <3>2. ~ Legacy
      <4>1. CASE Opening
        BY <4>1, ConfigFacts DEF From
      <4>2. CASE ~ Opening
        BY <4>2
      <4> QED
        BY <4>1, <4>2
    <3>6. ClosedClean'
      OBVIOUS
    <3>7. Marked'
      BY <3>1
    <3>8. Configured'
      BY <3>1
    <3>9. Unmade'
      BY <3>1, <3>2
    <3> QED
      BY <3>6, <3>7, <3>8, <3>9
  <2>10. CASE CannotStart
    BY <2>10, FailFacts, FailKeeps DEF CannotStart, FailWith, Remains, Cleans, Preparing, Provisions
  <2>11. CASE StartFetch
    <3> USE <2>11 DEF StartFetch, MakeDirectory, Preparing, Provisions, RecordNothing
    <3>1. /\ work' = [stage |-> "fetching", dir |-> work.dir, got |-> work.got, config |-> work.config]
          /\ row' = row /\ opened' = opened /\ req' = req
      OBVIOUS
    <3>2. ~ InPlace /\ ~ Legacy
      <4>1. CASE Opening
        BY <4>1, ConfigFacts DEF Binds, From
      <4>2. CASE ~ Opening
        BY <4>2
      <4> QED
        BY <4>1, <4>2
    <3>3. ~ RowInPlace
      <4>1. CASE Opening
        BY <3>2, <4>1, ConfigFacts
      <4>2. CASE ~ Opening
        <5>1. work.config = SegmentConfig(row.config, IF Rest THEN Source(req) ELSE "none")
          BY <4>2
        <5> QED
          BY <3>2, <5>1, SegmentInPlace
      <4> QED
        BY <4>1, <4>2
    <3>6. ClosedClean'
      OBVIOUS
    <3>7. Marked'
      BY <3>1
    <3>8. Configured'
      BY <3>1
    <3>9. Unmade'
      BY <3>1, <3>2, <3>3
    <3> QED
      BY <3>6, <3>7, <3>8, <3>9
  <2>12. CASE Fetch
    BY <2>12 DEF Fetch, MakeDirectory
  <2>13. CASE FetchFails
    BY <2>13, FailFacts, FailKeeps DEF FetchFails, FailWith, Remains, Cleans
  <2>14. CASE TooLarge
    BY <2>14, FailFacts, FailKeeps DEF TooLarge, FailWith, Remains, Cleans
  <2>15. CASE Fetched
    BY <2>15 DEF Fetched
  <2>16. CASE SelectFails
    BY <2>16, FailFacts, FailKeeps DEF SelectFails, FailWith, Remains, Cleans
  <2>17. CASE Select
    <3> USE <2>17 DEF Select
    <3>1. /\ row'.path = Selected
          /\ row'.config = IF Opening THEN work.config ELSE row.config
          /\ row'.closed = row.closed /\ req' = req /\ made' = made
      OBVIOUS
    <3>2. Selected \in Mine => work.dir \in Mine
      BY DEF Selected, Within
    <3>3. \/ work' = Idle /\ Opening /\ Rest /\ opened' = "yes"
          \/ /\ work' = [stage |-> "running", dir |-> Selected, got |-> work.got,
                          config |-> work.config]
             /\ opened' = opened /\ ~ (Opening /\ Rest)
      <4>1. CASE Opening /\ Rest
        BY <4>1
      <4>2. CASE ~ (Opening /\ Rest)
        <5>1. work' = [work EXCEPT !.stage = "running", !.dir = Selected] /\ opened' = opened
          BY <4>2
        <5> QED
          BY <4>2, <5>1
      <4> QED
        BY <4>1, <4>2
    <3>4. InPlace => ProvisionInPlace(row'.config.input, row'.config.writable)
      <4>1. CASE Opening
        BY <3>1, <4>1
      <4>2. CASE ~ Opening
        BY <3>1, <4>2, SegmentInPlace
      <4> QED
        BY <4>1, <4>2
    <3>5. ProvisionInPlace(row'.config.input, row'.config.writable) => ~ made
      BY <3>1
    <3>10. Selected \in Owned => ~ InPlace /\ ~ ProvisionInPlace(row'.config.input, row'.config.writable)
      <4>1. Selected \in Owned => work.dir \in Owned
        BY DEF Selected, Within
      <4>2. work.dir \in Owned => ~ InPlace /\ ~ RowInPlace
        OBVIOUS
      <4> QED
        BY <3>1, <4>1, <4>2
    <3>6. ClosedClean'
      BY <3>1
    <3>7. Marked'
      BY <3>1, <3>2, <3>4, ConfigFacts
    <3>8. Configured'
      BY <3>1, <3>3
    <3>9. Unmade'
      BY <3>1, <3>2, <3>3, <3>5, <3>10
    <3> QED
      BY <3>6, <3>7, <3>8, <3>9
  <2>18. CASE WriteRuntime
    BY <2>18 DEF WriteRuntime
  <2>19. CASE Settle
    <3> USE <2>19 DEF Settle
    <3>1. /\ work' = Idle /\ req' = req /\ made' = made
          /\ opened' = opened \/ (~ Rest /\ opened' \in {"yes", "over"})
      OBVIOUS
    <3>2. /\ row'.path = row.path /\ row'.closed = row.closed
          /\ row'.config = [input |-> row.config.input, mode |-> row.config.mode,
                            writable |-> row.config.writable, inPlace |-> row'.config.inPlace]
          /\ row'.config.inPlace = row.config.inPlace
             \/ row'.config.inPlace = (work.dir \in Mine /\ work.dir # "none" /\ ~ Rest /\ Opening)
      OBVIOUS
    <3>6. ClosedClean'
      BY <3>1, <3>2
    <3>7. Marked'
      BY <3>1, <3>2
    <3>8. Configured'
      BY <3>1, <3>2
    <3>9. Unmade'
      BY <3>1, <3>2
    <3> QED
      BY <3>6, <3>7, <3>8, <3>9
  <2>20. CASE Cancelled
    BY <2>20, FailFacts, FailKeeps DEF Cancelled, FailWith, Remains, Cleans
  <2>21. CASE Crash
    BY <2>21 DEF Crash
  <2>22. CASE Reap
    BY <2>22 DEF Reap
  <2>23. CASE RequestClose
    BY <2>23 DEF RequestClose
  <2>24. CASE Finalize
    <3> USE <2>24 DEF Finalize, MayFinalize, Leaves, Remains, LeavesRuntime, Cleaned
    <3>1. /\ work' = work /\ opened' = opened /\ req' = req
          /\ row'.config = row.config /\ row'.path = row.path
          /\ made' => made
      OBVIOUS
    <3>2. row.path \in {"none", "root", "root/sub"} \cup Mine
      BY DEF Dirs
    <3>3. ~ OwnsSandbox => ~ made
      BY <3>2 DEF OwnsSandbox
    <3>4. row'.closed => ~ made' /\ ~ runtime'
      <4>1. PICK exists \in BOOLEAN, keeps \in BOOLEAN :
              /\ made' = exists /\ runtime' = keeps /\ (exists => made)
              /\ row'.closed = ((OwnsSandbox => ~ exists) /\ ~ keeps)
        OBVIOUS
      <4> QED
        BY <3>3, <4>1
    <3>6. ClosedClean'
      BY <3>4
    <3>7. Marked'
      BY <3>1
    <3>8. Configured'
      BY <3>1
    <3>9. Unmade'
      BY <3>1
    <3> QED
      BY <3>6, <3>7, <3>8, <3>9
  <2>25. CASE CloseAgain
    <3> USE <2>25 DEF CloseAgain, Leaves, Remains, LeavesRuntime, Cleaned
    <3>1. /\ work' = work /\ opened' = opened /\ req' = req
          /\ row'.config = row.config /\ row'.path = row.path
          /\ made' => made
      OBVIOUS
    <3>2. row.path \in {"none", "root", "root/sub"} \cup Mine
      BY DEF Dirs
    <3>3. ~ OwnsSandbox => ~ made
      BY <3>2 DEF OwnsSandbox
    <3>4. ~ stray' => ~ made' /\ ~ runtime'
      <4>1. PICK exists \in BOOLEAN, keeps \in BOOLEAN :
              /\ made' = exists /\ runtime' = keeps /\ (exists => made) /\ (keeps => runtime)
              /\ stray' = (work # Idle \/ (stray /\ ~ ((OwnsSandbox => ~ exists) /\ ~ keeps)))
        OBVIOUS
      <4> QED
        BY <3>3, <4>1
    <3>6. ClosedClean'
      BY <3>4
    <3>7. Marked'
      BY <3>1
    <3>8. Configured'
      BY <3>1
    <3>9. Unmade'
      BY <3>1
    <3> QED
      BY <3>6, <3>7, <3>8, <3>9
  <2>26. CASE LoseSandbox
    BY <2>26 DEF LoseSandbox
  <2>27. CASE MoveFolder
    BY <2>27 DEF MoveFolder
  <2>28. CASE UNCHANGED vars
    BY <2>28 DEF vars
  <2>29. CASE CheckRun
    <3> USE <2>29 DEF CheckRun
    <3>6. ClosedClean'
      OBVIOUS
    <3>7. Marked'
      OBVIOUS
    <3>8. Configured'
      OBVIOUS
    <3>9. Unmade'
      OBVIOUS
    <3> QED
      BY <3>6, <3>7, <3>8, <3>9
  <2>30. CASE EnsureRuntime
    <3> USE <2>30 DEF EnsureRuntime
    <3>6. ClosedClean'
      OBVIOUS
    <3>7. Marked'
      OBVIOUS
    <3>8. Configured'
      OBVIOUS
    <3>9. Unmade'
      OBVIOUS
    <3> QED
      BY <3>6, <3>7, <3>8, <3>9
  <2>31. CASE CreateExecution
    <3> USE <2>31 DEF CreateExecution
    <3>1. /\ work' = [stage |-> "created", dir |-> work.dir, got |-> work.got, config |-> work.config]
          /\ row'.config = RequestConfig(req)
          /\ row'.path = IF New(req) \/ Bare(req) THEN "none" ELSE "caller"
          /\ row'.closed = row.closed
          /\ opened' = opened /\ opened = "opening" /\ ~ Rest /\ req' = req
      OBVIOUS
    <3>6. ClosedClean'
      OBVIOUS
    <3>7. Marked'
      BY <3>1, ConfigFacts
    <3>8. Configured'
      BY <3>1
    <3>9. Unmade'
      BY <3>1, ConfigFacts
    <3> QED
      BY <3>6, <3>7, <3>8, <3>9
  <2>32. CASE CheckSegment
    <3> USE <2>32 DEF CheckSegment
    <3>6. ClosedClean'
      OBVIOUS
    <3>7. Marked'
      OBVIOUS
    <3>8. Configured'
      OBVIOUS
    <3>9. Unmade'
      OBVIOUS
    <3> QED
      BY <3>6, <3>7, <3>8, <3>9
  <2>33. CASE TurnedAway
    <3> USE <2>33 DEF TurnedAway
    <3>6. ClosedClean'
      OBVIOUS
    <3>7. Marked'
      OBVIOUS
    <3>8. Configured'
      OBVIOUS
    <3>9. Unmade'
      OBVIOUS
    <3> QED
      BY <3>6, <3>7, <3>8, <3>9
  <2>34. CASE WriteFile
    <3> USE <2>34 DEF WriteFile
    <3>6. ClosedClean'
      OBVIOUS
    <3>7. Marked'
      OBVIOUS
    <3>8. Configured'
      OBVIOUS
    <3>9. Unmade'
      OBVIOUS
    <3> QED
      BY <3>6, <3>7, <3>8, <3>9
  <2> QED
    BY <2>1, <2>2, <2>3, <2>4, <2>5, <2>6, <2>7, <2>8, <2>9, <2>10, <2>11, <2>12, <2>13,
       <2>14, <2>15, <2>16, <2>17, <2>18, <2>19, <2>20, <2>21, <2>22, <2>23, <2>24, <2>25,
       <2>26, <2>27, <2>28, <2>29, <2>30, <2>31, <2>32, <2>33, <2>34
    DEF Next, Provision
<1> QED
  BY <1>1, <1>2

\* For requests whose in-place bindings are local paths: a closed session has left
\* neither a workspace nor a runtime on the disk, unless a request or a worker without
\* a claim was under way when its close removed them, and no removal since was
\* complete with nothing under way.
THEOREM ClosesClean ==
  ASSUME LocalInPlace
  PROVE  Spec => []ClosedClean
<1>1. Init => Clean
  BY CleanInductive
<1>2. IInv /\ Clean /\ [Next]_vars => Clean'
  BY CleanInductive
<1>3. Clean => ClosedClean
  BY DEF Clean
<1> QED
  BY <1>1, <1>2, <1>3, Invariant, PTL DEF Spec

-----------------------------------------------------------------------------
(* Where a segment works.                                                  *)

\* A request leaves the fields of the contract it does not use at their defaults.
OneContract == \A r \in Requests : New(r) => r.folder = "none" /\ ~ r.inPlace

\* The row keeps the binding of the request, its path is where that asked to work,
\* and so is what was fetched or found.
Placed ==
  /\ row.config # NoConfig => /\ row.config.input = RequestConfig(req).input
                              /\ row.config.writable = RequestConfig(req).writable
  /\ row.config # NoConfig /\ row.path # "none" /\ ~ Legacy => row.path = Asked
  /\ work.stage = "fetched" => work.dir = IF InPlace THEN "caller" ELSE "root"
  /\ Bare(req) => work.stage \notin {"fetching", "fetched"}

\* A path selected from the binding of the request is where it asked to work.
LEMMA SelectedAsAsked ==
  ASSUME LocalInPlace, OneContract, req \in Requests, ~ Legacy, NEW dir,
         dir = IF ProvisionInPlace(RequestConfig(req).input, RequestConfig(req).writable)
               THEN "caller" ELSE "root"
  PROVE  Bare(req) \/ Within(dir, RequestConfig(req).input.relativePath) = Asked
<1>1. req \in Request /\ Resolves(req)
  BY RequestsResolve
<1>2. CASE New(req)
  <2>1. /\ RequestConfig(req).input = Validated(req.input)
        /\ RequestConfig(req).writable = FALSE
        /\ req.folder # "local_path"
    BY <1>2 DEF RequestConfig, Sanitized, ResolvedBinding, ResolvedWritable, OneContract
  <2>2. /\ Validated(req.input).relativePath = req.input.relativePath
        /\ req.input.relativePath \in {".", "sub"}
        /\ Validated(req.input).materialization = Materialized(req.input)
    BY <1>1, <1>2 DEF Validated, Request, Binding, New
  <2>3. Materialized(req.input) = "in_place_read_only"
          <=> req.input.materialization = "in_place_read_only"
    BY <1>1, <1>2 DEF Materialized, Resolves, Accepts
  <2> QED
    BY <1>2, <2>1, <2>2, <2>3 DEF ProvisionInPlace, Within, Asked
<1>3. CASE ~ New(req) /\ ~ Bare(req)
  <2>1. req.input.materialization = "none"
    BY <1>3 DEF New, NoBinding
  <2>2. /\ RequestConfig(req).input = FolderBinding(req.folder)
        /\ RequestConfig(req).writable = (req.folder = "local_path" /\ req.inPlace)
    BY <1>3 DEF RequestConfig, Sanitized, ResolvedBinding, ResolvedWritable, WritableInPlace
  <2>3. /\ FolderBinding(req.folder).materialization = "copy"
        /\ FolderBinding(req.folder).relativePath = "."
    BY DEF FolderBinding
  <2>4. ProvisionInPlace(RequestConfig(req).input, RequestConfig(req).writable)
          <=> (req.folder = "local_path" /\ req.inPlace)
    BY <1>1, <2>2, <2>3 DEF ProvisionInPlace, Request
  <2>5. Within(dir, RequestConfig(req).input.relativePath) = dir
    BY <2>2, <2>3 DEF Within
  <2>6. Asked = IF req.folder = "local_path" /\ req.inPlace THEN "caller" ELSE "root"
    BY <1>3, <2>1 DEF Asked
  <2> QED
    BY <2>4, <2>5, <2>6
<1> QED
  BY <1>2, <1>3

\* Without a binding there is nothing to provision from; with one, the configuration
\* says so.
LEMMA BareConfig ==
  ASSUME req \in Requests
  PROVE  /\ Bare(req) => /\ RequestConfig(req).input = NoBinding
                         /\ Source(req) = "none" /\ ~ Rest
         /\ ~ Bare(req) => RequestConfig(req).input # NoBinding
         /\ NoConfig.input = NoBinding /\ NoBinding.uri = "none"
<1>1. req \in Request /\ Resolves(req)
  BY RequestsResolve
<1>2. CASE Bare(req)
  BY <1>1, <1>2 DEF Bare, Resolves, RequestConfig, Sanitized, ResolvedBinding, Source, Rest,
                    NoConfig, NoBinding
<1>3. CASE New(req)
  <2>1. req.input \in Binding
    BY <1>1, <1>3 DEF New, Request
  <2>2. Validated(req.input).type \in Types
    BY <2>1 DEF Validated, Binding
  <2>3. NoBinding.type = "none" /\ "none" \notin Types
    BY DEF NoBinding, Types
  <2> QED
    BY <1>3, <2>2, <2>3 DEF RequestConfig, Sanitized, ResolvedBinding, Bare, NoConfig, NoBinding
<1>4. CASE ~ New(req) /\ ~ Bare(req)
  BY <1>4 DEF RequestConfig, Sanitized, ResolvedBinding, FolderBinding, NoConfig, NoBinding
<1> QED
  BY <1>2, <1>3, <1>4

\* Every step keeps it.
LEMMA PlacedInductive ==
  ASSUME LocalInPlace, OneContract
  PROVE  /\ Init => Placed
         /\ IInv /\ Clean /\ Placed /\ [Next]_vars => Placed'
<1>1. Init => Placed
  BY DEF Init, Placed, Idle
<1>2. ASSUME IInv, Clean, Placed, [Next]_vars
      PROVE  Placed'
  <2>0. Shape'
    BY <1>2, ShapeInductive DEF IInv
  <2>00. req \in Requests
    BY <1>2 DEF IInv, Shape, RestTyped
  <2> USE <1>2, <2>0, <2>00 DEF IInv, setting, disk, history, Idle, Opening, Rest, Owned,
        Asking, Working, NothingRuns, RunningHeld, Copying, WorksThere, Mine,
        Shape, RowTyped, WorkTyped, DiskTyped, RestTyped,
        Clean, Marked, Configured, Unmade, Active, Legacy, RowInPlace, InPlace, Placed, Asked
  <2>1. CASE Initiate
    BY <2>1 DEF Initiate
  <2>2. CASE AguiRun
    BY <2>2 DEF AguiRun
  <2>3. CASE StartSegment
    BY <2>3 DEF StartSegment
  <2>4. CASE CleanupInitiate
    BY <2>4 DEF CleanupInitiate, RemoveRoot, Remains
  <2>5. CASE Reuse
    BY <2>5 DEF Reuse, Preparing
  <2>6. CASE InPlaceMissing
    BY <2>6, FailFacts, FailKeeps DEF InPlaceMissing, FailWith, Remains, Cleans, Preparing
  <2>7. CASE RunBare
    BY <2>7 DEF RunBare, Preparing
  <2>8. CASE Refuse
    BY <2>8, FailFacts, FailKeeps DEF Refuse, FailWith, Remains, Cleans, Preparing
  <2>9. CASE BindInPlace
    <3> USE <2>9 DEF BindInPlace, Preparing, Provisions, Binds
    <3>1. /\ work' = [stage |-> "fetched", dir |-> "caller", got |-> work.got, config |-> work.config]
          /\ row' = row /\ opened' = opened /\ req' = req
      OBVIOUS
    <3>2. ~ Bare(req)
      <4>1. CASE Opening
        BY <4>1, BareConfig DEF From
      <4>2. CASE ~ Opening
        <5>1. CASE Bare(req)
          <6>1. row.config.input = NoBinding
            BY <5>1, BareConfig
          <6>2. work.config = row.config
            BY <4>2, <5>1, BareConfig DEF SegmentConfig
          <6> QED
            BY <4>2, <6>1, <6>2, BareConfig DEF From
        <5> QED
          BY <5>1
      <4> QED
        BY <4>1, <4>2
    <3> QED
      BY <3>1, <3>2
  <2>10. CASE CannotStart
    BY <2>10, FailFacts, FailKeeps DEF CannotStart, FailWith, Remains, Cleans, Preparing, Provisions
  <2>11. CASE StartFetch
    <3> USE <2>11 DEF StartFetch, MakeDirectory, Preparing, Provisions, RecordNothing
    <3>1. /\ work' = [stage |-> "fetching", dir |-> work.dir, got |-> work.got, config |-> work.config]
          /\ row' = row /\ opened' = opened /\ req' = req
      OBVIOUS
    <3>2. ~ Bare(req)
      <4>1. CASE Opening
        BY <4>1, BareConfig DEF From
      <4>2. CASE ~ Opening
        <5>1. CASE Bare(req)
          <6>1. row.config.input = NoBinding
            BY <5>1, BareConfig
          <6>2. work.config = row.config
            BY <4>2, <5>1, BareConfig DEF SegmentConfig
          <6> QED
            BY <4>2, <6>1, <6>2, BareConfig DEF From
        <5> QED
          BY <5>1
      <4> QED
        BY <4>1, <4>2
    <3> QED
      BY <3>1, <3>2
  <2>12. CASE Fetch
    BY <2>12 DEF Fetch, MakeDirectory
  <2>13. CASE FetchFails
    BY <2>13, FailFacts, FailKeeps DEF FetchFails, FailWith, Remains, Cleans
  <2>14. CASE TooLarge
    BY <2>14, FailFacts, FailKeeps DEF TooLarge, FailWith, Remains, Cleans
  <2>15. CASE Fetched
    BY <2>15 DEF Fetched
  <2>16. CASE SelectFails
    BY <2>16, FailFacts, FailKeeps DEF SelectFails, FailWith, Remains, Cleans
  <2>17. CASE Select
    <3> USE <2>17 DEF Select
    <3>1. /\ row'.path = Selected /\ req' = req
          /\ row'.config = IF Opening THEN work.config ELSE row.config
          /\ work' = Idle
             \/ work' = [stage |-> "running", dir |-> Selected, got |-> work.got,
                         config |-> work.config]
      OBVIOUS
    <3>2. ~ Bare(req) /\ ~ Legacy
      OBVIOUS
    <3>3. CASE row'.config = NoConfig
      BY <3>1, <3>3
    <3>4. CASE row'.config # NoConfig
      <4>1. /\ work.config.input = RequestConfig(req).input
            /\ work.config.writable = RequestConfig(req).writable
            /\ row'.config = work.config
        <5>1. CASE Opening
          BY <3>1, <5>1
        <5>2. CASE ~ Opening
          <6>1. /\ row.config.input = RequestConfig(req).input
                /\ row.config.writable = RequestConfig(req).writable
            BY <3>1, <3>4, <5>2
          <6>2. work.config = row.config
            BY <3>2, <5>2, <6>1, BareConfig, SegmentInPlace
          <6> QED
            BY <3>1, <5>2, <6>1, <6>2
        <5> QED
          BY <5>1, <5>2
      <4>2. work.dir = IF ProvisionInPlace(RequestConfig(req).input, RequestConfig(req).writable)
                       THEN "caller" ELSE "root"
        BY <4>1
      <4>3. Within(work.dir, RequestConfig(req).input.relativePath) = Asked
        BY LocalInPlace, OneContract, <2>00, <3>2, <4>2, SelectedAsAsked DEF Legacy, Rest
      <4> QED
        BY <3>1, <4>1, <4>3 DEF Selected
    <3> QED
      BY <3>3, <3>4
  <2>18. CASE WriteRuntime
    BY <2>18 DEF WriteRuntime
  <2>19. CASE Settle
    <3> USE <2>19 DEF Settle
    <3>1. /\ work' = Idle /\ req' = req /\ row'.path = row.path
          /\ row'.config = row.config
             \/ (~ Rest /\ Opening /\ row'.config.input = row.config.input
                 /\ row'.config.writable = row.config.writable)
      OBVIOUS
    <3>2. Rest \/ ~ Opening \/ row.config = RequestConfig(req)
      OBVIOUS
    <3>3. RequestConfig(req) # NoConfig
      BY RequestsResolve DEF RequestConfig, Sanitized, NoConfig, ResolvedMode, Request, Modes
    <3> QED
      BY <3>1, <3>2, <3>3
  <2>20. CASE Cancelled
    BY <2>20, FailFacts, FailKeeps DEF Cancelled, FailWith, Remains, Cleans
  <2>21. CASE Crash
    BY <2>21 DEF Crash
  <2>22. CASE Reap
    BY <2>22 DEF Reap
  <2>23. CASE RequestClose
    BY <2>23 DEF RequestClose
  <2>24. CASE Finalize
    BY <2>24 DEF Finalize, MayFinalize
  <2>25. CASE CloseAgain
    BY <2>25 DEF CloseAgain
  <2>26. CASE LoseSandbox
    BY <2>26 DEF LoseSandbox
  <2>27. CASE MoveFolder
    BY <2>27 DEF MoveFolder
  <2>28. CASE UNCHANGED vars
    BY <2>28 DEF vars
  <2>29. CASE CheckRun
    BY <2>29 DEF CheckRun
  <2>30. CASE EnsureRuntime
    BY <2>30 DEF EnsureRuntime
  <2>31. CASE CreateExecution
    BY <2>31 DEF CreateExecution
  <2>32. CASE CheckSegment
    BY <2>32 DEF CheckSegment
  <2>33. CASE TurnedAway
    BY <2>33 DEF TurnedAway
  <2>34. CASE WriteFile
    BY <2>34 DEF WriteFile
  <2> QED
    BY <2>1, <2>2, <2>3, <2>4, <2>5, <2>6, <2>7, <2>8, <2>9, <2>10, <2>11, <2>12, <2>13,
       <2>14, <2>15, <2>16, <2>17, <2>18, <2>19, <2>20, <2>21, <2>22, <2>23, <2>24, <2>25,
       <2>26, <2>27, <2>28, <2>29, <2>30, <2>31, <2>32, <2>33, <2>34
    DEF Next, Provision
<1> QED
  BY <1>1, <1>2

\* For requests that keep to one contract and whose in-place bindings are local
\* paths: every segment works where the request that opened the execution asked.
THEOREM WorksAsAsked ==
  ASSUME LocalInPlace, OneContract
  PROVE  Spec => []RunsAsAsked
<1>1. Init => Clean /\ Placed
  BY CleanInductive, PlacedInductive
<1>2. IInv /\ Clean /\ Placed /\ [Next]_vars => (Clean /\ Placed)'
  BY CleanInductive, PlacedInductive
<1>3. IInv /\ Clean /\ Placed => RunsAsAsked
  BY DEF IInv, WorksThere, Clean, Unmade, Legacy, Asking, Placed, RunsAsAsked
<1> QED
  BY <1>1, <1>2, <1>3, Invariant, PTL DEF Spec
=============================================================================
