------------------------------ MODULE Workspace ------------------------------
(***************************************************************************)
(* The input workspace of one execution, from the request that opens it to  *)
(* the close of its session: where a segment works, what is on the disk     *)
(* there, and who removes it.                                              *)
(*                                                                         *)
(* The opener is the handler of /initiate, or the first segment of an       *)
(* AG-UI run; after it come segments (execute, resume). A request looks     *)
(* whether the session closes, and claims the execution later: a close may  *)
(* come in between, and finish. A worker whose claim was reaped goes on.    *)
(* Bound: one request or worker at a time; the next is checked when it ends.*)
(***************************************************************************)
EXTENDS Bindings, FiniteSets

CONSTANTS Requests,      \* the requests that may open the execution
          AllowInPlace,  \* ALLOW_INPLACE_WORKSPACE
          Loses          \* whether the sandbox may disappear between segments

ASSUME RequestsResolve == Requests \subseteq {req \in Request : Resolves(req)}

ASSUME SettingsBoolean == AllowInPlace \in BOOLEAN /\ Loses \in BOOLEAN

VARIABLES req,      \* the request
          offers,   \* the parts its source holds
          caller,   \* whether the caller's folder is where it was
          row,      \* the execution row
          opened,   \* what the client knows of the execution
          made,     \* the directory <root>/<id>/workspace exists
          tree,     \* the parts in it
          runtime,  \* the runtime directory exists
          claim,    \* an active run holds the execution
          work,     \* the request or the worker under way, if one is
          refused,  \* history: a binding that resolved could not be prepared
          lost,     \* history: the sandbox disappeared
          stray     \* history: the last removal of a close did not wait for what
                    \* was under way, and has not been completed since

vars == <<req, offers, caller, row, opened, made, tree, runtime, claim, work,
          refused, lost, stray>>

\* "sub" is the subdirectory a relativePath selects, "rest" everything else.
Parts == {"sub", "rest"}

disk == <<made, tree>>
history == <<refused, lost, stray>>
setting == <<req, offers>>

Dirs == {"none", "root", "root/sub", "caller", "caller/sub"}

Row == [status : {"none", "pending", "running", "awaiting", "completed", "failed"},
        config : Config \cup {NoConfig},
        path : Dirs,
        closing : BOOLEAN,
        closed : BOOLEAN]

Idle == [stage |-> "idle", dir |-> "none", got |-> {}, config |-> NoConfig]

\* What a request goes through before its run is claimed.
Asking == {"checked", "ensured", "created"}

\* What its worker goes through.
Working == {"preparing", "fetching", "fetched", "running"}

TypeOK ==
  /\ req \in Requests
  /\ offers \in SUBSET Parts
  /\ caller \in BOOLEAN
  /\ row.status \in {"none", "pending", "running", "awaiting", "completed", "failed"}
  /\ row.path \in Dirs
  /\ row.closing \in BOOLEAN /\ row.closed \in BOOLEAN
  /\ opened \in {"no", "opening", "yes", "failed", "over"}
  /\ made \in BOOLEAN
  /\ tree \in SUBSET Parts
  /\ tree # {} => made
  /\ runtime \in BOOLEAN
  /\ claim \in BOOLEAN
  /\ work.stage \in {"idle", "failing"} \cup Asking \cup Working
  /\ work.dir \in Dirs
  /\ work.got \in SUBSET Parts
  /\ refused \in BOOLEAN /\ lost \in BOOLEAN /\ stray \in BOOLEAN

-----------------------------------------------------------------------------
(* The disk.                                                               *)

Rest == req.origin = "orchestrator"

Opening == opened = "opening"

\* The uri the running one provisions from.
From == IF Opening THEN Source(req) ELSE work.config.input.uri

InPlace == ProvisionInPlace(work.config.input, work.config.writable)

Exists(dir) ==
  CASE dir = "root" -> made
    [] dir = "root/sub" -> "sub" \in tree
    [] dir = "caller" -> caller
    [] dir = "caller/sub" -> caller /\ "sub" \in offers
    [] OTHER -> FALSE

\* What an rmtree of the sandbox leaves: it goes on after an error, or stops at it.
Remains(exists, parts) ==
  /\ parts \subseteq tree
  /\ exists => made
  /\ parts # {} => exists

\* rmtree of <root>/<id>, its errors ignored. The runtime is in the root.
RemoveRoot ==
  \E exists, keeps \in BOOLEAN, parts \in SUBSET Parts :
    /\ Remains(exists, parts) /\ (keeps => runtime)
    /\ made' = exists /\ tree' = parts /\ runtime' = keeps

\* apply_relative_inside.
Within(dir, rel) ==
  IF rel = "." THEN dir
  ELSE IF dir = "root" THEN "root/sub" ELSE "caller/sub"

-----------------------------------------------------------------------------
(* Opening an execution.                                                   *)

\* The row and its origin are committed before anything is provisioned.
Initiate ==
  /\ opened = "no" /\ Rest
  /\ opened' = "opening"
  /\ row' = [row EXCEPT !.status = "pending"]
  /\ work' = [Idle EXCEPT !.stage = "preparing", !.config = RequestConfig(req)]
  /\ UNCHANGED <<setting, caller, disk, runtime, claim, history>>

\* The thread of an AG-UI run is not closing when the request comes.
CheckRun ==
  /\ opened = "no" /\ ~ Rest /\ ~ row.closing
  /\ opened' = "opening"
  /\ work' = [Idle EXCEPT !.stage = "checked"]
  /\ UNCHANGED <<setting, caller, row, disk, runtime, claim, history>>

\* Its holds are prepared first; nothing looks at the close again.
EnsureRuntime ==
  /\ Opening /\ work.stage = "checked"
  /\ runtime' = TRUE
  /\ work' = [work EXCEPT !.stage = "ensured"]
  /\ UNCHANGED <<setting, caller, row, opened, disk, claim, history>>

\* The row has its configuration at once, in a transaction of its own.
CreateExecution ==
  /\ work.stage = "ensured"
  /\ row' = [row EXCEPT !.status = "running",
                        !.config = RequestConfig(req),
                        !.path = IF New(req) \/ Bare(req) THEN "none" ELSE "caller"]
  /\ work' = [work EXCEPT !.stage = "created"]
  /\ UNCHANGED <<setting, caller, opened, disk, runtime, claim, history>>

\* The claim looks at the close of the thread under its lock.
AguiRun ==
  /\ work.stage = "created"
  /\ ~ row.closing /\ ~ claim
  /\ claim' = TRUE
  /\ work' = [work EXCEPT !.stage = "preparing", !.config = RequestConfig(req)]
  /\ UNCHANGED <<setting, caller, row, opened, disk, runtime, history>>

\* A later segment: its request is checked. An execute does not look at the status:
\* it follows a failed initiate as well. An AG-UI one answers a hold.
CheckSegment ==
  /\ opened = "yes" \/ (opened = "failed" /\ Rest)
  /\ ~ row.closing /\ work = Idle
  /\ work' = [Idle EXCEPT !.stage = "checked"]
  /\ UNCHANGED <<setting, caller, row, opened, disk, runtime, claim, history>>

\* It claims the execution. An execute may see the close of its row as it was when
\* it was checked; a resume claims its hold too, which a close discards.
StartSegment ==
  /\ ~ Opening /\ work.stage = "checked"
  /\ row.closing => Rest
  /\ ~ claim
  /\ claim' = TRUE
  /\ row' = [row EXCEPT !.status = "running"]
  /\ work' = [work EXCEPT
                !.stage = "preparing",
                !.config = SegmentConfig(row.config, IF Rest THEN Source(req) ELSE "none")]
  /\ UNCHANGED <<setting, caller, opened, disk, runtime, history>>

\* SESSION_CLOSING, or a run that is still active. The execution an AG-UI request
\* created fails; its runtime directory stays.
TurnedAway ==
  /\ work.stage = "created" \/ (~ Opening /\ work.stage = "checked")
  /\ row.closing \/ claim
  /\ work' = Idle
  /\ opened' = IF Opening THEN "over" ELSE opened
  /\ row' = IF Opening THEN [row EXCEPT !.status = "failed"] ELSE row
  /\ UNCHANGED <<setting, caller, disk, runtime, claim, history>>

-----------------------------------------------------------------------------
(* How a segment ends without having worked.                               *)

\* What an AG-UI opener removes: what it provisioned, or began to.
Provisioned == ~ InPlace \/ work.dir = "root"

\* The row of a failed initiate is set FAILED, and then its root is removed. A run
\* is finished, and its claim released unless that was reaped.
FailWith(exists, parts) ==
  /\ made' = exists
  /\ tree' = parts
  /\ claim' = FALSE
  /\ work' = [Idle EXCEPT !.stage = IF Opening /\ Rest THEN "failing" ELSE "idle"]
  /\ opened' = IF Opening /\ ~ Rest THEN "over" ELSE opened
  /\ row' = [row EXCEPT !.status = IF Opening THEN "failed"
                                   ELSE IF Rest THEN "pending" ELSE "awaiting"]

\* An AG-UI opener cleans up at once; the others leave the disk as it is.
Cleans == Opening /\ ~ Rest /\ Provisioned

Fail ==
  \E exists \in BOOLEAN, parts \in SUBSET Parts :
    /\ Remains(exists, parts)
    /\ Cleans \/ (exists = made /\ parts = tree)
    /\ FailWith(exists, parts)

\* workspace_manager.cleanup, after which the client gets the id with the error.
CleanupInitiate ==
  /\ work.stage = "failing"
  /\ RemoveRoot
  /\ work' = Idle
  /\ opened' = "failed"
  /\ UNCHANGED <<setting, caller, row, claim, history>>

-----------------------------------------------------------------------------
(* Preparing the workspace: provision and ensure_input_workspace.           *)

Preparing == work.stage = "preparing"

\* A later segment works where the row says, when that is a directory.
Reuse ==
  /\ Preparing /\ ~ Opening
  /\ work.config.input # NoBinding
  /\ Exists(row.path)
  /\ work' = [work EXCEPT !.stage = "running", !.dir = row.path]
  /\ UNCHANGED <<setting, caller, row, opened, disk, runtime, claim, history>>

\* INPUT_WORKSPACE_MISSING: a caller's folder is never made again.
InPlaceMissing ==
  /\ Preparing /\ ~ Opening
  /\ ~ Exists(row.path) /\ InPlace
  /\ Fail
  /\ UNCHANGED <<setting, caller, runtime, history>>

\* An AG-UI opener that binds nothing goes to work without a workspace.
RunBare ==
  /\ Preparing /\ Opening /\ Bare(req)
  /\ work' = [work EXCEPT !.stage = "running"]
  /\ UNCHANGED <<setting, caller, row, opened, disk, runtime, claim, history>>

\* A configuration without an input raises in _input_binding_from_config, an
\* input without a source in classify_source.
Refuse ==
  /\ Preparing
  /\ IF Opening THEN ~ Bare(req) /\ From = "none"
     ELSE work.config.input = NoBinding
  /\ Fail
  /\ refused' = TRUE
  /\ UNCHANGED <<setting, caller, runtime, lost, stray>>

Provisions ==
  /\ Preparing
  /\ From # "none"
  /\ Opening \/ (~ Exists(row.path) /\ ~ InPlace)

\* Only the uri decides what is done: in place needs a local path.
Binds == InPlace /\ From = "local_path"

\* provision with in_place.
BindInPlace ==
  /\ Provisions /\ Binds
  /\ AllowInPlace /\ caller
  /\ work' = [work EXCEPT !.stage = "fetched", !.dir = "caller"]
  /\ UNCHANGED <<setting, caller, row, opened, disk, runtime, claim, history>>

\* What stops a provisioning before it has touched the disk: in place is off,
\* the folder is gone, git refuses a directory that holds something.
CannotStart ==
  /\ Provisions
  /\ \/ Binds /\ ~ AllowInPlace
     \/ From = "local_path" /\ ~ caller
     \/ From = "git_url" /\ tree # {}
  /\ Fail
  /\ UNCHANGED <<setting, caller, runtime, history>>

\* Mutant: the path is recorded when the copy starts.
RecordEarly == row' = [row EXCEPT !.path = "root"]

RecordNothing == UNCHANGED row

\* Mutant: the directory is taken to be there.
NoDirectory == UNCHANGED made

\* git clone, copytree and the download all make the directory first.
MakeDirectory == made' = TRUE

StartFetch ==
  /\ Provisions /\ ~ Binds
  /\ From = "local_path" => caller
  /\ From = "git_url" => tree = {}
  /\ MakeDirectory
  /\ work' = [work EXCEPT !.stage = "fetching"]
  /\ RecordNothing
  /\ UNCHANGED <<setting, caller, opened, tree, runtime, claim, history>>

\* A part arrives; what is there already is overwritten, a directory that was
\* removed meanwhile is made again.
Fetch ==
  /\ work.stage = "fetching"
  /\ MakeDirectory
  /\ \E part \in offers \ work.got :
       /\ tree' = tree \cup {part}
       /\ work' = [work EXCEPT !.got = @ \cup {part}]
  /\ UNCHANGED <<setting, caller, row, opened, runtime, claim, history>>

\* An unreadable file, a refused or broken download, a bad archive. git removes
\* the directory it made, unless it is killed at GIT_CLONE_TIMEOUT_SEC.
FetchFails ==
  /\ work.stage = "fetching"
  /\ \/ Fail
     \/ From = "git_url" /\ FailWith(FALSE, {})
  /\ UNCHANGED <<setting, caller, runtime, history>>

\* MAX_WORKSPACE_MB, checked when everything is there: the copy is removed.
TooLarge ==
  /\ work.stage = "fetching" /\ work.got = offers
  /\ \E exists \in BOOLEAN, parts \in SUBSET Parts :
       Remains(exists, parts) /\ FailWith(exists, parts)
  /\ UNCHANGED <<setting, caller, runtime, history>>

Fetched ==
  /\ work.stage = "fetching" /\ work.got = offers
  /\ work' = [work EXCEPT !.stage = "fetched", !.dir = "root"]
  /\ UNCHANGED <<setting, caller, row, opened, disk, runtime, claim, history>>

Selected == Within(work.dir, work.config.input.relativePath)

\* select_relative_workspace raises; the manifest, the runtime directory or the
\* commit that records the workspace may fail as well.
SelectFails ==
  /\ work.stage = "fetched"
  /\ Fail
  /\ UNCHANGED <<setting, caller, runtime, history>>

\* The row gets the path: initiate is over, a segment goes to work. Tools have
\* a runtime directory, made here if the configuration names none.
Select ==
  /\ work.stage = "fetched" /\ Exists(Selected)
  /\ row' = [row EXCEPT !.path = Selected, !.config = IF Opening THEN work.config ELSE @]
  /\ runtime' = (runtime \/ Opening \/ row.config = NoConfig)
  /\ IF Opening /\ Rest
     THEN /\ work' = Idle
          /\ opened' = "yes"
     ELSE /\ work' = [work EXCEPT !.stage = "running", !.dir = Selected]
          /\ UNCHANGED opened
  /\ UNCHANGED <<setting, caller, disk, claim, history>>

-----------------------------------------------------------------------------
(* Working, and how a segment ends.                                        *)

\* A tool writes under .agent: an offloaded result, the todos.
WriteRuntime ==
  /\ work.stage = "running" /\ work.dir # "none"
  /\ runtime' = TRUE
  /\ UNCHANGED <<setting, caller, row, opened, disk, claim, work, history>>

\* A tool writes into the workspace, whose directory is made again if a close
\* removed it.
WriteFile ==
  /\ work.stage = "running" /\ work.dir \in {"root", "root/sub"}
  /\ made' = TRUE
  /\ UNCHANGED <<setting, caller, row, opened, tree, runtime, claim, work, history>>

\* The segment is settled and its claim released. A hold keeps the workspace
\* and, for AG-UI, what the segment made of inPlace.
Settle ==
  /\ work.stage = "running"
  /\ work' = Idle
  /\ claim' = FALSE
  /\ \E status \in {"awaiting", "completed", "failed"} :
       /\ row' = [row EXCEPT
                    !.status = IF status = "failed" /\ Rest THEN "pending" ELSE status,
                    !.config.inPlace =
                      IF status = "awaiting" /\ ~ Rest /\ work.dir # "none" /\ Opening
                      THEN work.dir \in {"caller", "caller/sub"} ELSE @]
       /\ opened' = IF Rest THEN opened
                    ELSE IF status = "awaiting" THEN "yes" ELSE "over"
  /\ UNCHANGED <<setting, caller, disk, runtime, history>>

\* The close of the session, the deadline or a failed heartbeat cancels the worker
\* of a run, whether its row is still active or not.
Cancelled ==
  /\ work.stage \in Working /\ ~ (Opening /\ Rest)
  /\ Fail
  /\ UNCHANGED <<setting, caller, runtime, history>>

\* The pod dies. Nobody knows the id of an execution that was being opened by
\* an initiate; the claim stays.
Crash ==
  /\ work # Idle
  /\ work' = Idle
  /\ opened' = IF Opening THEN "over" ELSE opened
  /\ UNCHANGED <<setting, caller, row, disk, runtime, claim, history>>

\* A claim whose heartbeat is old is reaped, whatever its worker does.
Reap ==
  /\ claim
  /\ claim' = FALSE
  /\ row' = [row EXCEPT !.status = IF @ = "completed" THEN @ ELSE "failed"]
  /\ UNCHANGED <<setting, caller, opened, disk, runtime, work, history>>

-----------------------------------------------------------------------------
(* Closing the session.                                                    *)

\* The client closes an execution it can name, or the thread.
RequestClose ==
  /\ opened \in {"yes", "failed"} \/ (~ Rest /\ opened \in {"opening", "over"})
  /\ ~ row.closing
  /\ row' = [row EXCEPT !.closing = TRUE]
  /\ UNCHANGED <<setting, caller, opened, disk, runtime, claim, work, history>>

\* Mutant: the close of a thread leaves the sandboxes of its executions.
OwnsRestOnly == ~ row.config.inPlace /\ ~ row.config.writable /\ Rest

\* cleanup_execution_sandbox has something to remove: the configuration does not
\* say in place, and the recorded path is under the root of this execution.
OwnsSandbox ==
  /\ ~ row.config.inPlace /\ ~ row.config.writable
  /\ row.path \in {"none", "root", "root/sub"}

\* Mutant: the runs of the session are not looked at.
NoRunLookup == row.closing /\ ~ row.closed

\* No active run blocks the close.
MayFinalize == row.closing /\ ~ row.closed /\ ~ claim

\* What the cleanup of the sandbox leaves.
Leaves(exists, parts) ==
  /\ Remains(exists, parts)
  /\ OwnsSandbox \/ (exists = made /\ parts = tree)

\* What the removal of the runtime leaves.
LeavesRuntime(keeps) == keeps => runtime

\* The cleanup is complete.
Cleaned(exists, keeps) == (OwnsSandbox => ~ exists) /\ ~ keeps

\* The close of a thread finds the executions that had a run.
Listed == Rest \/ (row.status # "none" /\ work.stage # "created")

\* _finalize_scope: closed when the workspace and the runtime are gone, where
\* they have to go; otherwise the session stays closing. What is under way holds
\* no claim: a request that was checked before, or a worker that was reaped.
Finalize ==
  /\ MayFinalize
  /\ \E exists, keeps \in BOOLEAN, parts \in SUBSET Parts :
       /\ Leaves(exists, parts) /\ LeavesRuntime(keeps)
       /\ made' = exists /\ tree' = parts /\ runtime' = keeps
       /\ row' = [row EXCEPT
                    !.closed = Cleaned(exists, keeps),
                    !.status = IF @ = "completed" \/ ~ Listed THEN @ ELSE "failed"]
  /\ stray' = (work # Idle)
  /\ UNCHANGED <<setting, caller, opened, claim, work, refused, lost>>

\* _reconcile_already_closed: closing a closed session cleans up again, and does not
\* look for runs.
CloseAgain ==
  /\ row.closed
  /\ \E exists, keeps \in BOOLEAN, parts \in SUBSET Parts :
       /\ Leaves(exists, parts) /\ LeavesRuntime(keeps)
       /\ made' = exists /\ tree' = parts /\ runtime' = keeps
       /\ stray' = (work # Idle \/ (stray /\ ~ Cleaned(exists, keeps)))
  /\ UNCHANGED <<setting, caller, row, opened, claim, work, refused, lost>>

-----------------------------------------------------------------------------
(* The environment.                                                        *)

\* The volume of the pod goes with it, or an operator clears the root.
LoseSandbox ==
  /\ Loses /\ made /\ work = Idle /\ ~ row.closing
  /\ made' = FALSE /\ tree' = {}
  /\ lost' = TRUE
  /\ UNCHANGED <<setting, caller, row, opened, runtime, claim, work, refused, stray>>

\* The caller moves its folder away, or back.
MoveFolder ==
  /\ work.stage # "fetching"
  /\ caller' = ~ caller
  /\ UNCHANGED <<setting, row, opened, disk, runtime, claim, work, history>>

Init ==
  /\ req \in Requests
  /\ offers \in {Parts, {"rest"}}
  /\ caller = TRUE
  /\ row = [status |-> "none", config |-> NoConfig, path |-> "none",
            closing |-> FALSE, closed |-> FALSE]
  /\ opened = "no"
  /\ made = FALSE /\ tree = {} /\ runtime = FALSE
  /\ claim = FALSE
  /\ work = Idle
  /\ refused = FALSE /\ lost = FALSE /\ stray = FALSE

Provision ==
  \/ Reuse \/ InPlaceMissing \/ RunBare \/ Refuse
  \/ BindInPlace \/ CannotStart \/ StartFetch
  \/ Fetch \/ FetchFails \/ TooLarge \/ Fetched
  \/ SelectFails \/ Select

Next ==
  \/ Initiate \/ CheckRun \/ EnsureRuntime \/ CreateExecution \/ AguiRun
  \/ CheckSegment \/ StartSegment \/ TurnedAway \/ CleanupInitiate
  \/ Provision
  \/ WriteRuntime \/ WriteFile \/ Settle \/ Cancelled \/ Crash \/ Reap
  \/ RequestClose \/ Finalize \/ CloseAgain
  \/ LoseSandbox \/ MoveFolder

Spec == Init /\ [][Next]_vars

-----------------------------------------------------------------------------
(* Properties.                                                             *)

\* A segment works on everything its source holds. Each segment only looks
\* whether the directory the row names is there.
RunsOnWhole ==
  work.stage = "running" /\ work.dir \in {"root", "root/sub"} => offers \subseteq tree

\* As long as the sandbox does not disappear, and no close removes it under a
\* worker it does not wait for, a copy that stopped half way (a failed download, a
\* killed clone, a dead pod) is never taken for the workspace: the path is recorded
\* when everything is there, and not before.
WholeUnlessLost == lost \/ stray \/ RunsOnWhole

\* The same, of the sandbox that disappears.
WholeUnlessStray == stray \/ RunsOnWhole

\* Where the request asked a segment to work.
Asked ==
  LET sub == New(req) /\ req.input.relativePath = "sub"
      mine == req.input.materialization = "in_place_read_only"
              \/ (req.folder = "local_path" /\ req.inPlace)
  IN  IF mine THEN (IF sub THEN "caller/sub" ELSE "caller")
      ELSE IF sub THEN "root/sub" ELSE "root"

\* Every segment of an execution that was opened works where the request that
\* opened it asked, whatever was lost and provisioned again in between: the
\* stored configuration carries the binding.
RunsAsAsked ==
  work.stage = "running" /\ work.dir # "none" /\ row.config # NoConfig => work.dir = Asked

\* Nothing is removed from a workspace while the active run of its execution holds
\* it, except by a step of that run or by closing a closed session again: a close
\* waits for the run it finds, and an execute that claims behind a close waits for
\* nobody.
ClaimedKept ==
  [][claim /\ work # Idle /\ ~ ((made => made') /\ tree \subseteq tree')
       => work' # work \/ row.closed]_vars

\* A closed session has left neither a workspace nor a runtime of its own on the
\* disk, whatever failed while they were made or removed, unless a request that was
\* checked before the close or a reaped worker was still under way when it finished.
\* Closing again when that has ended removes what it left.
ClosedClean == row.closed /\ ~ stray => ~ made /\ ~ runtime

\* Without the exception: the close of a session removes the runtime.
ClosedLeavesNothing == row.closed => ~ made /\ ~ runtime

\* No segment fails for what its request did not have to say: whatever a
\* request resolves to, the opener and the later segments can prepare.
BindingsPrepare == ~ refused
=============================================================================
