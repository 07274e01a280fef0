---------------------------- MODULE RunLifecycle ----------------------------
(***************************************************************************)
(* The run ledger of the orchestrator: executions, conversation threads,   *)
(* the rows of execution_runs that claim them, and the requests that       *)
(* create, heartbeat, settle and finish those rows.                        *)
(*                                                                         *)
(* Every action is one committed database transaction of the service, so   *)
(* requests on any number of pods interleave between transactions and a    *)
(* pod can die between any two of them.  Time is abstracted to whether a   *)
(* row's heartbeat is older than RUN_HEARTBEAT_STALE_SEC.  A transaction   *)
(* is one step, so the order in which it takes row locks is not modelled.  *)
(***************************************************************************)
EXTENDS FiniteSets

CONSTANTS Execution,    \* rows of executions
          Thread,       \* conversation threads (thread_key)
          Run,          \* requests; a request that claims owns one run row
          NoThread,     \* the null thread_key
          HomeThread,   \* the thread an AG-UI execution is created on
          Entries       \* the entry points clients use

ASSUME ScopesDisjoint == /\ Execution \cap Thread = {}
                         /\ NoThread \notin Execution \cup Thread

ASSUME HomeThreadType == HomeThread \in [Execution -> Thread \cup {NoThread}]

ASSUME EntriesType == Entries \subseteq {"execute", "resume", "agui", "aguiResume"}

VARIABLES phase,    \* close lifecycle of each execution and thread
          status,   \* executions.status; "none" before the row exists
          row,      \* execution_runs.status; "none" before the claim
          beat,     \* heartbeat_at: "fresh", or older than the threshold
          claim,    \* what each request asks for: execution, thread, entry
          proc,     \* where each request's handler is
          parked,   \* runs that left a hold (llm_states row)
          stalled,  \* history: runs whose heartbeat lapsed while their owner lived
          late      \* history: runs claimed on a closing or closed execution

vars == <<phase, status, row, beat, claim, proc, parked, stalled, late>>

Scope == Execution \cup Thread

Statuses == {"none", "PENDING", "RUNNING", "AWAITING_RESPONSE", "COMPLETED", "FAILED"}

Claims == [exec : Execution, thread : Thread \cup {NoThread},
           entry : {"execute", "resume", "agui", "aguiResume"}]

NoClaim == [exec |-> NoThread, thread |-> NoThread, entry |-> "none"]

TypeOK ==
  /\ phase \in [Scope -> {"open", "closing", "closed"}]
  /\ status \in [Execution -> Statuses]
  /\ row \in [Run -> {"none", "active", "closing", "completed", "failed"}]
  /\ beat \in [Run -> {"fresh", "stale"}]
  /\ claim \in [Run -> Claims \cup {NoClaim}]
  /\ proc \in [Run -> {"idle", "loaded", "rejected", "working", "ok", "failed",
                       "finished", "done", "crashed"}]
  /\ parked \in SUBSET Run
  /\ stalled \in SUBSET Run
  /\ late \in SUBSET Run

-----------------------------------------------------------------------------
(* Reading the ledger.                                                     *)

\* status in (active, closing) and finished_at is null
Unfinished(r) == row[r] \in {"active", "closing"}

\* An AG-UI execution (origin "agui") is one with a home thread.
AguiOrigin(e) == HomeThread[e] # NoThread

InScope(r, s) == claim[r].exec = s \/ claim[r].thread = s

\* Mutant: the stale predicate forgets the heartbeat.
StaleRunsAnyBeat(s) == {r \in Run : Unfinished(r) /\ InScope(r, s)}

\* list_stale_runs for one scope
StaleRuns(s) == {r \in Run : Unfinished(r) /\ InScope(r, s) /\ beat[r] = "stale"}

\* Mutant: stale rows block a close too.
BlockingRunsAnyBeat(s) == {r \in Run : Unfinished(r) /\ InScope(r, s)}

\* Mutant: rows that were told to close no longer block.
BlockingRunsActiveOnly(s) == {r \in Run : row[r] = "active" /\ InScope(r, s) /\ beat[r] = "fresh"}

\* list_non_stale_active_runs for one scope
BlockingRuns(s) == {r \in Run : Unfinished(r) /\ InScope(r, s) /\ beat[r] = "fresh"}

\* Mutant: only the execution is compared, not the thread.
ConflictsByExecution(e, t, reaped) ==
  {r \in Run \ reaped : Unfinished(r) /\ claim[r].exec = e}

\* _has_conflicting_active_run, after the runs in reaped were failed
Conflicts(e, t, reaped) ==
  {r \in Run \ reaped : /\ Unfinished(r)
                        /\ \/ claim[r].exec = e
                           \/ t # NoThread /\ claim[r].thread = t}

\* finish_run(FAILED, update_execution_status) on the rows in reaped: the
\* parent execution fails with them unless it is COMPLETED.
ReapedRows(reaped) ==
  [r \in Run |-> IF r \in reaped THEN "failed" ELSE row[r]]

\* Mutant: the update forgets to spare completed executions.
ReapedStatusAll(reaped) ==
  [e \in Execution |-> IF \E r \in reaped : claim[r].exec = e THEN "FAILED" ELSE status[e]]

ReapedStatus(reaped) ==
  [e \in Execution |->
     IF /\ \E r \in reaped : claim[r].exec = e
        /\ status[e] # "COMPLETED"
     THEN "FAILED" ELSE status[e]]

-----------------------------------------------------------------------------
(* Requests.                                                               *)

NewClaim(e, t, n) == [exec |-> e, thread |-> t, entry |-> n]

\* Executions a caller can name: an orchestrator session once it is initiated,
\* an AG-UI execution once a run on it was claimed.
Known(e) ==
  IF AguiOrigin(e) THEN \E r \in Run : row[r] # "none" /\ claim[r].exec = e
                   ELSE status[e] # "none"

\* /initiate: the execution row of a new orchestrator session
Initiate(e) ==
  /\ ~AguiOrigin(e)
  /\ status[e] = "none"
  /\ status' = [status EXCEPT ![e] = "PENDING"]
  /\ UNCHANGED <<phase, row, beat, claim, proc, parked, stalled, late>>

\* /execute loads the execution into the session it will claim in, and finds
\* neither the execution nor the thread closing.
LoadExecute(r, e, t) ==
  /\ "execute" \in Entries
  /\ proc[r] = "idle"
  /\ Known(e)
  /\ phase[e] = "open"
  /\ t # NoThread => phase[t] = "open"
  /\ claim' = [claim EXCEPT ![r] = NewClaim(e, t, "execute")]
  /\ proc' = [proc EXCEPT ![r] = "loaded"]
  /\ UNCHANGED <<phase, status, row, beat, parked, stalled, late>>

\* AG-UI /run checks the thread and creates a RUNNING execution for the run.
CreateAgui(r, e) ==
  /\ "agui" \in Entries
  /\ proc[r] = "idle"
  /\ AguiOrigin(e)
  /\ status[e] = "none"
  /\ phase[HomeThread[e]] = "open"
  /\ status' = [status EXCEPT ![e] = "RUNNING"]
  /\ claim' = [claim EXCEPT ![r] = NewClaim(e, HomeThread[e], "agui")]
  /\ proc' = [proc EXCEPT ![r] = "loaded"]
  /\ UNCHANGED <<phase, row, beat, parked, stalled, late>>

\* try_create_active_run reads the close stamps of the execution row it locks.
\* In /execute that row is the object LoadExecute put into the session, whose
\* attributes the locking read does not refresh: the stamps are those of the
\* earlier load.  Every other caller gets them from the locking read.
ExecutionAdmits(e, n) == n = "execute" \/ phase[e] = "open"

\* The thread row is upserted and read under its lock in every path.
ThreadAdmits(t) == t # NoThread => phase[t] = "open"

Admitted(e, t, n) == ExecutionAdmits(e, n) /\ ThreadAdmits(t)

\* Stale rows of the execution and of the thread fail before a claim.
ReapedByClaim(e, t) == StaleRuns(e) \cup (IF t = NoThread THEN {} ELSE StaleRuns(t))

\* The run row is inserted when nothing unfinished is left in its scopes.
Grant(r, e, t, n) ==
  LET reaped == ReapedByClaim(e, t)
  IN /\ Admitted(e, t, n)
     /\ Conflicts(e, t, reaped) = {}
     /\ row' = [ReapedRows(reaped) EXCEPT ![r] = "active"]
     /\ beat' = [beat EXCEPT ![r] = "fresh"]
     /\ status' = [ReapedStatus(reaped) EXCEPT ![e] = "RUNNING"]
     /\ claim' = [claim EXCEPT ![r] = NewClaim(e, t, n)]
     /\ proc' = [proc EXCEPT ![r] = "working"]
     /\ late' = IF phase[e] = "open" THEN late ELSE late \cup {r}
     /\ UNCHANGED <<phase, parked, stalled>>

\* Otherwise the reaps are committed and the request is told of the conflict;
\* a resume leaves nothing behind.
Conflict(r, e, t, n) ==
  LET reaped == ReapedByClaim(e, t)
  IN /\ Admitted(e, t, n)
     /\ Conflicts(e, t, reaped) # {}
     /\ row' = ReapedRows(reaped)
     /\ status' = ReapedStatus(reaped)
     /\ proc' = [proc EXCEPT ![r] = IF n \in {"resume", "aguiResume"}
                                    THEN "idle" ELSE "rejected"]
     /\ UNCHANGED <<phase, beat, claim, parked, stalled, late>>

\* try_create_active_run and the status write of its caller, one transaction
Claim(r, e, t, n) == Grant(r, e, t, n) \/ Conflict(r, e, t, n)

\* /execute and AG-UI /run claim in the transaction after their first checks.
ClaimLoaded(r) ==
  /\ proc[r] = "loaded"
  /\ Claim(r, claim[r].exec, claim[r].thread, claim[r].entry)

\* RunClaimError: the session is closing or closed.  An AG-UI execution
\* created for the run fails in the same transaction.
Refused(r) ==
  /\ proc[r] = "loaded"
  /\ ~Admitted(claim[r].exec, claim[r].thread, claim[r].entry)
  /\ proc' = [proc EXCEPT ![r] = "done"]
  /\ status' = IF claim[r].entry = "agui"
               THEN [status EXCEPT ![claim[r].exec] = "FAILED"] ELSE status
  /\ UNCHANGED <<phase, row, beat, claim, parked, stalled, late>>

\* RUN_CONFLICT answered; an AG-UI execution is terminalized in a second
\* transaction.
AnswerConflict(r) ==
  /\ proc[r] = "rejected"
  /\ proc' = [proc EXCEPT ![r] = "done"]
  /\ status' = IF claim[r].entry = "agui"
               THEN [status EXCEPT ![claim[r].exec] = "FAILED"] ELSE status
  /\ UNCHANGED <<phase, row, beat, claim, parked, stalled, late>>

\* A resume claims its hold and its run in one transaction and undoes the
\* hold's claim in it when the run is refused.  The hold is one that an earlier
\* run q left, on its execution and thread; whether it is still awaiting is the
\* subject of ResumeHolds and left open here.  AG-UI finds holds by thread,
\* whoever parked them.
ClaimResume(r, q, n) ==
  /\ n \in Entries \cap {"resume", "aguiResume"}
  /\ proc[r] = "idle"
  /\ q \in parked
  /\ n = "aguiResume" => claim[q].thread # NoThread
  /\ Claim(r, claim[q].exec, claim[q].thread, n)

-----------------------------------------------------------------------------
(* The segment and its settlement.                                         *)

\* What a segment leaves in the execution row.
SettledStatus(n, outcome) ==
  CASE outcome = "success" -> "COMPLETED"
    [] outcome = "awaits"  -> "AWAITING_RESPONSE"
    [] outcome = "failure" -> CASE n = "execute" -> "PENDING"
                                [] n = "agui"    -> "FAILED"
                                [] OTHER         -> "AWAITING_RESPONSE"

\* manage_run has awaited the worker; the outcome is written to the execution,
\* whatever its row says by now.  A segment cancelled by a close or by a client
\* that went away, or whose write fails, leaves the row as it is ("dropped").
Settle(r, outcome) ==
  /\ proc[r] = "working"
  /\ status' = IF outcome = "dropped" THEN status
               ELSE [status EXCEPT ![claim[r].exec] = SettledStatus(claim[r].entry, outcome)]
  /\ proc' = [proc EXCEPT ![r] = IF outcome \in {"success", "awaits"} THEN "ok" ELSE "failed"]
  /\ parked' = IF outcome = "awaits" THEN parked \cup {r} ELSE parked
  /\ UNCHANGED <<phase, row, beat, claim, stalled, late>>

\* Mutant: the row takes the outcome instead of a run status.
FinishRunOutcome(r) ==
  /\ proc[r] \in {"ok", "failed"}
  /\ row' = IF Unfinished(r) THEN [row EXCEPT ![r] = proc[r]] ELSE row
  /\ proc' = [proc EXCEPT ![r] = "finished"]
  /\ UNCHANGED <<phase, status, beat, claim, parked, stalled, late>>

\* finish_run(update_execution_status=False): a row that is already finished
\* is left alone.
FinishRun(r) ==
  /\ proc[r] \in {"ok", "failed"}
  /\ row' = IF Unfinished(r)
            THEN [row EXCEPT ![r] = IF proc[r] = "ok" THEN "completed" ELSE "failed"]
            ELSE row
  /\ proc' = [proc EXCEPT ![r] = "finished"]
  /\ UNCHANGED <<phase, status, beat, claim, parked, stalled, late>>

\* The heartbeat loop refreshes an unfinished row while the worker runs.
Heartbeat(r) ==
  /\ proc[r] = "working"
  /\ Unfinished(r)
  /\ beat[r] = "stale"
  /\ beat' = [beat EXCEPT ![r] = "fresh"]
  /\ UNCHANGED <<phase, status, row, claim, proc, parked, stalled, late>>

\* RUN_HEARTBEAT_STALE_SEC pass without a heartbeat: the owner is gone, or it
\* is alive and its event loop or its database connection is blocked.
HeartbeatLapse(r) ==
  /\ Unfinished(r)
  /\ beat[r] = "fresh"
  /\ beat' = [beat EXCEPT ![r] = "stale"]
  /\ stalled' = IF proc[r] = "crashed" THEN stalled ELSE stalled \cup {r}
  /\ UNCHANGED <<phase, status, row, claim, proc, parked, late>>

\* The pod serving r dies.
Crash(r) ==
  /\ proc[r] \in {"loaded", "rejected", "working", "ok", "failed", "finished"}
  /\ proc' = [proc EXCEPT ![r] = "crashed"]
  /\ UNCHANGED <<phase, status, row, beat, claim, parked, stalled, late>>

-----------------------------------------------------------------------------
(* Closing an execution or a thread.                                       *)

\* The AG-UI executions with a run on the thread: the ones its close owns.
ThreadExecutions(t) ==
  {e \in Execution : /\ AguiOrigin(e)
                     /\ \E r \in Run : row[r] # "none" /\ claim[r].exec = e
                                       /\ claim[r].thread = t}

Owned(s) == IF s \in Thread THEN ThreadExecutions(s) ELSE {s}

\* Executions whose parked hold the close may discard.
ParkedOn(s) ==
  {e \in Execution : /\ status[e] = "AWAITING_RESPONSE"
                     /\ \E r \in parked : claim[r].exec = e /\ InScope(r, s)}

\* AWAITING_RESPONSE executions whose holds are discarded fail.
Discarded(discarded) ==
  [e \in Execution |-> IF e \in discarded THEN "FAILED" ELSE status[e]]

\* /abandon, and the fresh AG-UI run that drops what its thread was parked on.
DiscardHolds(t) ==
  /\ \E discarded \in (SUBSET ParkedOn(t)) \ {{}} : status' = Discarded(discarded)
  /\ UNCHANGED <<phase, row, beat, claim, proc, parked, stalled, late>>

\* POST .../close, first transaction: stamp the scope, move its active rows to
\* closing, discard its holds.
RequestClose(s) ==
  /\ phase[s] # "closed"
  /\ s \in Execution => Known(s)
  /\ phase' = [phase EXCEPT ![s] = "closing"]
  /\ row' = [r \in Run |-> IF row[r] = "active" /\ InScope(r, s)
                           THEN "closing" ELSE row[r]]
  /\ \E discarded \in SUBSET ParkedOn(s) : status' = Discarded(discarded)
  /\ UNCHANGED <<beat, claim, proc, parked, stalled, late>>

\* _reconcile_stale_runs in a transaction of its own
Reap(s) ==
  /\ row' = ReapedRows(StaleRuns(s))
  /\ status' = ReapedStatus(StaleRuns(s))
  /\ phase' = phase

\* Mutant: only parked executions are terminalized.
TerminalizedParked(old, es) ==
  [e \in Execution |-> IF e \in es /\ phase[e] # "closed" /\ old[e] = "AWAITING_RESPONSE"
                       THEN "FAILED" ELSE old[e]]

\* _terminalize_execution_status_for_close
Terminalized(old, es) ==
  [e \in Execution |-> IF e \in es /\ phase[e] # "closed" /\ old[e] # "COMPLETED"
                       THEN "FAILED" ELSE old[e]]

\* Stale rows fail; when no fresh row is left the executions the scope owns are
\* terminalized, those whose files could be removed (cleaned) are closed, and
\* the scope with them when nothing was left behind.
Finalize(s) ==
  LET reaped == StaleRuns(s)
  IN /\ phase[s] = "closing"
     /\ BlockingRuns(s) = {}
     /\ row' = ReapedRows(reaped)
     /\ status' = Terminalized(ReapedStatus(reaped), Owned(s))
     /\ \E cleaned \in SUBSET Owned(s), rest \in BOOLEAN :
          phase' = [x \in Scope |->
                      IF \/ s \in Thread /\ x \in cleaned
                         \/ x = s /\ cleaned = Owned(s) /\ rest
                      THEN "closed" ELSE phase[x]]

\* A close call polling, making its final attempt, or retried by the client.
RetryClose(s) ==
  /\ phase[s] # "open"
  /\ Reap(s) \/ Finalize(s)
  /\ UNCHANGED <<beat, claim, proc, parked, stalled, late>>

\* The scope a finished request reconciles: its thread on AG-UI, its execution
\* on the REST path.
ReconciledScope(r) ==
  IF claim[r].entry \in {"agui", "aguiResume"} THEN claim[r].thread ELSE claim[r].exec

\* reconcile_*_close.  A scope that carries no close request is left alone: an
\* open one, or an execution that was closed with its thread.
Reconcile(r) ==
  LET s == ReconciledScope(r)
  IN /\ proc[r] = "finished"
     /\ proc' = [proc EXCEPT ![r] = "done"]
     /\ \/ phase[s] # "closing" /\ UNCHANGED <<phase, status, row>>
        \/ phase[s] = "closed" /\ Reap(s)
        \/ phase[s] = "closing" /\ BlockingRuns(s) # {} /\ Reap(s)
        \/ Finalize(s)
     /\ UNCHANGED <<beat, claim, parked, stalled, late>>

-----------------------------------------------------------------------------

Init ==
  /\ phase = [s \in Scope |-> "open"]
  /\ status = [e \in Execution |-> "none"]
  /\ row = [r \in Run |-> "none"]
  /\ beat = [r \in Run |-> "fresh"]
  /\ claim = [r \in Run |-> NoClaim]
  /\ proc = [r \in Run |-> "idle"]
  /\ parked = {}
  /\ stalled = {}
  /\ late = {}

\* Everything but close calls.
Serve ==
  \/ \E e \in Execution : Initiate(e)
  \/ \E r \in Run, e \in Execution :
        \/ CreateAgui(r, e)
        \/ \E t \in Thread \cup {NoThread} : LoadExecute(r, e, t)
  \/ \E r, q \in Run : \E n \in Entries : ClaimResume(r, q, n)
  \/ \E r \in Run :
        \/ ClaimLoaded(r)
        \/ Refused(r)
        \/ AnswerConflict(r)
        \/ \E outcome \in {"success", "awaits", "failure", "dropped"} : Settle(r, outcome)
        \/ FinishRun(r)
        \/ Reconcile(r)
        \/ Heartbeat(r)
        \/ HeartbeatLapse(r)
        \/ Crash(r)
  \/ \E t \in Thread : DiscardHolds(t)

Next ==
  \/ Serve
  \/ \E s \in Scope : RequestClose(s) \/ RetryClose(s)

Spec == Init /\ [][Next]_vars

\* A service that keeps running: handlers that are alive reach their end (the
\* segment deadline cancels a worker and its owner awaits it), the heartbeat of
\* a dead owner goes stale, and time passes.
HandlersProceed ==
  \A r \in Run : /\ WF_vars(\E outcome \in {"success", "awaits", "failure", "dropped"} :
                               Settle(r, outcome))
                 /\ WF_vars(FinishRun(r))
                 /\ WF_vars(Reconcile(r))
                 /\ WF_vars(proc[r] = "crashed" /\ HeartbeatLapse(r))

\* A close attempt whose files can all be removed.
CleanFinalize(s) ==
  /\ Finalize(s)
  /\ phase'[s] = "closed"
  /\ UNCHANGED <<beat, claim, proc, parked, stalled, late>>

\* The client keeps retrying a close that answered 202, and storage recovers.
FairSpec == Spec /\ HandlersProceed /\ \A s \in Scope : WF_vars(CleanFinalize(s))

\* The client waits after a 202 instead; no pod dies, and whoever reconciles the
\* scope finds its files removable.
WaitNext ==
  /\ Serve \/ \E s \in Scope : RequestClose(s)
  /\ \A r \in Run :
       /\ proc'[r] # "crashed"
       /\ LET s == ReconciledScope(r)
          IN Reconcile(r) /\ phase[s] = "closing" /\ BlockingRuns(s) = {}
               => phase'[s] = "closed"

WaitSpec == Init /\ [][WaitNext]_vars /\ HandlersProceed

-----------------------------------------------------------------------------
(* Properties.                                                             *)

\* A worker is running for r, or has stopped and r is not yet finished.
Live(r) == proc[r] \in {"working", "ok", "failed"}

Overlap(r, q) == \/ claim[r].exec = claim[q].exec
                 \/ claim[r].thread = claim[q].thread /\ claim[r].thread # NoThread

\* Handlers and rows agree: a request has a row once it was granted one, and it
\* names its scopes once it is under way.
HandlersAgree ==
  \A r \in Run : /\ proc[r] = "idle" => claim[r] = NoClaim
                 /\ proc[r] # "idle" => claim[r] \in Claims
                 /\ claim[r].entry \in {"agui", "aguiResume"} => claim[r].thread \in Thread
                 /\ proc[r] = "loaded" => claim[r].entry \in {"execute", "agui"}
                 /\ proc[r] \in {"idle", "loaded", "rejected"} => row[r] = "none"
                 /\ Live(r) \/ r \in parked => row[r] # "none"

\* Two unfinished run rows never share an execution or a conversation thread,
\* whichever entry points, pods, reaps and closes produced them: the promise of
\* try_create_active_run that concurrent segments are rejected.
ExclusiveScopes ==
  \A r, q \in Run : r # q /\ Unfinished(r) /\ Unfinished(q) => ~Overlap(r, q)

\* A claim is not released while its work remains live: until its owner ends
\* it, a run whose heartbeat never lapsed keeps an unfinished, fresh row, which
\* no claim and no close of another pod can take from it.
LiveWorkerHoldsClaim ==
  \A r \in Run : Live(r) /\ r \notin stalled => Unfinished(r) /\ beat[r] = "fresh"

\* An AG-UI execution whose runs were all on the thread it was created on:
\* /execute may name such an execution with another thread, or with none.
AtHome(e) ==
  AguiOrigin(e) =>
    \A r \in Run : row[r] # "none" /\ claim[r].exec = e => claim[r].thread = HomeThread[e]

\* Runs about which a close makes its promise: claimed while the execution was
\* open, and never silent.
Regular(r) == r \notin stalled \cup late /\ AtHome(claim[r].exec)

\* A scope whose files a close has removed has no live worker: the close waited
\* for every fresh row, and no row was claimed after it.
ClosedScopeQuiet ==
  \A r \in Run : Live(r) /\ Regular(r) =>
     /\ phase[claim[r].exec] # "closed"
     /\ claim[r].thread # NoThread => phase[claim[r].thread] # "closed"

\* A closed execution is in a terminal status and stays in it: no settlement,
\* restore or reap that was under way when it closed can revive it.
ClosedIsTerminal ==
  \A e \in Execution :
     phase[e] = "closed" /\ (\A r \in Run : claim[r].exec = e => Regular(r))
       => status[e] \in {"COMPLETED", "FAILED"}

\* A completed execution leaves COMPLETED only because a new segment is claimed
\* on it, unless a run on it outlived its heartbeat: reaps, closes and discarded
\* holds keep it, and no second worker is there to overwrite it.
CompletedPreserved ==
  [][\A e \in Execution : status[e] = "COMPLETED" /\ status'[e] # "COMPLETED" =>
       \E r \in Run : \/ row[r] = "none" /\ row'[r] = "active" /\ claim'[r].exec = e
                      \/ r \in stalled /\ claim[r].exec = e]_vars

\* A closed session is not runnable (the retry contract of ORCHESTRATOR.md):
\* in particular a closed execution is not RUNNING.
ClosedExecutionNotRunning ==
  \A e \in Execution : phase[e] = "closed" => status[e] # "RUNNING"

\* After a 202 closing response a close that is retried ends: runs that were
\* admitted before it finish or go stale, and none is admitted after it.
CloseCompletes == \A s \in Scope : phase[s] = "closing" ~> phase[s] = "closed"

\* After a 202 closing response waiting is enough: once the run that held the
\* close up has finished, the close is reconciled (ORCHESTRATOR.md).
CloseReconciled ==
  \A s \in Scope, r \in Run :
    phase[s] = "closing" /\ r \in BlockingRuns(s) ~> phase[s] = "closed"

\* The ledger implements SessionLease: what a run holds is what its unfinished
\* row names, and a lease lapses with the row's heartbeat.
Lease == INSTANCE SessionLease WITH
           Gated <- Thread,
           Holder <- Run,
           gate <- [t \in Thread |-> phase[t]],
           held <- [r \in Run |-> IF Unfinished(r)
                                  THEN {claim[r].exec, claim[r].thread} \ {NoThread}
                                  ELSE {}],
           lapsed <- {r \in Run : Unfinished(r) /\ beat[r] = "stale"}

\* Claims, reaps, finishes and closes of the ledger are steps of leases that
\* only break after they lapsed.
ImplementsLease == Lease!Spec
=============================================================================
