----------------------------- MODULE ResumeHolds -----------------------------
(***************************************************************************)
(* The holds (llm_states rows) of one conversation: an agent segment that   *)
(* needs an answer parks on a hold, a resume claims the hold, continues and *)
(* settles it.  Requests of all four entry points that claim runs, and the  *)
(* direct agent API that does not, are followed one database transaction at *)
(* a time, with abandons, a close, recovered claims and crashes in between. *)
(*                                                                         *)
(* Every run of the conversation claims its thread, so at most one run row  *)
(* is unfinished (ExclusiveScopes of RunLifecycle): owner.                  *)
(***************************************************************************)
EXTENDS FiniteSets

CONSTANTS Execution,   \* executions of the conversation
          Session,     \* those that /initiate created; AG-UI runs create the others
          Hold,        \* llm_states rows
          Run,         \* requests
          NoHold, NoRun, NoExecution,
          Kinds        \* the entry points clients use

ASSUME SessionType == Session \subseteq Execution

ASSUME NullsType == NoHold \notin Hold /\ NoRun \notin Run /\ NoExecution \notin Execution

ASSUME KindsType == Kinds \subseteq {"execute", "resume", "agui", "aguiResume", "resumeRun"}

VARIABLES status,    \* executions.status
          hold,      \* llm_states.status
          of,        \* llm_states.execution_id
          closing,   \* a close of the conversation was requested
          owner,     \* the run whose row is unfinished
          stale,     \* whether the owner's heartbeat is too old
          proc,      \* where each request's handler is
          kind,      \* its entry point
          on,        \* its execution
          uses,      \* the hold it answers
          made,      \* the hold it parked on
          result,    \* how it settled
          robbed,    \* history: runs whose hold was recovered, abandoned or closed
          reaped     \* history: runs that lost their row while they were live

vars == <<status, hold, of, closing, owner, stale, proc, kind, on, uses, made, result,
          robbed, reaped>>

Statuses == {"none", "PENDING", "RUNNING", "AWAITING_RESPONSE", "COMPLETED", "FAILED"}

Stages == {"idle", "checked", "starting", "working", "parked", "lost", "answered", "undo",
           "undone", "asking", "asked", "raised", "settled", "done", "crashed"}

TypeOK ==
  /\ status \in [Execution -> Statuses]
  /\ hold \in [Hold -> {"none", "awaiting", "pending", "completed", "discarded"}]
  /\ of \in [Hold -> Execution \cup {NoExecution}]
  /\ closing \in BOOLEAN
  /\ owner \in Run \cup {NoRun}
  /\ stale \in BOOLEAN
  /\ stale => owner \in Run
  /\ proc \in [Run -> Stages]
  /\ kind \in [Run -> Kinds \cup {"none"}]
  /\ on \in [Run -> Execution \cup {NoExecution}]
  /\ uses \in [Run -> Hold \cup {NoHold}]
  /\ made \in [Run -> Hold \cup {NoHold}]
  /\ result \in [Run -> {"none", "ok", "failed", "dropped"}]
  /\ robbed \in SUBSET Run
  /\ reaped \in SUBSET Run

Live(r) == proc[r] \notin {"idle", "checked", "done", "crashed"}

IsAgui(r) == kind[r] \in {"agui", "aguiResume"}

\* Holds of the conversation; /resumeRun parks on holds that name no thread.
Threaded(h) == \A r \in Run : made[r] = h => kind[r] # "resumeRun"

\* Live runs that have claimed one of the holds in H and not completed it.
Answering(H) == {r \in Run : Live(r) /\ uses[r] \in H /\ proc[r] # "settled"}

-----------------------------------------------------------------------------
(* Claiming.                                                               *)

\* Mutant: the claim of a run is not refused while another run is live.
FreeAlways == ~closing

\* try_create_active_run finds no close request and no fresh unfinished row.
Free == ~closing /\ (owner = NoRun \/ stale)

\* The run row of r on e: a stale row is failed with its execution first.
TakeRow(r, e) ==
  LET lost == {q \in Run : q = owner /\ stale}
  IN /\ owner' = r
     /\ stale' = FALSE
     /\ reaped' = reaped \cup {q \in lost : Live(q)}
     /\ status' = [x \in Execution |->
                     IF x = e THEN "RUNNING"
                     ELSE IF status[x] # "COMPLETED" /\ \E q \in lost : on[q] = x
                          THEN "FAILED" ELSE status[x]]
     /\ on' = [on EXCEPT ![r] = e]

\* /execute does not look at the execution's status or holds.
ClaimExecute(r, e) ==
  /\ "execute" \in Kinds
  /\ proc[r] = "idle"
  /\ status[e] # "none"
  /\ Free
  /\ TakeRow(r, e)
  /\ kind' = [kind EXCEPT ![r] = "execute"]
  /\ proc' = [proc EXCEPT ![r] = "working"]
  /\ UNCHANGED <<hold, of, closing, uses, made, result, robbed>>

\* recover_stale_pending_claims: every resume and AG-UI request starts by
\* restoring the claims that are older than RESUME_CLAIM_TIMEOUT_SEC, whatever
\* their run is doing.
Recover(H) ==
  /\ H # {}
  /\ H \subseteq {h \in Hold : hold[h] = "pending"}
  /\ hold' = [h \in Hold |-> IF h \in H THEN "awaiting" ELSE hold[h]]
  /\ robbed' = robbed \cup Answering(H)
  /\ UNCHANGED <<status, of, closing, owner, stale, proc, kind, on, uses, made, result, reaped>>

\* try_claim_state_for_resume and the run claim, one transaction; a refused run
\* undoes the hold's claim in it.
ClaimHold(r, h, k) ==
  /\ hold[h] = "awaiting"
  /\ Free
  /\ TakeRow(r, of[h])
  /\ hold' = [hold EXCEPT ![h] = "pending"]
  /\ uses' = [uses EXCEPT ![r] = h]
  /\ kind' = [kind EXCEPT ![r] = k]
  /\ proc' = [proc EXCEPT ![r] = "working"]
  /\ UNCHANGED <<of, closing, made, result, robbed>>

ClaimResume(r, h) ==
  /\ "resume" \in Kinds
  /\ proc[r] = "idle"
  /\ ClaimHold(r, h, "resume")

\* AG-UI /run goes on when its thread is open and no hold of it is pending.
CheckThread(r) ==
  /\ Kinds \cap {"agui", "aguiResume"} # {}
  /\ proc[r] = "idle"
  /\ ~closing
  /\ \A h \in Hold : Threaded(h) => hold[h] # "pending"
  /\ proc' = [proc EXCEPT ![r] = "checked"]
  /\ UNCHANGED <<status, hold, of, closing, owner, stale, kind, on, uses, made, result, robbed,
                 reaped>>

ClaimAguiResume(r, h) ==
  /\ "aguiResume" \in Kinds
  /\ proc[r] = "checked"
  /\ ClaimHold(r, h, "aguiResume")

\* A fresh AG-UI run creates its execution and claims it.
ClaimFresh(r, e) ==
  /\ "agui" \in Kinds
  /\ proc[r] = "checked"
  /\ status[e] = "none"
  /\ Free
  /\ TakeRow(r, e)
  /\ kind' = [kind EXCEPT ![r] = "agui"]
  /\ proc' = [proc EXCEPT ![r] = "starting"]
  /\ UNCHANGED <<hold, of, closing, uses, made, result, robbed>>

\* AWAITING_RESPONSE executions of the holds in H fail with them.
Discard(H) ==
  /\ hold' = [h \in Hold |-> IF h \in H THEN "discarded" ELSE hold[h]]
  /\ status' = [e \in Execution |->
                  IF status[e] = "AWAITING_RESPONSE" /\ \E h \in H : of[h] = e
                  THEN "FAILED" ELSE status[e]]
  /\ robbed' = robbed \cup Answering(H)

\* The fresh run's worker discards what the conversation was parked on before
\* it asks the model.
DiscardAwaiting(r) ==
  /\ proc[r] = "starting"
  /\ Discard({h \in Hold : hold[h] = "awaiting" /\ Threaded(h)})
  /\ proc' = [proc EXCEPT ![r] = "working"]
  /\ UNCHANGED <<of, closing, owner, stale, kind, on, uses, made, result, reaped>>

-----------------------------------------------------------------------------
(* Settling: one action per transaction.                                   *)

\* The new hold of a segment that needs an answer.  What is left to settle is
\* the claimed hold, if there is one.
Park(r, h) ==
  /\ proc[r] \in {"working", "asked"}
  /\ hold[h] = "none"
  /\ hold' = [hold EXCEPT ![h] = "awaiting"]
  /\ of' = [of EXCEPT ![h] = on[r]]
  /\ made' = [made EXCEPT ![r] = h]
  /\ status' = [status EXCEPT ![on[r]] = "AWAITING_RESPONSE"]
  /\ IF uses[r] \in Hold /\ proc[r] = "working"
     THEN /\ proc' = [proc EXCEPT ![r] = "parked"]
          /\ UNCHANGED result
     ELSE /\ proc' = [proc EXCEPT ![r] = "settled"]
          /\ result' = [result EXCEPT ![r] = "ok"]
  /\ UNCHANGED <<closing, owner, stale, kind, on, uses, robbed, reaped>>

\* Mutant: the claim is completed whoever holds it now.
CompletesAlways(r) == TRUE

\* Mutant: a claim that was recovered, and is on offer again, is completed.
CompletesRestored(r) == hold[uses[r]] \in {"awaiting", "pending"}

\* complete_claimed_state finds the claimed hold still pending.
Completes(r) == hold[uses[r]] = "pending"

\* After parking: the claimed hold is completed.
CompleteParked(r) ==
  /\ proc[r] = "parked"
  /\ Completes(r)
  /\ hold' = [hold EXCEPT ![uses[r]] = "completed"]
  /\ result' = [result EXCEPT ![r] = "ok"]
  /\ proc' = [proc EXCEPT ![r] = "settled"]
  /\ UNCHANGED <<status, of, closing, owner, stale, kind, on, uses, made, robbed, reaped>>

\* The claim was lost, and may be somebody else's before that is undone.
LoseParked(r) ==
  /\ proc[r] = "parked"
  /\ ~Completes(r)
  /\ proc' = [proc EXCEPT ![r] = "lost"]
  /\ UNCHANGED <<status, hold, of, closing, owner, stale, kind, on, uses, made, result, robbed,
                 reaped>>

\* A successful resume completes its claim before it completes the execution;
\* without the claim it fails, and only the REST resume tries to restore it.
CompleteAnswered(r) ==
  /\ proc[r] = "working"
  /\ kind[r] \in {"resume", "aguiResume"}
  /\ IF Completes(r)
     THEN /\ hold' = [hold EXCEPT ![uses[r]] = "completed"]
          /\ proc' = [proc EXCEPT ![r] = "answered"]
          /\ UNCHANGED result
     ELSE /\ proc' = [proc EXCEPT ![r] = IF IsAgui(r) THEN "undone" ELSE "undo"]
          /\ result' = [result EXCEPT ![r] = "failed"]
          /\ UNCHANGED hold
  /\ UNCHANGED <<status, of, closing, owner, stale, kind, on, uses, made, robbed, reaped>>

\* The execution's status after a segment that parks on nothing.
Finalize(r) ==
  /\ \/ proc[r] = "answered"
     \/ proc[r] = "working" /\ kind[r] \in {"execute", "agui"}
  /\ status' = [status EXCEPT ![on[r]] = "COMPLETED"]
  /\ result' = [result EXCEPT ![r] = "ok"]
  /\ proc' = [proc EXCEPT ![r] = "settled"]
  /\ UNCHANGED <<hold, of, closing, owner, stale, kind, on, uses, made, robbed, reaped>>

\* A fresh segment fails: the session may be executed again, the AG-UI
\* execution is history.
FailFresh(r) ==
  /\ \/ proc[r] = "working" /\ kind[r] \in {"execute", "agui"}
     \/ proc[r] = "starting"
  /\ status' = [status EXCEPT ![on[r]] = IF IsAgui(r) THEN "FAILED" ELSE "PENDING"]
  /\ result' = [result EXCEPT ![r] = "failed"]
  /\ proc' = [proc EXCEPT ![r] = "settled"]
  /\ UNCHANGED <<hold, of, closing, owner, stale, kind, on, uses, made, robbed, reaped>>

\* A resumed segment fails.
FailResume(r) ==
  /\ proc[r] = "working"
  /\ kind[r] \in {"resume", "aguiResume"}
  /\ result' = [result EXCEPT ![r] = "failed"]
  /\ proc' = [proc EXCEPT ![r] = "undo"]
  /\ UNCHANGED <<status, hold, of, closing, owner, stale, kind, on, uses, made, robbed, reaped>>

\* A resumed AG-UI segment fails under a close, which owns its hold by then.
FailUnderClose(r) ==
  /\ closing
  /\ proc[r] = "working"
  /\ kind[r] = "aguiResume"
  /\ status' = [status EXCEPT ![on[r]] = "FAILED"]
  /\ result' = [result EXCEPT ![r] = "failed"]
  /\ proc' = [proc EXCEPT ![r] = "settled"]
  /\ UNCHANGED <<hold, of, closing, owner, stale, kind, on, uses, made, robbed, reaped>>

\* Mutant: a failed resume leaves its hold claimed.
RestoredNothing(r) == hold

\* restore_claimed_state
Restored(r) == [hold EXCEPT ![uses[r]] = IF @ = "pending" THEN "awaiting" ELSE @]

\* rollback_partial_resume_settlement discards the new hold and restores the
\* claimed one, if it is claimed again.  The REST resume raises inside the session
\* that does it, which rolls it back, and restores the claim later if this found
\* none to restore.
RollBackParked(r) ==
  /\ proc[r] = "lost"
  /\ result' = [result EXCEPT ![r] = "failed"]
  /\ IF IsAgui(r)
     THEN /\ hold' = [Restored(r) EXCEPT ![made[r]] = "discarded"]
          /\ robbed' = robbed \cup Answering({made[r]})
          /\ proc' = [proc EXCEPT ![r] = "undone"]
     ELSE /\ proc' = [proc EXCEPT ![r] = IF hold[uses[r]] = "pending" THEN "undone" ELSE "undo"]
          /\ UNCHANGED <<hold, robbed>>
  /\ UNCHANGED <<status, of, closing, owner, stale, kind, on, uses, made, reaped>>

RestoreClaim(r) ==
  /\ proc[r] = "undo"
  /\ hold' = Restored(r)
  /\ proc' = [proc EXCEPT ![r] = "undone"]
  /\ UNCHANGED <<status, of, closing, owner, stale, kind, on, uses, made, result, robbed, reaped>>

\* _restore_execution_awaiting
RestoreExecution(r) ==
  /\ proc[r] = "undone"
  /\ status' = [status EXCEPT ![on[r]] = "AWAITING_RESPONSE"]
  /\ proc' = [proc EXCEPT ![r] = "settled"]
  /\ UNCHANGED <<hold, of, closing, owner, stale, kind, on, uses, made, result, robbed, reaped>>

\* A close cancels the worker; an AG-UI client that goes away cancels its
\* handler at any await.  Neither settles anything.
Dropped(r) ==
  /\ \/ closing /\ proc[r] \in {"starting", "working"}
     \/ IsAgui(r) /\ Live(r) /\ proc[r] # "settled"
  /\ result' = [result EXCEPT ![r] = "dropped"]
  /\ proc' = [proc EXCEPT ![r] = "settled"]
  /\ UNCHANGED <<status, hold, of, closing, owner, stale, kind, on, uses, made, robbed, reaped>>

\* Mutant: a finished run leaves its heartbeat's age behind.
FinishRunStale(r) ==
  /\ proc[r] = "settled"
  /\ owner' = IF owner = r THEN NoRun ELSE owner
  /\ proc' = [proc EXCEPT ![r] = "done"]
  /\ UNCHANGED <<status, hold, of, closing, stale, kind, on, uses, made, result, robbed, reaped>>

\* finish_run, unless the row was taken meanwhile.
FinishRun(r) ==
  /\ proc[r] = "settled"
  /\ owner' = IF owner = r THEN NoRun ELSE owner
  /\ stale' = (stale /\ owner # r)
  /\ proc' = [proc EXCEPT ![r] = "done"]
  /\ UNCHANGED <<status, hold, of, closing, kind, on, uses, made, result, robbed, reaped>>

-----------------------------------------------------------------------------
(* The direct agent API: no run row, no claim of the hold.                 *)

LoadAgent(r, h) ==
  /\ "resumeRun" \in Kinds
  /\ proc[r] = "idle"
  /\ hold[h] = "awaiting"
  /\ uses' = [uses EXCEPT ![r] = h]
  /\ on' = [on EXCEPT ![r] = of[h]]
  /\ kind' = [kind EXCEPT ![r] = "resumeRun"]
  /\ proc' = [proc EXCEPT ![r] = "asking"]
  /\ UNCHANGED <<status, hold, of, closing, owner, stale, made, result, robbed, reaped>>

\* The worker has returned: the hold is completed, or discarded when it raised,
\* whatever its status.
SettleAgent(r, verdict) ==
  /\ proc[r] = "asking"
  /\ hold' = [hold EXCEPT ![uses[r]] = verdict]
  /\ robbed' = robbed \cup (Answering({uses[r]}) \ {r})
  /\ proc' = [proc EXCEPT ![r] = IF verdict = "completed" THEN "asked" ELSE "raised"]
  /\ UNCHANGED <<status, of, closing, owner, stale, kind, on, uses, made, result, reaped>>

\* The execution follows, unless the worker needs another answer (Park).
FinishAgent(r, outcome) ==
  /\ \/ proc[r] = "asked"
     \/ proc[r] = "raised" /\ outcome = "FAILED"
  /\ status' = [status EXCEPT ![on[r]] = outcome]
  /\ result' = [result EXCEPT ![r] = IF outcome = "COMPLETED" THEN "ok" ELSE "failed"]
  /\ proc' = [proc EXCEPT ![r] = "settled"]
  /\ UNCHANGED <<hold, of, closing, owner, stale, kind, on, uses, made, robbed, reaped>>

-----------------------------------------------------------------------------
(* The conversation's other operations, time and pods.                     *)

OpenHolds == {h \in Hold : hold[h] \in {"awaiting", "pending"} /\ Threaded(h)}

\* /abandon takes the hold of a live resume as well.
Abandon ==
  /\ OpenHolds # {}
  /\ Discard(OpenHolds)
  /\ UNCHANGED <<of, closing, owner, stale, proc, kind, on, uses, made, result, reaped>>

RequestClose ==
  /\ ~closing
  /\ closing' = TRUE
  /\ Discard(OpenHolds)
  /\ UNCHANGED <<of, owner, stale, proc, kind, on, uses, made, result, reaped>>

\* A close fails a run whose heartbeat is old, and its execution.
ReapByClose ==
  /\ closing
  /\ stale
  /\ status' = [status EXCEPT ![on[owner]] = IF @ = "COMPLETED" THEN @ ELSE "FAILED"]
  /\ reaped' = reaped \cup {q \in {owner} : Live(q)}
  /\ owner' = NoRun
  /\ stale' = FALSE
  /\ UNCHANGED <<hold, of, closing, proc, kind, on, uses, made, result, robbed>>

HeartbeatLapse ==
  /\ owner \in Run
  /\ stale' = TRUE
  /\ UNCHANGED <<status, hold, of, closing, owner, proc, kind, on, uses, made, result, robbed,
                 reaped>>

\* heartbeat_run: only while the worker runs.
Heartbeat ==
  /\ stale
  /\ proc[owner] \in {"starting", "working"}
  /\ stale' = FALSE
  /\ UNCHANGED <<status, hold, of, closing, owner, proc, kind, on, uses, made, result, robbed,
                 reaped>>

Crash(r) ==
  /\ Live(r)
  /\ proc' = [proc EXCEPT ![r] = "crashed"]
  /\ UNCHANGED <<status, hold, of, closing, owner, stale, kind, on, uses, made, result, robbed,
                 reaped>>

-----------------------------------------------------------------------------
Init ==
  /\ status = [e \in Execution |-> IF e \in Session THEN "PENDING" ELSE "none"]
  /\ hold = [h \in Hold |-> "none"]
  /\ of = [h \in Hold |-> NoExecution]
  /\ closing = FALSE
  /\ owner = NoRun
  /\ stale = FALSE
  /\ proc = [r \in Run |-> "idle"]
  /\ kind = [r \in Run |-> "none"]
  /\ on = [r \in Run |-> NoExecution]
  /\ uses = [r \in Run |-> NoHold]
  /\ made = [r \in Run |-> NoHold]
  /\ result = [r \in Run |-> "none"]
  /\ robbed = {}
  /\ reaped = {}

Claim(r) ==
  \/ \E e \in Execution : ClaimExecute(r, e) \/ ClaimFresh(r, e)
  \/ \E h \in Hold : ClaimResume(r, h) \/ ClaimAguiResume(r, h)
  \/ CheckThread(r)

SettleRun(r) ==
  \/ \E h \in Hold : Park(r, h)
  \/ CompleteParked(r)
  \/ LoseParked(r)
  \/ RollBackParked(r)
  \/ CompleteAnswered(r)
  \/ Finalize(r)
  \/ FailFresh(r)
  \/ FailResume(r)
  \/ FailUnderClose(r)
  \/ RestoreClaim(r)
  \/ RestoreExecution(r)
  \/ Dropped(r)
  \/ FinishRun(r)

AgentStep(r) ==
  \/ \E h \in Hold : LoadAgent(r, h)
  \/ \E verdict \in {"completed", "discarded"} : SettleAgent(r, verdict)
  \/ \E outcome \in {"COMPLETED", "FAILED"} : FinishAgent(r, outcome)

Next ==
  \/ \E r \in Run : Claim(r) \/ DiscardAwaiting(r) \/ SettleRun(r) \/ AgentStep(r) \/ Crash(r)
  \/ \E H \in SUBSET Hold : Recover(H)
  \/ Abandon
  \/ RequestClose
  \/ ReapByClose
  \/ HeartbeatLapse
  \/ Heartbeat

Spec == Init /\ [][Next]_vars

-----------------------------------------------------------------------------
(* Properties.                                                             *)

Claims(r) == kind[r] \in {"execute", "resume", "agui", "aguiResume"}

\* Two live requests that claimed one hold never work on it together unless one
\* of them lost its run row: a recovered claim cannot be claimed again while its
\* run is alive, because the run claim in the same transaction is refused.
OneClaimPerHold ==
  \A r, q \in Run :
    r # q /\ Claims(r) /\ Claims(q) /\ Live(r) /\ Live(q) /\ uses[r] \in Hold /\ uses[r] = uses[q]
      => r \in reaped \/ q \in reaped

\* Two requests that claimed one hold never both succeed: whatever recoveries,
\* abandons and reaps came between them, only one completes the claim.
AnsweredOnce ==
  \A r, q \in Run :
    r # q /\ Claims(r) /\ Claims(q) /\ uses[r] \in Hold /\ uses[r] = uses[q]
      => ~(result[r] = "ok" /\ result[q] = "ok")

\* A hold that was answered or discarded is never offered again, however late a
\* failing resume comes to restore its claim.  KeepsPromise says this and more.
SettledHoldsStay ==
  [][\A h \in Hold : hold[h] \in {"completed", "discarded"} => hold'[h] \in {"completed", "discarded"}]_vars

\* A request that lost its claim or its row, or never claimed, may leave its
\* execution waiting for nothing.
Undisturbed(r) == Claims(r) /\ r \notin robbed \cup reaped

\* An execution that awaits an answer, and that only undisturbed requests have
\* worked on, has a hold a client can answer: at every step of a park, a failing
\* resume, an abandon or a close, the status follows the hold and not before it.
AwaitingAnswerable ==
  \A e \in Execution :
    /\ status[e] = "AWAITING_RESPONSE"
    /\ \A r \in Run : on[r] = e => Undisturbed(r)
    => \E h \in Hold : of[h] = e /\ hold[h] = "awaiting"

\* docs/ORCHESTRATOR.md:917-921 of every entry point that resumes: "Each path
\* then atomically claims the same database state".  No two live requests
\* answer one hold unless one of them lost its run row.
OneWorkerPerHold ==
  \A r, q \in Run :
    r # q /\ Live(r) /\ Live(q) /\ uses[r] \in Hold /\ uses[r] = uses[q]
      => r \in reaped \/ q \in reaped

\* rollback_partial_resume_settlement: "Discard a new awaiting hold and restore
\* the claimed hold after failed completion".  A resume that parked and could
\* not complete its claim leaves no second hold to answer.
FailedSettlementDiscards ==
  \A r \in Run : proc[r] = "done" /\ result[r] = "failed" /\ made[r] \in Hold => hold[made[r]] # "awaiting"

\* docs/ORCHESTRATOR.md:1151-1159, "After any failed segment", AG-UI resume:
\* "The claimed hold returns to AWAITING_RESPONSE".  A resume that kept its
\* claim and its row, and ended failed, leaves its hold to be answered.
FailedResumeRestored ==
  \A r \in Run :
    /\ proc[r] = "done"
    /\ result[r] \in {"failed", "dropped"}
    /\ uses[r] \in Hold
    /\ Undisturbed(r)
    /\ ~closing
    => hold[uses[r]] # "pending" \/ \E q \in Run \ {r} : uses[q] = uses[r] /\ proc[q] # "done"

-----------------------------------------------------------------------------
(* The abstract promise.                                                   *)

\* What each status of a hold means to those who answer.
Phases == [none |-> "unasked", awaiting |-> "open", pending |-> "taken",
           completed |-> "closed", discarded |-> "closed"]

\* The request that completed its claim of h, on its way to success or there.
Answered(h) ==
  {r \in Run : Claims(r) /\ uses[r] = h /\ (result[r] = "ok" \/ proc[r] = "answered")}

Promise == INSTANCE HoldPromise WITH
  Question <- Hold,
  Client <- Run,
  phase <- [h \in Hold |-> Phases[hold[h]]],
  answer <- [h \in Hold |-> Answered(h)]

\* The transactions of the handlers, however they interleave, keep HoldPromise:
\* a request succeeds only if its own completion closed a claimed hold, also when
\* its claim was recovered, abandoned or taken over meanwhile.
KeepsPromise == Promise!Spec
=============================================================================
