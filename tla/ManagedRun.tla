------------------------------ MODULE ManagedRun ------------------------------
(***************************************************************************)
(* One segment under supervision: the worker task, the heartbeat loop, the  *)
(* deadline watchdog, a close from this or another pod, the supervisor that *)
(* holds them together (manage_run) and the handler or stream that owns it. *)
(* A step is what one task does between two awaits.                         *)
(*                                                                         *)
(* Awaiting a task and being cancelled cancels that task, and resumes when  *)
(* it is over (asyncio): the supervisor is never told before its worker.    *)
(***************************************************************************)
EXTENDS FiniteSets

CONSTANT Entries   \* "rest": the handler supervises; "agui": a task of the stream does

ASSUME EntriesType == Entries \subseteq {"rest", "agui"}

VARIABLES entry,      \* the entry point of the segment
          resumes,    \* whether it answers a hold
          worker,     \* the worker task
          event,      \* RunCancelHandle.event
          reason,     \* RunCancelHandle.reason
          heart,      \* the heartbeat loop
          dog,        \* whether the watchdog sleeps
          registered, \* the run's entry in the registry
          stamped,    \* a close of its execution or thread committed
          signalled,  \* that close has looked into this pod's registry
          sup,        \* the supervisor
          seen,       \* what it got from the worker
          gone,       \* the client of the stream disconnected
          caught,     \* the reason the stream read when it was cancelled
          stage,      \* the owner of the segment
          outcome,    \* how it settled the segment
          told,       \* how it ended its response
          late        \* history: the reason when the worker ended

vars == <<entry, resumes, worker, event, reason, heart, dog, registered, stamped, signalled, sup,
          seen, gone, caught, stage, outcome, told, late>>

\* What is fixed, and what only the owner changes.
setting == <<entry, resumes>>
owned == <<gone, caught, stage, outcome, told>>

Reasons == {"none", "close", "deadline", "heartbeat"}

Over == {"ok", "unsuccessful", "raised", "cancelled"}

TypeOK ==
  /\ entry \in Entries
  /\ resumes \in BOOLEAN
  /\ worker \in Over \cup {"none", "running", "cancelling"}
  /\ event \in BOOLEAN
  /\ reason \in Reasons
  /\ reason # "none" => event
  /\ heart \in {"off", "asleep", "beating"}
  /\ dog \in BOOLEAN
  /\ registered \in BOOLEAN
  /\ stamped \in BOOLEAN
  /\ signalled \in BOOLEAN
  /\ sup \in {"claimed", "managing", "leaving", "over"}
  /\ seen \in Over \cup {"none"}
  /\ gone \in BOOLEAN
  /\ caught \in Reasons
  /\ stage \in {"waiting", "settled", "finished", "ended"}
  /\ outcome \in {"none", "completed", "restored", "failed", "dropped"}
  /\ told \in {"none", "answered", "error", "cut"}
  /\ late \in Reasons

Working == worker \in {"running", "cancelling"}

-----------------------------------------------------------------------------
(* Cancelling the worker.                                                  *)

\* Mutant: only the event is set, for the worker to look at.
NotCancelled(w) == w

\* Task.cancel() of the worker.
Cancelled(w) == IF w = "running" THEN "cancelling" ELSE w

\* Mutant: the reason is recorded, the event is left as it is.
CancelUnseen(why) ==
  /\ reason' = why
  /\ worker' = Cancelled(worker)
  /\ UNCHANGED event

\* One cancellation by the heartbeat loop or the watchdog.
Cancel(why) ==
  /\ reason' = why
  /\ event' = TRUE
  /\ worker' = Cancelled(worker)

\* The worker returns a result or raises; cancelled, or seeing the event, it
\* may also stop.
WorkerEnds(how) ==
  /\ Working
  /\ how = "cancelled" => event \/ worker = "cancelling"
  /\ worker' = how
  /\ late' = reason
  /\ UNCHANGED <<setting, event, reason, heart, dog, registered, stamped, signalled, sup, seen, owned>>

\* The transaction of a close, on any pod.
RequestClose ==
  /\ ~stamped
  /\ stamped' = TRUE
  /\ UNCHANGED <<setting, worker, event, reason, heart, dog, registered, signalled, sup, seen, owned,
                 late>>

\* request_cancel_for_*, once, when the close runs on this pod.  It gives no
\* reason, and finds nothing before the run is registered or after.
SignalLocally ==
  /\ stamped
  /\ ~signalled
  /\ signalled' = TRUE
  /\ IF registered
     THEN /\ event' = TRUE
          /\ worker' = Cancelled(worker)
     ELSE UNCHANGED <<event, worker>>
  /\ UNCHANGED <<setting, reason, heart, dog, registered, stamped, sup, seen, owned, late>>

\* The heartbeat loop looks whether the worker is over, and starts a beat.
StartBeat ==
  /\ heart = "asleep"
  /\ heart' = IF Working THEN "beating" ELSE "off"
  /\ UNCHANGED <<setting, worker, event, reason, dog, registered, stamped, signalled, sup, seen, owned,
                 late>>

\* A beat reads the close stamps; the first reason stays.
Beat ==
  /\ heart = "beating"
  /\ heart' = "asleep"
  /\ IF stamped /\ reason = "none" THEN Cancel("close") ELSE UNCHANGED <<reason, event, worker>>
  /\ UNCHANGED <<setting, dog, registered, stamped, signalled, sup, seen, owned, late>>

\* Its transaction fails.
FailBeat ==
  /\ heart = "beating"
  /\ heart' = "asleep"
  /\ IF reason = "none" THEN Cancel("heartbeat") ELSE UNCHANGED <<reason, event, worker>>
  /\ UNCHANGED <<setting, dog, registered, stamped, signalled, sup, seen, owned, late>>

\* The deadline replaces any reason.
Deadline ==
  /\ dog
  /\ dog' = FALSE
  /\ IF Working THEN Cancel("deadline") ELSE UNCHANGED <<reason, event, worker>>
  /\ UNCHANGED <<setting, heart, registered, stamped, signalled, sup, seen, owned, late>>

-----------------------------------------------------------------------------
(* The supervisor.                                                         *)

\* manage_run is entered, and the worker may start.
Manage ==
  /\ sup = "claimed"
  /\ ~gone
  /\ sup' = "managing"
  /\ registered' = TRUE
  /\ heart' = "asleep"
  /\ dog' = TRUE
  /\ worker' = "running"
  /\ UNCHANGED <<setting, event, reason, stamped, signalled, seen, owned, late>>

\* The stream was cancelled before that: there is no worker to stop.
NeverManage ==
  /\ sup = "claimed"
  /\ gone
  /\ sup' = "over"
  /\ seen' = "cancelled"
  /\ UNCHANGED <<setting, worker, event, reason, heart, dog, registered, stamped, signalled, owned, late>>

\* Mutant: a cancelled worker is not waited for.
AwaitedUnlessCancelled == worker \in Over \cup {"cancelling"}

\* The worker the supervisor waits for is over.
Awaited == worker \in Over

\* Mutant: a result counts although its worker was told to stop.
ResultAsReturned == IF worker \in Over THEN worker ELSE "cancelled"

\* A result that comes after a reason is a cancellation.
Result == IF worker \in Over /\ (reason = "none" \/ worker = "raised") THEN worker ELSE "cancelled"

SeeWorker ==
  /\ sup = "managing"
  /\ Awaited
  /\ sup' = "leaving"
  /\ seen' = Result
  /\ dog' = FALSE
  /\ UNCHANGED <<setting, worker, event, reason, heart, registered, stamped, signalled, owned, late>>

\* The heartbeat ends after the worker.
Leave ==
  /\ sup = "leaving"
  /\ sup' = "over"
  /\ heart' = "off"
  /\ registered' = FALSE
  /\ UNCHANGED <<setting, worker, event, reason, dog, stamped, signalled, seen, owned, late>>

-----------------------------------------------------------------------------
(* The owner.                                                              *)

\* Mutant: only the recorded reason tells a close.
CloseByReason == reason = "close"

\* _close_discarded_claim: the handle says that a close took the hold.
CloseTookHold == reason = "close" \/ (reason = "none" /\ event)

\* Why the segment was cancelled, as its owner reads it.
Cause == IF gone THEN caught ELSE reason

\* A failed attempt: a resume's hold and execution, or the session of an
\* /execute, become what they were; an AG-UI execution is failed.
Failure ==
  IF entry = "rest" \/ (resumes /\ ~CloseTookHold) THEN "restored" ELSE "failed"

\* The client goes away: the stream is cancelled wherever it waits, and
\* cancels its run.  A stream that has settled its segment fails it again when a
\* beat that outlived the worker recorded a failure.
Disconnect ==
  /\ entry = "agui"
  /\ ~gone
  /\ stage # "ended"
  /\ gone' = TRUE
  /\ caught' = reason
  /\ worker' = IF stage = "waiting" THEN Cancelled(worker) ELSE worker
  /\ outcome' = IF stage # "waiting" /\ reason \in {"deadline", "heartbeat"} THEN Failure ELSE outcome
  /\ UNCHANGED <<setting, event, reason, heart, dog, registered, stamped, signalled, sup, seen, stage,
                 told, late>>

\* The status transactions.
Settle ==
  /\ stage = "waiting"
  /\ sup = "over"
  /\ stage' = "settled"
  /\ outcome' =
       CASE ~gone /\ seen = "ok" -> "completed"
         [] ~gone /\ seen \in {"unsuccessful", "raised"} -> Failure
         [] OTHER -> IF Cause \in {"deadline", "heartbeat"} THEN Failure ELSE "dropped"
  /\ UNCHANGED <<setting, worker, event, reason, heart, dog, registered, stamped, signalled, sup, seen,
                 gone, caught, told, late>>

\* finish_run
Finish ==
  /\ stage = "settled"
  /\ stage' = "finished"
  /\ UNCHANGED <<setting, worker, event, reason, heart, dog, registered, stamped, signalled, sup, seen,
                 gone, caught, outcome, told, late>>

MayTell == stage = "finished"

\* The response, or the stream's terminal event.  A stream whose run was
\* cancelled without a reason ends without one.
Tell ==
  /\ MayTell
  /\ told' =
       CASE gone -> "cut"
         [] entry = "agui" /\ outcome = "dropped" /\ reason = "none" -> "cut"
         [] ~gone /\ outcome = "completed" -> "answered"
         [] OTHER -> "error"
  /\ stage' = IF stage = "finished" THEN "ended" ELSE stage
  /\ UNCHANGED <<setting, worker, event, reason, heart, dog, registered, stamped, signalled, sup, seen,
                 gone, caught, outcome, late>>

-----------------------------------------------------------------------------
Init ==
  /\ entry \in Entries
  /\ resumes \in BOOLEAN
  /\ worker = "none"
  /\ event = FALSE
  /\ reason = "none"
  /\ heart = "off"
  /\ dog = FALSE
  /\ registered = FALSE
  /\ stamped = FALSE
  /\ signalled = FALSE
  /\ sup = "claimed"
  /\ seen = "none"
  /\ gone = FALSE
  /\ caught = "none"
  /\ stage = "waiting"
  /\ outcome = "none"
  /\ told = "none"
  /\ late = "none"

Supervise == Manage \/ NeverManage \/ SeeWorker \/ Leave

Own == Settle \/ Finish \/ Tell

Next ==
  \/ \E how \in Over : WorkerEnds(how)
  \/ RequestClose \/ SignalLocally
  \/ StartBeat \/ Beat \/ FailBeat
  \/ Deadline
  \/ Supervise
  \/ Disconnect
  \/ Own

\* Tasks that can run do, and a cancelled worker comes to an end.  The deadline
\* and the pod of a close are left open.
Fairness ==
  /\ WF_vars(StartBeat)
  /\ WF_vars(Beat \/ FailBeat)
  /\ WF_vars(Supervise)
  /\ WF_vars(Own)
  /\ WF_vars(worker = "cancelling" /\ \E how \in Over : WorkerEnds(how))

Spec == Init /\ [][Next]_vars /\ Fairness

-----------------------------------------------------------------------------
(* Properties.                                                             *)

\* "The liveness signal must outlive the work it describes": while the worker is
\* not over the heartbeat loop lives and the run row is not finished, whoever
\* was cancelled meanwhile.
WorkCovered == Working => heart # "off" /\ stage = "waiting"

\* A worker that ended after a reason to stop was recorded never completes the
\* segment, whatever it returned and whoever else changed the reason.
CancelledNotCompleted == outcome = "completed" => late = "none"

\* An AG-UI resume never restores a hold after a close on this pod cancelled its
\* worker, with a reason or without, unless the deadline or a failed heartbeat
\* gave the reason.
CloseKeepsHold ==
  entry = "agui" /\ resumes /\ outcome = "restored"
    => reason \in {"deadline", "heartbeat"} \/ ~event

\* A close of any pod that finds a run managed ends it, without the deadline's
\* help: the registry is not needed.
CloseEndsRun == stamped /\ sup = "managing" ~> stage = "ended"
=============================================================================
