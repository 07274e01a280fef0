--------------------------- MODULE ManagedRunProofs ---------------------------
(***************************************************************************)
(* The safety invariants of ManagedRun, for both entry points or either.   *)
(* One inductive invariant carries them: it says what the phase of the     *)
(* supervisor tells of the worker, the background tasks and the owner.     *)
(***************************************************************************)
EXTENDS ManagedRun, TLAPS

\* Before manage_run nothing runs, and nothing of the owner has happened before
\* the supervisor is over.
Phases ==
  /\ sup = "claimed" => worker = "none"
  /\ sup # "over" => stage = "waiting"
  /\ Working => sup = "managing" /\ heart # "off"

\* A supervisor that is over left no task and no registry entry behind; the
\* watchdog went first.
Joined ==
  /\ sup = "over" => heart = "off" /\ ~registered
  /\ sup \in {"leaving", "over"} => ~dog

\* Before it is over, only the supervisor keeps a task or a registry entry.
Idle == sup = "claimed" => heart = "off" /\ ~dog /\ ~registered

\* What the supervisor and the owner know came from the worker as it ended.
Seen ==
  /\ worker = "none" \/ Working => late = "none"
  /\ late # "none" => reason # "none"
  /\ sup \in {"claimed", "managing"} => seen = "none"
  /\ seen = "ok" => late = "none"

\* What the owner may have said at each stage.
Staged ==
  /\ stage = "waiting" => outcome = "none"
  /\ stage # "ended" => told = "none"
  /\ outcome = "completed" => seen = "ok"

IInv == TypeOK /\ Phases /\ Joined /\ Idle /\ Seen /\ Staged /\ CloseKeepsHold

-----------------------------------------------------------------------------
(* The steps of the worker, the close and the background tasks.            *)

\* The worker ends under its supervisor, which has not seen its result yet.
LEMMA WorkerEndsKeeps ==
  ASSUME IInv, NEW how \in Over, WorkerEnds(how)
  PROVE  IInv'
<1>1. TypeOK'
  BY DEF IInv, TypeOK, WorkerEnds, Over, setting, owned
<1>2. Phases' /\ Joined' /\ Idle'
  BY DEF IInv, Phases, Joined, Idle, WorkerEnds, Working, Over, setting, owned
<1>3. Seen'
  BY DEF IInv, TypeOK, Phases, Seen, WorkerEnds, Working, Over, setting, owned
<1>4. Staged' /\ CloseKeepsHold'
  BY DEF IInv, Staged, CloseKeepsHold, WorkerEnds, setting, owned
<1> QED
  BY <1>1, <1>2, <1>3, <1>4 DEF IInv

\* A cancellation neither starts nor ends a worker.
LEMMA CancelledWorks ==
  ASSUME worker' = worker \/ worker' = Cancelled(worker)
  PROVE  /\ Working' <=> Working
         /\ worker' = "none" <=> worker = "none"
         /\ worker \in Over \cup {"none", "running", "cancelling"}
              => worker' \in Over \cup {"none", "running", "cancelling"}
         /\ worker' \in Over <=> worker \in Over
BY DEF Working, Cancelled, Over

\* A close moves the row and may set the event; it ends nothing itself.
LEMMA CloseKeeps ==
  ASSUME IInv, RequestClose \/ SignalLocally
  PROVE  IInv'
<1>1. worker' = worker \/ worker' = Cancelled(worker)
  BY DEF RequestClose, SignalLocally
<1>2. TypeOK'
  BY <1>1, CancelledWorks DEF IInv, TypeOK, RequestClose, SignalLocally, setting, owned
<1>3. Phases' /\ Joined' /\ Idle' /\ Seen' /\ Staged'
  BY <1>1, CancelledWorks
  DEF IInv, Phases, Joined, Idle, Seen, Staged, RequestClose, SignalLocally, setting,
      owned
<1>4. CloseKeepsHold'
  \* Nobody is registered once the supervisor is over.
  <2>1. outcome = "restored" => ~registered
    BY DEF IInv, Phases, Joined, Staged
  <2> QED
    BY <2>1 DEF IInv, CloseKeepsHold, RequestClose, SignalLocally, setting, owned
<1> QED
  BY <1>2, <1>3, <1>4 DEF IInv

\* The heartbeat loop and the watchdog only ask the worker to stop.
LEMMA BeatKeeps ==
  ASSUME IInv, StartBeat \/ Beat \/ FailBeat \/ Deadline
  PROVE  IInv'
<1>1. worker' = worker \/ worker' = Cancelled(worker)
  BY DEF StartBeat, Beat, FailBeat, Deadline, Cancel
<1>2. reason' = reason \/ (reason' \in {"close", "deadline", "heartbeat"} /\ event')
  BY DEF StartBeat, Beat, FailBeat, Deadline, Cancel
<1>3. event' = event \/ event'
  BY DEF StartBeat, Beat, FailBeat, Deadline, Cancel
<1>4. heart' \in {"off", "asleep", "beating"} /\ dog' \in BOOLEAN
  BY DEF IInv, TypeOK, StartBeat, Beat, FailBeat, Deadline
<1>5. TypeOK'
  <2>1. event' \in BOOLEAN
    BY DEF IInv, TypeOK, StartBeat, Beat, FailBeat, Deadline, Cancel
  <2>2. reason' # "none" => event'
    BY DEF IInv, TypeOK, StartBeat, Beat, FailBeat, Deadline, Cancel
  <2> QED
    BY <1>1, <1>2, <1>4, <2>1, <2>2, CancelledWorks
    DEF IInv, TypeOK, Reasons, StartBeat, Beat, FailBeat, Deadline, setting, owned
<1>6. Phases'
  BY <1>1, CancelledWorks
  DEF IInv, Phases, StartBeat, Beat, FailBeat, Deadline, setting, owned
<1>7. heart # "off" \/ dog
  BY DEF StartBeat, Beat, FailBeat, Deadline
<1>8. sup \in {"managing", "leaving"}
  BY <1>7 DEF IInv, TypeOK, Joined, Idle
<1>9. Joined' /\ Idle'
  BY <1>7, <1>8 DEF IInv, Joined, Idle, StartBeat, Beat, FailBeat, Deadline
<1>10. Seen'
  BY <1>1, <1>2, CancelledWorks
  DEF IInv, Seen, StartBeat, Beat, FailBeat, Deadline, setting, owned
<1>11. Staged' /\ CloseKeepsHold'
  BY <1>8 DEF IInv, Phases, Staged, CloseKeepsHold, StartBeat, Beat, FailBeat, Deadline,
             setting, owned
<1> QED
  BY <1>5, <1>6, <1>9, <1>10, <1>11 DEF IInv

-----------------------------------------------------------------------------
(* The steps of the supervisor and the owner.                              *)

\* manage_run is left only when the worker is over, and takes its tasks along.
LEMMA SuperviseKeeps ==
  ASSUME IInv, Supervise
  PROVE  IInv'
<1>1. CASE Manage
  BY <1>1 DEF IInv, TypeOK, Phases, Joined, Idle, Seen, Staged, CloseKeepsHold, Manage,
             Working, Over, setting, owned
<1>2. CASE NeverManage
  BY <1>2 DEF IInv, TypeOK, Phases, Joined, Idle, Seen, Staged, CloseKeepsHold,
             NeverManage, Working, Over, setting, owned
<1>3. CASE SeeWorker
  <2>1. seen' \in Over /\ (seen' = "ok" => worker = "ok" /\ reason = "none")
    BY <1>3 DEF SeeWorker, Result, Over
  <2>2. seen' = "ok" => late = "none"
    BY <2>1 DEF IInv, Seen
  <2>3. stage = "waiting" /\ sup = "managing" /\ sup' = "leaving" /\ ~Working
    BY <1>3 DEF IInv, Phases, SeeWorker, Awaited, Over, Working
  <2>4. TypeOK'
    <3>1. dog' \in BOOLEAN
      BY <1>3 DEF SeeWorker
    <3> QED
      BY <1>3, <2>1, <3>1 DEF IInv, TypeOK, SeeWorker, setting, owned
  <2>5. Phases' /\ Joined' /\ Idle'
    BY <1>3, <2>3 DEF IInv, Phases, Joined, Idle, SeeWorker, Working, owned
  <2>6. Seen'
    BY <1>3, <2>2, <2>3 DEF IInv, Seen, SeeWorker, Working
  <2>7. Staged' /\ CloseKeepsHold'
    BY <1>3, <2>3 DEF IInv, Staged, CloseKeepsHold, SeeWorker, setting, owned
  <2> QED
    BY <2>4, <2>5, <2>6, <2>7 DEF IInv
<1>4. CASE Leave
  <2>1. registered' \in BOOLEAN
    BY <1>4 DEF Leave
  <2>2. TypeOK'
    BY <1>4, <2>1 DEF IInv, TypeOK, Leave, setting, owned
  <2>3. stage = "waiting" /\ ~Working /\ ~dog
    BY <1>4 DEF IInv, Phases, Joined, Leave
  <2>4. Phases' /\ Joined' /\ Idle' /\ Seen' /\ Staged' /\ CloseKeepsHold'
    BY <1>4, <2>3
    DEF IInv, Phases, Joined, Idle, Seen, Staged, CloseKeepsHold, Leave, Working, setting,
        owned
  <2> QED
    BY <2>2, <2>4 DEF IInv
<1> QED
  BY <1>1, <1>2, <1>3, <1>4 DEF Supervise

\* A client that goes away cancels the supervisor, not the settlement.
LEMMA DisconnectKeeps ==
  ASSUME IInv, Disconnect
  PROVE  IInv'
<1>1. worker' = worker \/ worker' = Cancelled(worker)
  BY DEF Disconnect
<1>2. /\ outcome' = outcome \/ (stage # "waiting" /\ outcome' = Failure)
      /\ Failure \in {"restored", "failed"}
  BY DEF Disconnect, Failure
<1>3. TypeOK'
  BY <1>1, <1>2, CancelledWorks DEF IInv, TypeOK, Disconnect, setting
<1>4. Phases' /\ Joined' /\ Idle' /\ Seen' /\ Staged'
  BY <1>1, <1>2, CancelledWorks
  DEF IInv, Phases, Joined, Idle, Seen, Staged, Disconnect, setting
<1>5. CloseKeepsHold'
  BY <1>2 DEF IInv, TypeOK, Reasons, CloseKeepsHold, Disconnect, Failure, CloseTookHold, setting
<1> QED
  BY <1>3, <1>4, <1>5 DEF IInv

\* The owner settles what the supervisor saw, then finishes the row, then tells.
LEMMA OwnKeeps ==
  ASSUME IInv, Own
  PROVE  IInv'
<1>1. CASE Settle
  <2>1. /\ outcome' \in {"completed", "restored", "failed", "dropped"}
        /\ outcome' = "completed" => seen = "ok"
    BY <1>1 DEF IInv, TypeOK, Settle, Failure
  <2>2. outcome' = "restored" => Failure = "restored"
    BY <1>1 DEF Settle
  <2>3. CloseKeepsHold'
    BY <1>1, <2>2
    DEF IInv, TypeOK, Reasons, CloseKeepsHold, Settle, Failure, CloseTookHold, setting
  <2>4. TypeOK'
    BY <1>1, <2>1 DEF IInv, TypeOK, Settle, setting
  <2>5. Phases' /\ Joined' /\ Idle' /\ Seen' /\ Staged'
    BY <1>1, <2>1
    DEF IInv, Phases, Joined, Idle, Seen, Staged, Settle, Working, setting
  <2> QED
    BY <2>3, <2>4, <2>5 DEF IInv
<1>2. CASE Finish
  BY <1>2 DEF IInv, TypeOK, Phases, Joined, Idle, Seen, Staged, CloseKeepsHold, Finish,
             Working, setting
<1>3. CASE Tell
  <2>1. told' \in {"cut", "answered", "error"}
    BY <1>3 DEF Tell
  <2>2. TypeOK'
    BY <1>3, <2>1 DEF IInv, TypeOK, Tell, MayTell, setting
  <2>3. Phases' /\ Joined' /\ Idle' /\ Seen' /\ Staged' /\ CloseKeepsHold'
    BY <1>3, <2>1
    DEF IInv, Phases, Joined, Idle, Seen, Staged, CloseKeepsHold, Tell, MayTell, Working,
        setting
  <2> QED
    BY <2>2, <2>3 DEF IInv
<1> QED
  BY <1>1, <1>2, <1>3 DEF Own

-----------------------------------------------------------------------------
(* The theorems.                                                           *)

\* A segment starts before its supervisor, with nothing told.
LEMMA InitIInv == Init => IInv
BY EntriesType
DEF Init, IInv, TypeOK, Reasons, Over, Phases, Joined, Idle, Seen, Staged, CloseKeepsHold,
    Working

\* Every step keeps the invariant.
LEMMA NextIInv == IInv /\ [Next]_vars => IInv'
<1> SUFFICES ASSUME IInv, [Next]_vars
             PROVE  IInv'
  OBVIOUS
<1>1. ASSUME NEW how \in Over, WorkerEnds(how)
      PROVE  IInv'
  BY <1>1, WorkerEndsKeeps
<1>2. CASE RequestClose \/ SignalLocally
  BY <1>2, CloseKeeps
<1>3. CASE StartBeat \/ Beat \/ FailBeat \/ Deadline
  BY <1>3, BeatKeeps
<1>4. CASE Supervise
  BY <1>4, SuperviseKeeps
<1>5. CASE Disconnect
  BY <1>5, DisconnectKeeps
<1>6. CASE Own
  BY <1>6, OwnKeeps
<1>7. CASE UNCHANGED vars
  BY <1>7 DEF IInv, TypeOK, Phases, Joined, Idle, Seen, Staged, CloseKeepsHold, Working,
             vars, setting, owned
<1> QED
  BY <1>1, <1>2, <1>3, <1>4, <1>5, <1>6, <1>7 DEF Next

\* So it always holds.
LEMMA AlwaysIInv == Spec => []IInv
BY InitIInv, NextIInv, PTL DEF Spec

\* The state of a segment is well typed, and a reason is never recorded without
\* the event the worker looks at.
THEOREM TypeCorrect == Spec => []TypeOK
<1>1. IInv => TypeOK
  BY DEF IInv
<1> QED
  BY <1>1, AlwaysIInv, PTL

\* While a worker is not over the heartbeat loop lives and the row is not
\* finished (manage_run's finally block).
THEOREM WorkIsCovered == Spec => []WorkCovered
<1>1. IInv => WorkCovered
  BY DEF IInv, Phases, WorkCovered
<1> QED
  BY <1>1, AlwaysIInv, PTL

\* A worker that was told to stop before it ended never completes the segment.
THEOREM CancelledDoesNotComplete == Spec => []CancelledNotCompleted
<1>1. IInv => CancelledNotCompleted
  BY DEF IInv, Seen, Staged, CancelledNotCompleted
<1> QED
  BY <1>1, AlwaysIInv, PTL

\* An AG-UI resume that a close on its pod cancelled leaves the hold to the close.
THEOREM CloseKeepsTheHold == Spec => []CloseKeepsHold
<1>1. IInv => CloseKeepsHold
  BY DEF IInv
<1> QED
  BY <1>1, AlwaysIInv, PTL
=============================================================================
