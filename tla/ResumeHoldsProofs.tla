-------------------------- MODULE ResumeHoldsProofs --------------------------
(***************************************************************************)
(* Theorems about ResumeHolds for all sets of executions, holds and        *)
(* requests, and whatever entry points clients use.                        *)
(***************************************************************************)
EXTENDS ResumeHolds, TLAPS

Settled == {"completed", "discarded"}

\* What a request's stage says about the rest of it.
HandlersAgree ==
  \A r \in Run :
    /\ proc[r] \in {"idle", "checked"} => uses[r] = NoHold /\ result[r] = "none"
    /\ proc[r] \in {"asking", "asked", "raised"} => kind[r] = "resumeRun"
    /\ kind[r] \in {"none", "execute", "agui"} => uses[r] = NoHold

\* The request completed its claim.
Completed(r) == Claims(r) /\ uses[r] \in Hold /\ (result[r] = "ok" \/ proc[r] = "answered")

\* A completed claim is settled for good, and is nobody else's.
CompletedSettled == \A r \in Run : Completed(r) => hold[uses[r]] \in Settled

CompletedOnce == \A r, q \in Run : r # q /\ Completed(r) /\ Completed(q) => uses[r] # uses[q]

IInv == TypeOK /\ HandlersAgree /\ CompletedSettled /\ CompletedOnce

-----------------------------------------------------------------------------
(* Type correctness, and what the stages say.                              *)

\* Taking the row of a run leaves the tables well typed.
LEMMA TakeRowTypes ==
  ASSUME TypeOK, NEW r \in Run, NEW e \in Execution \cup {NoExecution}, TakeRow(r, e)
  PROVE  /\ status' \in [Execution -> Statuses]
         /\ owner' = r /\ stale' = FALSE
         /\ on' \in [Run -> Execution \cup {NoExecution}]
         /\ reaped' \in SUBSET Run
BY DEF TypeOK, TakeRow, Statuses

\* Every claim keeps the state well typed.
LEMMA ClaimTypes ==
  ASSUME TypeOK, NEW r \in Run, Claim(r)
  PROVE  TypeOK'
<1>1. ASSUME NEW e \in Execution, ClaimExecute(r, e)
      PROVE  TypeOK'
  BY <1>1, TakeRowTypes DEF ClaimExecute, TypeOK, Stages
<1>2. ASSUME NEW e \in Execution, ClaimFresh(r, e)
      PROVE  TypeOK'
  BY <1>2, TakeRowTypes DEF ClaimFresh, TypeOK, Stages
<1>3. ASSUME NEW h \in Hold, NEW k \in Kinds, ClaimHold(r, h, k)
      PROVE  TypeOK'
  <2>1. of[h] \in Execution \cup {NoExecution}
    BY DEF TypeOK
  <2> QED
    BY <1>3, <2>1, TakeRowTypes DEF ClaimHold, TypeOK, Stages
<1>4. CASE CheckThread(r)
  BY <1>4 DEF CheckThread, TypeOK, Stages
<1> QED
  BY <1>1, <1>2, <1>3, <1>4 DEF Claim, ClaimResume, ClaimAguiResume

\* Every settlement keeps the state well typed.
LEMMA SettleTypes ==
  ASSUME TypeOK, NEW r \in Run, SettleRun(r)
  PROVE  TypeOK'
<1>1. ASSUME NEW h \in Hold, Park(r, h)
      PROVE  TypeOK'
  <2>1. /\ status' \in [Execution -> Statuses]
        /\ hold' \in [Hold -> {"none", "awaiting", "pending", "completed", "discarded"}]
        /\ of' \in [Hold -> Execution \cup {NoExecution}]
        /\ made' \in [Run -> Hold \cup {NoHold}]
    BY <1>1 DEF Park, TypeOK, Statuses
  <2>2. /\ proc' \in [Run -> Stages]
        /\ result' \in [Run -> {"none", "ok", "failed", "dropped"}]
    BY <1>1 DEF Park, TypeOK, Stages
  <2> QED
    BY <1>1, <2>1, <2>2 DEF Park, TypeOK
<1>2. CASE CompleteParked(r)
  BY <1>2 DEF CompleteParked, TypeOK, Stages
<1>3. CASE RollBackParked(r)
  <2>1. /\ hold' \in [Hold -> {"none", "awaiting", "pending", "completed", "discarded"}]
        /\ robbed' \in SUBSET Run
    BY <1>3 DEF RollBackParked, Restored, Answering, TypeOK
  <2>2. /\ proc' \in [Run -> Stages]
        /\ result' \in [Run -> {"none", "ok", "failed", "dropped"}]
    BY <1>3 DEF RollBackParked, TypeOK, Stages
  <2> QED
    BY <1>3, <2>1, <2>2 DEF RollBackParked, TypeOK
<1>4. CASE CompleteAnswered(r)
  BY <1>4 DEF CompleteAnswered, TypeOK, Stages
<1>5. CASE Finalize(r)
  BY <1>5 DEF Finalize, TypeOK, Stages, Statuses
<1>6. CASE FailFresh(r)
  BY <1>6 DEF FailFresh, TypeOK, Stages, Statuses
<1>7. CASE FailResume(r) \/ FailUnderClose(r)
  BY <1>7 DEF FailResume, FailUnderClose, TypeOK, Stages, Statuses
<1>8. CASE RestoreClaim(r)
  BY <1>8 DEF RestoreClaim, Restored, TypeOK, Stages
<1>9. CASE RestoreExecution(r) \/ Dropped(r)
  BY <1>9 DEF RestoreExecution, Dropped, TypeOK, Stages, Statuses
<1>10. CASE FinishRun(r)
  BY <1>10 DEF FinishRun, TypeOK, Stages
<1>11. CASE LoseParked(r)
  BY <1>11 DEF LoseParked, TypeOK, Stages
<1> QED
  BY <1>1, <1>2, <1>3, <1>4, <1>5, <1>6, <1>7, <1>8, <1>9, <1>10, <1>11
     DEF SettleRun

\* So does the direct agent API.
LEMMA AgentTypes ==
  ASSUME TypeOK, NEW r \in Run, AgentStep(r)
  PROVE  TypeOK'
<1>1. ASSUME NEW h \in Hold, LoadAgent(r, h)
      PROVE  TypeOK'
  BY <1>1 DEF LoadAgent, TypeOK, Stages
<1>2. ASSUME NEW verdict \in {"completed", "discarded"}, SettleAgent(r, verdict)
      PROVE  TypeOK'
  BY <1>2 DEF SettleAgent, Answering, TypeOK, Stages
<1>3. ASSUME NEW outcome \in {"COMPLETED", "FAILED"}, FinishAgent(r, outcome)
      PROVE  TypeOK'
  BY <1>3 DEF FinishAgent, TypeOK, Stages, Statuses
<1> QED
  BY <1>1, <1>2, <1>3 DEF AgentStep

\* Discarding holds fails executions, and nothing else.
LEMMA DiscardTypes ==
  ASSUME TypeOK, NEW H \in SUBSET Hold, Discard(H)
  PROVE  /\ status' \in [Execution -> Statuses]
         /\ hold' \in [Hold -> {"none", "awaiting", "pending", "completed", "discarded"}]
         /\ robbed' \in SUBSET Run
BY DEF Discard, Answering, TypeOK, Statuses

\* Every step keeps the state well typed.
LEMMA TypeStep ==
  ASSUME TypeOK, [Next]_vars
  PROVE  TypeOK'
<1>1. ASSUME NEW r \in Run, DiscardAwaiting(r)
      PROVE  TypeOK'
  <2> DEFINE H == {h \in Hold : hold[h] = "awaiting" /\ Threaded(h)}
  <2>1. H \in SUBSET Hold /\ Discard(H)
    BY <1>1 DEF DiscardAwaiting
  <2> HIDE DEF H
  <2> QED
    BY <1>1, <2>1, DiscardTypes DEF DiscardAwaiting, TypeOK, Stages
<1>2. ASSUME NEW r \in Run, Crash(r)
      PROVE  TypeOK'
  BY <1>2 DEF Crash, TypeOK, Stages
<1>3. ASSUME NEW H \in SUBSET Hold, Recover(H)
      PROVE  TypeOK'
  BY <1>3 DEF Recover, Answering, TypeOK
<1>4. CASE Abandon \/ RequestClose
  <2>1. OpenHolds \in SUBSET Hold /\ Discard(OpenHolds)
    BY <1>4 DEF OpenHolds, Abandon, RequestClose
  <2>2. /\ status' \in [Execution -> Statuses]
        /\ hold' \in [Hold -> {"none", "awaiting", "pending", "completed", "discarded"}]
        /\ robbed' \in SUBSET Run
    BY <2>1, DiscardTypes
  <2>3. closing' \in BOOLEAN
    BY <1>4 DEF Abandon, RequestClose, TypeOK
  <2>4. UNCHANGED <<of, owner, stale, proc, kind, on, uses, made, result, reaped>>
    BY <1>4 DEF Abandon, RequestClose
  <2> QED
    BY <2>2, <2>3, <2>4 DEF TypeOK
<1>5. CASE ReapByClose
  BY <1>5 DEF ReapByClose, TypeOK, Statuses
<1>6. CASE HeartbeatLapse \/ Heartbeat
  BY <1>6 DEF HeartbeatLapse, Heartbeat, TypeOK
<1>7. CASE UNCHANGED vars
  BY <1>7 DEF vars, TypeOK
<1> QED
  BY <1>1, <1>2, <1>3, <1>4, <1>5, <1>6, <1>7, ClaimTypes, SettleTypes, AgentTypes DEF Next

\* Claims, settlements and the agent API keep the stages in agreement.
LEMMA HandlersStep ==
  ASSUME TypeOK, HandlersAgree, [Next]_vars
  PROVE  HandlersAgree'
<1>1. ASSUME NEW r \in Run, Claim(r)
      PROVE  HandlersAgree'
  BY <1>1 DEF Claim, ClaimExecute, ClaimFresh, ClaimResume, ClaimAguiResume, ClaimHold,
              CheckThread, TakeRow, HandlersAgree, TypeOK
<1>2. ASSUME NEW r \in Run, SettleRun(r)
      PROVE  HandlersAgree'
  <2>1. /\ kind' = kind /\ uses' = uses
        /\ \A q \in Run \ {r} : proc'[q] = proc[q] /\ result'[q] = result[q]
        /\ proc'[r] \in {"parked", "lost", "settled", "undone", "undo", "answered", "done"}
    BY <1>2 DEF SettleRun, Park, CompleteParked, LoseParked,
           RollBackParked, CompleteAnswered, Finalize,
                FailFresh, FailResume, FailUnderClose, RestoreClaim, RestoreExecution, Dropped,
                FinishRun, TypeOK
  <2> QED
    BY <2>1 DEF HandlersAgree
<1>3. ASSUME NEW r \in Run, AgentStep(r)
      PROVE  HandlersAgree'
  BY <1>3 DEF AgentStep, LoadAgent, SettleAgent, FinishAgent, HandlersAgree, TypeOK
<1>4. ASSUME NEW r \in Run, DiscardAwaiting(r) \/ Crash(r)
      PROVE  HandlersAgree'
  BY <1>4 DEF DiscardAwaiting, Crash, HandlersAgree, TypeOK
<1>5. CASE \/ \E H \in SUBSET Hold : Recover(H)
           \/ Abandon \/ RequestClose \/ ReapByClose \/ HeartbeatLapse \/ Heartbeat
           \/ UNCHANGED vars
  <2>1. UNCHANGED <<proc, kind, uses, result>>
    BY <1>5 DEF Recover, Abandon, RequestClose, ReapByClose, HeartbeatLapse, Heartbeat, vars
  <2> QED
    BY <2>1 DEF HandlersAgree
<1> QED
  BY <1>1, <1>2, <1>3, <1>4, <1>5 DEF Next

\* Type correctness of the conversation, and the agreement of a request's stage
\* with its entry point and hold.
THEOREM TypeCorrect == Spec => [](TypeOK /\ HandlersAgree)
<1>1. Init => TypeOK /\ HandlersAgree
  <2> SUFFICES ASSUME Init PROVE TypeOK /\ HandlersAgree
    OBVIOUS
  <2>1. TypeOK
    BY DEF Init, TypeOK, Statuses, Stages
  <2>2. HandlersAgree
    BY DEF Init, HandlersAgree
  <2> QED
    BY <2>1, <2>2
<1>2. TypeOK /\ HandlersAgree /\ [Next]_vars => (TypeOK /\ HandlersAgree)'
  BY TypeStep, HandlersStep
<1> QED
  BY <1>1, <1>2, PTL DEF Spec

-----------------------------------------------------------------------------
(* Settled holds.                                                          *)

\* Discarding never reopens a hold.
LEMMA DiscardSettles ==
  ASSUME TypeOK, NEW H \in SUBSET Hold, Discard(H), NEW h \in Hold, hold[h] \in Settled
  PROVE  hold'[h] \in Settled
BY DEF Discard, TypeOK, Settled

\* No step reopens a settled hold.
LEMMA SettledStep ==
  ASSUME TypeOK, [Next]_vars, NEW h \in Hold, hold[h] \in Settled
  PROVE  hold'[h] \in Settled
<1>1. ASSUME NEW r \in Run, Claim(r)
      PROVE  hold'[h] \in Settled
  BY <1>1 DEF Claim, ClaimExecute, ClaimFresh, ClaimResume, ClaimAguiResume, ClaimHold,
              CheckThread, TypeOK, Settled
<1>2. ASSUME NEW r \in Run, SettleRun(r)
      PROVE  hold'[h] \in Settled
  BY <1>2 DEF SettleRun, Park, CompleteParked, LoseParked,
         RollBackParked, CompleteAnswered, Finalize,
              FailFresh, FailResume, FailUnderClose, RestoreClaim, Restored, RestoreExecution,
              Dropped, FinishRun, TypeOK, Settled
<1>3. ASSUME NEW r \in Run, AgentStep(r)
      PROVE  hold'[h] \in Settled
  BY <1>3 DEF AgentStep, LoadAgent, SettleAgent, FinishAgent, TypeOK, Settled
<1>4. ASSUME NEW r \in Run, DiscardAwaiting(r)
      PROVE  hold'[h] \in Settled
  <2> DEFINE H == {x \in Hold : hold[x] = "awaiting" /\ Threaded(x)}
  <2>1. H \in SUBSET Hold /\ Discard(H)
    BY <1>4 DEF DiscardAwaiting
  <2> HIDE DEF H
  <2> QED
    BY <2>1, DiscardSettles
<1>5. ASSUME NEW r \in Run, Crash(r)
      PROVE  hold'[h] \in Settled
  BY <1>5 DEF Crash
<1>6. ASSUME NEW H \in SUBSET Hold, Recover(H)
      PROVE  hold'[h] \in Settled
  BY <1>6 DEF Recover, Settled
<1>7. CASE Abandon \/ RequestClose
  <2>1. OpenHolds \in SUBSET Hold /\ Discard(OpenHolds)
    BY <1>7 DEF OpenHolds, Abandon, RequestClose
  <2> QED
    BY <2>1, DiscardSettles
<1>8. CASE ReapByClose \/ HeartbeatLapse \/ Heartbeat \/ UNCHANGED vars
  BY <1>8 DEF ReapByClose, HeartbeatLapse, Heartbeat, vars
<1> QED
  BY <1>1, <1>2, <1>3, <1>4, <1>5, <1>6, <1>7, <1>8 DEF Next

\* A hold that was answered or discarded is never offered again: restores and
\* recoveries only touch claimed holds, and claims only awaiting ones.
THEOREM HoldsStaySettled == Spec => SettledHoldsStay
<1>1. TypeOK /\ [Next]_vars
        => [\A h \in Hold : hold[h] \in {"completed", "discarded"}
                             => hold'[h] \in {"completed", "discarded"}]_vars
  BY SettledStep DEF Settled
<1> QED
  BY <1>1, TypeCorrect, PTL DEF Spec, SettledHoldsStay

-----------------------------------------------------------------------------
(* One answer per hold.                                                    *)

\* The steps of a claim's life that matter here: at most request r completes its
\* claim, of a hold that was claimed, and nobody else's claim changes.
Completing(r) ==
  /\ \A q \in Run : Completed(q)' => uses'[q] = uses[q] /\ (Completed(q) \/ q = r)
  /\ Completed(r)' => \/ Completed(r)
                      \/ hold[uses[r]] = "pending" /\ hold'[uses[r]] = "completed"

Undisturbing == \A q \in Run : Completed(q)' => Completed(q) /\ uses'[q] = uses[q]

\* A request that claims has completed nothing yet.
LEMMA ClaimShape ==
  ASSUME TypeOK, HandlersAgree, NEW r \in Run, Claim(r)
  PROVE  Undisturbing
<1>1. \A q \in Run \ {r} : /\ kind'[q] = kind[q] /\ uses'[q] = uses[q]
                           /\ proc'[q] = proc[q] /\ result'[q] = result[q]
  BY DEF Claim, ClaimExecute, ClaimFresh, ClaimResume, ClaimAguiResume, ClaimHold, CheckThread,
         TypeOK
<1>2. proc[r] \in {"idle", "checked"} /\ proc'[r] \in {"checked", "working", "starting"}
      /\ result' = result
  BY DEF Claim, ClaimExecute, ClaimFresh, ClaimResume, ClaimAguiResume, ClaimHold, CheckThread,
         TypeOK
<1>3. ~Completed(r)'
  BY <1>2 DEF HandlersAgree, Completed
<1> QED
  BY <1>1, <1>3 DEF Undisturbing, Completed, Claims

\* A settlement completes a claim only if the claim is still there.
LEMMA SettleShape ==
  ASSUME TypeOK, HandlersAgree, NEW r \in Run, SettleRun(r)
  PROVE  Completing(r)
<1>1. /\ kind' = kind /\ uses' = uses
      /\ \A q \in Run \ {r} : proc'[q] = proc[q] /\ result'[q] = result[q]
  BY DEF SettleRun, Park, CompleteParked, LoseParked,
         RollBackParked, CompleteAnswered, Finalize, FailFresh,
         FailResume, FailUnderClose, RestoreClaim, RestoreExecution, Dropped, FinishRun, TypeOK
<1>2. ASSUME Completed(r)', ~Completed(r)
      PROVE  hold[uses[r]] = "pending" /\ hold'[uses[r]] = "completed"
  <2>1. /\ Claims(r) /\ uses[r] \in Hold /\ result[r] # "ok" /\ proc[r] # "answered"
        /\ result'[r] = "ok" \/ proc'[r] = "answered"
    BY <1>1, <1>2 DEF Completed, Claims
  <2>2. kind[r] \notin {"execute", "agui"} /\ proc[r] # "asked"
    BY <2>1, NullsType DEF HandlersAgree, Claims
  <2>3. \A h \in Hold : ~Park(r, h)
    BY <2>1, <2>2 DEF Park, TypeOK
  <2>4. ~Finalize(r)
    BY <2>1, <2>2 DEF Finalize
  <2>5. CompleteParked(r) \/ CompleteAnswered(r)
    BY <2>1, <2>3, <2>4 DEF SettleRun, LoseParked,
           RollBackParked, FailFresh, FailResume, FailUnderClose,
                            RestoreClaim, RestoreExecution, Dropped, FinishRun, TypeOK
  <2> QED
    BY <2>1, <2>5 DEF CompleteParked, CompleteAnswered, Completes, TypeOK
<1> QED
  BY <1>1, <1>2 DEF Completing, Completed, Claims

\* The direct agent API completes no claim: it has none.
LEMMA AgentShape ==
  ASSUME TypeOK, HandlersAgree, NEW r \in Run, AgentStep(r)
  PROVE  Undisturbing
<1>1. \A q \in Run \ {r} : /\ kind'[q] = kind[q] /\ uses'[q] = uses[q]
                           /\ proc'[q] = proc[q] /\ result'[q] = result[q]
  BY DEF AgentStep, LoadAgent, SettleAgent, FinishAgent, TypeOK
<1>2. kind'[r] = "resumeRun"
  BY DEF AgentStep, LoadAgent, SettleAgent, FinishAgent, TypeOK, HandlersAgree
<1> QED
  BY <1>1, <1>2 DEF Undisturbing, Completed, Claims

\* Every step completes at most one claim.
LEMMA StepShape ==
  ASSUME TypeOK, HandlersAgree, [Next]_vars
  PROVE  Undisturbing \/ \E r \in Run : Completing(r)
<1>1. ASSUME NEW r \in Run, DiscardAwaiting(r) \/ Crash(r)
      PROVE  Undisturbing
  <2>1. UNCHANGED <<kind, uses, result>>
    BY <1>1 DEF DiscardAwaiting, Crash
  <2>2. \A q \in Run : proc'[q] = "answered" => proc[q] = "answered"
    BY <1>1 DEF DiscardAwaiting, Crash, TypeOK
  <2> QED
    BY <2>1, <2>2 DEF Undisturbing, Completed, Claims
<1>2. CASE \/ \E H \in SUBSET Hold : Recover(H)
           \/ Abandon \/ RequestClose \/ ReapByClose \/ HeartbeatLapse \/ Heartbeat
           \/ UNCHANGED vars
  <2>1. UNCHANGED <<proc, kind, uses, result>>
    BY <1>2 DEF Recover, Abandon, RequestClose, ReapByClose, HeartbeatLapse, Heartbeat, vars
  <2> QED
    BY <2>1 DEF Undisturbing, Completed, Claims
<1> QED
  BY <1>1, <1>2, ClaimShape, SettleShape, AgentShape DEF Next

\* A claim is completed while its hold is claimed, and settles it; a settled hold
\* stays settled.  So a second completion of the same hold finds it settled.
LEMMA CompletionStep ==
  ASSUME IInv, [Next]_vars
  PROVE  (CompletedSettled /\ CompletedOnce)'
<1> USE DEF IInv
<1>1. \A h \in Hold : hold[h] \in Settled => hold'[h] \in Settled
  BY SettledStep
<1>2. \A q \in Run : Completed(q) => uses[q] \in Hold
  BY DEF Completed
<1>3. CASE Undisturbing
  BY <1>1, <1>2, <1>3 DEF Undisturbing, CompletedSettled, CompletedOnce
<1>4. ASSUME NEW r \in Run, Completing(r)
      PROVE  (CompletedSettled /\ CompletedOnce)'
  <2>1. CASE Completed(r) \/ ~Completed(r)'
    <3>1. Undisturbing
      BY <1>4, <2>1 DEF Completing, Undisturbing
    <3> QED
      BY <1>3, <3>1
  <2>2. CASE ~Completed(r) /\ Completed(r)'
    <3>1. /\ uses'[r] = uses[r] /\ hold[uses[r]] = "pending" /\ hold'[uses[r]] = "completed"
          /\ \A q \in Run \ {r} : Completed(q)' => Completed(q) /\ uses'[q] = uses[q]
      BY <1>4, <2>2 DEF Completing
    <3>2. \A q \in Run : Completed(q) => uses[q] # uses[r]
      BY <3>1 DEF CompletedSettled, Settled
    <3>3. CompletedSettled'
      BY <1>1, <1>2, <3>1 DEF CompletedSettled, Settled
    <3>4. CompletedOnce'
      BY <3>1, <3>2 DEF CompletedOnce
    <3> QED
      BY <3>3, <3>4
  <2> QED
    BY <2>1, <2>2
<1> QED
  BY <1>3, <1>4, StepShape

\* Two requests that claimed one hold never both succeed, whatever recoveries,
\* abandons, reaps and crashes came between them.
THEOREM OneAnswer == Spec => []AnsweredOnce
<1>1. Init => IInv
  <2> SUFFICES ASSUME Init PROVE IInv
    OBVIOUS
  <2>1. TypeOK
    BY DEF Init, TypeOK, Statuses, Stages
  <2>2. HandlersAgree
    BY DEF Init, HandlersAgree
  <2>3. \A r \in Run : ~Completed(r)
    BY DEF Init, Completed
  <2> QED
    BY <2>1, <2>2, <2>3 DEF IInv, CompletedSettled, CompletedOnce
<1>2. IInv /\ [Next]_vars => IInv'
  BY TypeStep, HandlersStep, CompletionStep DEF IInv
<1>3. IInv => AnsweredOnce
  BY DEF IInv, CompletedOnce, Completed, AnsweredOnce
<1> QED
  BY <1>1, <1>2, <1>3, PTL DEF Spec

-----------------------------------------------------------------------------
(* One live claim per hold.                                                *)

\* A live request has its row, or lost it while it was live.
RowOrReaped == \A r \in Run : Live(r) /\ Claims(r) => owner = r \/ r \in reaped

\* Rows are taken only from requests whose heartbeat is old, which records it,
\* and given up only by requests that are over.
LEMMA RowStep ==
  ASSUME TypeOK, HandlersAgree, RowOrReaped, [Next]_vars
  PROVE  RowOrReaped'
<1>1. ASSUME NEW r \in Run, Claim(r)
      PROVE  RowOrReaped'
  <2>1. CASE CheckThread(r)
    BY <2>1 DEF CheckThread, RowOrReaped, Live, Claims, TypeOK
  <2>2. ASSUME NEW e, TakeRow(r, e), Free,
               \A q \in Run \ {r} : proc'[q] = proc[q] /\ kind'[q] = kind[q]
        PROVE  RowOrReaped'
    BY <2>2, NullsType DEF TakeRow, Free, RowOrReaped, Live, Claims, TypeOK
  <2> QED
    BY <1>1, <2>1, <2>2 DEF Claim, ClaimExecute, ClaimFresh, ClaimResume, ClaimAguiResume,
                            ClaimHold, TypeOK
<1>2. ASSUME NEW r \in Run, SettleRun(r)
      PROVE  RowOrReaped'
  <2>1. CASE FinishRun(r)
    BY <2>1 DEF FinishRun, RowOrReaped, Live, Claims, TypeOK
  <2>2. CASE ~FinishRun(r)
    <3>1. UNCHANGED <<owner, kind, reaped>> /\ Live(r) /\ \A q \in Run \ {r} : proc'[q] = proc[q]
      BY <1>2, <2>2 DEF SettleRun, Park, CompleteParked, LoseParked,
             RollBackParked, CompleteAnswered,
           Finalize, FailFresh, FailResume, FailUnderClose, RestoreClaim, RestoreExecution,
           Dropped, Live, TypeOK
    <3> QED
      BY <3>1 DEF RowOrReaped, Live, Claims
  <2> QED
    BY <2>1, <2>2
<1>3. ASSUME NEW r \in Run, AgentStep(r)
      PROVE  RowOrReaped'
  <2>1. /\ UNCHANGED <<owner, reaped>> /\ kind'[r] = "resumeRun"
        /\ \A q \in Run \ {r} : proc'[q] = proc[q] /\ kind'[q] = kind[q]
    BY <1>3 DEF AgentStep, LoadAgent, SettleAgent, FinishAgent, TypeOK, HandlersAgree
  <2> QED
    BY <2>1 DEF RowOrReaped, Live, Claims
<1>4. ASSUME NEW r \in Run, DiscardAwaiting(r) \/ Crash(r)
      PROVE  RowOrReaped'
  <2>1. /\ UNCHANGED <<owner, kind, reaped>> /\ Live(r)
        /\ \A q \in Run \ {r} : proc'[q] = proc[q]
    BY <1>4 DEF DiscardAwaiting, Crash, Live, TypeOK
  <2> QED
    BY <2>1 DEF RowOrReaped, Live, Claims
<1>5. CASE ReapByClose
  BY <1>5 DEF ReapByClose, RowOrReaped, Live, Claims, TypeOK
<1>6. CASE \/ \E H \in SUBSET Hold : Recover(H)
           \/ Abandon \/ RequestClose \/ HeartbeatLapse \/ Heartbeat \/ UNCHANGED vars
  <2>1. UNCHANGED <<proc, kind, owner, reaped>>
    BY <1>6 DEF Recover, Abandon, RequestClose, HeartbeatLapse, Heartbeat, vars
  <2> QED
    BY <2>1 DEF RowOrReaped, Live, Claims
<1> QED
  BY <1>1, <1>2, <1>3, <1>4, <1>5, <1>6 DEF Next

\* A claim that was recovered under a live request is not claimed again unless
\* that request has lost its row.
THEOREM OneClaim == Spec => []OneClaimPerHold
<1>1. Init => RowOrReaped
  BY DEF Init, RowOrReaped, Live
<1>2. TypeOK /\ HandlersAgree /\ RowOrReaped /\ [Next]_vars => RowOrReaped'
  BY RowStep
<1>3. RowOrReaped => OneClaimPerHold
  BY DEF RowOrReaped, OneClaimPerHold
<1> QED
  BY <1>1, <1>2, <1>3, TypeCorrect, PTL DEF Spec

-----------------------------------------------------------------------------
(* An execution awaits an answer only with a hold that can be answered.    *)

\* Only undisturbed requests have worked on e.
Orderly(e) == \A r \in Run : on[r] = e => Undisturbed(r)

\* A hold belongs to the execution of the request that made it and of those that
\* answer it; requests that have not started have neither.
HoldsOwned ==
  /\ \A h \in Hold : hold[h] # "none" => of[h] \in Execution
  /\ \A r \in Run :
       /\ proc[r] \in {"idle", "checked"} => on[r] = NoExecution /\ made[r] = NoHold
       /\ proc[r] \notin {"idle", "checked"} => kind[r] # "none"
       /\ proc[r] = "starting" => kind[r] = "agui"
       /\ made[r] \in Hold => hold[made[r]] # "none" /\ of[made[r]] = on[r] /\ made[r] # uses[r]
       /\ uses[r] \in Hold => hold[uses[r]] # "none" /\ of[uses[r]] = on[r]
       /\ kind[r] \in {"resume", "aguiResume"} => uses[r] \in Hold
       /\ proc[r] \in {"parked", "lost"} => made[r] \in Hold
       /\ proc[r] \in {"parked", "lost", "undo", "undone"} => uses[r] \in Hold
       /\ proc[r] \notin {"idle", "checked"} => on[r] \in Execution

\* A request on an orderly execution has kept its claim until it settles it.
ClaimKept ==
  \A r \in Run : uses[r] \in Hold /\ Orderly(on[r]) =>
     /\ proc[r] \in {"working", "parked", "undo"} => hold[uses[r]] = "pending"
     /\ proc[r] = "undone" => hold[uses[r]] = "awaiting"
     /\ proc[r] # "lost"

\* What a step does to the holds and executions that requests refer to.
LEMMA OwnedByClaim ==
  ASSUME TypeOK, HandlersAgree, HoldsOwned, NEW r \in Run, Claim(r)
  PROVE  /\ HoldsOwned'
         /\ proc[r] \in {"idle", "checked"}
         /\ \A q \in Run \ {r} : on'[q] = on[q] /\ kind'[q] = kind[q]
<1>1. proc[r] \in {"idle", "checked"}
  BY DEF Claim, ClaimExecute, ClaimFresh, ClaimResume, ClaimAguiResume, ClaimHold, CheckThread
<1>2. CASE CheckThread(r)
  BY <1>1, <1>2 DEF CheckThread, HoldsOwned, TypeOK
<1>3. ASSUME NEW e \in Execution, ClaimExecute(r, e) \/ ClaimFresh(r, e)
      PROVE  HoldsOwned' /\ \A q \in Run \ {r} : on'[q] = on[q] /\ kind'[q] = kind[q]
  <2>1. /\ UNCHANGED <<hold, of, uses, made>> /\ on' = [on EXCEPT ![r] = e]
        /\ kind' \in [Run -> Kinds \cup {"none"}]
        /\ kind'[r] \in {"execute", "agui"} /\ proc'[r] \in {"working", "starting"}
        /\ proc'[r] = "starting" => kind'[r] = "agui"
        /\ \A q \in Run \ {r} : kind'[q] = kind[q] /\ proc'[q] = proc[q]
    BY <1>3 DEF ClaimExecute, ClaimFresh, TakeRow, TypeOK
  <2>2. uses[r] = NoHold /\ made[r] = NoHold
    BY <1>1 DEF HandlersAgree, HoldsOwned
  <2>3. on'[r] = e /\ \A q \in Run \ {r} : on'[q] = on[q]
    BY <2>1 DEF TypeOK
  <2> QED
    BY <2>1, <2>2, <2>3, NullsType DEF HoldsOwned
<1>4. ASSUME NEW h \in Hold, NEW k \in Kinds \cap {"resume", "aguiResume"}, ClaimHold(r, h, k)
      PROVE  HoldsOwned' /\ \A q \in Run \ {r} : on'[q] = on[q] /\ kind'[q] = kind[q]
  <2>1. /\ hold[h] = "awaiting" /\ hold' = [hold EXCEPT ![h] = "pending"]
        /\ UNCHANGED <<of, made>> /\ on' = [on EXCEPT ![r] = of[h]]
        /\ uses' = [uses EXCEPT ![r] = h] /\ kind' = [kind EXCEPT ![r] = k]
        /\ proc' = [proc EXCEPT ![r] = "working"]
    BY <1>4 DEF ClaimHold, TakeRow
  <2>2. of[h] \in Execution /\ made[r] = NoHold
    BY <1>1, <2>1 DEF HoldsOwned
  <2>3. /\ on'[r] = of[h] /\ uses'[r] = h /\ kind'[r] = k /\ proc'[r] = "working"
        /\ \A q \in Run \ {r} : on'[q] = on[q] /\ uses'[q] = uses[q] /\ kind'[q] = kind[q]
                                /\ proc'[q] = proc[q]
    BY <2>1 DEF TypeOK
  <2>4. \A x \in Hold : hold'[x] # "none" <=> hold[x] # "none"
    BY <2>1 DEF TypeOK
  <2> QED
    BY <2>1, <2>2, <2>3, <2>4, NullsType DEF HoldsOwned
<1> QED
  BY <1>1, <1>2, <1>3, <1>4 DEF Claim, ClaimResume, ClaimAguiResume, TypeOK, CheckThread

\* A settlement concerns the request's own holds.
LEMMA OwnedBySettle ==
  ASSUME TypeOK, HandlersAgree, HoldsOwned, NEW r \in Run, SettleRun(r)
  PROVE  HoldsOwned' /\ UNCHANGED <<on, kind, uses>>
<1>1. ASSUME NEW h \in Hold, Park(r, h) PROVE HoldsOwned'
  <2>1. /\ hold[h] = "none" /\ hold' = [hold EXCEPT ![h] = "awaiting"]
        /\ of' = [of EXCEPT ![h] = on[r]] /\ made' = [made EXCEPT ![r] = h]
        /\ UNCHANGED <<kind, on, uses>> /\ proc[r] \in {"working", "asked"}
        /\ proc'[r] \in {"parked", "settled"} /\ (proc'[r] = "parked" => uses[r] \in Hold)
        /\ \A q \in Run \ {r} : proc'[q] = proc[q]
    BY <1>1 DEF Park, TypeOK
  <2>2. on[r] \in Execution
    BY <2>1 DEF HoldsOwned
  <2>3. /\ of'[h] = on[r] /\ hold'[h] = "awaiting" /\ made'[r] = h
        /\ \A x \in Hold \ {h} : of'[x] = of[x] /\ hold'[x] = hold[x]
        /\ \A q \in Run \ {r} : made'[q] = made[q]
    BY <2>1 DEF TypeOK
  <2> QED
    BY <2>1, <2>2, <2>3 DEF HoldsOwned
<1>2. ASSUME ~\E h \in Hold : Park(r, h) PROVE HoldsOwned'
  <2>1. /\ UNCHANGED <<of, on, kind, uses, made>>
        /\ \A x \in Hold : hold[x] # "none" => hold'[x] # "none"
        /\ \A q \in Run \ {r} : proc'[q] = proc[q]
    BY <1>2 DEF SettleRun, CompleteParked, LoseParked, RollBackParked, CompleteAnswered, Finalize,
         FailFresh, FailResume, FailUnderClose, RestoreClaim, Restored, RestoreExecution, Dropped,
         FinishRun, TypeOK
  <2>2. \A x \in Hold : hold[x] = "none" => hold'[x] = "none"
    BY <1>2 DEF SettleRun, CompleteParked, LoseParked, RollBackParked, CompleteAnswered, Finalize,
         FailFresh, FailResume, FailUnderClose, RestoreClaim, Restored, RestoreExecution, Dropped,
         FinishRun, TypeOK, Completes, HoldsOwned
  <2>3. /\ proc[r] \notin {"idle", "checked"} /\ proc'[r] \notin {"idle", "checked", "starting", "parked"}
        /\ proc'[r] \in {"lost", "undo", "undone"} => uses[r] \in Hold
        /\ proc'[r] = "lost" => made[r] \in Hold
    BY <1>2 DEF SettleRun, CompleteParked, LoseParked, RollBackParked, CompleteAnswered, Finalize,
         FailFresh, FailResume, FailUnderClose, RestoreClaim, RestoreExecution, Dropped,
         FinishRun, TypeOK, HoldsOwned, Live
  <2> QED
    BY <2>1, <2>2, <2>3 DEF HoldsOwned
<1>3. UNCHANGED <<on, kind, uses>>
  BY DEF SettleRun, Park, CompleteParked, LoseParked, RollBackParked, CompleteAnswered, Finalize,
         FailFresh, FailResume, FailUnderClose, RestoreClaim, RestoreExecution, Dropped, FinishRun
<1> QED
  BY <1>1, <1>2, <1>3

\* The direct agent API works on the execution of the hold it loaded.
LEMMA OwnedByAgent ==
  ASSUME TypeOK, HandlersAgree, HoldsOwned, NEW r \in Run, AgentStep(r)
  PROVE  /\ HoldsOwned' /\ kind'[r] = "resumeRun"
         /\ \A q \in Run \ {r} : on'[q] = on[q] /\ kind'[q] = kind[q]
         /\ proc[r] \notin {"idle", "checked"} => on' = on
<1>1. ASSUME NEW h \in Hold, LoadAgent(r, h)
      PROVE  HoldsOwned' /\ kind'[r] = "resumeRun"
  <2>1. /\ hold[h] = "awaiting" /\ UNCHANGED <<hold, of, made>> /\ proc[r] = "idle"
        /\ on'[r] = of[h] /\ uses'[r] = h /\ kind'[r] = "resumeRun" /\ proc'[r] = "asking"
        /\ \A q \in Run \ {r} : on'[q] = on[q] /\ uses'[q] = uses[q] /\ kind'[q] = kind[q]
                                /\ proc'[q] = proc[q]
    BY <1>1 DEF LoadAgent, TypeOK
  <2>2. of[h] \in Execution /\ made[r] = NoHold
    BY <2>1 DEF HoldsOwned
  <2> QED
    BY <2>1, <2>2, NullsType DEF HoldsOwned
<1>2. ASSUME NEW verdict \in {"completed", "discarded"}, SettleAgent(r, verdict)
      PROVE  HoldsOwned' /\ kind'[r] = "resumeRun"
  BY <1>2 DEF SettleAgent, HoldsOwned, HandlersAgree, TypeOK
<1>3. ASSUME NEW outcome \in {"COMPLETED", "FAILED"}, FinishAgent(r, outcome)
      PROVE  HoldsOwned' /\ kind'[r] = "resumeRun"
  BY <1>3 DEF FinishAgent, HoldsOwned, HandlersAgree, TypeOK
<1> QED
  BY <1>1, <1>2, <1>3 DEF AgentStep, LoadAgent, SettleAgent, FinishAgent, TypeOK

\* Discarding holds leaves them theirs.
LEMMA OwnedByDiscard ==
  ASSUME TypeOK, HoldsOwned, NEW H \in SUBSET Hold, \A h \in H : hold[h] # "none", Discard(H)
  PROVE  \A h \in Hold : hold'[h] # "none" <=> hold[h] # "none"
BY DEF Discard, TypeOK

\* Every step but a claim, a settlement or a step of the agent API.
Elsewhere ==
  \/ \E r \in Run : DiscardAwaiting(r) \/ Crash(r)
  \/ \E H \in SUBSET Hold : Recover(H)
  \/ Abandon \/ RequestClose \/ ReapByClose \/ HeartbeatLapse \/ Heartbeat
  \/ UNCHANGED vars

\* Those discard or restore a set of holds, and take it from who answers them;
\* or they leave the holds alone and fail executions.
LEMMA ElsewhereShape ==
  ASSUME TypeOK, HandlersAgree, HoldsOwned, Elsewhere
  PROVE  /\ UNCHANGED <<of, on, kind, uses, made>>
         /\ \A h \in Hold : hold'[h] # "none" <=> hold[h] # "none"
         /\ \A r \in Run : \/ proc'[r] = proc[r]
                           \/ proc[r] = "starting" /\ proc'[r] = "working"
                           \/ Live(r) /\ proc'[r] = "crashed"
         /\ \/ \E H \in SUBSET Hold : Discard(H)
            \/ \E H \in SUBSET Hold : Recover(H)
            \/ /\ UNCHANGED <<hold, robbed>>
               /\ \A e \in Execution : status'[e] \in {status[e], "FAILED"}
<1>1. ASSUME NEW r \in Run, DiscardAwaiting(r)
      PROVE  /\ UNCHANGED <<of, on, kind, uses, made>>
             /\ \A h \in Hold : hold'[h] # "none" <=> hold[h] # "none"
             /\ \A q \in Run : \/ proc'[q] = proc[q]
                               \/ proc[q] = "starting" /\ proc'[q] = "working"
             /\ \E H \in SUBSET Hold : Discard(H)
  <2> DEFINE H == {h \in Hold : hold[h] = "awaiting" /\ Threaded(h)}
  <2>1. H \in SUBSET Hold /\ Discard(H) /\ \A h \in H : hold[h] # "none"
    BY <1>1 DEF DiscardAwaiting
  <2> HIDE DEF H
  <2>2. \A h \in Hold : hold'[h] # "none" <=> hold[h] # "none"
    BY <2>1, OwnedByDiscard
  <2> QED
    BY <1>1, <2>1, <2>2 DEF DiscardAwaiting, TypeOK
<1>2. CASE Abandon \/ RequestClose
  <2>1. OpenHolds \in SUBSET Hold /\ Discard(OpenHolds) /\ \A h \in OpenHolds : hold[h] # "none"
    BY <1>2 DEF OpenHolds, Abandon, RequestClose
  <2>2. \A h \in Hold : hold'[h] # "none" <=> hold[h] # "none"
    BY <2>1, OwnedByDiscard
  <2> QED
    BY <1>2, <2>1, <2>2 DEF Abandon, RequestClose
<1>3. ASSUME NEW H \in SUBSET Hold, Recover(H)
      PROVE  /\ UNCHANGED <<of, on, kind, uses, made, proc>>
             /\ \A h \in Hold : hold'[h] # "none" <=> hold[h] # "none"
  BY <1>3 DEF Recover, TypeOK
<1>4. ASSUME NEW r \in Run, Crash(r)
      PROVE  /\ UNCHANGED <<of, on, kind, uses, made, hold, status, robbed>>
             /\ \A q \in Run : \/ proc'[q] = proc[q]
                               \/ Live(q) /\ proc'[q] = "crashed"
  BY <1>4 DEF Crash, TypeOK
<1>5. CASE ReapByClose \/ HeartbeatLapse \/ Heartbeat \/ UNCHANGED vars
  BY <1>5 DEF ReapByClose, HeartbeatLapse, Heartbeat, vars, TypeOK
<1> QED
  BY <1>1, <1>2, <1>3, <1>4, <1>5 DEF Elsewhere

\* So they leave every request its execution and its holds.
LEMMA OwnedElsewhere ==
  ASSUME TypeOK, HandlersAgree, HoldsOwned, Elsewhere
  PROVE  HoldsOwned'
<1>1. /\ UNCHANGED <<of, on, kind, uses, made>>
      /\ \A h \in Hold : hold'[h] # "none" <=> hold[h] # "none"
      /\ \A r \in Run : \/ proc'[r] = proc[r]
                        \/ proc[r] = "starting" /\ proc'[r] = "working"
                        \/ Live(r) /\ proc'[r] = "crashed"
  BY ElsewhereShape
<1> QED
  BY <1>1 DEF HoldsOwned, Live

\* An execution is orderly only if it was before, and everybody who is on it.
LEMMA OrderlyBefore ==
  ASSUME TypeOK, HandlersAgree, HoldsOwned, [Next]_vars, NEW e \in Execution, Orderly(e)'
  PROVE  Orderly(e)
<1>1. robbed \subseteq robbed' /\ reaped \subseteq reaped'
  <2>1. ASSUME NEW r \in Run, Claim(r)
        PROVE  robbed \subseteq robbed' /\ reaped \subseteq reaped'
    BY <2>1 DEF Claim, ClaimExecute, ClaimFresh, ClaimResume, ClaimAguiResume, ClaimHold,
                CheckThread, TakeRow
  <2>2. ASSUME NEW r \in Run, SettleRun(r)
        PROVE  robbed \subseteq robbed' /\ reaped \subseteq reaped'
    BY <2>2 DEF SettleRun, Park, CompleteParked, LoseParked,
           RollBackParked, CompleteAnswered, Finalize,
                FailFresh, FailResume, FailUnderClose, RestoreClaim, RestoreExecution, Dropped,
                FinishRun
  <2>3. ASSUME NEW r \in Run, AgentStep(r)
        PROVE  robbed \subseteq robbed' /\ reaped \subseteq reaped'
    BY <2>3 DEF AgentStep, LoadAgent, SettleAgent, FinishAgent
  <2>4. CASE Elsewhere
    BY <2>4 DEF Elsewhere, DiscardAwaiting, Crash, Recover, Abandon, RequestClose, Discard,
                ReapByClose, HeartbeatLapse, Heartbeat, vars
  <2> QED
    BY <2>1, <2>2, <2>3, <2>4 DEF Next, Elsewhere
<1>2. ASSUME NEW q \in Run, on[q] = e PROVE on'[q] = e /\ (Claims(q)' => Claims(q))
  <2>1. proc[q] \notin {"idle", "checked"}
    BY <1>2, NullsType DEF HoldsOwned
  <2>2. ASSUME NEW r \in Run, Claim(r) PROVE on'[q] = on[q] /\ kind'[q] = kind[q]
    BY <2>1, <2>2, OwnedByClaim
  <2>3. ASSUME NEW r \in Run, SettleRun(r) PROVE on'[q] = on[q] /\ kind'[q] = kind[q]
    BY <2>3, OwnedBySettle
  <2>4. ASSUME NEW r \in Run, AgentStep(r)
        PROVE  on'[q] = on[q] /\ (kind'[q] = kind[q] \/ kind'[q] = "resumeRun")
    BY <2>1, <2>4, OwnedByAgent
  <2>5. CASE Elsewhere
    BY <1>2, <2>5, ElsewhereShape DEF Claims
  <2> QED
    BY <1>2, <2>2, <2>3, <2>4, <2>5 DEF Next, Elsewhere, Claims
<1> QED
  BY <1>1, <1>2 DEF Orderly, Undisturbed

\* Two live requests are not on one orderly execution: each would own the row.
LEMMA OneLive ==
  ASSUME RowOrReaped, NEW r \in Run, NEW q \in Run, Live(r), Live(q), on[q] = on[r],
         Orderly(on[r])
  PROVE  q = r
BY DEF RowOrReaped, Orderly, Undisturbed

\* A live request that stays undisturbed is on an execution on which no claim
\* can be made: its row is unfinished and its heartbeat recent, or it is taken.
LEMMA NotFree ==
  ASSUME TypeOK, RowOrReaped, NEW r \in Run, Live(r), Claims(r), r \notin reaped, Free
  PROVE  owner = r /\ stale
BY NullsType DEF RowOrReaped, Free

\* A claim made while another request is live takes that request's row.
LEMMA ClaimReaps ==
  ASSUME TypeOK, RowOrReaped, NEW r \in Run, NEW q \in Run, NEW e, Live(r), Claims(r),
         Free, TakeRow(q, e)
  PROVE  r \in reaped'
BY NotFree DEF TakeRow

\* Claims keep the claims of the others.
LEMMA KeptByClaim ==
  ASSUME TypeOK, HandlersAgree, HoldsOwned, RowOrReaped, ClaimKept, NEW q \in Run, Claim(q),
         \A e \in Execution : Orderly(e)' => Orderly(e)
  PROVE  ClaimKept'
<1> SUFFICES ASSUME NEW r \in Run, uses'[r] \in Hold, Orderly(on[r])', on'[r] \in Execution,
                    proc'[r] \in {"working", "parked", "lost", "undo", "undone"}
             PROVE  /\ proc'[r] \in {"working", "parked", "undo"} => hold'[uses'[r]] = "pending"
                    /\ proc'[r] = "undone" => hold'[uses'[r]] = "awaiting"
                    /\ proc'[r] # "lost"
  BY OwnedByClaim DEF ClaimKept, HoldsOwned
<1>1. proc[q] \in {"idle", "checked"} /\ uses[q] = NoHold
  BY OwnedByClaim DEF HandlersAgree
<1>2. CASE r = q
  BY <1>1, <1>2, NullsType DEF Claim, ClaimExecute, ClaimFresh, ClaimResume, ClaimAguiResume,
         ClaimHold, CheckThread, TypeOK
<1>3. CASE r # q
  <2>1. /\ uses'[r] = uses[r] /\ on'[r] = on[r] /\ proc'[r] = proc[r] /\ kind'[r] = kind[r]
    BY <1>3, OwnedByClaim DEF Claim, ClaimExecute, ClaimFresh, ClaimResume, ClaimAguiResume,
           ClaimHold, CheckThread, TypeOK
  <2>2. Orderly(on[r]) /\ Live(r) /\ Claims(r) /\ r \notin reaped'
    BY <2>1 DEF Orderly, Undisturbed, Claims, Live
  <2>3. hold' = hold
    BY <2>2, ClaimReaps DEF Claim, ClaimExecute, ClaimFresh, ClaimResume, ClaimAguiResume,
           ClaimHold, CheckThread
  <2> QED
    BY <2>1, <2>2, <2>3 DEF ClaimKept
<1> QED
  BY <1>2, <1>3

\* A settlement changes the request's own hold, or takes one that it made from
\* whoever answers it.
LEMMA KeptBySettle ==
  ASSUME TypeOK, HandlersAgree, HoldsOwned, RowOrReaped, ClaimKept, NEW q \in Run, SettleRun(q),
         \A e \in Execution : Orderly(e)' => Orderly(e)
  PROVE  ClaimKept'
<1>0. UNCHANGED <<on, kind, uses>> /\ \A r \in Run \ {q} : proc'[r] = proc[r]
  BY OwnedBySettle DEF SettleRun, Park, CompleteParked, LoseParked,
         RollBackParked, CompleteAnswered,
         Finalize, FailFresh, FailResume, FailUnderClose, RestoreClaim, RestoreExecution, Dropped,
         FinishRun, TypeOK
<1> SUFFICES ASSUME NEW r \in Run, uses[r] \in Hold, Orderly(on[r])', Orderly(on[r]),
                    proc'[r] \in {"working", "parked", "lost", "undo", "undone"}
             PROVE  /\ proc'[r] \in {"working", "parked", "undo"} => hold'[uses[r]] = "pending"
                    /\ proc'[r] = "undone" => hold'[uses[r]] = "awaiting"
                    /\ proc'[r] # "lost"
  <2>1. ASSUME NEW r \in Run, uses[r] \in Hold PROVE on[r] \in Execution
    BY <2>1 DEF HoldsOwned
  <2> QED
    BY <1>0, <2>1 DEF ClaimKept, Orderly
<1>1. r \notin robbed' /\ on[r] \in Execution
  BY <1>0 DEF Orderly, Undisturbed, HoldsOwned
<1>2. CASE r = q
  <2>1. /\ proc[r] \in {"working", "parked", "undo"} => hold[uses[r]] = "pending"
        /\ proc[r] # "lost"
    BY DEF ClaimKept
  <2>2. ASSUME NEW h \in Hold, Park(q, h) PROVE proc'[r] = "parked" /\ hold'[uses[r]] = hold[uses[r]]
                                                 /\ proc[r] = "working"
    <3>1. h # uses[r]
      BY <2>2 DEF Park, HoldsOwned
    <3> QED
      BY <1>2, <2>2, <3>1 DEF Park, TypeOK
  <2>3. CASE ~\E h \in Hold : Park(q, h)
    BY <1>2, <2>1, <2>3 DEF SettleRun, CompleteParked, LoseParked, RollBackParked, CompleteAnswered,
         Completes, Finalize, FailFresh, FailResume, FailUnderClose, RestoreClaim, Restored,
         RestoreExecution, Dropped, FinishRun, TypeOK
  <2> QED
    BY <2>1, <2>2, <2>3
<1>3. CASE r # q
  <2>1. proc[r] = proc'[r] /\ Live(r)
    BY <1>0, <1>3 DEF Live
  <2>2. hold[uses[r]] # "none" /\ of[uses[r]] = on[r]
    BY DEF HoldsOwned
  <2>3. uses[q] = uses[r] => ~Live(q)
    BY <1>3, <2>1, OneLive DEF HoldsOwned
  <2>4. hold'[uses[r]] = hold[uses[r]]
    <3>1. CASE CompleteParked(q) \/ CompleteAnswered(q) \/ RestoreClaim(q)
      BY <2>3, <3>1 DEF CompleteParked, CompleteAnswered, RestoreClaim, Restored, Live, TypeOK
    <3>2. CASE RollBackParked(q)
      <4>1. IsAgui(q) => made[q] # uses[r]
        BY <1>1, <2>1, <3>2 DEF RollBackParked, Answering
      <4>2. uses[q] # uses[r]
        BY <2>3, <3>2 DEF RollBackParked, Live
      <4> QED
        BY <3>2, <4>1, <4>2 DEF RollBackParked, Restored, TypeOK
    <3>3. ASSUME NEW h \in Hold, Park(q, h) PROVE hold'[uses[r]] = hold[uses[r]]
      BY <2>2, <3>3 DEF Park, TypeOK
    <3> QED
      BY <3>1, <3>2, <3>3 DEF SettleRun, LoseParked, Finalize, FailFresh, FailResume,
         FailUnderClose, RestoreExecution, Dropped, FinishRun
  <2> QED
    BY <2>1, <2>4 DEF ClaimKept
<1> QED
  BY <1>2, <1>3

\* Every other step that takes a claim takes it from a request it robs.
LEMMA KeptElsewhere ==
  ASSUME TypeOK, HandlersAgree, HoldsOwned, ClaimKept,
         (\E q \in Run : AgentStep(q)) \/ Elsewhere,
         \A e \in Execution : Orderly(e)' => Orderly(e)
  PROVE  ClaimKept'
<1> SUFFICES ASSUME NEW r \in Run, uses'[r] \in Hold, Orderly(on[r])',
                    proc'[r] \in {"working", "parked", "lost", "undo", "undone"}
             PROVE  /\ proc'[r] \in {"working", "parked", "undo"} => hold'[uses'[r]] = "pending"
                    /\ proc'[r] = "undone" => hold'[uses'[r]] = "awaiting"
                    /\ proc'[r] # "lost"
  BY DEF ClaimKept
<1>1. Claims(r)' /\ r \notin robbed'
  BY DEF Orderly, Undisturbed
<1>2. CASE Elsewhere
  <2>1. /\ uses'[r] = uses[r] /\ on'[r] = on[r] /\ kind'[r] = kind[r]
        /\ proc'[r] = proc[r] \/ (proc[r] = "starting" /\ proc'[r] = "working")
    BY <1>2, ElsewhereShape DEF TypeOK
  <2>2. on[r] \in Execution /\ Orderly(on[r])
    BY <2>1 DEF HoldsOwned, Orderly
  <2>3. proc[r] # "starting"
    BY <2>1, NullsType DEF HoldsOwned, HandlersAgree
  <2>4. hold'[uses[r]] = hold[uses[r]]
    <3>1. Live(r) /\ proc[r] # "settled"
      BY <2>1, <2>3 DEF Live
    <3>2. ASSUME NEW H \in SUBSET Hold, Discard(H) \/ Recover(H)
          PROVE  hold'[uses[r]] = hold[uses[r]]
      BY <1>1, <2>1, <3>1, <3>2 DEF Discard, Recover, Answering
    <3> QED
      BY <1>2, <3>2, ElsewhereShape
  <2> QED
    BY <2>1, <2>2, <2>3, <2>4 DEF ClaimKept
<1>3. ASSUME NEW q \in Run, AgentStep(q)
      PROVE  /\ proc'[r] \in {"working", "parked", "undo"} => hold'[uses'[r]] = "pending"
             /\ proc'[r] = "undone" => hold'[uses'[r]] = "awaiting"
             /\ proc'[r] # "lost"
  <2>1. r # q
    BY <1>1, <1>3, OwnedByAgent DEF Claims
  <2>2. /\ uses'[r] = uses[r] /\ on'[r] = on[r] /\ kind'[r] = kind[r] /\ proc'[r] = proc[r]
    BY <1>3, <2>1 DEF AgentStep, LoadAgent, SettleAgent, FinishAgent, TypeOK
  <2>3. on[r] \in Execution /\ Orderly(on[r])
    BY <2>2 DEF HoldsOwned, Orderly
  <2>4. hold'[uses[r]] = hold[uses[r]]
    <3>1. Live(r) /\ proc[r] # "settled"
      BY <2>2 DEF Live
    <3> QED
      BY <1>1, <1>3, <2>1, <2>2, <3>1
         DEF AgentStep, LoadAgent, SettleAgent, FinishAgent, Answering, TypeOK
  <2> QED
    BY <2>2, <2>3, <2>4 DEF ClaimKept
<1> QED
  BY <1>2, <1>3

\* A status becomes AWAITING_RESPONSE with a hold to answer, and loses it to a
\* claim, a discard or a request that is not undisturbed.
LEMMA AwaitingStep ==
  ASSUME TypeOK, HandlersAgree, HoldsOwned, ClaimKept, AwaitingAnswerable, [Next]_vars,
         NEW e \in Execution, status'[e] = "AWAITING_RESPONSE", Orderly(e)', Orderly(e)
  PROVE  \E h \in Hold : of'[h] = e /\ hold'[h] = "awaiting"
<1> DEFINE Goal == \E h \in Hold : of'[h] = e /\ hold'[h] = "awaiting"
<1>0. status[e] = "AWAITING_RESPONSE" => \E h \in Hold : of[h] = e /\ hold[h] = "awaiting"
  BY DEF AwaitingAnswerable, Orderly
<1>1. ASSUME NEW q \in Run, Claim(q) PROVE Goal
  <2>1. ASSUME NEW x, TakeRow(q, x) PROVE x # e /\ status[e] = "AWAITING_RESPONSE"
    BY <2>1 DEF TakeRow
  <2>2. ASSUME NEW x \in Execution, ClaimExecute(q, x) \/ ClaimFresh(q, x) PROVE Goal
    BY <1>0, <2>1, <2>2 DEF ClaimExecute, ClaimFresh
  <2>3. ASSUME NEW h \in Hold, NEW k, ClaimHold(q, h, k) PROVE Goal
    <3>1. of[h] # e /\ status[e] = "AWAITING_RESPONSE"
      BY <2>1, <2>3 DEF ClaimHold
    <3> QED
      BY <1>0, <2>3, <3>1 DEF ClaimHold, TypeOK
  <2>4. CASE CheckThread(q)
    BY <1>0, <2>4 DEF CheckThread
  <2> QED
    BY <1>1, <2>2, <2>3, <2>4 DEF Claim, ClaimResume, ClaimAguiResume
<1>2. ASSUME NEW q \in Run, SettleRun(q) PROVE Goal
  <2>1. ASSUME NEW h \in Hold, Park(q, h) PROVE Goal
    <3>1. CASE on[q] = e
      BY <2>1, <3>1 DEF Park, TypeOK
    <3>2. CASE on[q] # e
      BY <1>0, <2>1, <3>2 DEF Park, TypeOK
    <3> QED
      BY <3>1, <3>2
  <2>2. CASE RestoreExecution(q)
    <3>1. CASE on[q] = e
      BY <2>2, <3>1 DEF RestoreExecution, ClaimKept, HoldsOwned
    <3>2. CASE on[q] # e
      BY <1>0, <2>2, <3>2 DEF RestoreExecution, TypeOK
    <3> QED
      BY <3>1, <3>2
  <2>3. CASE RollBackParked(q)
    <3>1. made[q] \in Hold /\ of[made[q]] = on[q] /\ uses[q] \in Hold
      BY <2>3 DEF RollBackParked, HoldsOwned
    <3>2. on[q] # e
      BY <2>3, <3>1 DEF RollBackParked, ClaimKept
    <3>3. of[uses[q]] = on[q]
      BY <3>1 DEF HoldsOwned
    <3> QED
      BY <1>0, <2>3, <3>1, <3>2, <3>3 DEF RollBackParked, Restored, TypeOK
  <2>4. CASE CompleteParked(q) \/ CompleteAnswered(q) \/ RestoreClaim(q)
    BY <1>0, <2>4 DEF CompleteParked, CompleteAnswered, Completes, RestoreClaim, Restored, TypeOK
  <2>5. CASE Finalize(q) \/ FailFresh(q) \/ FailResume(q) \/ FailUnderClose(q) \/ Dropped(q)
             \/ FinishRun(q) \/ LoseParked(q)
    BY <1>0, <2>5 DEF LoseParked, Finalize, FailFresh,
         FailResume, FailUnderClose,
                    Dropped, FinishRun, TypeOK
  <2> QED
    BY <1>2, <2>1, <2>2, <2>3, <2>4, <2>5 DEF SettleRun
<1>3. ASSUME NEW q \in Run, AgentStep(q) PROVE Goal
  <2>1. ASSUME NEW h \in Hold, LoadAgent(q, h) PROVE Goal
    BY <1>0, <2>1 DEF LoadAgent
  <2>2. ASSUME NEW verdict \in {"completed", "discarded"}, SettleAgent(q, verdict) PROVE Goal
    <3>1. kind[q] = "resumeRun" /\ on[q] # e
      BY <2>2 DEF SettleAgent, HandlersAgree, Orderly, Undisturbed, Claims
    <3> QED
      BY <1>0, <2>2, <3>1 DEF SettleAgent, HoldsOwned, TypeOK
  <2>3. ASSUME NEW outcome \in {"COMPLETED", "FAILED"}, FinishAgent(q, outcome) PROVE Goal
    BY <1>0, <2>3 DEF FinishAgent, TypeOK
  <2> QED
    BY <1>3, <2>1, <2>2, <2>3 DEF AgentStep
<1>4. CASE Elsewhere
  <2>1. ASSUME NEW H \in SUBSET Hold, Discard(H) PROVE Goal
    BY <1>0, <1>4, <2>1, ElsewhereShape DEF Discard
  <2>2. ASSUME NEW H \in SUBSET Hold, Recover(H) PROVE Goal
    BY <1>0, <2>2 DEF Recover
  <2> QED
    BY <1>0, <1>4, <2>1, <2>2, ElsewhereShape
<1> QED
  BY <1>1, <1>2, <1>3, <1>4 DEF Next, Elsewhere

\* An execution that awaits an answer has a hold a client can answer, as long as
\* only requests that kept their row and their claim have worked on it.
THEOREM AwaitingHasHold == Spec => []AwaitingAnswerable
<1> DEFINE HInv == HoldsOwned /\ ClaimKept /\ RowOrReaped /\ AwaitingAnswerable
<1>1. Init => HInv
  BY NullsType DEF Init, HoldsOwned, ClaimKept, RowOrReaped, AwaitingAnswerable, Live
<1>2. TypeOK /\ HandlersAgree /\ HInv /\ [Next]_vars => HInv'
  <2> SUFFICES ASSUME TypeOK, HandlersAgree, HInv, [Next]_vars PROVE HInv'
    OBVIOUS
  <2>1. HoldsOwned'
    BY OwnedByClaim, OwnedBySettle, OwnedByAgent, OwnedElsewhere DEF Next, Elsewhere
  <2>2. \A e \in Execution : Orderly(e)' => Orderly(e)
    BY OrderlyBefore
  <2>3. ClaimKept'
    BY <2>2, KeptByClaim, KeptBySettle, KeptElsewhere DEF Next, Elsewhere
  <2>4. RowOrReaped'
    BY RowStep
  <2>5. AwaitingAnswerable'
    BY <2>2, AwaitingStep DEF AwaitingAnswerable, Orderly
  <2> QED
    BY <2>1, <2>3, <2>4, <2>5
<1> QED
  BY <1>1, <1>2, TypeCorrect, PTL DEF Spec

-----------------------------------------------------------------------------
(* The conversation's requests keep HoldPromise.                           *)

PhaseMap == [h \in Hold |-> Phases[hold[h]]]

AnswerMap == [h \in Hold |-> Answered(h)]

\* The mapping of Promise, by these names.
LEMMA Mapping ==
  /\ Promise!vars = <<PhaseMap, AnswerMap>>
  /\ \A H, p : Promise!Moved(H, p) = [h \in Hold |-> IF h \in H THEN p ELSE PhaseMap[h]]
BY DEF Promise!vars, Promise!Moved, PhaseMap, AnswerMap

\* What each status means.
LEMMA PhasesOf ==
  /\ Phases["none"] = "unasked" /\ Phases["awaiting"] = "open" /\ Phases["pending"] = "taken"
  /\ Phases["completed"] = "closed" /\ Phases["discarded"] = "closed"
BY DEF Phases

\* A request has a result once it is over, or on its way to undo its claim.
ResultLast ==
  \A r \in Run :
    proc[r] \notin {"undo", "undone", "settled", "done", "crashed"} => result[r] = "none"

\* Only a request that claimed works as one that settles its claim.
ClaimedWork == \A r \in Run : proc[r] \in {"starting", "working", "parked"} => Claims(r)

\* The inductive invariant of the refinement.
PInv == IInv /\ HoldsOwned /\ ResultLast /\ ClaimedWork

\* Results are given by the steps that settle.
LEMMA ResultStep ==
  ASSUME TypeOK, HandlersAgree, ResultLast, [Next]_vars
  PROVE  ResultLast'
<1>1. ASSUME NEW r \in Run, Claim(r)
      PROVE  ResultLast'
  <2>1. result' = result /\ result[r] = "none" /\ \A q \in Run \ {r} : proc'[q] = proc[q]
    BY <1>1 DEF Claim, ClaimExecute, ClaimFresh, ClaimResume, ClaimAguiResume, ClaimHold,
                CheckThread, HandlersAgree, TypeOK
  <2> QED
    BY <2>1 DEF ResultLast
<1>2. ASSUME NEW r \in Run, SettleRun(r)
      PROVE  ResultLast'
  <2>1. /\ \A q \in Run \ {r} : proc'[q] = proc[q] /\ result'[q] = result[q]
        /\ \/ proc'[r] \in {"undo", "undone", "settled", "done"}
           \/ proc[r] \in {"working", "parked"} /\ result'[r] = result[r]
    BY <1>2 DEF SettleRun, Park, CompleteParked, LoseParked,
           RollBackParked, CompleteAnswered, Finalize,
                FailFresh, FailResume, FailUnderClose, RestoreClaim, RestoreExecution, Dropped,
                FinishRun, TypeOK
  <2> QED
    BY <2>1 DEF ResultLast
<1>3. ASSUME NEW r \in Run, AgentStep(r)
      PROVE  ResultLast'
  <2>1. /\ \A q \in Run \ {r} : proc'[q] = proc[q] /\ result'[q] = result[q]
        /\ \/ proc'[r] = "settled"
           \/ proc[r] \in {"idle", "asking"} /\ result'[r] = result[r]
    BY <1>3 DEF AgentStep, LoadAgent, SettleAgent, FinishAgent, TypeOK
  <2> QED
    BY <2>1 DEF ResultLast
<1>4. ASSUME NEW r \in Run, DiscardAwaiting(r) \/ Crash(r)
      PROVE  ResultLast'
  BY <1>4 DEF DiscardAwaiting, Crash, ResultLast, TypeOK
<1>5. CASE \/ \E H \in SUBSET Hold : Recover(H)
           \/ Abandon \/ RequestClose \/ ReapByClose \/ HeartbeatLapse \/ Heartbeat
           \/ UNCHANGED vars
  <2>1. UNCHANGED <<proc, result>>
    BY <1>5 DEF Recover, Abandon, RequestClose, ReapByClose, HeartbeatLapse, Heartbeat, vars
  <2> QED
    BY <2>1 DEF ResultLast
<1> QED
  BY <1>1, <1>2, <1>3, <1>4, <1>5 DEF Next

\* The direct agent API has stages of its own.
LEMMA ClaimedStep ==
  ASSUME TypeOK, HandlersAgree, ClaimedWork, [Next]_vars
  PROVE  ClaimedWork'
<1>1. ASSUME NEW r \in Run, Claim(r)
      PROVE  ClaimedWork'
  <2>1. /\ proc'[r] = "checked" \/ kind'[r] \in {"execute", "resume", "agui", "aguiResume"}
        /\ \A q \in Run \ {r} : proc'[q] = proc[q] /\ kind'[q] = kind[q]
    BY <1>1 DEF Claim, ClaimExecute, ClaimFresh, ClaimResume, ClaimAguiResume, ClaimHold,
                CheckThread, TypeOK
  <2> QED
    BY <2>1 DEF ClaimedWork, Claims
<1>2. ASSUME NEW r \in Run, SettleRun(r)
      PROVE  ClaimedWork'
  <2>1. /\ kind' = kind /\ \A q \in Run \ {r} : proc'[q] = proc[q]
        /\ proc[r] = "working" \/ proc'[r] \notin {"starting", "working", "parked"}
    BY <1>2 DEF SettleRun, Park, CompleteParked, LoseParked,
           RollBackParked, CompleteAnswered, Finalize,
                FailFresh, FailResume, FailUnderClose, RestoreClaim, RestoreExecution, Dropped,
                FinishRun, TypeOK
  <2> QED
    BY <2>1 DEF ClaimedWork, Claims
<1>3. ASSUME NEW r \in Run, AgentStep(r)
      PROVE  ClaimedWork'
  <2>1. /\ \A q \in Run \ {r} : proc'[q] = proc[q] /\ kind'[q] = kind[q]
        /\ proc'[r] \in {"asking", "asked", "raised", "settled"}
    BY <1>3 DEF AgentStep, LoadAgent, SettleAgent, FinishAgent, TypeOK
  <2> QED
    BY <2>1 DEF ClaimedWork, Claims
<1>4. ASSUME NEW r \in Run, DiscardAwaiting(r) \/ Crash(r)
      PROVE  ClaimedWork'
  BY <1>4 DEF DiscardAwaiting, Crash, ClaimedWork, Claims, TypeOK
<1>5. CASE \/ \E H \in SUBSET Hold : Recover(H)
           \/ Abandon \/ RequestClose \/ ReapByClose \/ HeartbeatLapse \/ Heartbeat
           \/ UNCHANGED vars
  <2>1. UNCHANGED <<proc, kind>>
    BY <1>5 DEF Recover, Abandon, RequestClose, ReapByClose, HeartbeatLapse, Heartbeat, vars
  <2> QED
    BY <2>1 DEF ClaimedWork, Claims
<1> QED
  BY <1>1, <1>2, <1>3, <1>4, <1>5 DEF Next

\* The answers stay when nobody completes a claim or loses a completed one.
LEMMA AnswersKept ==
  ASSUME \A q \in Run : /\ Completed(q)' <=> Completed(q)
                        /\ Completed(q) => uses'[q] = uses[q]
  PROVE  AnswerMap' = AnswerMap
<1>1. ASSUME NEW h \in Hold PROVE Answered(h)' = Answered(h)
  BY <1>1 DEF Answered, Completed
<1> QED
  BY <1>1 DEF AnswerMap

\* Holds that all get one status move to its phase.
LEMMA PhasesMove ==
  ASSUME NEW H \in SUBSET Hold, NEW s,
         \A h \in Hold : hold'[h] = IF h \in H THEN s ELSE hold[h]
  PROVE  PhaseMap' = Promise!Moved(H, Phases[s])
<1>1. \A h \in Hold : Phases[hold[h]]' = IF h \in H THEN Phases[s] ELSE Phases[hold[h]]
  BY DEF Phases
<1> QED
  BY <1>1, Mapping DEF PhaseMap

\* Holds that were asked and are discarded, or completed by nobody who reports
\* it, are questions withdrawn.
LEMMA StepWithdraws ==
  ASSUME NEW H \in SUBSET Hold, NEW s \in Settled, \A h \in H : hold[h] # "none", TypeOK,
         \A h \in Hold : hold'[h] = IF h \in H THEN s ELSE hold[h],
         AnswerMap' = AnswerMap
  PROVE  Promise!Next
<1>1. PhaseMap' = Promise!Moved(H, "closed")
  BY PhasesMove, PhasesOf DEF Settled
<1>2. \A h \in H : PhaseMap[h] # "unasked"
  BY PhasesOf DEF PhaseMap, TypeOK
<1>3. Promise!Revoke({}, H)
  BY <1>1, <1>2, Mapping DEF Promise!Revoke, PhaseMap, AnswerMap
<1> QED
  BY <1>3 DEF Promise!Next

\* Claimed holds that are restored are questions put back.
LEMMA StepReturns ==
  ASSUME NEW H \in SUBSET Hold, \A h \in H : hold[h] = "pending",
         \A h \in Hold : hold'[h] = IF h \in H THEN "awaiting" ELSE hold[h],
         AnswerMap' = AnswerMap
  PROVE  Promise!Next
<1>1. PhaseMap' = Promise!Moved(H, "open")
  BY PhasesMove, PhasesOf
<1>2. \A h \in H : PhaseMap[h] = "taken"
  BY PhasesOf DEF PhaseMap
<1>3. Promise!Revoke(H, {})
  BY <1>1, <1>2, Mapping DEF Promise!Revoke, PhaseMap, AnswerMap
<1> QED
  BY <1>3 DEF Promise!Next

\* One transaction may discard holds that were asked and restore claimed ones.
LEMMA StepRevokes ==
  ASSUME NEW B \in SUBSET Hold, NEW G \in SUBSET Hold, \A h \in B : hold[h] = "pending",
         \A h \in G : hold[h] # "none", TypeOK,
         \A h \in Hold : hold'[h] = IF h \in G THEN "discarded"
                                    ELSE IF h \in B THEN "awaiting" ELSE hold[h],
         AnswerMap' = AnswerMap
  PROVE  Promise!Next
<1>1. \A h \in Hold : PhaseMap'[h] = IF h \in G THEN "closed"
                                      ELSE IF h \in B THEN "open" ELSE PhaseMap[h]
  BY PhasesOf DEF PhaseMap, Phases
<1>2. \A h \in G : PhaseMap[h] # "unasked"
  BY PhasesOf DEF PhaseMap, TypeOK
<1>3. \A h \in B : PhaseMap[h] = "taken"
  BY PhasesOf DEF PhaseMap
<1>4. Promise!Revoke(B, G)
  BY <1>1, <1>2, <1>3 DEF Promise!Revoke, PhaseMap, AnswerMap
<1> QED
  BY <1>4 DEF Promise!Next

\* Steps that leave the holds and the answers alone do nothing.
LEMMA StepStutters ==
  ASSUME hold' = hold, AnswerMap' = AnswerMap
  PROVE  UNCHANGED Promise!vars
<1>1. PhaseMap' = PhaseMap
  BY DEF PhaseMap, Phases
<1> QED
  BY <1>1 DEF Promise!vars, PhaseMap, AnswerMap

\* A claim takes a question, or concerns none.
LEMMA PromiseClaim ==
  ASSUME PInv, NEW r \in Run, Claim(r)
  PROVE  Promise!Next \/ UNCHANGED Promise!vars
<1> USE DEF PInv, IInv
<1>1. /\ \A q \in Run \ {r} : /\ kind'[q] = kind[q] /\ uses'[q] = uses[q]
                              /\ proc'[q] = proc[q] /\ result'[q] = result[q]
      /\ proc[r] \in {"idle", "checked"} /\ proc'[r] \in {"checked", "working", "starting"}
      /\ result' = result
  BY DEF Claim, ClaimExecute, ClaimFresh, ClaimResume, ClaimAguiResume, ClaimHold, CheckThread,
         TypeOK
<1>2. ~Completed(r) /\ ~Completed(r)'
  BY <1>1 DEF HandlersAgree, Completed
<1>3. AnswerMap' = AnswerMap
  <2>1. \A q \in Run : /\ Completed(q)' <=> Completed(q)
                       /\ Completed(q) => uses'[q] = uses[q]
    BY <1>1, <1>2 DEF Completed, Claims
  <2> QED
    BY <2>1, AnswersKept
<1>4. ASSUME NEW h \in Hold, NEW k, ClaimHold(r, h, k)
      PROVE  Promise!Next
  <2>1. hold[h] = "awaiting" /\ \A x \in Hold : hold'[x] = IF x \in {h} THEN "pending" ELSE hold[x]
    BY <1>4 DEF ClaimHold, TypeOK
  <2>2. PhaseMap' = Promise!Moved({h}, "taken")
    BY <2>1, PhasesMove, PhasesOf
  <2>3. Promise!Take(h)
    BY <1>3, <2>1, <2>2, PhasesOf DEF Promise!Take, PhaseMap, AnswerMap
  <2> QED
    BY <2>3 DEF Promise!Next
<1>5. CASE hold' = hold
  BY <1>3, <1>5, StepStutters
<1> QED
  BY <1>4, <1>5 DEF Claim, ClaimExecute, ClaimFresh, ClaimResume, ClaimAguiResume, CheckThread

\* A settlement of r: its answer is credited when it completes a claim that is
\* still there, and lost when it is dropped before it reports.
LEMMA PromiseSettle ==
  ASSUME PInv, NEW r \in Run, SettleRun(r)
  PROVE  Promise!Next \/ UNCHANGED Promise!vars
<1> USE DEF PInv, IInv
<1>1. /\ kind' = kind /\ uses' = uses
      /\ \A q \in Run \ {r} : proc'[q] = proc[q] /\ result'[q] = result[q]
  BY DEF SettleRun, Park, CompleteParked, LoseParked,
         RollBackParked, CompleteAnswered, Finalize, FailFresh,
         FailResume, FailUnderClose, RestoreClaim, RestoreExecution, Dropped, FinishRun, TypeOK
<1>2. ASSUME Completed(r)' <=> Completed(r)
      PROVE  AnswerMap' = AnswerMap
  <2>1. \A q \in Run : Completed(q)' <=> Completed(q)
    BY <1>1, <1>2 DEF Completed, Claims
  <2> QED
    BY <1>1, <2>1, AnswersKept
<1>3. ASSUME NEW h \in Hold, Park(r, h)
      PROVE  Promise!Next
  <2>1. Completed(r)' <=> Completed(r)
    <3>1. proc[r] = "asked" => kind[r] = "resumeRun"
      BY DEF HandlersAgree
    <3> QED
      BY <1>3, <3>1 DEF Park, Completed, Claims, ResultLast, TypeOK
  <2>2. hold[h] = "none" /\ \A x \in Hold : hold'[x] = IF x \in {h} THEN "awaiting" ELSE hold[x]
    BY <1>3 DEF Park, TypeOK
  <2>3. PhaseMap' = Promise!Moved({h}, "open")
    BY <2>2, PhasesMove, PhasesOf
  <2>4. Promise!Ask(h)
    BY <1>2, <2>1, <2>2, <2>3, PhasesOf DEF Promise!Ask, PhaseMap, AnswerMap
  <2> QED
    BY <2>4 DEF Promise!Next
<1>4. ASSUME CompleteParked(r) \/ CompleteAnswered(r), Completes(r), uses[r] \in Hold
      PROVE  Promise!Next
  <2> PICK h \in Hold : h = uses[r]
    BY <1>4
  <2>1. /\ hold[h] = "pending"
        /\ \A x \in Hold : hold'[x] = IF x \in {h} THEN "completed" ELSE hold[x]
        /\ result'[r] = "ok" \/ proc'[r] = "answered"
    BY <1>4 DEF CompleteParked, CompleteAnswered, Completes, TypeOK
  <2>2. Claims(r)
    BY <1>4 DEF CompleteParked, CompleteAnswered, ClaimedWork
  <2>3. PhaseMap' = Promise!Moved({h}, "closed")
    BY <1>4, <2>1, PhasesMove, PhasesOf
  <2>4. PhaseMap[h] = "taken"
    BY <1>4, <2>1, PhasesOf DEF PhaseMap
  <2>5. Answered(h)' = {r}
    <3>1. \A q \in Run : Completed(q) => uses[q] # h
      BY <1>4, <2>1 DEF CompletedSettled, Settled
    <3> QED
      BY <1>1, <1>4, <2>1, <2>2, <3>1 DEF Answered, Completed, Claims
  <2>6. \A x \in Hold \ {h} : Answered(x)' = Answered(x)
    BY <1>1 DEF Answered, Claims
  <2>7. AnswerMap' = [AnswerMap EXCEPT ![h] = {r}]
    BY <1>4, <2>5, <2>6 DEF AnswerMap
  <2>8. Promise!Answer(h, r)
    BY <2>3, <2>4, <2>7 DEF Promise!Answer, PhaseMap, AnswerMap
  <2> QED
    BY <1>4, <2>8 DEF Promise!Next
<1>5. ASSUME Completed(r), ~Completed(r)', hold' = hold
      PROVE  Promise!Next
  <2> PICK h \in Hold : h = uses[r]
    BY <1>5 DEF Completed
  <2>1. \A q \in Run \ {r} : Completed(q) => uses[q] # h
    BY <1>5 DEF Completed, CompletedOnce
  <2>2. Answered(h)' = {}
    BY <1>1, <1>5, <2>1 DEF Answered, Completed, Claims
  <2>3. \A x \in Hold \ {h} : Answered(x)' = Answered(x)
    BY <1>1 DEF Answered, Claims
  <2>4. AnswerMap' = [AnswerMap EXCEPT ![h] = {}]
    BY <2>1, <2>2, <2>3 DEF AnswerMap
  <2>5. PhaseMap' = PhaseMap
    BY <1>5 DEF PhaseMap, Phases
  <2>6. Promise!Forfeit(h)
    BY <2>4, <2>5 DEF Promise!Forfeit, PhaseMap, AnswerMap
  <2> QED
    BY <2>1, <2>6 DEF Promise!Next
<1>6. CASE RollBackParked(r)
  <2>1. AnswerMap' = AnswerMap
    <3>1. ~Completed(r) /\ ~Completed(r)'
      BY <1>6 DEF RollBackParked, Completed, ResultLast, TypeOK
    <3> QED
      BY <1>2, <3>1
  <2>2. CASE hold' = hold
    BY <2>1, <2>2, StepStutters
  <2>3. CASE hold' # hold
    <3> DEFINE B == {x \in {uses[r]} : hold[x] = "pending"}
    <3>1. made[r] \in Hold /\ hold[made[r]] # "none" /\ uses[r] \in Hold
      BY <1>6 DEF RollBackParked, HoldsOwned
    <3>2. \A x \in Hold : hold'[x] = IF x \in {made[r]} THEN "discarded"
                                     ELSE IF x \in B THEN "awaiting" ELSE hold[x]
      BY <1>6, <2>3, <3>1 DEF RollBackParked, Restored, TypeOK
    <3>3. B \in SUBSET Hold /\ {made[r]} \in SUBSET Hold
      BY <3>1
    <3>4. /\ \A x \in B : hold[x] = "pending"
          /\ \A x \in {made[r]} : hold[x] # "none"
      BY <3>1
    <3>5. TypeOK
      OBVIOUS
    <3> HIDE DEF B, PInv, IInv
    <3> QED
      BY <2>1, <3>2, <3>3, <3>4, <3>5, StepRevokes
  <2> QED
    BY <2>2, <2>3
<1>7. CASE RestoreClaim(r)
  <2>1. AnswerMap' = AnswerMap
    <3>1. Completed(r)' <=> Completed(r)
      BY <1>7 DEF RestoreClaim, Completed, Claims, TypeOK
    <3> QED
      BY <1>2, <3>1
  <2>2. CASE hold[uses[r]] = "pending"
    <3>1. uses[r] \in Hold
      BY <1>7 DEF RestoreClaim, HoldsOwned
    <3>2. \A x \in Hold : hold'[x] = IF x \in {uses[r]} THEN "awaiting" ELSE hold[x]
      BY <1>7, <2>2 DEF RestoreClaim, Restored, TypeOK
    <3> QED
      BY <2>1, <2>2, <3>1, <3>2, StepReturns
  <2>3. CASE hold[uses[r]] # "pending"
    <3>1. hold' = hold
      BY <1>7, <2>3 DEF RestoreClaim, Restored, TypeOK
    <3> QED
      BY <2>1, <3>1, StepStutters
  <2> QED
    BY <2>2, <2>3
<1>8. CASE \/ CompleteAnswered(r) /\ ~Completes(r)
           \/ Finalize(r) \/ FailFresh(r) \/ FailResume(r) \/ FailUnderClose(r)
           \/ RestoreExecution(r) \/ Dropped(r) \/ FinishRun(r) \/ LoseParked(r)
  <2>1. hold' = hold
    BY <1>8 DEF CompleteAnswered, LoseParked, Finalize, FailFresh,
         FailResume, FailUnderClose,
                RestoreExecution, Dropped, FinishRun
  <2>2. ~Completed(r) => ~Completed(r)'
    <3>1. kind[r] \in {"execute", "agui"} => uses[r] \notin Hold
      BY NullsType DEF HandlersAgree
    <3> QED
      BY <1>1, <1>8, <3>1 DEF CompleteAnswered, LoseParked, Finalize, FailFresh,
         FailResume, FailUnderClose,
         RestoreExecution, Dropped, FinishRun, Completed, Claims, TypeOK
  <2> QED
    BY <1>2, <1>5, <2>1, <2>2, StepStutters
<1>9. CompleteParked(r) \/ CompleteAnswered(r) => uses[r] \in Hold
  BY DEF CompleteParked, CompleteAnswered, HoldsOwned
<1>10. CompleteParked(r) => Completes(r)
  BY DEF CompleteParked
<1> QED
  BY <1>3, <1>4, <1>6, <1>7, <1>8, <1>9, <1>10 DEF SettleRun

\* The direct agent API closes questions without an answer of its own.
LEMMA PromiseAgent ==
  ASSUME PInv, NEW r \in Run, AgentStep(r)
  PROVE  Promise!Next \/ UNCHANGED Promise!vars
<1> USE DEF PInv, IInv
<1>1. AnswerMap' = AnswerMap
  <2>1. /\ \A q \in Run \ {r} : /\ kind'[q] = kind[q] /\ uses'[q] = uses[q]
                                /\ proc'[q] = proc[q] /\ result'[q] = result[q]
        /\ kind'[r] = "resumeRun"
        /\ proc[r] = "idle" \/ kind[r] = "resumeRun"
    BY DEF AgentStep, LoadAgent, SettleAgent, FinishAgent, TypeOK, HandlersAgree
  <2>2. ~Completed(r) /\ ~Completed(r)'
    BY <2>1 DEF Completed, Claims, HandlersAgree
  <2>3. \A q \in Run : /\ Completed(q)' <=> Completed(q)
                       /\ Completed(q) => uses'[q] = uses[q]
    BY <2>1, <2>2 DEF Completed, Claims
  <2> QED
    BY <2>3, AnswersKept
<1>2. ASSUME NEW verdict \in {"completed", "discarded"}, SettleAgent(r, verdict)
      PROVE  Promise!Next \/ UNCHANGED Promise!vars
  <2>1. CASE uses[r] \in Hold
    <3>1. \A x \in Hold : hold'[x] = IF x \in {uses[r]} THEN verdict ELSE hold[x]
      BY <1>2, <2>1 DEF SettleAgent, TypeOK
    <3>2. hold[uses[r]] # "none"
      BY <2>1 DEF HoldsOwned
    <3> QED
      BY <1>1, <2>1, <3>1, <3>2, StepWithdraws DEF Settled
  <2>2. CASE uses[r] \notin Hold
    <3>1. hold' = hold
      BY <1>2, <2>2 DEF SettleAgent, TypeOK
    <3> QED
      BY <1>1, <3>1, StepStutters
  <2> QED
    BY <2>1, <2>2
<1>3. CASE hold' = hold
  BY <1>1, <1>3, StepStutters
<1> QED
  BY <1>2, <1>3 DEF AgentStep, LoadAgent, FinishAgent

\* Discards withdraw questions, recoveries return them, and a crash loses the
\* answer that was not reported.
LEMMA PromiseElsewhere ==
  ASSUME PInv, Elsewhere
  PROVE  Promise!Next \/ UNCHANGED Promise!vars
<1> USE DEF PInv, IInv
<1>1. ASSUME NEW H \in SUBSET Hold, \A h \in H : hold[h] # "none", Discard(H),
             UNCHANGED <<kind, uses, result>>,
             \A q \in Run : proc'[q] = "answered" <=> proc[q] = "answered"
      PROVE  Promise!Next
  <2>1. AnswerMap' = AnswerMap
    BY <1>1, AnswersKept DEF Completed, Claims
  <2>2. \A h \in Hold : hold'[h] = IF h \in H THEN "discarded" ELSE hold[h]
    BY <1>1 DEF Discard
  <2> QED
    BY <1>1, <2>1, <2>2, StepWithdraws DEF Settled
<1>2. ASSUME NEW r \in Run, DiscardAwaiting(r)
      PROVE  Promise!Next
  <2> DEFINE H == {h \in Hold : hold[h] = "awaiting" /\ Threaded(h)}
  <2>1. H \in SUBSET Hold /\ Discard(H) /\ \A h \in H : hold[h] # "none"
    BY <1>2 DEF DiscardAwaiting
  <2>2. /\ UNCHANGED <<kind, uses, result>>
        /\ \A q \in Run : proc'[q] = "answered" <=> proc[q] = "answered"
    BY <1>2 DEF DiscardAwaiting, TypeOK
  <2> HIDE DEF H
  <2> QED
    BY <1>1, <2>1, <2>2
<1>3. CASE Abandon \/ RequestClose
  <2>1. OpenHolds \in SUBSET Hold /\ Discard(OpenHolds) /\ \A h \in OpenHolds : hold[h] # "none"
    BY <1>3 DEF OpenHolds, Abandon, RequestClose
  <2>2. UNCHANGED <<kind, uses, result, proc>>
    BY <1>3 DEF Abandon, RequestClose
  <2> QED
    BY <1>1, <2>1, <2>2
<1>4. ASSUME NEW H \in SUBSET Hold, Recover(H)
      PROVE  Promise!Next
  <2>1. AnswerMap' = AnswerMap
    BY <1>4, AnswersKept DEF Recover, Completed, Claims
  <2> QED
    BY <1>4, <2>1, StepReturns DEF Recover
<1>5. ASSUME NEW r \in Run, Crash(r)
      PROVE  Promise!Next \/ UNCHANGED Promise!vars
  <2>1. /\ UNCHANGED <<hold, kind, uses, result>>
        /\ proc'[r] = "crashed" /\ \A q \in Run \ {r} : proc'[q] = proc[q]
    BY <1>5 DEF Crash, TypeOK
  <2>2. CASE Completed(r)' <=> Completed(r)
    <3>1. AnswerMap' = AnswerMap
      BY <2>1, <2>2, AnswersKept DEF Completed, Claims
    <3> QED
      BY <2>1, <3>1, StepStutters
  <2>3. CASE Completed(r) /\ ~Completed(r)'
    <3> PICK h \in Hold : h = uses[r]
      BY <2>3 DEF Completed
    <3>1. \A q \in Run \ {r} : Completed(q) => uses[q] # h
      BY <2>3 DEF Completed, CompletedOnce
    <3>2. Answered(h)' = {}
      BY <2>1, <2>3, <3>1 DEF Answered, Completed, Claims
    <3>3. \A x \in Hold \ {h} : Answered(x)' = Answered(x)
      BY <2>1 DEF Answered, Claims
    <3>4. AnswerMap' = [AnswerMap EXCEPT ![h] = {}]
      BY <3>1, <3>2, <3>3 DEF AnswerMap
    <3>5. PhaseMap' = PhaseMap
      BY <2>1 DEF PhaseMap, Phases
    <3>6. Promise!Forfeit(h)
      BY <3>4, <3>5 DEF Promise!Forfeit, PhaseMap, AnswerMap
    <3> QED
      BY <3>1, <3>6 DEF Promise!Next
  <2> QED
    BY <2>1, <2>2, <2>3 DEF Completed, Claims
<1>6. CASE ReapByClose \/ HeartbeatLapse \/ Heartbeat \/ UNCHANGED vars
  <2>1. UNCHANGED <<hold, kind, uses, result, proc>>
    BY <1>6 DEF ReapByClose, HeartbeatLapse, Heartbeat, vars
  <2>2. AnswerMap' = AnswerMap
    BY <2>1, AnswersKept DEF Completed, Claims
  <2> QED
    BY <2>1, <2>2, StepStutters
<1> QED
  BY <1>2, <1>3, <1>4, <1>5, <1>6 DEF Elsewhere

\* The transactions of all handlers, with recoveries, abandons, a close, reaps
\* and crashes between them, implement HoldPromise: a request succeeds only if
\* its own completion closed a hold that was claimed at that moment.
THEOREM HoldsKeepPromise == Spec => KeepsPromise
<1>1. Init => PInv /\ Promise!Init
  <2> SUFFICES ASSUME Init PROVE PInv /\ Promise!Init
    OBVIOUS
  <2>1. TypeOK
    BY DEF Init, TypeOK, Statuses, Stages
  <2>2. HandlersAgree /\ ResultLast /\ ClaimedWork
    BY DEF Init, HandlersAgree, ResultLast, ClaimedWork
  <2>3. \A r \in Run : ~Completed(r)
    BY DEF Init, Completed
  <2>4. HoldsOwned
    BY NullsType DEF Init, HoldsOwned
  <2>5. PInv
    BY <2>1, <2>2, <2>3, <2>4 DEF PInv, IInv, CompletedSettled, CompletedOnce
  <2>6. \A h \in Hold : Phases[hold[h]] = "unasked" /\ Answered(h) = {}
    BY PhasesOf, NullsType DEF Init, Answered
  <2>7. Promise!Init
    BY <2>6 DEF Promise!Init
  <2> QED
    BY <2>5, <2>7
<1>2. PInv /\ [Next]_vars => PInv'
  <2> SUFFICES ASSUME PInv, [Next]_vars PROVE PInv'
    OBVIOUS
  <2>1. HoldsOwned'
    BY OwnedByClaim, OwnedBySettle, OwnedByAgent, OwnedElsewhere DEF PInv, IInv, Next, Elsewhere
  <2> QED
    BY <2>1, TypeStep, HandlersStep, CompletionStep, ResultStep, ClaimedStep DEF PInv, IInv
<1>3. PInv /\ [Next]_vars => [Promise!Next]_(Promise!vars)
  BY PromiseClaim, PromiseSettle, PromiseAgent, PromiseElsewhere DEF Next, Elsewhere
<1> QED
  BY <1>1, <1>2, <1>3, PTL DEF Spec, KeepsPromise, Promise!Spec

-----------------------------------------------------------------------------
(* What the promise says, from its own steps.                              *)

VARIABLES phase, answer

Pledge == INSTANCE HoldPromise WITH Question <- Hold, Client <- Run

\* A hold that keeps the promise is answered by one request at most, and is
\* closed when it is answered: no claim that is returned late reopens it.
THEOREM PromiseSafe == Pledge!Spec => []Pledge!OneAnswer
<1> DEFINE Typed == DOMAIN phase = Hold /\ answer \in [Hold -> SUBSET Run]
           Inv == Typed /\ Pledge!OneAnswer
<1>1. Pledge!Init => Inv
  BY DEF Pledge!Init, Pledge!OneAnswer
<1>2. Inv /\ [Pledge!Next]_(Pledge!vars) => Inv'
  <2> SUFFICES ASSUME Inv, [Pledge!Next]_(Pledge!vars) PROVE Inv'
    OBVIOUS
  <2>1. ASSUME NEW Q \in SUBSET Hold, NEW p, UNCHANGED answer, phase' = Pledge!Moved(Q, p),
               \A q \in Q : p = "closed" \/ phase[q] # "closed"
        PROVE  Inv'
    BY <2>1 DEF Pledge!Moved, Pledge!OneAnswer
  <2>2. ASSUME NEW q \in Hold, Pledge!Ask(q) PROVE Inv'
    BY <2>1, <2>2 DEF Pledge!Ask
  <2>3. ASSUME NEW q \in Hold, Pledge!Take(q) PROVE Inv'
    BY <2>1, <2>3 DEF Pledge!Take
  <2>4. ASSUME NEW q \in Hold, NEW c \in Run, Pledge!Answer(q, c) PROVE Inv'
    BY <2>4 DEF Pledge!Answer, Pledge!Moved, Pledge!OneAnswer
  <2>5. ASSUME NEW q \in Hold, Pledge!Forfeit(q) PROVE Inv'
    BY <2>5 DEF Pledge!Forfeit, Pledge!OneAnswer
  <2>6. ASSUME NEW back \in SUBSET Hold, NEW gone \in SUBSET Hold,
               Pledge!Revoke(back, gone)
        PROVE  Inv'
    BY <2>6 DEF Pledge!Revoke, Pledge!OneAnswer
  <2>7. CASE UNCHANGED Pledge!vars
    BY <2>7 DEF Pledge!vars, Pledge!OneAnswer
  <2> QED
    BY <2>2, <2>3, <2>4, <2>5, <2>6, <2>7 DEF Pledge!Next
<1> QED
  BY <1>1, <1>2, PTL DEF Pledge!Spec
=============================================================================
