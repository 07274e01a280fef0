------------------------- MODULE RunLifecycleProofs -------------------------
(***************************************************************************)
(* Theorems about the run ledger, for every number of executions, threads  *)
(* and requests.                                                           *)
(***************************************************************************)
EXTENDS RunLifecycle, TLAPS

-----------------------------------------------------------------------------
(* What reaping and discarding do to the tables.                           *)

\* Failing stale rows and their executions keeps both tables well typed.
LEMMA ReapTypes ==
  ASSUME TypeOK, NEW reaped \in SUBSET Run
  PROVE  /\ ReapedRows(reaped) \in [Run -> {"none", "active", "closing", "completed", "failed"}]
         /\ ReapedStatus(reaped) \in [Execution -> Statuses]
BY DEF TypeOK, ReapedRows, ReapedStatus, Statuses

\* What a claim reaps are unfinished runs with a stale heartbeat.
LEMMA ClaimReaps ==
  ASSUME NEW e \in Execution, NEW t \in Thread \cup {NoThread}
  PROVE  /\ ReapedByClaim(e, t) \in SUBSET Run
         /\ \A q \in ReapedByClaim(e, t) : Unfinished(q) /\ beat[q] = "stale"
BY DEF ReapedByClaim, StaleRuns

\* A claim keeps the state well typed, whether it is granted or not.
LEMMA ClaimTypes ==
  ASSUME TypeOK, NEW r \in Run, NEW e \in Execution, NEW t \in Thread \cup {NoThread},
         NEW n \in {"execute", "resume", "agui", "aguiResume"}, Claim(r, e, t, n)
  PROVE  TypeOK'
<1> DEFINE reaped == ReapedByClaim(e, t)
<1>1. reaped \in SUBSET Run
  BY ClaimReaps
<1>2. /\ ReapedRows(reaped) \in [Run -> {"none", "active", "closing", "completed", "failed"}]
      /\ ReapedStatus(reaped) \in [Execution -> Statuses]
  BY <1>1, ReapTypes
<1>3. NewClaim(e, t, n) \in Claims
  BY DEF NewClaim, Claims
<1>4. CASE Grant(r, e, t, n)
  BY <1>2, <1>3, <1>4 DEF Grant, TypeOK, Statuses
<1>5. CASE Conflict(r, e, t, n)
  BY <1>2, <1>5 DEF Conflict, TypeOK
<1> QED
  BY <1>4, <1>5 DEF Claim

\* A close transaction keeps the state well typed.
LEMMA CloseTypes ==
  ASSUME TypeOK, NEW s \in Scope
  PROVE  /\ Reap(s) => /\ row' \in [Run -> {"none", "active", "closing", "completed", "failed"}]
                       /\ status' \in [Execution -> Statuses]
                       /\ phase' = phase
         /\ Finalize(s) => /\ row' \in [Run -> {"none", "active", "closing", "completed", "failed"}]
                           /\ status' \in [Execution -> Statuses]
                           /\ phase' \in [Scope -> {"open", "closing", "closed"}]
<1>1. StaleRuns(s) \in SUBSET Run
  BY DEF StaleRuns
<1>2. /\ ReapedRows(StaleRuns(s)) \in [Run -> {"none", "active", "closing", "completed", "failed"}]
      /\ ReapedStatus(StaleRuns(s)) \in [Execution -> Statuses]
  BY <1>1, ReapTypes
<1>3. Terminalized(ReapedStatus(StaleRuns(s)), Owned(s)) \in [Execution -> Statuses]
  BY <1>2 DEF Terminalized, Statuses
<1> QED
  BY <1>2, <1>3 DEF Reap, Finalize, TypeOK

\* A refused request ends, a granted or failing AG-UI execution included.
LEMMA AnswerTypes ==
  ASSUME TypeOK, HandlersAgree, NEW r \in Run, Refused(r) \/ AnswerConflict(r)
  PROVE  TypeOK' /\ HandlersAgree'
<1>1. claim[r] \in Claims
  BY DEF HandlersAgree, Refused, AnswerConflict
<1>2. status' \in [Execution -> Statuses]
  BY <1>1 DEF Refused, AnswerConflict, TypeOK, Statuses, Claims
<1>3. TypeOK'
  BY <1>2 DEF Refused, AnswerConflict, TypeOK
<1>4. HandlersAgree'
  BY DEF Refused, AnswerConflict, TypeOK, HandlersAgree, Live
<1> QED
  BY <1>3, <1>4

\* Type correctness of the ledger, and the agreement of handlers and rows.
THEOREM TypeCorrect == Spec => [](TypeOK /\ HandlersAgree)
<1>1. Init => TypeOK /\ HandlersAgree
  BY DEF Init, TypeOK, HandlersAgree, Statuses, Live, NoClaim
<1>2. TypeOK /\ HandlersAgree /\ [Next]_vars => TypeOK' /\ HandlersAgree'
  <2> SUFFICES ASSUME TypeOK, HandlersAgree, [Next]_vars PROVE TypeOK' /\ HandlersAgree'
    OBVIOUS
  <2>1. ASSUME NEW e \in Execution, Initiate(e) PROVE TypeOK' /\ HandlersAgree'
    BY <2>1 DEF Initiate, TypeOK, Statuses, HandlersAgree, Live
  <2>2. ASSUME NEW r \in Run, NEW e \in Execution, CreateAgui(r, e)
        PROVE  TypeOK' /\ HandlersAgree'
    <3>1. NewClaim(e, HomeThread[e], "agui") \in Claims /\ HomeThread[e] \in Thread
      BY <2>2, HomeThreadType DEF NewClaim, Claims, CreateAgui, AguiOrigin
    <3>2. TypeOK'
      BY <2>2, <3>1 DEF CreateAgui, TypeOK, Statuses
    <3>3. HandlersAgree'
      BY <2>2, <3>1 DEF CreateAgui, TypeOK, HandlersAgree, Live, NewClaim
    <3> QED
      BY <3>2, <3>3
  <2>3. ASSUME NEW r \in Run, NEW e \in Execution, NEW t \in Thread \cup {NoThread},
               LoadExecute(r, e, t)
        PROVE  TypeOK' /\ HandlersAgree'
    <3>1. NewClaim(e, t, "execute") \in Claims
      BY DEF NewClaim, Claims
    <3>2. TypeOK'
      BY <2>3, <3>1 DEF LoadExecute, TypeOK
    <3>3. HandlersAgree'
      BY <2>3, <3>1 DEF LoadExecute, TypeOK, HandlersAgree, Live, NewClaim
    <3> QED
      BY <3>2, <3>3
  <2>4. ASSUME NEW r \in Run, NEW e \in Execution, NEW t \in Thread \cup {NoThread},
               NEW n \in {"execute", "resume", "agui", "aguiResume"},
               Claim(r, e, t, n), row[r] = "none",
               \/ proc[r] = "idle" /\ n \in {"resume", "aguiResume"}
               \/ proc[r] = "loaded" /\ n \notin {"resume", "aguiResume"},
               n \in {"agui", "aguiResume"} => t # NoThread
        PROVE  TypeOK' /\ HandlersAgree'
    <3>1. TypeOK'
      BY <2>4, ClaimTypes
    <3>2. NewClaim(e, t, n) \in Claims
      BY DEF NewClaim, Claims
    <3>3. ReapedByClaim(e, t) \in SUBSET Run /\ r \notin ReapedByClaim(e, t)
      BY <2>4, ClaimReaps DEF Unfinished
    <3>4. \A q \in Run : ReapedRows(ReapedByClaim(e, t))[q] = "none" <=> row[q] = "none"
      BY ClaimReaps DEF ReapedRows, Unfinished
    <3>5. CASE Grant(r, e, t, n)
      <4>1. row' = [ReapedRows(ReapedByClaim(e, t)) EXCEPT ![r] = "active"]
        BY <3>5 DEF Grant
      <4>2. row'[r] = "active" /\ \A q \in Run \ {r} : row'[q] = "none" <=> row[q] = "none"
        BY <4>1, <3>4 DEF ReapedRows
      <4>3. /\ claim' = [claim EXCEPT ![r] = NewClaim(e, t, n)]
            /\ proc' = [proc EXCEPT ![r] = "working"]
            /\ parked' = parked
        BY <3>5 DEF Grant
      <4>4. /\ claim'[r] = NewClaim(e, t, n) /\ proc'[r] = "working"
            /\ \A q \in Run \ {r} : claim'[q] = claim[q] /\ proc'[q] = proc[q]
        BY <4>3 DEF TypeOK
      <4>5. n \in {"agui", "aguiResume"} => t \in Thread
        BY <2>4
      <4>6. HandlersAgree'
        BY <3>2, <4>2, <4>3, <4>4, <4>5 DEF HandlersAgree, Live, NewClaim
      <4> QED
        BY <3>1, <4>6
    <3>6. CASE Conflict(r, e, t, n)
      BY <2>4, <3>1, <3>4, <3>6 DEF Conflict, TypeOK, HandlersAgree, Live
    <3> QED
      BY <2>4, <3>5, <3>6 DEF Claim
  <2>5. ASSUME NEW r \in Run, NEW q \in Run, NEW n \in Entries, ClaimResume(r, q, n)
        PROVE  TypeOK' /\ HandlersAgree'
    <3>1. claim[q] \in Claims /\ row[r] = "none"
      BY <2>5 DEF ClaimResume, HandlersAgree
    <3> QED
      BY <2>4, <2>5, <3>1 DEF ClaimResume, Claims
  <2>6. ASSUME NEW r \in Run, ClaimLoaded(r) PROVE TypeOK' /\ HandlersAgree'
    <3>1. /\ claim[r] \in Claims
          /\ row[r] = "none"
          /\ claim[r].entry \in {"execute", "agui"}
          /\ claim[r].entry = "agui" => claim[r].thread # NoThread
      BY <2>6, ScopesDisjoint DEF ClaimLoaded, HandlersAgree
    <3> QED
      BY <2>4, <2>6, <3>1 DEF ClaimLoaded, Claims
  <2>7. ASSUME NEW r \in Run, Refused(r) \/ AnswerConflict(r) PROVE TypeOK' /\ HandlersAgree'
    BY <2>7, AnswerTypes
  <2>8. ASSUME NEW r \in Run, NEW outcome \in {"success", "awaits", "failure", "dropped"},
               Settle(r, outcome)
        PROVE  TypeOK' /\ HandlersAgree'
    <3>1. claim[r] \in Claims
      BY <2>8 DEF HandlersAgree, Settle
    <3>2. outcome # "dropped" => SettledStatus(claim[r].entry, outcome) \in Statuses
      BY <3>1 DEF SettledStatus, Statuses, Claims
    <3>3. status' \in [Execution -> Statuses]
      BY <2>8, <3>1, <3>2 DEF Settle, TypeOK, Claims
    <3> QED
      BY <2>8, <3>3 DEF Settle, TypeOK, HandlersAgree, Live
  <2>9. ASSUME NEW r \in Run, FinishRun(r) PROVE TypeOK' /\ HandlersAgree'
    BY <2>9 DEF FinishRun, TypeOK, HandlersAgree, Live, Unfinished
  <2>10. ASSUME NEW r \in Run, Heartbeat(r) \/ HeartbeatLapse(r) \/ Crash(r)
         PROVE  TypeOK' /\ HandlersAgree'
    BY <2>10 DEF Heartbeat, HeartbeatLapse, Crash, TypeOK, HandlersAgree, Live
  <2>11. ASSUME NEW s \in Scope, Reap(s) \/ Finalize(s)
         PROVE  \A q \in Run : row'[q] = "none" <=> row[q] = "none"
    BY <2>11 DEF Reap, Finalize, ReapedRows, StaleRuns, Unfinished
  <2>12. ASSUME NEW r \in Run, Reconcile(r) PROVE TypeOK' /\ HandlersAgree'
    <3>1. claim[r] \in Claims /\ proc[r] = "finished"
      BY <2>12 DEF HandlersAgree, Reconcile
    <3>2. CASE ReconciledScope(r) \in Scope
      <4>1. \/ UNCHANGED <<phase, status, row>>
            \/ Reap(ReconciledScope(r)) \/ Finalize(ReconciledScope(r))
        BY <2>12 DEF Reconcile
      <4>2. \A q \in Run : row'[q] = "none" <=> row[q] = "none"
        BY <2>11, <3>2, <4>1
      <4>3. /\ row' \in [Run -> {"none", "active", "closing", "completed", "failed"}]
            /\ status' \in [Execution -> Statuses]
            /\ phase' \in [Scope -> {"open", "closing", "closed"}]
        BY <3>2, <4>1, CloseTypes DEF TypeOK
      <4>4. /\ proc' = [proc EXCEPT ![r] = "done"]
            /\ UNCHANGED <<beat, claim, parked, stalled, late>>
        BY <2>12 DEF Reconcile
      <4>5. TypeOK'
        BY <4>3, <4>4 DEF TypeOK
      <4>6. HandlersAgree'
        BY <3>1, <4>2, <4>4 DEF TypeOK, HandlersAgree, Live
      <4> QED
        BY <4>5, <4>6
    <3> QED
      BY <3>1, <3>2 DEF ReconciledScope, Claims, Scope, HandlersAgree
  <2>13. ASSUME NEW t \in Thread, DiscardHolds(t) PROVE TypeOK' /\ HandlersAgree'
    BY <2>13 DEF DiscardHolds, Discarded, TypeOK, Statuses, HandlersAgree, Live
  <2>14. ASSUME NEW s \in Scope, RequestClose(s) PROVE TypeOK' /\ HandlersAgree'
    BY <2>14 DEF RequestClose, Discarded, TypeOK, Statuses, HandlersAgree, Live
  <2>15. ASSUME NEW s \in Scope, RetryClose(s) PROVE TypeOK' /\ HandlersAgree'
    <3>1. /\ row' \in [Run -> {"none", "active", "closing", "completed", "failed"}]
          /\ status' \in [Execution -> Statuses]
          /\ phase' \in [Scope -> {"open", "closing", "closed"}]
      BY <2>15, CloseTypes DEF RetryClose, TypeOK
    <3> QED
      BY <2>11, <2>15, <3>1 DEF RetryClose, TypeOK, HandlersAgree, Live
  <2>16. CASE UNCHANGED vars
    BY <2>16 DEF vars, TypeOK, HandlersAgree, Live
  <2> QED
    BY <2>1, <2>2, <2>3, <2>5, <2>6, <2>7, <2>8, <2>9, <2>10, <2>12, <2>13, <2>14, <2>15,
       <2>16 DEF Next, Serve
<1> QED
  BY <1>1, <1>2, PTL DEF Spec

-----------------------------------------------------------------------------
(* What a step can do to a run that is not being granted its row.          *)

Undisturbed(q) ==
  /\ row'[q] = "none" <=> row[q] = "none"
  /\ row[q] # "none" => claim'[q] = claim[q]
  /\ Unfinished(q)' => Unfinished(q)
  /\ Live(q)' => Live(q)
  /\ q \notin stalled' => q \notin stalled
  /\ q \notin late' => q \notin late
  /\ Live(q)' /\ q \notin stalled' /\ Unfinished(q) /\ beat[q] = "fresh"
       => Unfinished(q)' /\ beat'[q] = "fresh"

\* A request r is granted a row it did not have, on scopes that admit it.
Granted(r) ==
  /\ row[r] = "none"
  /\ \E e \in Execution, t \in Thread \cup {NoThread},
        n \in {"execute", "resume", "agui", "aguiResume"} : Grant(r, e, t, n)

\* A claim leaves the others their rows, except the stale ones it reaps.
LEMMA ClaimOthers ==
  ASSUME TypeOK, HandlersAgree, NEW r \in Run, NEW e \in Execution,
         NEW t \in Thread \cup {NoThread},
         NEW n \in {"execute", "resume", "agui", "aguiResume"}, row[r] = "none"
  PROVE  /\ Grant(r, e, t, n) => \A q \in Run \ {r} : Undisturbed(q)
         /\ Conflict(r, e, t, n) => \A q \in Run : Undisturbed(q)
<1> DEFINE reaped == ReapedByClaim(e, t)
<1>1. \A q \in Run : q \in reaped => Unfinished(q) /\ beat[q] = "stale"
  BY ClaimReaps
<1>2. \A q \in Run : ReapedRows(reaped)[q] = IF q \in reaped THEN "failed" ELSE row[q]
  BY DEF ReapedRows
<1> HIDE DEF reaped
<1>3. ASSUME Grant(r, e, t, n), NEW q \in Run \ {r} PROVE Undisturbed(q)
  <2>1. /\ row'[q] = ReapedRows(reaped)[q] /\ beat'[q] = beat[q]
        /\ claim'[q] = claim[q] /\ proc'[q] = proc[q]
        /\ stalled' = stalled /\ late \subseteq late'
    BY <1>3 DEF Grant, TypeOK, reaped, ReapedRows
  <2> QED
    BY <1>1, <1>2, <2>1 DEF Undisturbed, Unfinished, Live
<1>4. ASSUME Conflict(r, e, t, n), NEW q \in Run PROVE Undisturbed(q)
  <2>1. /\ row' = ReapedRows(reaped) /\ beat' = beat /\ claim' = claim
        /\ stalled' = stalled /\ late = late'
        /\ proc' = [proc EXCEPT ![r] = IF n \in {"resume", "aguiResume"}
                                       THEN "idle" ELSE "rejected"]
    BY <1>4 DEF Conflict, reaped
  <2>2. Live(q)' => q # r /\ Live(q)
    BY <2>1 DEF Live, TypeOK
  <2> QED
    BY <1>1, <1>2, <2>1, <2>2 DEF Undisturbed, Unfinished, Live
<1> QED
  BY <1>3, <1>4

\* A close transaction takes rows only from runs whose heartbeat is stale.
LEMMA CloseOthers ==
  ASSUME TypeOK, NEW s \in Scope, Reap(s) \/ Finalize(s),
         UNCHANGED <<beat, claim, stalled, late>>, NEW q \in Run, Live(q)' => Live(q)
  PROVE  Undisturbed(q)
<1>1. row' = ReapedRows(StaleRuns(s))
  BY DEF Reap, Finalize
<1> QED
  BY <1>1 DEF ReapedRows, StaleRuns, Undisturbed, Unfinished

\* Every step grants one request a row or disturbs nobody.
LEMMA StepShape ==
  ASSUME TypeOK, HandlersAgree, [Next]_vars
  PROVE  \/ \E r \in Run : Granted(r)
         \/ \A q \in Run : Undisturbed(q)
<1>1. ASSUME NEW r \in Run, NEW e \in Execution, NEW t \in Thread \cup {NoThread},
             NEW n \in {"execute", "resume", "agui", "aguiResume"},
             Claim(r, e, t, n), row[r] = "none"
      PROVE  Granted(r) \/ \A q \in Run : Undisturbed(q)
  BY <1>1, ClaimOthers DEF Claim, Granted
<1>2. ASSUME NEW r \in Run, ClaimLoaded(r)
      PROVE  Granted(r) \/ \A q \in Run : Undisturbed(q)
  <2>1. claim[r] \in Claims /\ row[r] = "none"
    BY <1>2 DEF ClaimLoaded, HandlersAgree
  <2> QED
    BY <1>1, <1>2, <2>1 DEF ClaimLoaded, Claims
<1>3. ASSUME NEW r \in Run, NEW q \in Run, NEW n \in Entries, ClaimResume(r, q, n)
      PROVE  Granted(r) \/ \A p \in Run : Undisturbed(p)
  <2>1. claim[q] \in Claims /\ row[r] = "none"
    BY <1>3 DEF ClaimResume, HandlersAgree
  <2> QED
    BY <1>1, <1>3, <2>1 DEF ClaimResume, Claims
<1>4. ASSUME NEW q \in Run PROVE
        /\ (\E e \in Execution : Initiate(e)) => Undisturbed(q)
        /\ (\E t \in Thread : DiscardHolds(t)) => Undisturbed(q)
        /\ (\E s \in Scope : RequestClose(s)) => Undisturbed(q)
        /\ UNCHANGED vars => Undisturbed(q)
  BY DEF Initiate, DiscardHolds, RequestClose, vars, Undisturbed, Unfinished, Live, TypeOK
<1>5. ASSUME NEW r \in Run, NEW e \in Execution, NEW q \in Run PROVE
        /\ CreateAgui(r, e) => Undisturbed(q)
        /\ (\E t \in Thread \cup {NoThread} : LoadExecute(r, e, t)) => Undisturbed(q)
  <2>1. proc[r] = "idle" => row[r] = "none" /\ ~Live(r)
    BY DEF HandlersAgree, Live
  <2> QED
    BY <2>1 DEF CreateAgui, LoadExecute, Undisturbed, Unfinished, Live, TypeOK
<1>6. ASSUME NEW r \in Run, NEW q \in Run PROVE
        /\ Refused(r) \/ AnswerConflict(r) => Undisturbed(q)
        /\ Heartbeat(r) \/ HeartbeatLapse(r) \/ Crash(r) => Undisturbed(q)
  BY DEF Refused, AnswerConflict, Heartbeat, HeartbeatLapse, Crash,
         Undisturbed, Unfinished, Live, TypeOK
<1>7. ASSUME NEW r \in Run, NEW q \in Run PROVE
        /\ \A outcome \in {"success", "awaits", "failure", "dropped"} :
              Settle(r, outcome) => Undisturbed(q)
        /\ FinishRun(r) => Undisturbed(q)
  BY DEF Settle, FinishRun, Undisturbed, Unfinished, Live, TypeOK
<1>8. ASSUME NEW r \in Run, NEW q \in Run, Reconcile(r) PROVE Undisturbed(q)
  <2>1. ReconciledScope(r) \in Scope
    BY <1>8 DEF Reconcile, HandlersAgree, ReconciledScope, Claims, Scope
  <2>2. Live(q)' => Live(q)
    BY <1>8 DEF Reconcile, Live, TypeOK
  <2>3. UNCHANGED <<beat, claim, stalled, late>>
    BY <1>8 DEF Reconcile
  <2>4. CASE Reap(ReconciledScope(r)) \/ Finalize(ReconciledScope(r))
    BY <2>1, <2>2, <2>3, <2>4, CloseOthers
  <2>5. CASE UNCHANGED <<phase, status, row>>
    BY <2>2, <2>3, <2>5 DEF Undisturbed, Unfinished
  <2> QED
    BY <1>8, <2>4, <2>5 DEF Reconcile
<1>9. ASSUME NEW s \in Scope, NEW q \in Run, RetryClose(s) PROVE Undisturbed(q)
  <2>1. UNCHANGED <<beat, claim, stalled, late>> /\ (Live(q)' => Live(q))
    BY <1>9 DEF RetryClose, Live
  <2> QED
    BY <1>9, <2>1, CloseOthers DEF RetryClose
<1> QED
  BY <1>2, <1>3, <1>4, <1>5, <1>6, <1>7, <1>8, <1>9 DEF Next, Serve

-----------------------------------------------------------------------------
(* Safety of the claims.                                                   *)

\* No interleaving of claims, reaps, finishes and closes leaves two unfinished
\* run rows on one execution or one thread.
THEOREM Exclusive == Spec => []ExclusiveScopes
<1>1. Init => ExclusiveScopes
  BY DEF Init, ExclusiveScopes, Unfinished
<1>2. TypeOK /\ HandlersAgree /\ ExclusiveScopes /\ [Next]_vars => ExclusiveScopes'
  <2> SUFFICES ASSUME TypeOK, HandlersAgree, ExclusiveScopes, [Next]_vars,
                      NEW p \in Run, NEW q \in Run, p # q, Unfinished(p)', Unfinished(q)'
               PROVE  ~Overlap(p, q)'
    BY DEF ExclusiveScopes
  <2>1. CASE \A x \in Run : Undisturbed(x)
    <3>1. /\ Unfinished(p) /\ claim'[p] = claim[p]
          /\ Unfinished(q) /\ claim'[q] = claim[q]
      BY <2>1 DEF Undisturbed, Unfinished
    <3> QED
      BY <3>1 DEF ExclusiveScopes, Overlap
  <2>2. ASSUME NEW r \in Run, Granted(r) PROVE ~Overlap(p, q)'
    <3>1. PICK e \in Execution, t \in Thread \cup {NoThread},
               n \in {"execute", "resume", "agui", "aguiResume"} : Grant(r, e, t, n)
      BY <2>2 DEF Granted
    <3>2. claim'[r] = NewClaim(e, t, n)
      BY <3>1 DEF Grant, TypeOK
    <3>3. ASSUME NEW x \in Run \ {r}, Unfinished(x)'
          PROVE  /\ Unfinished(x) /\ claim'[x] = claim[x]
                 /\ claim[x].exec # e
                 /\ t # NoThread => claim[x].thread # t
      <4>1. Unfinished(x) /\ claim'[x] = claim[x]
        BY <2>2, <3>1, <3>3, ClaimOthers DEF Granted, Undisturbed, Unfinished
      <4>2. x \notin ReapedByClaim(e, t)
        BY <3>1, <3>3, ClaimReaps DEF Grant, ReapedRows, Unfinished
      <4> QED
        BY <3>1, <4>1, <4>2 DEF Grant, Conflicts
    <3>4. CASE p = r \/ q = r
      BY <3>2, <3>3, <3>4 DEF Overlap, NewClaim
    <3>5. CASE p # r /\ q # r
      BY <3>3, <3>5 DEF ExclusiveScopes, Overlap
    <3> QED
      BY <3>4, <3>5
  <2> QED
    BY <2>1, <2>2, StepShape
<1> QED
  BY <1>1, <1>2, TypeCorrect, PTL DEF Spec

\* A run whose heartbeat never lapsed while its owner lived keeps its row until
\* its owner finishes it.
THEOREM ClaimHeld == Spec => []LiveWorkerHoldsClaim
<1>1. Init => LiveWorkerHoldsClaim
  BY DEF Init, LiveWorkerHoldsClaim, Live
<1>2. TypeOK /\ HandlersAgree /\ LiveWorkerHoldsClaim /\ [Next]_vars => LiveWorkerHoldsClaim'
  <2> SUFFICES ASSUME TypeOK, HandlersAgree, LiveWorkerHoldsClaim, [Next]_vars,
                      NEW q \in Run, Live(q)', q \notin stalled'
               PROVE  Unfinished(q)' /\ beat'[q] = "fresh"
    BY DEF LiveWorkerHoldsClaim
  <2>1. CASE Undisturbed(q)
    BY <2>1 DEF Undisturbed, LiveWorkerHoldsClaim
  <2>2. ASSUME NEW r \in Run, Granted(r) PROVE Unfinished(q)' /\ beat'[q] = "fresh"
    <3>1. PICK e \in Execution, t \in Thread \cup {NoThread},
               n \in {"execute", "resume", "agui", "aguiResume"} : Grant(r, e, t, n)
      BY <2>2 DEF Granted
    <3>2. q # r => Undisturbed(q)
      BY <2>2, <3>1, ClaimOthers DEF Granted
    <3>3. row'[r] = "active" /\ beat'[r] = "fresh"
      BY <3>1 DEF Grant, TypeOK, ReapedRows
    <3> QED
      BY <2>1, <3>2, <3>3 DEF Unfinished
  <2> QED
    BY <2>1, <2>2, StepShape
<1> QED
  BY <1>1, <1>2, TypeCorrect, PTL DEF Spec

\* No two workers that kept their heartbeat run on one execution or thread:
\* what a caller relies on when it writes files and statuses for its segment.
THEOREM OneWorkerPerScope ==
  Spec => [](\A r, q \in Run : /\ r # q /\ Live(r) /\ Live(q)
                               /\ r \notin stalled /\ q \notin stalled
                               => ~Overlap(r, q))
<1>1. ExclusiveScopes /\ LiveWorkerHoldsClaim =>
        \A r, q \in Run : /\ r # q /\ Live(r) /\ Live(q)
                          /\ r \notin stalled /\ q \notin stalled
                          => ~Overlap(r, q)
  BY DEF ExclusiveScopes, LiveWorkerHoldsClaim
<1> QED
  BY <1>1, Exclusive, ClaimHeld, PTL

-----------------------------------------------------------------------------
(* Closing.                                                                *)

\* A scope is closed only by a close transaction on it, or on the thread that
\* owns it, that found no fresh unfinished row; and that step grants no row.
LEMMA ClosedByFinalize ==
  ASSUME TypeOK, HandlersAgree, [Next]_vars, NEW x \in Scope,
         phase[x] # "closed", phase'[x] = "closed"
  PROVE  \E s \in Scope : /\ Finalize(s)
                          /\ x = s \/ (s \in Thread /\ x \in Owned(s))
<1>1. ASSUME NEW s \in Scope, Finalize(s)
      PROVE  x = s \/ (s \in Thread /\ x \in Owned(s))
  BY <1>1 DEF Finalize
<1>2. ASSUME NEW r \in Run, Reconcile(r) PROVE \E s \in Scope : Finalize(s)
  <2>1. ReconciledScope(r) \in Scope
    BY <1>2 DEF Reconcile, HandlersAgree, ReconciledScope, Claims, Scope
  <2> QED
    BY <1>2, <2>1 DEF Reconcile, Reap
<1>3. ASSUME NEW s \in Scope, RetryClose(s) PROVE Finalize(s)
  BY <1>3 DEF RetryClose, Reap
<1>4. ASSUME NEW s \in Scope, RequestClose(s) PROVE FALSE
  BY <1>4 DEF RequestClose, TypeOK
<1>5. ASSUME NEW r \in Run, NEW e \in Execution, NEW t \in Thread \cup {NoThread},
             NEW n, Claim(r, e, t, n)
      PROVE  FALSE
  BY <1>5 DEF Claim, Grant, Conflict
<1>6. ASSUME NEW r \in Run, ClaimLoaded(r) PROVE FALSE
  <2>1. claim[r].exec \in Execution /\ claim[r].thread \in Thread \cup {NoThread}
    BY <1>6 DEF ClaimLoaded, HandlersAgree, Claims
  <2> QED
    BY <1>5, <1>6, <2>1 DEF ClaimLoaded
<1>7. ASSUME NEW r \in Run, NEW q \in Run, NEW n \in Entries, ClaimResume(r, q, n) PROVE FALSE
  <2>1. claim[q].exec \in Execution /\ claim[q].thread \in Thread \cup {NoThread}
    BY <1>7 DEF ClaimResume, HandlersAgree, Claims
  <2> QED
    BY <1>5, <1>7, <2>1 DEF ClaimResume
<1>8. phase' # phase
  OBVIOUS
<1> QED
  BY <1>1, <1>2, <1>3, <1>4, <1>6, <1>7, <1>8
     DEF Next, Serve, vars, Initiate, CreateAgui, LoadExecute, Refused, AnswerConflict, Settle,
         FinishRun, Heartbeat, HeartbeatLapse, Crash, DiscardHolds

\* A run that was promised a quiet close keeps that promise only from states
\* that already made it.
LEMMA RegularBefore ==
  ASSUME TypeOK, HandlersAgree, NEW q \in Run, row[q] # "none",
         \A x \in Run : row[x] # "none" => row'[x] # "none" /\ claim'[x] = claim[x],
         q \notin stalled' => q \notin stalled, q \notin late' => q \notin late,
         Regular(q)'
  PROVE  Regular(q)
BY DEF Regular, AtHome, AguiOrigin

\* A scope whose files were removed has no live regular worker.
THEOREM QuietAfterClose == Spec => []ClosedScopeQuiet
<1>1. Init => ClosedScopeQuiet
  BY DEF Init, ClosedScopeQuiet, Live
<1>2. /\ TypeOK /\ HandlersAgree /\ LiveWorkerHoldsClaim /\ ClosedScopeQuiet
      /\ [Next]_vars
      => ClosedScopeQuiet'
  <2> SUFFICES ASSUME TypeOK, HandlersAgree, LiveWorkerHoldsClaim, ClosedScopeQuiet,
                      [Next]_vars, NEW q \in Run, Live(q)', Regular(q)'
               PROVE  /\ phase'[claim'[q].exec] # "closed"
                      /\ claim'[q].thread # NoThread => phase'[claim'[q].thread] # "closed"
    BY DEF ClosedScopeQuiet
  <2>1. CASE \A x \in Run : Undisturbed(x)
    <3>1. /\ Live(q) /\ row[q] # "none" /\ claim'[q] = claim[q]
          /\ Regular(q) /\ q \notin stalled /\ claim[q] \in Claims
      <4>1. Live(q) /\ row[q] # "none" /\ claim[q] \in Claims
        BY <2>1 DEF Undisturbed, HandlersAgree, Live
      <4> QED
        BY <2>1, <4>1, RegularBefore DEF Undisturbed, Regular
    <3>2. Unfinished(q) /\ beat[q] = "fresh"
      BY <3>1 DEF LiveWorkerHoldsClaim
    <3>3. ASSUME NEW x \in Scope, InScope(q, x) PROVE phase'[x] # "closed"
      <4> SUFFICES ASSUME phase'[x] = "closed" PROVE FALSE
        OBVIOUS
      <4>1. phase[x] # "closed"
        BY <3>1, <3>3, ScopesDisjoint DEF ClosedScopeQuiet, InScope, Scope
      <4>2. PICK s \in Scope : /\ Finalize(s)
                               /\ x = s \/ (s \in Thread /\ x \in Owned(s))
        BY <4>1, ClosedByFinalize
      <4>3. ~InScope(q, s)
        BY <3>2, <4>2 DEF Finalize, BlockingRuns
      <4>4. s \in Thread /\ x \in ThreadExecutions(s)
        BY <3>3, <4>2, <4>3 DEF Owned
      <4>5. PICK p \in Run : row[p] # "none" /\ claim[p].exec = x /\ claim[p].thread = s
        BY <4>4 DEF ThreadExecutions
      <4>6. claim[q].exec = x /\ AguiOrigin(x)
        BY <3>1, <3>3, <4>4, ScopesDisjoint DEF ThreadExecutions, InScope, Claims
      <4>7. claim[p].thread = claim[q].thread
        BY <3>1, <4>5, <4>6 DEF Regular, AtHome
      <4> QED
        BY <4>3, <4>5, <4>7 DEF InScope
    <3> QED
      BY <3>1, <3>3 DEF InScope, Scope, Claims
  <2>2. ASSUME NEW r \in Run, Granted(r)
        PROVE  /\ phase'[claim'[q].exec] # "closed"
               /\ claim'[q].thread # NoThread => phase'[claim'[q].thread] # "closed"
    <3>1. PICK e \in Execution, t \in Thread \cup {NoThread},
               n \in {"execute", "resume", "agui", "aguiResume"} : Grant(r, e, t, n)
      BY <2>2 DEF Granted
    <3>2. phase' = phase /\ claim'[r] = NewClaim(e, t, n)
      BY <3>1 DEF Grant, TypeOK
    <3>3. CASE q = r
      <4>1. phase[e] = "open"
        BY <3>1, <3>3 DEF Grant, Regular
      <4>2. t # NoThread => phase[t] = "open"
        BY <3>1 DEF Grant, Admitted, ThreadAdmits
      <4> QED
        BY <3>2, <3>3, <4>1, <4>2 DEF NewClaim
    <3>4. CASE q # r
      <4>1. \A x \in Run \ {r} : Undisturbed(x)
        BY <2>2, <3>1, ClaimOthers DEF Granted
      <4>2. Live(q) /\ claim'[q] = claim[q] /\ row[q] # "none"
        BY <3>4, <4>1 DEF Undisturbed, HandlersAgree
      <4>3. \A x \in Run : row[x] # "none" => row'[x] # "none" /\ claim'[x] = claim[x]
        BY <2>2, <4>1 DEF Undisturbed, Granted
      <4>4. Regular(q)
        BY <3>4, <4>1, <4>2, <4>3, RegularBefore DEF Undisturbed
      <4> QED
        BY <3>2, <4>2, <4>4 DEF ClosedScopeQuiet
    <3> QED
      BY <3>3, <3>4
  <2> QED
    BY <2>1, <2>2, StepShape
<1> QED
  BY <1>1, <1>2, TypeCorrect, ClaimHeld, PTL DEF Spec

\* A step changes the status of an execution that has one only to a terminal
\* one, unless it settles a live segment of it or grants a row on it.
LEMMA StatusShape ==
  ASSUME TypeOK, HandlersAgree, [Next]_vars, NEW e \in Execution, status[e] # "none"
  PROVE  \/ status'[e] \in {status[e], "FAILED"}
         \/ \E r \in Run : Live(r) /\ claim[r].exec = e
         \/ \E r \in Run : Granted(r) /\ claim'[r].exec = e /\ (phase[e] # "open" => r \in late')
<1> DEFINE Goal == \/ status'[e] \in {status[e], "FAILED"}
                   \/ \E r \in Run : Live(r) /\ claim[r].exec = e
                   \/ \E r \in Run : /\ Granted(r) /\ claim'[r].exec = e
                                     /\ phase[e] # "open" => r \in late'
<1>1. ASSUME NEW r \in Run, NEW x \in Execution, NEW t \in Thread \cup {NoThread},
             NEW n \in {"execute", "resume", "agui", "aguiResume"}, Claim(r, x, t, n),
             row[r] = "none"
      PROVE  Goal
  <2>1. ReapedByClaim(x, t) \in SUBSET Run
    BY ClaimReaps
  <2>2. ReapedStatus(ReapedByClaim(x, t))[e] \in {status[e], "FAILED"}
    BY DEF ReapedStatus
  <2>3. ReapedStatus(ReapedByClaim(x, t)) \in [Execution -> Statuses]
    BY <2>1, ReapTypes
  <2>4. CASE Conflict(r, x, t, n)
    BY <2>2, <2>4 DEF Conflict
  <2>5. CASE Grant(r, x, t, n) /\ x # e
    BY <2>2, <2>3, <2>5 DEF Grant
  <2>6. CASE Grant(r, x, t, n) /\ x = e
    <3>1. claim'[r].exec = e
      BY <2>6 DEF Grant, NewClaim, TypeOK
    <3>2. phase[e] # "open" => r \in late'
      BY <2>6 DEF Grant
    <3>3. Granted(r)
      BY <1>1, <2>6 DEF Granted
    <3> QED
      BY <3>1, <3>2, <3>3
  <2> QED
    BY <1>1, <2>4, <2>5, <2>6 DEF Claim
<1>2. ASSUME NEW r \in Run, ClaimLoaded(r) PROVE Goal
  <2>1. claim[r] \in Claims /\ row[r] = "none"
    BY <1>2 DEF ClaimLoaded, HandlersAgree
  <2> QED
    BY <1>1, <1>2, <2>1 DEF ClaimLoaded, Claims
<1>3. ASSUME NEW r \in Run, NEW q \in Run, NEW n \in Entries, ClaimResume(r, q, n) PROVE Goal
  <2>1. claim[q] \in Claims /\ row[r] = "none"
    BY <1>3 DEF ClaimResume, HandlersAgree
  <2> QED
    BY <1>1, <1>3, <2>1 DEF ClaimResume, Claims
<1>4. ASSUME NEW r \in Run, NEW outcome \in {"success", "awaits", "failure", "dropped"},
             Settle(r, outcome)
      PROVE  Goal
  <2>1. Live(r)
    BY <1>4 DEF Settle, Live
  <2>2. CASE claim[r].exec # e
    BY <1>4, <2>2 DEF Settle, TypeOK
  <2> QED
    BY <2>1, <2>2
<1>5. ASSUME NEW s \in Scope, Reap(s) \/ Finalize(s) PROVE Goal
  BY <1>5 DEF Reap, Finalize, Terminalized, ReapedStatus
<1>6. ASSUME NEW r \in Run, Reconcile(r) PROVE Goal
  <2>1. ReconciledScope(r) \in Scope
    BY <1>6 DEF Reconcile, HandlersAgree, ReconciledScope, Claims, Scope
  <2> QED
    BY <1>5, <1>6, <2>1 DEF Reconcile
<1>7. ASSUME NEW r \in Run, Refused(r) \/ AnswerConflict(r) PROVE Goal
  BY <1>7 DEF Refused, AnswerConflict, TypeOK
<1>8. ASSUME NEW x \in Execution PROVE
        /\ Initiate(x) => Goal
        /\ \A r \in Run : CreateAgui(r, x) => Goal
  BY DEF Initiate, CreateAgui, TypeOK
<1>9. ASSUME NEW s \in Scope, RequestClose(s) \/ DiscardHolds(s) PROVE Goal
  BY <1>9 DEF RequestClose, DiscardHolds, Discarded
<1> QED
  BY <1>2, <1>3, <1>4, <1>5, <1>6, <1>7, <1>8, <1>9
     DEF Next, Serve, vars, LoadExecute, FinishRun, Heartbeat, HeartbeatLapse, Crash,
         RetryClose, Scope

\* ClosedIsTerminal about the requests that have a row, which every step keeps.
TerminalWhenClosed ==
  \A e \in Execution :
     /\ phase[e] = "closed"
     /\ AtHome(e)
     /\ \A r \in Run : row[r] # "none" /\ claim[r].exec = e => r \notin stalled \cup late
     => status[e] \in {"COMPLETED", "FAILED"}

\* A closed execution stays in a terminal status.
THEOREM ClosedStaysTerminal == Spec => []ClosedIsTerminal
<1>1. Init => TerminalWhenClosed
  BY DEF Init, TerminalWhenClosed, Scope
<1>2. /\ TypeOK /\ HandlersAgree /\ ClosedScopeQuiet /\ TerminalWhenClosed
      /\ [Next]_vars
      => TerminalWhenClosed'
  <2> SUFFICES ASSUME TypeOK, HandlersAgree, ClosedScopeQuiet, TerminalWhenClosed,
                      [Next]_vars, NEW e \in Execution, phase'[e] = "closed", AtHome(e)',
                      \A r \in Run : row'[r] # "none" /\ claim'[r].exec = e
                                       => r \notin stalled' \cup late'
               PROVE  status'[e] \in {"COMPLETED", "FAILED"}
    BY DEF TerminalWhenClosed
  <2>1. CASE phase[e] # "closed"
    <3>1. PICK s \in Scope : Finalize(s) /\ (e = s \/ (s \in Thread /\ e \in Owned(s)))
      BY <2>1, ClosedByFinalize DEF Scope
    <3>2. e \in Owned(s)
      BY <3>1, ScopesDisjoint DEF Owned
    <3> QED
      BY <2>1, <3>1, <3>2 DEF Finalize, Terminalized
  <2>2. CASE phase[e] = "closed"
    <3>1. \A x \in Run : row[x] # "none" => /\ row'[x] # "none" /\ claim'[x] = claim[x]
                                            /\ x \in stalled => x \in stalled'
                                            /\ x \in late => x \in late'
      <4>1. ASSUME NEW r \in Run, Granted(r), NEW x \in Run, row[x] # "none"
            PROVE  Undisturbed(x)
        BY <4>1, ClaimOthers DEF Granted
      <4> QED
        BY <4>1, StepShape DEF Undisturbed
    <3>2. AtHome(e)
      BY <3>1 DEF AtHome, AguiOrigin
    <3>3. \A r \in Run : row[r] # "none" /\ claim[r].exec = e => r \notin stalled \cup late
      BY <3>1
    <3>4. status[e] \in {"COMPLETED", "FAILED"}
      BY <2>2, <3>2, <3>3 DEF TerminalWhenClosed
    <3>5. ~\E r \in Run : Live(r) /\ claim[r].exec = e
      BY <2>2, <3>2, <3>3 DEF ClosedScopeQuiet, Regular, HandlersAgree
    <3>6. ~\E r \in Run : Granted(r) /\ claim'[r].exec = e /\ r \in late'
      <4> SUFFICES ASSUME NEW r \in Run, Granted(r), claim'[r].exec = e, r \in late'
                   PROVE  FALSE
        OBVIOUS
      <4>1. row'[r] = "active"
        BY DEF Granted, Grant, TypeOK, ReapedRows
      <4> QED
        BY <4>1
    <3> QED
      BY <2>2, <3>4, <3>5, <3>6, StatusShape
  <2> QED
    BY <2>1, <2>2
<1>3. TerminalWhenClosed => ClosedIsTerminal
  BY DEF TerminalWhenClosed, ClosedIsTerminal, Regular, AtHome
<1> QED
  BY <1>1, <1>2, <1>3, TypeCorrect, QuietAfterClose, PTL DEF Spec

-----------------------------------------------------------------------------
(***************************************************************************)
(* A completed execution of the ledger stays completed until a new segment  *)
(* is claimed on it, for every number of executions, threads and requests.  *)
(*                                                                         *)
(* Three things could overwrite it: a second worker, excluded by the claims *)
(* while heartbeats are on time; a reap or a close, which spare completed   *)
(* executions; and the refusal of an AG-UI run, which fails the execution   *)
(* it has created. For the last, nobody else may know that execution yet.   *)
(***************************************************************************)

(* The execution an AG-UI run has created and not claimed yet.             *)

Unclaimed(e) == \A q \in Run : row[q] # "none" => claim[q].exec # e

\* Requests name executions that exist.
ClaimedExist == \A r \in Run : proc[r] # "idle" => status[claim[r].exec] # "none"

\* Nobody closes an AG-UI execution that no run was claimed on.
UnclaimedOpen == \A e \in Execution : AguiOrigin(e) /\ Unclaimed(e) => phase[e] = "open"

Creating(r) == proc[r] \in {"loaded", "rejected"} /\ claim[r].entry = "agui"

\* It is RUNNING, and its creator is the only request that names it.
CreatedAlone ==
  \A r \in Run : Creating(r) =>
     /\ AguiOrigin(claim[r].exec)
     /\ status[claim[r].exec] = "RUNNING"
     /\ \A q \in Run \ {r} : claim[q].exec # claim[r].exec

CreatedInv == ClaimedExist /\ UnclaimedOpen /\ CreatedAlone

\* Rows stay, with what they name.
LEMMA RowsStay ==
  ASSUME TypeOK, HandlersAgree, [Next]_vars
  PROVE  \A q \in Run : row[q] # "none" => /\ row'[q] # "none" /\ claim'[q] = claim[q]
                                           /\ q \in stalled => q \in stalled'
<1>1. ASSUME NEW r \in Run, Granted(r), NEW q \in Run, row[q] # "none"
      PROVE  Undisturbed(q)
  BY <1>1, ClaimOthers DEF Granted
<1> QED
  BY <1>1, StepShape DEF Undisturbed

\* A creator's execution is named by no row.
LEMMA CreatedUnclaimed ==
  ASSUME HandlersAgree, CreatedAlone, NEW r \in Run, Creating(r)
  PROVE  claim[r].exec \in Execution /\ Unclaimed(claim[r].exec)
BY DEF HandlersAgree, CreatedAlone, Creating, Unclaimed, Claims

\* A claim, made on what its request loaded or on what an earlier run left.
ClaimOn(r, e, t, n) ==
  /\ row[r] = "none"
  /\ \/ /\ proc[r] = "loaded"
        /\ claim[r] = [exec |-> e, thread |-> t, entry |-> n]
     \/ /\ proc[r] = "idle" /\ n \in {"resume", "aguiResume"}
        /\ \E q \in Run : row[q] # "none" /\ proc[q] # "idle" /\ claim[q].exec = e
  /\ Claim(r, e, t, n)

\* Every claim of the ledger is of that form.
LEMMA ClaimsMade ==
  ASSUME TypeOK, HandlersAgree, NEW r \in Run,
         ClaimLoaded(r) \/ \E q \in Run, n \in Entries : ClaimResume(r, q, n)
  PROVE  \E e \in Execution, t \in Thread \cup {NoThread},
            n \in {"execute", "resume", "agui", "aguiResume"} : ClaimOn(r, e, t, n)
<1>1. CASE ClaimLoaded(r)
  <2>1. claim[r] \in Claims /\ row[r] = "none" /\ proc[r] = "loaded"
    BY <1>1 DEF ClaimLoaded, HandlersAgree
  <2>2. claim[r] = [exec |-> claim[r].exec, thread |-> claim[r].thread, entry |-> claim[r].entry]
    BY <2>1 DEF Claims
  <2> QED
    BY <1>1, <2>1, <2>2 DEF ClaimLoaded, ClaimOn, Claims
<1>2. ASSUME NEW q \in Run, NEW n \in Entries, ClaimResume(r, q, n)
      PROVE  ClaimOn(r, claim[q].exec, claim[q].thread, n) /\ claim[q] \in Claims
  <2>1. row[q] # "none" /\ row[r] = "none"
    BY <1>2 DEF ClaimResume, HandlersAgree
  <2>2. proc[q] # "idle" /\ claim[q] \in Claims
    BY <2>1 DEF HandlersAgree
  <2> QED
    BY <1>2, <2>1, <2>2 DEF ClaimResume, ClaimOn
<1> QED
  BY <1>1, <1>2, EntriesType DEF Claims

\* Reaping spares an execution that no row names.
LEMMA ReapSpares ==
  ASSUME NEW reaped \in SUBSET Run, \A q \in reaped : Unfinished(q), NEW e \in Execution,
         Unclaimed(e)
  PROVE  ReapedStatus(reaped)[e] = status[e]
BY DEF ReapedStatus, Unclaimed, Unfinished

\* A claim keeps the three.
LEMMA CreatedByClaim ==
  ASSUME TypeOK, HandlersAgree, CreatedInv, NEW r \in Run, NEW e \in Execution,
         NEW t \in Thread \cup {NoThread}, NEW n \in {"execute", "resume", "agui", "aguiResume"},
         ClaimOn(r, e, t, n), [Next]_vars
  PROVE  CreatedInv'
<1> USE DEF CreatedInv
<1>0. PICK reaped : reaped = ReapedByClaim(e, t)
  OBVIOUS
<1>1. reaped \in SUBSET Run /\ \A q \in reaped : Unfinished(q)
  BY <1>0, ClaimReaps
<1>2. /\ phase' = phase
      /\ status' = ReapedStatus(reaped) \/ status' = [ReapedStatus(reaped) EXCEPT ![e] = "RUNNING"]
      /\ proc'[r] \in {"working", "rejected", "idle"}
      /\ proc'[r] = "rejected" => status' = ReapedStatus(reaped) /\ claim' = claim
                                  /\ proc[r] = "loaded"
      /\ proc'[r] = "idle" => claim' = claim /\ proc[r] = "idle"
      /\ proc'[r] = "working" => claim' = [claim EXCEPT ![r] = NewClaim(e, t, n)]
      /\ \A q \in Run \ {r} : proc'[q] = proc[q]
  <2>1. /\ n \in {"execute", "agui"} => proc[r] = "loaded"
        /\ n \in {"resume", "aguiResume"} => proc[r] \in {"idle", "loaded"}
    BY DEF ClaimOn
  <2>2. n \in {"resume", "aguiResume"} => proc[r] = "idle"
    BY DEF ClaimOn, HandlersAgree, NewClaim
  <2>3. CASE Grant(r, e, t, n)
    <3>1. /\ phase' = phase
          /\ status' = [ReapedStatus(reaped) EXCEPT ![e] = "RUNNING"]
          /\ proc' = [proc EXCEPT ![r] = "working"]
          /\ claim' = [claim EXCEPT ![r] = NewClaim(e, t, n)]
      BY <1>0, <2>3 DEF Grant
    <3> QED
      BY <3>1 DEF TypeOK
  <2>4. CASE Conflict(r, e, t, n)
    <3>1. /\ phase' = phase /\ status' = ReapedStatus(reaped) /\ claim' = claim
          /\ proc' = [proc EXCEPT ![r] = IF n \in {"resume", "aguiResume"}
                                         THEN "idle" ELSE "rejected"]
      BY <1>0, <2>4 DEF Conflict
    <3> QED
      BY <2>1, <2>2, <3>1 DEF TypeOK
  <2> QED
    BY <2>3, <2>4 DEF ClaimOn, Claim
<1>3. ReapedStatus(reaped) \in [Execution -> Statuses]
      /\ \A x \in Execution : ReapedStatus(reaped)[x] = "none" => status[x] = "none"
  BY <1>1, ReapTypes DEF ReapedStatus
<1>4. /\ \A q \in Run \ {r} : claim'[q] = claim[q]
      /\ proc'[r] # "idle" => claim'[r].exec = e
      /\ status[e] # "none"
  <2>1. status[e] # "none"
    BY DEF ClaimOn, ClaimedExist
  <2> QED
    BY <1>2, <2>1 DEF ClaimOn, NewClaim, TypeOK
<1>5. ClaimedExist'
  <2> SUFFICES ASSUME NEW q \in Run, proc'[q] # "idle" PROVE status'[claim'[q].exec] # "none"
    BY DEF ClaimedExist
  <2>1. claim'[q].exec \in Execution /\ status[claim'[q].exec] # "none"
    BY <1>2, <1>4 DEF ClaimedExist, HandlersAgree, Claims
  <2> QED
    BY <1>2, <1>3, <2>1
<1>6. UnclaimedOpen'
  BY <1>2, RowsStay DEF UnclaimedOpen, Unclaimed, AguiOrigin
<1>7. CreatedAlone'
  <2> SUFFICES ASSUME NEW q \in Run, Creating(q)'
               PROVE  /\ AguiOrigin(claim'[q].exec)
                      /\ status'[claim'[q].exec] = "RUNNING"
                      /\ \A x \in Run \ {q} : claim'[x].exec # claim'[q].exec
    BY DEF CreatedAlone, AguiOrigin
  <2>1. Creating(q) /\ claim'[q] = claim[q]
    BY <1>2, <1>4 DEF Creating
  <2>2. claim[q].exec \in Execution /\ Unclaimed(claim[q].exec)
    BY <2>1, CreatedUnclaimed
  <2>3. ReapedStatus(reaped)[claim[q].exec] = "RUNNING"
    BY <1>1, <2>1, <2>2, ReapSpares DEF CreatedAlone
  <2>4. r # q => claim[q].exec # e
    BY <2>1, <2>2 DEF ClaimOn, CreatedAlone, Unclaimed
  <2>5. status'[claim[q].exec] = "RUNNING"
    BY <1>2, <1>3, <2>2, <2>3
  <2>6. \A x \in Run \ {q} : claim'[x].exec # claim[q].exec
    <3>1. CASE proc'[r] = "working"
      BY <1>2, <1>4, <2>1, <2>4, <3>1 DEF CreatedAlone, Creating
    <3>2. CASE proc'[r] # "working"
      BY <1>2, <2>1, <3>2 DEF CreatedAlone
    <3> QED
      BY <3>1, <3>2
  <2> QED
    BY <2>1, <2>5, <2>6 DEF CreatedAlone
<1> QED
  BY <1>5, <1>6, <1>7

\* So does a close transaction.
LEMMA CreatedByClose ==
  ASSUME TypeOK, HandlersAgree, CreatedInv, NEW s \in Scope, Reap(s) \/ Finalize(s),
         claim' = claim, [Next]_vars,
         \A q \in Run : proc'[q] = proc[q] \/ (proc[q] = "finished" /\ proc'[q] = "done")
  PROVE  CreatedInv'
<1> USE DEF CreatedInv
<1>0. PICK reaped : reaped = StaleRuns(s)
  OBVIOUS
<1>1. reaped \in SUBSET Run /\ \A q \in reaped : Unfinished(q)
  BY <1>0 DEF StaleRuns
<1>2. \A x \in Execution : status'[x] # ReapedStatus(reaped)[x] =>
        Finalize(s) /\ x \in Owned(s) /\ status'[x] = "FAILED"
  BY <1>0 DEF Reap, Finalize, Terminalized
<1>3. \A x \in Execution : AguiOrigin(x) /\ Unclaimed(x) => /\ ~(Finalize(s) /\ x \in Owned(s))
                                                            /\ phase'[x] = phase[x]
  <2> SUFFICES ASSUME NEW x \in Execution, AguiOrigin(x), Unclaimed(x)
               PROVE  ~(Finalize(s) /\ x \in Owned(s)) /\ phase'[x] = phase[x]
    OBVIOUS
  <2>1. phase[x] = "open"
    BY DEF UnclaimedOpen
  <2>2. CASE s \in Thread
    <3>1. x \notin Owned(s) /\ x # s
      BY <2>2, ScopesDisjoint DEF Owned, ThreadExecutions, Unclaimed
    <3> QED
      BY <3>1 DEF Reap, Finalize, Scope
  <2>3. CASE s \notin Thread
    <3>1. Finalize(s) => s # x
      BY <2>1 DEF Finalize
    <3> QED
      BY <2>3, <3>1 DEF Reap, Finalize, Owned, Scope
  <2> QED
    BY <2>2, <2>3
<1>4. ClaimedExist'
  <2>1. \A x \in Execution : status[x] # "none" => status'[x] # "none"
    BY <1>2 DEF ReapedStatus
  <2> QED
    BY <2>1 DEF ClaimedExist, HandlersAgree, Claims
<1>5. UnclaimedOpen'
  BY <1>3, RowsStay DEF UnclaimedOpen, Unclaimed, AguiOrigin
<1>6. CreatedAlone'
  <2> SUFFICES ASSUME NEW q \in Run, Creating(q), Creating(q)'
               PROVE  status'[claim[q].exec] = "RUNNING"
    BY DEF CreatedAlone, Creating, AguiOrigin
  <2>1. claim[q].exec \in Execution /\ Unclaimed(claim[q].exec)
    BY CreatedUnclaimed
  <2>2. ReapedStatus(reaped)[claim[q].exec] = "RUNNING"
    BY <1>1, <2>1, ReapSpares DEF CreatedAlone
  <2> QED
    BY <1>2, <1>3, <2>1, <2>2 DEF CreatedAlone
<1> QED
  BY <1>4, <1>5, <1>6

-----------------------------------------------------------------------------
(* What a step can do to completed executions and to workers.              *)

\* A completed execution is left by a new claim on it or by its own worker; it
\* is completed by a worker that stops; and a worker starts on a RUNNING one.
CompletedStep ==
  /\ \A e \in Execution : status[e] = "COMPLETED" /\ status'[e] # "COMPLETED" =>
       \E r \in Run : \/ row[r] = "none" /\ row'[r] = "active" /\ claim'[r].exec = e
                      \/ proc[r] = "working" /\ claim[r].exec = e
  /\ \A e \in Execution : status[e] # "COMPLETED" /\ status'[e] = "COMPLETED" =>
       \E r \in Run : proc[r] = "working" /\ proc'[r] # "working" /\ claim[r].exec = e
  /\ \A r \in Run : proc'[r] = "working" =>
       \/ proc[r] = "working" /\ claim'[r] = claim[r]
       \/ claim'[r].exec \in Execution /\ status'[claim'[r].exec] = "RUNNING"

\* A claim is such a step.
LEMMA StepByClaim ==
  ASSUME TypeOK, NEW r \in Run, NEW e \in Execution,
         NEW t \in Thread \cup {NoThread}, NEW n \in {"execute", "resume", "agui", "aguiResume"},
         ClaimOn(r, e, t, n)
  PROVE  CompletedStep
<1>0. PICK reaped : reaped = ReapedByClaim(e, t)
  OBVIOUS
<1>1. /\ ReapedStatus(reaped) \in [Execution -> Statuses]
      /\ ReapedRows(reaped) \in [Run -> {"none", "active", "closing", "completed", "failed"}]
  BY <1>0, ClaimReaps, ReapTypes
<1>2. \A x \in Execution : ReapedStatus(reaped)[x] = "COMPLETED" <=> status[x] = "COMPLETED"
  BY DEF ReapedStatus
<1>3. CASE Grant(r, e, t, n)
  <2>1. /\ status' = [ReapedStatus(reaped) EXCEPT ![e] = "RUNNING"]
        /\ row' = [ReapedRows(reaped) EXCEPT ![r] = "active"]
        /\ proc' = [proc EXCEPT ![r] = "working"]
        /\ claim' = [claim EXCEPT ![r] = NewClaim(e, t, n)]
        /\ row[r] = "none"
    BY <1>0, <1>3 DEF Grant, ClaimOn
  <2>2. row'[r] = "active" /\ claim'[r].exec = e /\ status'[e] = "RUNNING"
    BY <1>1, <2>1 DEF TypeOK, NewClaim
  <2>3. \A x \in Execution \ {e} : status'[x] = "COMPLETED" <=> status[x] = "COMPLETED"
    BY <1>1, <1>2, <2>1
  <2>4. \A q \in Run \ {r} : proc'[q] = proc[q] /\ claim'[q] = claim[q]
    BY <2>1 DEF TypeOK
  <2> QED
    BY <2>1, <2>2, <2>3, <2>4 DEF CompletedStep
<1>4. CASE Conflict(r, e, t, n)
  <2>1. /\ status' = ReapedStatus(reaped) /\ claim' = claim
        /\ proc' = [proc EXCEPT ![r] = IF n \in {"resume", "aguiResume"}
                                       THEN "idle" ELSE "rejected"]
    BY <1>0, <1>4 DEF Conflict
  <2>2. \A q \in Run : proc'[q] = "working" => proc[q] = "working"
    BY <2>1 DEF TypeOK
  <2> QED
    BY <1>2, <2>1, <2>2 DEF CompletedStep
<1> QED
  BY <1>3, <1>4 DEF ClaimOn, Claim

\* So is a close transaction.
LEMMA StepByClose ==
  ASSUME NEW s \in Scope, Reap(s) \/ Finalize(s), claim' = claim,
         \A q \in Run : proc'[q] = "working" => proc[q] = "working"
  PROVE  CompletedStep
BY DEF Reap, Finalize, ReapedStatus, Terminalized, CompletedStep

-----------------------------------------------------------------------------
(* Every step.                                                             *)

\* A new orchestrator session is no AG-UI execution.
LEMMA CreatedInitiate ==
  ASSUME TypeOK, HandlersAgree, CreatedInv, NEW e \in Execution, Initiate(e)
  PROVE  CreatedInv' /\ CompletedStep
<1> USE DEF CreatedInv
<1>1. UNCHANGED <<phase, row, claim, proc>> /\ ~AguiOrigin(e)
      /\ status' = [status EXCEPT ![e] = "PENDING"] /\ status[e] = "none"
  BY DEF Initiate
<1>2. ClaimedExist' /\ UnclaimedOpen'
  BY <1>1 DEF ClaimedExist, HandlersAgree, Claims, UnclaimedOpen, Unclaimed, AguiOrigin, TypeOK
<1>3. CreatedAlone'
  BY <1>1 DEF CreatedAlone, Creating, AguiOrigin, TypeOK
<1>4. CompletedStep
  BY <1>1 DEF CompletedStep, TypeOK
<1> QED
  BY <1>2, <1>3, <1>4

\* Neither a new AG-UI execution nor a request that names a known one disturbs
\* the creators.
LEMMA CreatedByServe ==
  ASSUME TypeOK, HandlersAgree, CreatedInv, NEW r \in Run, NEW e \in Execution
  PROVE  /\ CreateAgui(r, e) => CreatedInv' /\ CompletedStep
         /\ \A t \in Thread \cup {NoThread} : LoadExecute(r, e, t) => CreatedInv' /\ CompletedStep
<1> USE DEF CreatedInv
<1>1. \A q \in Run : row[q] # "none" => proc[q] # "idle" /\ claim[q] \in Claims
  BY DEF HandlersAgree
<1>2. \A q \in Run : proc[q] = "idle" => claim[q].exec = NoThread /\ row[q] = "none"
  BY DEF HandlersAgree, NoClaim
<1>3. \A q \in Run : Creating(q) => claim[q].exec \in Execution /\ Unclaimed(claim[q].exec)
  BY CreatedUnclaimed
<1>4. ASSUME CreateAgui(r, e) PROVE CreatedInv' /\ CompletedStep
  <2>1. /\ UNCHANGED <<phase, row>> /\ AguiOrigin(e) /\ proc[r] = "idle" /\ status[e] = "none"
        /\ status' = [status EXCEPT ![e] = "RUNNING"]
        /\ claim' = [claim EXCEPT ![r] = NewClaim(e, HomeThread[e], "agui")]
        /\ proc' = [proc EXCEPT ![r] = "loaded"]
    BY <1>4 DEF CreateAgui
  <2>2. claim'[r].exec = e /\ proc'[r] = "loaded"
        /\ \A q \in Run \ {r} : claim'[q] = claim[q] /\ proc'[q] = proc[q]
    BY <2>1 DEF TypeOK, NewClaim
  <2>3. \A q \in Run : claim[q].exec # e
    BY <1>2, <2>1, ScopesDisjoint DEF ClaimedExist
  <2>4. ClaimedExist'
    BY <2>1, <2>2 DEF ClaimedExist, HandlersAgree, Claims, TypeOK
  <2>5. UnclaimedOpen'
    BY <1>2, <2>1, <2>2 DEF UnclaimedOpen, Unclaimed, AguiOrigin
  <2>6. CreatedAlone'
    <3> SUFFICES ASSUME NEW q \in Run, Creating(q)'
                 PROVE  /\ AguiOrigin(claim'[q].exec)
                        /\ status'[claim'[q].exec] = "RUNNING"
                        /\ \A x \in Run \ {q} : claim'[x].exec # claim'[q].exec
      BY DEF CreatedAlone, AguiOrigin
    <3>1. CASE q = r
      BY <2>1, <2>2, <2>3, <3>1 DEF TypeOK
    <3>2. CASE q # r
      <4>1. Creating(q) /\ claim'[q] = claim[q]
        BY <2>2, <3>2 DEF Creating
      <4> QED
        BY <1>3, <2>1, <2>2, <2>3, <4>1 DEF CreatedAlone, TypeOK
    <3> QED
      BY <3>1, <3>2
  <2>7. CompletedStep
    BY <2>1, <2>2 DEF CompletedStep, TypeOK
  <2> QED
    BY <2>4, <2>5, <2>6, <2>7
<1>5. ASSUME NEW t \in Thread \cup {NoThread}, LoadExecute(r, e, t)
      PROVE  CreatedInv' /\ CompletedStep
  <2>1. /\ UNCHANGED <<phase, row, status>> /\ proc[r] = "idle" /\ Known(e)
        /\ claim' = [claim EXCEPT ![r] = NewClaim(e, t, "execute")]
        /\ proc' = [proc EXCEPT ![r] = "loaded"]
    BY <1>5 DEF LoadExecute
  <2>2. claim'[r].exec = e /\ claim'[r].entry = "execute" /\ proc'[r] = "loaded"
        /\ \A q \in Run \ {r} : claim'[q] = claim[q] /\ proc'[q] = proc[q]
    BY <2>1 DEF TypeOK, NewClaim
  <2>3. status[e] # "none"
    BY <1>1, <2>1 DEF Known, ClaimedExist
  <2>4. ClaimedExist'
    BY <2>1, <2>2, <2>3 DEF ClaimedExist
  <2>5. UnclaimedOpen'
    BY <1>2, <2>1, <2>2 DEF UnclaimedOpen, Unclaimed, AguiOrigin
  <2>6. CreatedAlone'
    <3> SUFFICES ASSUME NEW q \in Run, Creating(q)'
                 PROVE  /\ AguiOrigin(claim'[q].exec)
                        /\ status'[claim'[q].exec] = "RUNNING"
                        /\ \A x \in Run \ {q} : claim'[x].exec # claim'[q].exec
      BY DEF CreatedAlone, AguiOrigin
    <3>1. q # r /\ Creating(q) /\ claim'[q] = claim[q]
      BY <2>2 DEF Creating
    <3>2. claim[q].exec # e
      BY <1>3, <2>1, <3>1 DEF Known, CreatedAlone, Unclaimed
    <3> QED
      BY <2>1, <2>2, <3>1, <3>2 DEF CreatedAlone
  <2>7. CompletedStep
    BY <2>1, <2>2 DEF CompletedStep, TypeOK
  <2> QED
    BY <2>4, <2>5, <2>6, <2>7
<1> QED
  BY <1>4, <1>5

\* A handler answers, settles and finishes its own execution.
LEMMA CreatedByHandler ==
  ASSUME TypeOK, HandlersAgree, CreatedInv, NEW r \in Run
  PROVE  /\ Refused(r) \/ AnswerConflict(r) => CreatedInv' /\ CompletedStep
         /\ \A outcome \in {"success", "awaits", "failure", "dropped"} :
               Settle(r, outcome) => CreatedInv' /\ CompletedStep
         /\ FinishRun(r) => CreatedInv' /\ CompletedStep
         /\ Heartbeat(r) \/ HeartbeatLapse(r) \/ Crash(r) => CreatedInv' /\ CompletedStep
<1> USE DEF CreatedInv
<1>1. \A q \in Run : Creating(q) => claim[q].exec \in Execution /\ Unclaimed(claim[q].exec)
  BY CreatedUnclaimed
<1>2. ASSUME Refused(r) \/ AnswerConflict(r) PROVE CreatedInv' /\ CompletedStep
  <2>1. /\ UNCHANGED <<phase, row, claim>> /\ proc[r] \in {"loaded", "rejected"}
        /\ proc' = [proc EXCEPT ![r] = "done"]
        /\ status' = IF claim[r].entry = "agui"
                     THEN [status EXCEPT ![claim[r].exec] = "FAILED"] ELSE status
    BY <1>2 DEF Refused, AnswerConflict
  <2>2. claim[r].entry = "agui" => Creating(r)
    BY <2>1 DEF Creating
  <2>3. \A q \in Run \ {r} : proc'[q] = proc[q]
    BY <2>1 DEF TypeOK
  <2>4. proc'[r] = "done"
    BY <2>1 DEF TypeOK
  <2>5. ClaimedExist' /\ UnclaimedOpen'
    BY <2>1, <2>2, <2>3, <2>4
       DEF ClaimedExist, HandlersAgree, Claims, UnclaimedOpen, Unclaimed, AguiOrigin, TypeOK
  <2>6. CreatedAlone'
    <3> SUFFICES ASSUME NEW q \in Run, Creating(q)'
                 PROVE  /\ AguiOrigin(claim[q].exec)
                        /\ status'[claim[q].exec] = "RUNNING"
                        /\ \A x \in Run \ {q} : claim[x].exec # claim[q].exec
      BY <2>1 DEF CreatedAlone, AguiOrigin
    <3>1. q # r /\ Creating(q)
      BY <2>1, <2>3, <2>4 DEF Creating
    <3>2. claim[r].exec # claim[q].exec
      BY <3>1 DEF CreatedAlone
    <3>3. status'[claim[q].exec] = status[claim[q].exec]
      BY <1>1, <2>1, <3>1, <3>2 DEF TypeOK
    <3> QED
      BY <3>1, <3>3 DEF CreatedAlone
  <2>7. CompletedStep
    <3>1. claim[r].entry = "agui" => claim[r].exec \in Execution /\ status[claim[r].exec] = "RUNNING"
      BY <1>1, <2>2 DEF CreatedAlone
    <3> QED
      BY <2>1, <2>3, <2>4, <3>1 DEF CompletedStep, TypeOK
  <2> QED
    BY <2>5, <2>6, <2>7
<1>3. ASSUME NEW outcome \in {"success", "awaits", "failure", "dropped"}, Settle(r, outcome)
      PROVE  CreatedInv' /\ CompletedStep
  <2>1. /\ UNCHANGED <<phase, row, claim>> /\ proc[r] = "working"
        /\ proc' = [proc EXCEPT ![r] = IF outcome \in {"success", "awaits"} THEN "ok" ELSE "failed"]
        /\ status' = IF outcome = "dropped" THEN status
                     ELSE [status EXCEPT ![claim[r].exec] = SettledStatus(claim[r].entry, outcome)]
    BY <1>3 DEF Settle
  <2>2. /\ proc'[r] \in {"ok", "failed"}
        /\ \A q \in Run \ {r} : proc'[q] = proc[q]
        /\ claim[r] \in Claims /\ row[r] # "none"
    BY <2>1 DEF TypeOK, HandlersAgree, Live
  <2>3. outcome # "dropped" => SettledStatus(claim[r].entry, outcome) # "none"
    BY <2>2 DEF SettledStatus, Claims
  <2>4. ClaimedExist' /\ UnclaimedOpen'
    BY <2>1, <2>2, <2>3
       DEF ClaimedExist, HandlersAgree, Claims, UnclaimedOpen, Unclaimed, AguiOrigin, TypeOK
  <2>5. CreatedAlone'
    <3> SUFFICES ASSUME NEW q \in Run, Creating(q)'
                 PROVE  /\ AguiOrigin(claim[q].exec)
                        /\ status'[claim[q].exec] = "RUNNING"
                        /\ \A x \in Run \ {q} : claim[x].exec # claim[q].exec
      BY <2>1 DEF CreatedAlone, AguiOrigin
    <3>1. q # r /\ Creating(q)
      BY <2>1, <2>2 DEF Creating
    <3>2. claim[r].exec # claim[q].exec
      BY <3>1 DEF CreatedAlone
    <3>3. status'[claim[q].exec] = status[claim[q].exec]
      BY <1>1, <2>1, <3>1, <3>2 DEF TypeOK
    <3> QED
      BY <3>1, <3>3 DEF CreatedAlone
  <2>6. CompletedStep
    BY <2>1, <2>2 DEF CompletedStep, TypeOK, Claims
  <2> QED
    BY <2>4, <2>5, <2>6
<1>4. ASSUME FinishRun(r) \/ Heartbeat(r) \/ HeartbeatLapse(r) \/ Crash(r)
      PROVE  CreatedInv' /\ CompletedStep
  <2>1. /\ UNCHANGED <<phase, status, claim>>
        /\ \A q \in Run : row'[q] = "none" <=> row[q] = "none"
        /\ \A q \in Run : proc'[q] = proc[q] \/ (proc[q] # "idle" /\ proc'[q] \in {"finished", "crashed"})
    BY <1>4 DEF FinishRun, Heartbeat, HeartbeatLapse, Crash, TypeOK, Unfinished
  <2>2. ClaimedExist' /\ UnclaimedOpen'
    BY <2>1 DEF ClaimedExist, UnclaimedOpen, Unclaimed, AguiOrigin
  <2>3. CreatedAlone'
    BY <2>1 DEF CreatedAlone, Creating, AguiOrigin
  <2> QED
    BY <2>1, <2>2, <2>3 DEF CompletedStep
<1> QED
  BY <1>2, <1>3, <1>4

\* Discarding holds fails executions that await, and a close request stamps
\* executions a run was claimed on.
LEMMA CreatedByDiscard ==
  ASSUME TypeOK, HandlersAgree, CreatedInv, NEW s \in Scope, DiscardHolds(s) \/ RequestClose(s)
  PROVE  CreatedInv' /\ CompletedStep
<1> USE DEF CreatedInv
<1>1. PICK discarded \in SUBSET ParkedOn(s) : status' = Discarded(discarded)
  BY DEF DiscardHolds, RequestClose
<1>2. \A x \in Execution : status'[x] = status[x]
                         \/ (status[x] = "AWAITING_RESPONSE" /\ status'[x] = "FAILED")
  BY <1>1 DEF Discarded, ParkedOn
<1>3. /\ claim' = claim /\ proc' = proc
      /\ \A q \in Run : row'[q] = "none" <=> row[q] = "none"
  BY DEF DiscardHolds, RequestClose
<1>4. \A x \in Execution : AguiOrigin(x) /\ Unclaimed(x) => phase'[x] = phase[x]
  <2> SUFFICES ASSUME NEW x \in Execution, AguiOrigin(x), Unclaimed(x), RequestClose(s)
               PROVE  phase'[x] = phase[x]
    BY DEF DiscardHolds
  <2>1. s # x
    BY DEF RequestClose, Known, Unclaimed
  <2> QED
    BY <2>1 DEF RequestClose, TypeOK, Scope
<1>5. ClaimedExist'
  BY <1>2, <1>3 DEF ClaimedExist, HandlersAgree, Claims
<1>6. UnclaimedOpen'
  BY <1>3, <1>4 DEF UnclaimedOpen, Unclaimed, AguiOrigin
<1>7. CreatedAlone'
  <2> SUFFICES ASSUME NEW q \in Run, Creating(q) PROVE status'[claim[q].exec] = "RUNNING"
    BY <1>3 DEF CreatedAlone, Creating, AguiOrigin
  <2> QED
    BY <1>2, CreatedUnclaimed DEF CreatedAlone
<1>8. CompletedStep
  BY <1>2, <1>3 DEF CompletedStep
<1> QED
  BY <1>5, <1>6, <1>7, <1>8

\* All together.
LEMMA CreatedInductive ==
  ASSUME TypeOK, HandlersAgree, CreatedInv, [Next]_vars
  PROVE  CreatedInv' /\ CompletedStep
<1>1. ASSUME NEW r \in Run, ClaimLoaded(r) \/ \E q \in Run, n \in Entries : ClaimResume(r, q, n)
      PROVE  CreatedInv' /\ CompletedStep
  BY <1>1, ClaimsMade, CreatedByClaim, StepByClaim
<1>2. ASSUME NEW s \in Scope, Reap(s) \/ Finalize(s), claim' = claim,
             \A q \in Run : proc'[q] = proc[q] \/ (proc[q] = "finished" /\ proc'[q] = "done")
      PROVE  CreatedInv' /\ CompletedStep
  <2>1. \A q \in Run : proc'[q] = "working" => proc[q] = "working"
    BY <1>2
  <2> QED
    BY <1>2, <2>1, CreatedByClose, StepByClose
<1>3. ASSUME UNCHANGED <<phase, status, row, claim>>,
             \A q \in Run : proc'[q] = proc[q] \/ (proc[q] = "finished" /\ proc'[q] = "done")
      PROVE  CreatedInv' /\ CompletedStep
  BY <1>3 DEF CreatedInv, ClaimedExist, UnclaimedOpen, Unclaimed, CreatedAlone, Creating,
              AguiOrigin, CompletedStep
<1>4. ASSUME NEW r \in Run, Reconcile(r) PROVE CreatedInv' /\ CompletedStep
  <2>1. ReconciledScope(r) \in Scope
    BY <1>4 DEF Reconcile, HandlersAgree, ReconciledScope, Claims, Scope
  <2>2. /\ claim' = claim
        /\ \A q \in Run : proc'[q] = proc[q] \/ (proc[q] = "finished" /\ proc'[q] = "done")
    BY <1>4 DEF Reconcile, TypeOK
  <2>3. \/ Reap(ReconciledScope(r)) \/ Finalize(ReconciledScope(r))
        \/ UNCHANGED <<phase, status, row>>
    BY <1>4 DEF Reconcile
  <2> QED
    BY <1>2, <1>3, <2>1, <2>2, <2>3
<1>5. ASSUME NEW s \in Scope, RetryClose(s) PROVE CreatedInv' /\ CompletedStep
  BY <1>2, <1>5 DEF RetryClose
<1>6. CASE UNCHANGED vars
  BY <1>3, <1>6 DEF vars
<1>7. ASSUME Serve PROVE CreatedInv' /\ CompletedStep
  <2>1. \A t \in Thread : DiscardHolds(t) => CreatedInv' /\ CompletedStep
    BY CreatedByDiscard DEF Scope
  <2>2. \A e \in Execution : Initiate(e) => CreatedInv' /\ CompletedStep
    BY CreatedInitiate
  <2> QED
    BY <1>1, <1>4, <1>7, <2>1, <2>2, CreatedByServe, CreatedByHandler DEF Serve
<1> QED
  BY <1>5, <1>6, <1>7, CreatedByDiscard DEF Next

-----------------------------------------------------------------------------
(* Completed executions.                                                   *)

Unstalled(e) == \A q \in Run : row[q] # "none" /\ claim[q].exec = e => q \notin stalled

\* While the heartbeats of its runs were on time nobody works on it.
CompletedIdle ==
  \A e \in Execution : status[e] = "COMPLETED" /\ Unstalled(e) =>
     \A r \in Run : proc[r] = "working" => claim[r].exec # e

\* It is inductive: a second worker would hold a claim that excludes the first.
LEMMA IdleInductive ==
  ASSUME TypeOK, HandlersAgree, CreatedInv, CompletedIdle, ExclusiveScopes,
         LiveWorkerHoldsClaim, [Next]_vars
  PROVE  CompletedIdle'
<1>1. CompletedStep
  BY CreatedInductive
<1> SUFFICES ASSUME NEW e \in Execution, status'[e] = "COMPLETED", Unstalled(e)', NEW r \in Run,
                    proc'[r] = "working", claim'[r].exec = e
             PROVE  FALSE
  BY DEF CompletedIdle
<1>2. Unstalled(e)
  BY RowsStay DEF Unstalled
<1>3. proc[r] = "working" /\ claim[r].exec = e
  BY <1>1 DEF CompletedStep
<1>4. status[e] # "COMPLETED"
  BY <1>2, <1>3 DEF CompletedIdle
<1>5. PICK q \in Run : proc[q] = "working" /\ proc'[q] # "working" /\ claim[q].exec = e
  BY <1>1, <1>4 DEF CompletedStep
<1>6. Live(r) /\ Live(q) /\ r # q /\ row[r] # "none" /\ row[q] # "none"
  BY <1>3, <1>5 DEF Live, HandlersAgree
<1>7. r \notin stalled /\ q \notin stalled
  BY <1>2, <1>3, <1>5, <1>6 DEF Unstalled
<1> QED
  BY <1>3, <1>5, <1>6, <1>7 DEF ExclusiveScopes, LiveWorkerHoldsClaim, Overlap

\* A completed execution leaves COMPLETED only for a new claim on it, or because
\* a run on it outlived its heartbeat.
THEOREM CompletedStays == Spec => CompletedPreserved
<1>1. Init => CreatedInv /\ CompletedIdle
  BY DEF Init, CreatedInv, ClaimedExist, UnclaimedOpen, CreatedAlone, Creating, CompletedIdle, Scope
<1>2. /\ TypeOK /\ HandlersAgree /\ CreatedInv /\ CompletedIdle
      /\ ExclusiveScopes /\ LiveWorkerHoldsClaim /\ [Next]_vars
      => (CreatedInv /\ CompletedIdle)'
  BY CreatedInductive, IdleInductive
<1>3. /\ TypeOK /\ HandlersAgree /\ CreatedInv /\ CompletedIdle
      /\ [Next]_vars
      => [\A e \in Execution : status[e] = "COMPLETED" /\ status'[e] # "COMPLETED" =>
            \E r \in Run : \/ row[r] = "none" /\ row'[r] = "active" /\ claim'[r].exec = e
                           \/ r \in stalled /\ claim[r].exec = e]_vars
  BY CreatedInductive DEF CompletedStep, CompletedIdle, Unstalled
<1> QED
  BY <1>1, <1>2, <1>3, TypeCorrect, Exclusive, ClaimHeld, PTL DEF Spec, CompletedPreserved

-----------------------------------------------------------------------------
(***************************************************************************)
(* The run ledger implements SessionLease, for every number of executions, *)
(* threads and requests: each committed transaction is one step of the      *)
(* leases, or none.                                                        *)
(***************************************************************************)

(* The leases of the ledger.                                               *)

Gate == [t \in Thread |-> phase[t]]

Held == [r \in Run |-> IF Unfinished(r) THEN {claim[r].exec, claim[r].thread} \ {NoThread}
                       ELSE {}]

Lapsed == {r \in Run : Unfinished(r) /\ beat[r] = "stale"}

\* The mapping of Lease, by these names.
LEMMA Mapping ==
  /\ Lease!vars = <<Gate, Held, Lapsed>>
  /\ \A H \in SUBSET Run : Lease!Without(H) = [r \in Run |-> IF r \in H THEN {} ELSE Held[r]]
  /\ \A S : Lease!HoldersOf(S) = {r \in Run : Held[r] \cap S # {}}
BY DEF Lease!vars, Lease!Without, Lease!HoldersOf, Gate, Held, Lapsed

\* Who holds a scope has an unfinished row on it.
LEMMA HeldScopes ==
  ASSUME HandlersAgree, NEW r \in Run, NEW s \in Scope
  PROVE  /\ s \in Held[r] <=> Unfinished(r) /\ InScope(r, s)
         /\ Unfinished(r) => Held[r] # {}
<1>1. Unfinished(r) => claim[r] \in Claims
  BY DEF HandlersAgree, Unfinished
<1>2. s # NoThread
  BY ScopesDisjoint DEF Scope
<1> QED
  BY <1>1, <1>2, ScopesDisjoint DEF Held, InScope, Claims

\* Nothing that the leases are made of changes.
Unleased ==
  /\ \A t \in Thread : phase'[t] = phase[t]
  /\ \A r \in Run : /\ Unfinished(r)' <=> Unfinished(r)
                    /\ Unfinished(r) => claim'[r] = claim[r] /\ beat'[r] = beat[r]

\* So the leases stutter.
LEMMA UnleasedStutters ==
  ASSUME Unleased
  PROVE  UNCHANGED Lease!vars
<1>1. Gate' = Gate /\ Held' = Held /\ Lapsed' = Lapsed
  BY DEF Unleased, Gate, Held, Lapsed
<1> QED
  BY <1>1 DEF Lease!vars, Gate, Held, Lapsed

\* A transaction that only fails stale rows breaks their leases.
LEMMA ReapBreaks ==
  ASSUME TypeOK, NEW reaped \in SUBSET Run,
         \A r \in reaped : Unfinished(r) /\ beat[r] = "stale",
         row' = ReapedRows(reaped), UNCHANGED <<beat, claim>>,
         \A t \in Thread : phase'[t] = phase[t]
  PROVE  Lease!Next
<1>1. Gate' = Gate
  BY DEF Gate
<1>2. Held' = [r \in Run |-> IF r \in reaped THEN {} ELSE Held[r]]
  BY DEF Held, Unfinished, ReapedRows
<1>3. Lapsed' = Lapsed \ reaped /\ reaped \subseteq Lapsed
  BY DEF Lapsed, Unfinished, ReapedRows
<1>4. Lease!Break(reaped)
  BY <1>1, <1>2, <1>3, Mapping DEF Lease!Break, Gate, Held, Lapsed
<1> QED
  BY <1>4 DEF Lease!Next

-----------------------------------------------------------------------------
(* The steps.                                                              *)

\* A granted run takes its execution and its thread together; the leases in the
\* way are those of the stale rows it reaps.
LEMMA GrantAcquires ==
  ASSUME TypeOK, HandlersAgree, NEW r \in Run, NEW e \in Execution,
         NEW t \in Thread \cup {NoThread},
         NEW n \in {"execute", "resume", "agui", "aguiResume"}, row[r] = "none", Grant(r, e, t, n)
  PROVE  Lease!Next
<1> DEFINE S == {e, t} \ {NoThread}
<1>0. PICK reaped : reaped = ReapedByClaim(e, t)
  OBVIOUS
<1>1. reaped \in SUBSET Run /\ \A q \in reaped : Unfinished(q) /\ beat[q] = "stale"
  BY <1>0, ClaimReaps
<1>2. r \notin reaped /\ ~Unfinished(r)
  BY <1>1 DEF Unfinished
<1>3. S \subseteq Scope /\ e \notin Thread
  BY ScopesDisjoint DEF Scope
<1>4. \A q \in Run : Held[q] \cap S # {} <=> \E s \in S : Unfinished(q) /\ InScope(q, s)
  BY <1>3, HeldScopes
<1>5. \A q \in Run : (\E s \in S : Unfinished(q) /\ InScope(q, s)) => q \in reaped
  <2> SUFFICES ASSUME NEW q \in Run, NEW s \in S, Unfinished(q), InScope(q, s), q \notin reaped
               PROVE  FALSE
    OBVIOUS
  <2>1. claim[q] \in Claims
    BY DEF HandlersAgree, Unfinished
  <2>2. claim[q].exec = e \/ (t # NoThread /\ claim[q].thread = t)
    BY <2>1, ScopesDisjoint DEF InScope, Claims
  <2>3. Conflicts(e, t, reaped) = {}
    BY <1>0 DEF Grant
  <2> QED
    BY <2>2, <2>3 DEF Conflicts
<1>6. \A q \in reaped : \E s \in S : InScope(q, s)
  BY <1>0, ScopesDisjoint DEF ReapedByClaim, StaleRuns
<1>7. {q \in Run : Held[q] \cap S # {}} = reaped
  BY <1>1, <1>4, <1>5, <1>6
<1>8. /\ row' = [ReapedRows(reaped) EXCEPT ![r] = "active"]
      /\ claim' = [claim EXCEPT ![r] = NewClaim(e, t, n)]
      /\ beat' = [beat EXCEPT ![r] = "fresh"]
      /\ phase' = phase
  BY <1>0 DEF Grant
<1>9. /\ row'[r] = "active" /\ claim'[r] = NewClaim(e, t, n) /\ beat'[r] = "fresh"
      /\ \A q \in Run \ {r} : /\ row'[q] = IF q \in reaped THEN "failed" ELSE row[q]
                              /\ claim'[q] = claim[q] /\ beat'[q] = beat[q]
  BY <1>8 DEF ReapedRows, TypeOK
<1>10. Held' = [[q \in Run |-> IF q \in reaped THEN {} ELSE Held[q]] EXCEPT ![r] = S]
  <2>1. Held'[r] = S
    BY <1>9 DEF Held, Unfinished, NewClaim
  <2>2. \A q \in Run \ {r} : Held'[q] = IF q \in reaped THEN {} ELSE Held[q]
    BY <1>1, <1>9 DEF Held, Unfinished
  <2>3. Held' = [q \in Run |-> Held'[q]]
    BY DEF Held
  <2> HIDE DEF S
  <2> QED
    BY <2>1, <2>2, <2>3
<1>11. Lapsed' = Lapsed \ reaped /\ reaped \subseteq Lapsed
  BY <1>1, <1>2, <1>9 DEF Lapsed, Unfinished
<1>12. Held[r] = {} /\ Gate' = Gate
  BY <1>2, <1>8 DEF Held, Gate
<1>13. \A g \in S \cap Thread : Gate[g] = "open"
  BY <1>3, ScopesDisjoint DEF Grant, Admitted, ThreadAdmits, Gate
<1>14. Lease!HoldersOf(S) = reaped
  BY <1>7, Mapping
<1>15. Lease!Without(reaped) = [q \in Run |-> IF q \in reaped THEN {} ELSE Held[q]]
  BY <1>1, Mapping
<1>16. Lease!Acquire(r, S)
  BY <1>10, <1>11, <1>12, <1>13, <1>14, <1>15 DEF Lease!Acquire, Gate, Held, Lapsed
<1>17. S \in (SUBSET Scope) \ {{}}
  <2>1. e \in S
    BY ScopesDisjoint
  <2> QED
    BY <1>3, <2>1
<1> HIDE DEF S
<1> QED
  BY <1>16, <1>17 DEF Lease!Next

\* A refused claim breaks leases that lapsed.
LEMMA ConflictBreaks ==
  ASSUME TypeOK, NEW r \in Run, NEW e \in Execution, NEW t \in Thread \cup {NoThread}, NEW n,
         Conflict(r, e, t, n)
  PROVE  Lease!Next
<1>1. PICK reaped : reaped = ReapedByClaim(e, t)
  OBVIOUS
<1>2. reaped \in SUBSET Run /\ \A q \in reaped : Unfinished(q) /\ beat[q] = "stale"
  BY <1>1, ClaimReaps
<1>3. row' = ReapedRows(reaped) /\ UNCHANGED <<phase, beat, claim>>
  BY <1>1 DEF Conflict
<1> QED
  BY <1>2, <1>3, ReapBreaks

\* So does the reaping of a close.
LEMMA StaleBreaks ==
  ASSUME TypeOK, NEW s \in Scope, row' = ReapedRows(StaleRuns(s)), UNCHANGED <<beat, claim>>,
         \A t \in Thread : phase'[t] = phase[t]
  PROVE  Lease!Next
<1>1. PICK reaped : reaped = StaleRuns(s)
  OBVIOUS
<1>2. reaped \in SUBSET Run /\ \A q \in reaped : Unfinished(q) /\ beat[q] = "stale"
  BY <1>1 DEF StaleRuns
<1>3. row' = ReapedRows(reaped)
  BY <1>1
<1> QED
  BY <1>2, <1>3, ReapBreaks

\* A finalization that closes a thread breaks the leases on it, and nobody has
\* one that has not lapsed; any other only breaks leases.
LEMMA FinalizeCloses ==
  ASSUME TypeOK, HandlersAgree, NEW s \in Scope, Finalize(s), UNCHANGED <<beat, claim>>
  PROVE  Lease!Next
<1>0. PICK reaped : reaped = StaleRuns(s)
  OBVIOUS
<1>1. reaped \in SUBSET Run /\ \A q \in reaped : Unfinished(q) /\ beat[q] = "stale"
  BY <1>0 DEF StaleRuns
<1>2. row' = ReapedRows(reaped) /\ phase[s] = "closing"
  BY <1>0 DEF Finalize
<1>3. \A t \in Thread : phase'[t] = phase[t] \/ (t = s /\ phase'[t] = "closed")
  BY ScopesDisjoint DEF Finalize, Owned, ThreadExecutions, Scope
<1>4. CASE \A t \in Thread : phase'[t] = phase[t]
  BY <1>4, StaleBreaks DEF Finalize
<1>5. CASE s \in Thread /\ phase'[s] = "closed"
  <2>1. {q \in Run : Held[q] \cap {s} # {}} = reaped
    <3>1. \A q \in Run : Held[q] \cap {s} # {} <=> Unfinished(q) /\ InScope(q, s)
      BY HeldScopes
    <3>2. \A q \in Run : Unfinished(q) /\ InScope(q, s) => beat[q] = "stale"
      BY DEF Finalize, BlockingRuns, TypeOK
    <3> QED
      BY <1>0, <3>1, <3>2 DEF StaleRuns
  <2>2. Gate' = [Gate EXCEPT ![s] = "closed"] /\ Gate[s] = "closing"
    BY <1>2, <1>3, <1>5 DEF Gate
  <2>3. Held' = [q \in Run |-> IF q \in reaped THEN {} ELSE Held[q]]
    BY <1>1, <1>2 DEF Held, Unfinished, ReapedRows
  <2>4. Lapsed' = Lapsed \ reaped /\ reaped \subseteq Lapsed
    BY <1>1, <1>2 DEF Lapsed, Unfinished, ReapedRows
  <2>5. Lease!HoldersOf({s}) = reaped
    BY <2>1, Mapping
  <2>6. Lease!Without(reaped) = [q \in Run |-> IF q \in reaped THEN {} ELSE Held[q]]
    BY <1>1, Mapping
  <2>7. Lease!Close(s)
    BY <2>2, <2>3, <2>4, <2>5, <2>6 DEF Lease!Close, Gate, Held, Lapsed
  <2> QED
    BY <1>5, <2>7 DEF Lease!Next
<1> QED
  BY <1>3, <1>4, <1>5

\* A close request stamps a gate; what it marks keeps its lease.
LEMMA RequestStamps ==
  ASSUME TypeOK, NEW s \in Scope, RequestClose(s)
  PROVE  (s \in Thread /\ Lease!RequestClose(s)) \/ UNCHANGED Lease!vars
<1>1. Held' = Held /\ Lapsed' = Lapsed
  BY DEF RequestClose, Held, Lapsed, Unfinished
<1>2. CASE s \in Thread /\ phase[s] = "open"
  <2>1. Gate' = [Gate EXCEPT ![s] = "closing"] /\ Gate[s] = "open"
    BY <1>2 DEF RequestClose, Gate, TypeOK, Scope
  <2> QED
    BY <1>1, <1>2, <2>1 DEF Lease!RequestClose, Gate, Held, Lapsed
<1>3. CASE s \notin Thread \/ phase[s] = "closing"
  <2>1. Gate' = Gate
    BY <1>3 DEF RequestClose, Gate, TypeOK, Scope
  <2> QED
    BY <1>1, <2>1 DEF Lease!vars, Gate, Held, Lapsed
<1> QED
  BY <1>2, <1>3 DEF RequestClose, TypeOK

\* The heartbeat and its silence are Renew and Lapse, the end of a run Release.
LEMMA RowSteps ==
  ASSUME TypeOK, HandlersAgree, NEW r \in Run
  PROVE  /\ Heartbeat(r) => Lease!Renew(r)
         /\ HeartbeatLapse(r) => Lease!Lapse(r)
         /\ FinishRun(r) => Lease!Release(r) \/ UNCHANGED Lease!vars
<1>1. ASSUME Heartbeat(r) PROVE Lease!Renew(r)
  <2>1. Gate' = Gate /\ Held' = Held /\ Lapsed' = Lapsed \ {r}
    BY <1>1 DEF Heartbeat, Gate, Held, Lapsed, Unfinished, TypeOK
  <2> QED
    BY <2>1 DEF Lease!Renew, Gate, Held, Lapsed
<1>2. ASSUME HeartbeatLapse(r) PROVE Lease!Lapse(r)
  <2>1. Gate' = Gate /\ Held' = Held /\ Lapsed' = Lapsed \cup {r}
    BY <1>2 DEF HeartbeatLapse, Gate, Held, Lapsed, Unfinished, TypeOK
  <2>2. Held[r] # {}
    BY <1>2, ScopesDisjoint DEF HeartbeatLapse, HandlersAgree, Held, Unfinished, Claims
  <2> QED
    BY <2>1, <2>2 DEF Lease!Lapse, Gate, Held, Lapsed
<1>3. ASSUME FinishRun(r) PROVE Lease!Release(r) \/ UNCHANGED Lease!vars
  <2>1. CASE ~Unfinished(r)
    BY <1>3, <2>1, UnleasedStutters DEF FinishRun, Unleased, Unfinished
  <2>2. CASE Unfinished(r)
    <3>1. Held[r] # {}
      BY <2>2, ScopesDisjoint DEF HandlersAgree, Held, Unfinished, Claims
    <3>2. /\ row'[r] \in {"completed", "failed"} /\ \A q \in Run \ {r} : row'[q] = row[q]
          /\ UNCHANGED <<phase, beat, claim>>
      BY <1>3, <2>2 DEF FinishRun, TypeOK
    <3>3. Gate' = Gate /\ Held' = [q \in Run |-> IF q \in {r} THEN {} ELSE Held[q]]
          /\ Lapsed' = Lapsed \ {r}
      BY <3>2 DEF Gate, Held, Lapsed, Unfinished
    <3>4. Lease!Without({r}) = [q \in Run |-> IF q \in {r} THEN {} ELSE Held[q]]
      BY Mapping
    <3> QED
      BY <3>1, <3>3, <3>4 DEF Lease!Release, Gate, Held, Lapsed
  <2> QED
    BY <2>1, <2>2
<1> QED
  BY <1>1, <1>2, <1>3

\* Requests before their claim, settlements, discards and crashes concern no row
\* and no close stamp.
LEMMA UnleasedSteps ==
  ASSUME TypeOK, HandlersAgree,
         \/ \E e \in Execution : Initiate(e)
         \/ \E r \in Run, e \in Execution :
              CreateAgui(r, e) \/ \E t \in Thread \cup {NoThread} : LoadExecute(r, e, t)
         \/ \E r \in Run : \/ Refused(r) \/ AnswerConflict(r) \/ Crash(r)
                           \/ \E outcome \in {"success", "awaits", "failure", "dropped"} :
                                 Settle(r, outcome)
         \/ \E t \in Thread : DiscardHolds(t)
         \/ UNCHANGED vars
  PROVE  UNCHANGED Lease!vars
<1>1. Unleased
  BY DEF HandlersAgree, Unleased, Unfinished, Initiate, CreateAgui, LoadExecute, Refused,
         AnswerConflict, Crash, Settle, DiscardHolds, vars, TypeOK
<1> QED
  BY <1>1, UnleasedStutters

\* Every transaction of the ledger is a step of the leases, or none.
LEMMA StepRefines ==
  ASSUME TypeOK, HandlersAgree, [Next]_vars
  PROVE  [Lease!Next]_(Lease!vars)
<1> DEFINE Goal == [Lease!Next]_(Lease!vars)
<1>1. ASSUME NEW r \in Run, NEW e \in Execution, NEW t \in Thread \cup {NoThread},
             NEW n \in {"execute", "resume", "agui", "aguiResume"}, Claim(r, e, t, n),
             row[r] = "none"
      PROVE  Goal
  BY <1>1, GrantAcquires, ConflictBreaks DEF Claim
<1>2. ASSUME NEW r \in Run, ClaimLoaded(r) PROVE Goal
  <2>1. claim[r] \in Claims /\ row[r] = "none"
    BY <1>2 DEF ClaimLoaded, HandlersAgree
  <2> QED
    BY <1>1, <1>2, <2>1 DEF ClaimLoaded, Claims
<1>3. ASSUME NEW r \in Run, NEW q \in Run, NEW n \in Entries, ClaimResume(r, q, n) PROVE Goal
  <2>1. claim[q] \in Claims /\ row[r] = "none"
    BY <1>3 DEF ClaimResume, HandlersAgree
  <2> QED
    BY <1>1, <1>3, <2>1 DEF ClaimResume, Claims
<1>4. ASSUME NEW s \in Scope, Reap(s) \/ Finalize(s), UNCHANGED <<beat, claim>> PROVE Goal
  BY <1>4, StaleBreaks, FinalizeCloses DEF Reap
<1>5. ASSUME NEW r \in Run, Reconcile(r) PROVE Goal
  <2>1. ReconciledScope(r) \in Scope
    BY <1>5 DEF Reconcile, HandlersAgree, ReconciledScope, Claims, Scope
  <2>2. UNCHANGED <<beat, claim>>
    BY <1>5 DEF Reconcile
  <2>3. CASE UNCHANGED <<phase, status, row>>
    BY <2>2, <2>3, UnleasedStutters DEF Unleased, Unfinished
  <2> QED
    BY <1>4, <1>5, <2>1, <2>2, <2>3 DEF Reconcile
<1>6. ASSUME NEW s \in Scope, RetryClose(s) PROVE Goal
  BY <1>4, <1>6 DEF RetryClose
<1>7. ASSUME NEW s \in Scope, RequestClose(s) PROVE Goal
  BY <1>7, RequestStamps DEF Lease!Next
<1>8. ASSUME NEW r \in Run, Heartbeat(r) \/ HeartbeatLapse(r) \/ FinishRun(r) PROVE Goal
  BY <1>8, RowSteps DEF Lease!Next
<1> QED
  BY <1>2, <1>3, <1>5, <1>6, <1>7, <1>8, UnleasedSteps DEF Next, Serve

\* The ledger implements the leases: whatever requests, closes, crashes and
\* silences happen, a run takes its execution and its thread together, loses
\* them only to others after its heartbeat lapsed, and none is taken behind a
\* thread's close stamp.
THEOREM LedgerImplementsLease == Spec => ImplementsLease
<1>1. Init => Lease!Init
  BY DEF Init, Lease!Init, Unfinished, Scope
<1>2. TypeOK /\ HandlersAgree /\ [Next]_vars => [Lease!Next]_(Lease!vars)
  BY StepRefines
<1> QED
  BY <1>1, <1>2, TypeCorrect, PTL DEF Spec, ImplementsLease, Lease!Spec

-----------------------------------------------------------------------------
(***************************************************************************)
(* What SessionLease promises follows from its steps alone, for any gates,  *)
(* holdings and lapses: here they are variables of their own and not what   *)
(* the mapping makes of the ledger.                                        *)
(***************************************************************************)

VARIABLES gate, held, lapsed

Promise == INSTANCE SessionLease WITH Gated <- Thread, Holder <- Run

LeaseShape == /\ gate \in [Thread -> {"open", "closing", "closed"}]
              /\ held \in [Run -> SUBSET Scope]

LeaseInv == LeaseShape /\ Promise!Exclusive /\ Promise!ClosedIsFree

\* Initially every gate is open and nothing is held.
LEMMA LeaseStart == Promise!Init => LeaseInv
BY DEF Promise!Init, LeaseInv, LeaseShape, Promise!Exclusive, Promise!ClosedIsFree,
       Promise!HoldersOf

\* Every step keeps the leases exclusive and the closed gates free: only
\* Acquire gives, it gives what nobody else keeps, and only behind open gates.
LEMMA LeaseStep == LeaseInv /\ [Promise!Next]_(Promise!vars) => LeaseInv'
<1> SUFFICES ASSUME LeaseInv, [Promise!Next]_(Promise!vars) PROVE LeaseInv'
  OBVIOUS
<1> USE DEF LeaseInv, LeaseShape, Promise!Exclusive, Promise!ClosedIsFree,
            Promise!HoldersOf, Promise!Without
<1>1. ASSUME NEW h \in Run, NEW S \in (SUBSET Scope) \ {{}}, Promise!Acquire(h, S)
      PROVE  LeaseInv'
  <2>1. \A k \in Run : held'[k] = IF k = h THEN S
                                  ELSE IF held[k] \cap S # {} THEN {} ELSE held[k]
    BY <1>1 DEF Promise!Acquire
  <2>2. held' \in [Run -> SUBSET Scope] /\ gate' = gate
    BY <1>1 DEF Promise!Acquire
  <2>3. Promise!Exclusive'
    BY <2>1
  <2>4. \A g \in S \cap Thread : gate[g] # "closed"
    BY <1>1 DEF Promise!Acquire
  <2>5. Promise!ClosedIsFree'
    BY <2>1, <2>2, <2>4
  <2> QED
    BY <2>2, <2>3, <2>5
<1>2. ASSUME NEW h \in Run, Promise!Release(h) PROVE LeaseInv'
  BY <1>2 DEF Promise!Release
<1>3. ASSUME NEW h \in Run, Promise!Lapse(h) \/ Promise!Renew(h) PROVE LeaseInv'
  BY <1>3 DEF Promise!Lapse, Promise!Renew
<1>4. ASSUME NEW broken \in SUBSET Run, Promise!Break(broken) PROVE LeaseInv'
  BY <1>4 DEF Promise!Break
<1>5. ASSUME NEW g \in Thread, Promise!RequestClose(g) PROVE LeaseInv'
  BY <1>5 DEF Promise!RequestClose
<1>6. ASSUME NEW g \in Thread, Promise!Close(g) PROVE LeaseInv'
  BY <1>6 DEF Promise!Close
<1>7. CASE UNCHANGED Promise!vars
  BY <1>7 DEF Promise!vars
<1> QED
  BY <1>1, <1>2, <1>3, <1>4, <1>5, <1>6, <1>7 DEF Promise!Next

\* In the abstract, two runs never hold one execution or thread, and a closed
\* thread is held by no one.
THEOREM LeaseSafe == Promise!Spec => [](Promise!Exclusive /\ Promise!ClosedIsFree)
<1>1. LeaseInv => Promise!Exclusive /\ Promise!ClosedIsFree
  BY DEF LeaseInv
<1> QED
  BY <1>1, LeaseStart, LeaseStep, PTL DEF Promise!Spec
=============================================================================
