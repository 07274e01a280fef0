---------------------------- MODULE ToolLoopProofs ----------------------------
(***************************************************************************)
(* The safety properties of ToolLoop for any names of calls and any budget. *)
(***************************************************************************)
EXTENDS ToolLoop, TLAPS

\* One round of the loop at a time, for the proofs to split Next.
InBatch(c) == Execute(c) \/ Block(c) \/ Await(c) \/ Ask(c)

\* Every step keeps the types.
LEMMA TypeInductive ==
  /\ Init => TypeOK
  /\ TypeOK /\ [Next]_vars => TypeOK'
<1> USE MaxCallsType
<1>1. Init => TypeOK
  BY DEF Init, TypeOK, Running
<1>2. ASSUME TypeOK, [Next]_vars
      PROVE  TypeOK'
  <2> USE DEF TypeOK, Running, Forget, Park, Abort, Runs, batch, history, Unsettled, CanTake, Take
  <2>1. CASE Start
    BY <1>2, <2>1 DEF Start
  <2>2. CASE Resume
    BY <1>2, <2>2 DEF Resume
  <2>3. ASSUME NEW c \in Call, AnswerInput(c)
        PROVE  TypeOK'
    BY <1>2, <2>3 DEF AnswerInput
  <2>4. ASSUME NEW c \in Call, NEW a \in BOOLEAN, NEW r \in BOOLEAN, Decide(c, a, r)
        PROVE  TypeOK'
    BY <1>2, <2>4 DEF Decide
  <2>5. CASE Fail
    BY <1>2, <2>5 DEF Fail
  <2>6. CASE EndReplies
    BY <1>2, <2>6 DEF EndReplies
  <2>7. ASSUME NEW B \in SUBSET Call, CallModel(B)
        PROVE  TypeOK'
    BY <1>2, <2>7 DEF CallModel
  <2>8. ASSUME NEW c \in Call, InBatch(c)
        PROVE  TypeOK'
    <3>1. CASE Execute(c)
      BY <1>2, <3>1 DEF Execute
    <3>2. CASE Block(c)
      BY <1>2, <3>2 DEF Block
    <3>3. CASE Await(c)
      BY <1>2, <3>3 DEF Await
    <3>4. CASE Ask(c)
      BY <1>2, <3>4 DEF Ask
    <3> QED
      BY <2>8, <3>1, <3>2, <3>3, <3>4 DEF InBatch
  <2>9. CASE EndBatch
    <3>1. CASE waits = {}
      BY <1>2, <2>9, <3>1 DEF EndBatch
    <3>2. CASE waits # {}
      <4>1. open \ done \in SUBSET Call /\ FALSE \in BOOLEAN /\ 0 \in 0 .. MaxCalls
        BY <1>2
      <4>2. Park(waits, FALSE, open \ done) /\ UNCHANGED history
        BY <2>9, <3>2 DEF EndBatch
      <4> QED
        BY <1>2, <4>1, <4>2
    <3> QED
      BY <3>1, <3>2
  <2>10. CASE Exhaust
    BY <1>2, <2>10 DEF Exhaust
  <2>11. CASE UNCHANGED vars
    BY <1>2, <2>11 DEF vars
  <2> QED
    BY <1>2, <2>1, <2>2, <2>3, <2>4, <2>5, <2>6, <2>7, <2>8, <2>9, <2>10, <2>11
    DEF Next, Reply, Progress, Turn, TakeOne, InBatch
<1> QED
  BY <1>1, <1>2

\* Every state of the loop is well typed; the count never passes the budget.
THEOREM TypeCorrect == Spec => []TypeOK
  BY TypeInductive, PTL DEF Spec

-----------------------------------------------------------------------------
(* Accounting: in each phase, the calls without a result are the lost ones   *)
(* and those the phase still has to deal with.                               *)

Accounts ==
  /\ hold.open = lost \cup hold.pending
  /\ Disjoint(hold.pending, lost)
  /\ phase = "new" => open = {} /\ lost = {}
  /\ phase = "parked" => hold.pending # {}
  /\ phase = "replying" => lost \subseteq open /\ open \subseteq hold.open
  /\ phase = "looping" => open = lost
  /\ phase = "batch" =>
       /\ open = lost \cup todo \cup done \cup waits
       /\ Disjoint(lost, todo \cup done \cup waits)
       /\ Disjoint(todo, done)
       /\ Disjoint(todo, waits)
       /\ Disjoint(done, waits)

\* done and waits are of the batch only.
Idle == phase \notin {"batch"} => todo = {} /\ done = {} /\ waits = {}

AInv == TypeOK /\ Accounts /\ Idle

\* Every step keeps the account of the calls that have no result.
LEMMA AccountsInductive ==
  /\ Init => AInv
  /\ AInv /\ [Next]_vars => AInv'
<1>1. Init => AInv
  BY TypeInductive DEF Init, AInv, Accounts, Idle, Disjoint
<1>2. ASSUME AInv, [Next]_vars
      PROVE  Accounts' /\ Idle'
  <2> USE DEF AInv, Accounts, Idle, TypeOK, Disjoint, Running, Forget, Park, Abort, Runs, batch,
              history, Unsettled, CanTake, Take
  <2>1. CASE Start
    BY <1>2, <2>1 DEF Start
  <2>2. CASE Resume
    BY <1>2, <2>2 DEF Resume
  <2>3. ASSUME NEW c \in Call, AnswerInput(c)
        PROVE  Accounts' /\ Idle'
    BY <1>2, <2>3 DEF AnswerInput
  <2>4. ASSUME NEW c \in Call, NEW a \in BOOLEAN, NEW r \in BOOLEAN, Decide(c, a, r)
        PROVE  Accounts' /\ Idle'
    BY <1>2, <2>4 DEF Decide
  <2>5. CASE Fail
    BY <1>2, <2>5 DEF Fail
  <2>6. CASE EndReplies
    BY <1>2, <2>6 DEF EndReplies
  <2>7. ASSUME NEW B \in SUBSET Call, CallModel(B)
        PROVE  Accounts' /\ Idle'
    BY <1>2, <2>7 DEF CallModel
  <2>8. ASSUME NEW c \in Call, InBatch(c)
        PROVE  Accounts' /\ Idle'
    <3>1. CASE Execute(c)
      BY <1>2, <3>1 DEF Execute
    <3>2. CASE Block(c)
      BY <1>2, <3>2 DEF Block
    <3>3. CASE Await(c)
      BY <1>2, <3>3 DEF Await
    <3>4. CASE Ask(c)
      BY <1>2, <3>4 DEF Ask
    <3> QED
      BY <2>8, <3>1, <3>2, <3>3, <3>4 DEF InBatch
  <2>9. CASE EndBatch
    BY <1>2, <2>9 DEF EndBatch
  <2>10. CASE Exhaust
    BY <1>2, <2>10 DEF Exhaust
  <2>11. CASE UNCHANGED vars
    BY <1>2, <2>11 DEF vars
  <2> QED
    BY <1>2, <2>1, <2>2, <2>3, <2>4, <2>5, <2>6, <2>7, <2>8, <2>9, <2>10, <2>11
    DEF Next, Reply, Progress, Turn, TakeOne, InBatch
<1> QED
  BY <1>1, <1>2, TypeInductive DEF AInv

\* The model is never called again, and nothing is saved, with a call forgotten: but for the
\* batches a hook's question cut short, each has its result or is pending.
THEOREM CallsAreAccounted == Spec => []CallsAccounted
<1>1. AInv => CallsAccounted
  BY DEF AInv, Accounts, CallsAccounted
<1> QED
  BY <1>1, AccountsInductive, PTL DEF Spec

-----------------------------------------------------------------------------
(* Execution: a call that is still to be executed has not run.               *)

NotYetRun ==
  /\ again = {}
  /\ phase = "parked" => Disjoint(ran, hold.pending)
  /\ phase = "replying" => Disjoint(ran, hold.pending \cap open)
  /\ phase = "batch" => Disjoint(ran, todo \cup waits)

\* A call that the loop takes was not asked about: a permission outlives no name.
Granted ==
  /\ AskedNeedsGrant
  /\ phase = "batch" => Disjoint(asked, todo)

RInv == AInv /\ NotYetRun /\ Granted

\* A call that is still to be dealt with has not run, and runs only if approved.
LEMMA RunsInductive ==
  /\ Init => RInv
  /\ RInv /\ [Next]_vars => RInv'
<1>1. Init => RInv
  BY AccountsInductive DEF Init, RInv, NotYetRun, Granted, AskedNeedsGrant, Disjoint
<1>2. ASSUME RInv, [Next]_vars
      PROVE  NotYetRun' /\ Granted'
  <2> USE DEF RInv, AInv, Accounts, Idle, TypeOK, NotYetRun, Granted, AskedNeedsGrant, Disjoint,
              Running, Forget, Park, Abort, Runs, batch, history, Unsettled, CanTake, Take
  <2>1. CASE Start
    BY <1>2, <2>1 DEF Start
  <2>2. CASE Resume
    BY <1>2, <2>2 DEF Resume
  <2>3. ASSUME NEW c \in Call, AnswerInput(c)
        PROVE  NotYetRun' /\ Granted'
    BY <1>2, <2>3 DEF AnswerInput
  <2>4. ASSUME NEW c \in Call, NEW a \in BOOLEAN, NEW r \in BOOLEAN, Decide(c, a, r)
        PROVE  NotYetRun' /\ Granted'
    BY <1>2, <2>4 DEF Decide
  <2>5. CASE Fail
    BY <1>2, <2>5 DEF Fail
  <2>6. CASE EndReplies
    BY <1>2, <2>6 DEF EndReplies
  <2>7. ASSUME NEW B \in SUBSET Call, CallModel(B)
        PROVE  NotYetRun' /\ Granted'
    BY <1>2, <2>7 DEF CallModel
  <2>8. ASSUME NEW c \in Call, InBatch(c)
        PROVE  NotYetRun' /\ Granted'
    <3>1. CASE Execute(c)
      BY <1>2, <3>1 DEF Execute
    <3>2. CASE Block(c)
      BY <1>2, <3>2 DEF Block
    <3>3. CASE Await(c)
      BY <1>2, <3>3 DEF Await
    <3>4. CASE Ask(c)
      BY <1>2, <3>4 DEF Ask
    <3> QED
      BY <2>8, <3>1, <3>2, <3>3, <3>4 DEF InBatch
  <2>9. CASE EndBatch
    BY <1>2, <2>9 DEF EndBatch
  <2>10. CASE Exhaust
    BY <1>2, <2>10 DEF Exhaust
  <2>11. CASE UNCHANGED vars
    BY <1>2, <2>11 DEF vars
  <2> QED
    BY <1>2, <2>1, <2>2, <2>3, <2>4, <2>5, <2>6, <2>7, <2>8, <2>9, <2>10, <2>11
    DEF Next, Reply, Progress, Turn, TakeOne, InBatch
<1> QED
  BY <1>1, <1>2, AccountsInductive DEF RInv

\* However a request repeats its replies and however often a run parks, a call runs once
\* unless a resume that had run it failed.
THEOREM CallsRunOnce == Spec => []RunsOnce
<1>1. RInv => RunsOnce
  BY DEF RInv, NotYetRun, RunsOnce
<1> QED
  BY <1>1, RunsInductive, PTL DEF Spec

\* No call a hook asked about runs without an approval given to this resume.
THEOREM AskedIsGranted == Spec => []AskedNeedsGrant
<1>1. RInv => AskedNeedsGrant
  BY DEF RInv, Granted
<1> QED
  BY <1>1, RunsInductive, PTL DEF Spec
=============================================================================
