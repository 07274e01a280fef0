------------------------------- MODULE ToolLoop -------------------------------
(***************************************************************************)
(* The agent loop of ToolExecutionHub.process_request, segment by segment:  *)
(* the model answers with a batch of tool calls, each is executed, blocked, *)
(* awaited or paused for a hook's permission, and the segment parks on a    *)
(* snapshot of its transcript (hold) that any instance can resume.          *)
(*                                                                         *)
(* Of the transcript only the calls without a result are kept: once a call  *)
(* has its result its name is free for a later call, so a conversation may  *)
(* go on for ever.  The model answers a batch in any order.                 *)
(***************************************************************************)
EXTENDS Integers

CONSTANTS Call,       \* names of tool calls
          MaxCalls    \* max_calls, the budget of a segment

ASSUME MaxCallsType == MaxCalls \in Nat

VARIABLES phase,    \* where process_request is
          count,    \* segment_tool_call_count
          open,     \* calls of the messages that have no result there
          todo,     \* calls of the batch that the loop has not reached
          done,     \* batch_completed
          waits,    \* batch_pending
          hold,     \* the snapshot: its open calls, pending_tools, and whether a hook asks
          lost,     \* history: calls of batches that a hook's question cut short
          ran,      \* history: calls that ran, but for those a failed resume undid
          again,    \* history: calls that ran when they had run
          asked,    \* history: calls a hook asked about
          granted   \* history: calls the user approved

vars == <<phase, count, open, todo, done, waits, hold, lost, ran, again, asked, granted>>

batch == <<count, todo, done, waits>>
history == <<lost, ran, again, asked, granted>>

Running == {"replying", "looping", "batch"}

TypeOK ==
  /\ phase \in Running \cup {"new", "parked", "over"}
  /\ count \in 0 .. MaxCalls
  /\ open \in SUBSET Call
  /\ todo \in SUBSET Call
  /\ done \in SUBSET Call
  /\ waits \in SUBSET Call
  /\ hold \in [open : SUBSET Call, pending : SUBSET Call, ask : BOOLEAN]
  /\ lost \in SUBSET Call
  /\ ran \in SUBSET Call
  /\ again \in SUBSET Call
  /\ asked \in SUBSET Call
  /\ granted \in SUBSET Call

Init ==
  /\ phase = "new"
  /\ count = 0
  /\ open = {} /\ todo = {} /\ done = {} /\ waits = {}
  /\ hold = [open |-> {}, pending |-> {}, ask |-> FALSE]
  /\ lost = {} /\ ran = {} /\ again = {} /\ asked = {} /\ granted = {}

\* What a segment had in memory is gone when it returns.
Forget ==
  /\ count' = 0
  /\ open' = {}
  /\ todo' = {}
  /\ done' = {}
  /\ waits' = {}

\* The transcript is saved with the calls that need an answer.
Park(pending, ask, unanswered) ==
  /\ phase' = "parked"
  /\ hold' = [open |-> unanswered, pending |-> pending, ask |-> ask]
  /\ Forget

\* A failed resume finds its hold restored by the endpoint; a failed first segment has none.
Abort ==
  /\ phase' = IF hold.pending = {} THEN "over" ELSE "parked"
  /\ ran' = ran \ hold.pending
  /\ granted' = granted \ hold.pending
  /\ Forget
  /\ UNCHANGED <<hold, lost, again, asked>>

\* A tool runs: an MCP or AG-UI tool, or a local one that every hook lets through.
Runs(c) ==
  /\ ran' = ran \cup {c}
  /\ again' = again \cup (ran \cap {c})

-----------------------------------------------------------------------------
(* A first segment, and the answers to a hold. *)

Start ==
  /\ phase = "new"
  /\ phase' = "looping"
  /\ UNCHANGED <<batch, open, hold, history>>

\* The budget of a segment starts anew; the replies come with the request.
Resume ==
  /\ phase = "parked"
  /\ phase' = "replying"
  /\ open' = hold.open
  /\ UNCHANGED <<batch, hold, history>>

\* Mutant: a second reply to a call is not recognised.
UnsettledForgotten == hold.pending

\* Pending calls that no reply of this request has settled: a second reply is skipped.
Unsettled == hold.pending \cap open

\* The reply to a question becomes the result of the call, whatever it says.
AnswerInput(c) ==
  /\ phase = "replying"
  /\ ~hold.ask
  /\ c \in Unsettled
  /\ open' = open \ {c}
  /\ UNCHANGED <<phase, batch, hold, history>>

\* Mutant: a refused call is executed like an approved one.
DecideWithoutGrant(c, approved, runs) ==
  /\ phase = "replying"
  /\ hold.ask
  /\ c \in Unsettled
  /\ open' = open \ {c}
  /\ granted' = IF approved THEN granted \cup {c} ELSE granted
  /\ IF runs THEN Runs(c) ELSE UNCHANGED <<ran, again>>
  /\ UNCHANGED <<phase, batch, hold, lost, asked>>

\* The reply to a permission: an approved call runs, unless no workspace is bound, another
\* hook blocks it or another event asks; a call that is not approved gets an error result.
Decide(c, approved, runs) ==
  /\ phase = "replying"
  /\ hold.ask
  /\ c \in Unsettled
  /\ runs => approved
  /\ open' = open \ {c}
  /\ granted' = IF approved THEN granted \cup {c} ELSE granted
  /\ IF runs THEN Runs(c) ELSE UNCHANGED <<ran, again>>
  /\ UNCHANGED <<phase, batch, hold, lost, asked>>

\* Replies that match nothing settle nothing; what is left is saved again.
EndReplies ==
  /\ phase = "replying"
  /\ IF Unsettled = {}
       THEN /\ phase' = "looping"
            /\ UNCHANGED <<batch, open, hold>>
       ELSE Park(Unsettled, hold.ask, open)
  /\ UNCHANGED history

-----------------------------------------------------------------------------
(* The loop. *)

\* The model answers with calls, or with none and the run is complete.
CallModel(B) ==
  /\ phase = "looping"
  /\ count < MaxCalls
  /\ B \cap (open \cup hold.pending) = {}
  /\ IF B = {}
       THEN /\ phase' = "over"
            /\ UNCHANGED <<open, todo>>
       ELSE /\ phase' = "batch"
            /\ open' = open \cup B
            /\ todo' = B
  /\ ran' = ran \ B
  /\ asked' = asked \ B
  /\ granted' = granted \ B
  /\ UNCHANGED <<count, done, waits, hold, lost, again>>

\* Mutant: the budget is off by one.
CanTakeOneMore(c) ==
  /\ phase = "batch"
  /\ c \in todo
  /\ count <= MaxCalls

CanTake(c) ==
  /\ phase = "batch"
  /\ c \in todo
  /\ count < MaxCalls

\* Mutant: calls are not counted.
TakeUncounted(c) ==
  /\ todo' = todo \ {c}
  /\ count' = count

Take(c) ==
  /\ todo' = todo \ {c}
  /\ count' = count + 1

Execute(c) ==
  /\ CanTake(c)
  /\ Take(c)
  /\ done' = done \cup {c}
  /\ Runs(c)
  /\ UNCHANGED <<phase, open, waits, hold, lost, asked, granted>>

\* A hook denies the call: its result is an error.
Block(c) ==
  /\ CanTake(c)
  /\ Take(c)
  /\ done' = done \cup {c}
  /\ UNCHANGED <<phase, open, waits, hold, history>>

\* A tool of the frontend, or ask_user: the rest of the batch is executed first.
Await(c) ==
  /\ CanTake(c)
  /\ Take(c)
  /\ waits' = waits \cup {c}
  /\ UNCHANGED <<phase, open, done, hold, history>>

\* A hook asks: process_request returns at once.  The results of the batch are not in the
\* messages yet, its questions not in pending_tools, and the calls after c are not reached.
Ask(c) ==
  /\ CanTake(c)
  /\ lost' = lost \cup ((todo \cup done \cup waits) \ {c})
  /\ asked' = asked \cup {c}
  /\ Park({c}, TRUE, open)
  /\ UNCHANGED <<ran, again, granted>>

\* Mutant: an awaiting batch saves its questions without the results of its other calls.
EndBatchKeepsNothing ==
  /\ phase = "batch"
  /\ todo = {}
  /\ IF waits = {}
       THEN /\ phase' = "looping"
            /\ open' = open \ done
            /\ done' = {}
            /\ UNCHANGED <<count, todo, waits, hold>>
       ELSE Park(waits, FALSE, open)
  /\ UNCHANGED history

\* The results of a finished batch join the messages, then its questions are saved.
EndBatch ==
  /\ phase = "batch"
  /\ todo = {}
  /\ IF waits = {}
       THEN /\ phase' = "looping"
            /\ open' = open \ done
            /\ done' = {}
            /\ UNCHANGED <<count, todo, waits, hold>>
       ELSE Park(waits, FALSE, open \ done)
  /\ UNCHANGED history

\* MAX_TOOL_CALLS, before the model is called or in the middle of a batch.
Exhaust ==
  /\ phase = "looping" \/ (phase = "batch" /\ todo # {})
  /\ count >= MaxCalls
  /\ Abort

\* A hook of the session, the model or a tool fails, or the worker is cancelled.
Fail ==
  /\ phase \in Running
  /\ Abort

-----------------------------------------------------------------------------

Reply == \E c \in Call : AnswerInput(c) \/ \E a, r \in BOOLEAN : Decide(c, a, r)

Turn == \E B \in SUBSET Call : CallModel(B)

TakeOne == \E c \in Call : Execute(c) \/ Block(c) \/ Await(c) \/ Ask(c)

Progress == EndReplies \/ Turn \/ TakeOne \/ EndBatch \/ Exhaust

Next == Start \/ Resume \/ Reply \/ Fail \/ Progress

Spec == Init /\ [][Next]_vars /\ WF_vars(Progress)

-----------------------------------------------------------------------------
(* Properties. *)

Disjoint(S, T) == S \cap T = {}

\* Every call the model made has a result in the messages when the model is called again, and
\* a result or an entry of pending_tools in a hold, but for the calls a hook's question cut
\* off; and a parked run always has something to answer.
CallsAccounted ==
  /\ phase = "looping" => open \subseteq lost
  /\ phase = "parked" => /\ hold.pending # {}
                         /\ hold.open \subseteq hold.pending \cup lost
                         /\ hold.pending \subseteq hold.open

\* Over all the segments of a run, replies that come twice and partial answers included, a
\* call runs once, unless a resume that ran it failed and was asked again.
RunsOnce == again = {}

\* A call a hook asked about runs after the user approved it, in this resume, or not at all.
AskedNeedsGrant == asked \cap ran \subseteq granted

\* A segment ends, in an answer, a hold or an error: its budget stops a model that goes on
\* calling tools.
SegmentEnds == phase \in Running ~> phase \in {"parked", "over"}

\* docs/ORCHESTRATOR.md: completed calls are retained before the loop returns for any calls
\* that require input, and all unresolved calls are saved in pending_tools.
BatchKept == phase = "parked" => hold.open \subseteq hold.pending

=============================================================================
