----------------------------- MODULE EventStream -----------------------------
(***************************************************************************)
(* The AG-UI event streams of one pod: every run publishes to one bus, the  *)
(* bus copies each event to the queue of every stream, and a stream sends   *)
(* its client what is of its own run, then how the run ended.               *)
(*                                                                         *)
(* A step is what one task does between two awaits. How the end of a run is *)
(* settled, and what a cancellation does to it, is ManagedRun.              *)
(***************************************************************************)
EXTENDS Sequences, SequencesExt, Naturals

CONSTANTS Run,        \* the AG-UI runs of the pod
          Streaming,  \* LLM_STREAMING_ENABLED
          MaxForeign, \* bound: events of segments without a stream
          MaxTurns    \* the model calls each run may make

ASSUME SettingsBoolean == Streaming \in BOOLEAN

ASSUME ForeignNatural == MaxForeign \in Nat

ASSUME TurnsPositive == MaxTurns \in [Run -> Nat \ {0}]

VARIABLES queue,     \* the queue of each stream
          stream,    \* where each stream is
          sent,      \* what each client has received
          worker,    \* where the segment of each run is
          turn,      \* its model calls
          ready,     \* segment_prep.ready
          pre,       \* segment_prep.pre_events
          streamed,  \* text_streamed, as the result will say
          result,    \* the result of the segment
          foreign,   \* how many of them there were
          published  \* history: what each run has published

vars == <<queue, stream, sent, worker, turn, ready, pre, streamed, result, foreign, published>>

segment == <<worker, turn, ready, pre, streamed, result>>

\* The scope of what a segment without a stream publishes: a thread of its own,
\* or none.
Elsewhere == "elsewhere"

Nobody == "nobody"

\* The run of an event is none of these.
ASSUME NamesDistinct == {Elsewhere, Nobody} \cap Run = {}

Ends == {"answer", "await", "limit", "error"}

\* An event of the bus, or of the stream itself: the run it is scoped to, what
\* it is about and the turn it belongs to.
Event == [scope : Run \cup {Elsewhere, Nobody},
          about : {"hook", "text", "tool", "final", "finished", "interrupt", "failed"},
          turn : Nat]

TypeOK ==
  /\ queue \in [Run -> Seq(Event)]
  /\ stream \in [Run -> {"none", "preparing", "reading", "draining", "telling", "over", "gone"}]
  /\ sent \in [Run -> Seq(Event)]
  /\ worker \in [Run -> {"none", "preparing", "asking", "calling", "over"}]
  /\ turn \in [Run -> Nat]
  /\ \A r \in Run : turn[r] <= MaxTurns[r]
  /\ ready \in [Run -> BOOLEAN]
  /\ pre \in [Run -> Seq(Event)]
  /\ streamed \in [Run -> BOOLEAN]
  /\ result \in [Run -> Ends \cup {"none"}]
  /\ foreign \in 0 .. MaxForeign
  /\ published \in [Run -> Seq(Event)]

Of(r, about) == [scope |-> r, about |-> about, turn |-> turn[r]]

\* agui_event_service._subscribers: from the first step of the stream to its end.
Subscribed(r) == stream[r] \notin {"none", "over", "gone"}

\* _envelope_matches_run.
Matches(e, r) == e.scope \in {r, Nobody}

-----------------------------------------------------------------------------
(* The bus.                                                                *)

\* publish_events: one step puts the events into the queue of every stream.
Publish(events) ==
  queue' = [r \in Run |-> IF Subscribed(r) THEN queue[r] \o events ELSE queue[r]]

PublishOf(r, events) ==
  /\ Publish(events)
  /\ published' = [published EXCEPT ![r] = @ \o events]

\* Another segment of the pod, an /execute with frontend tools, forwards a call of
\* an AG-UI tool; it may have no threadId.
PublishElsewhere ==
  /\ foreign < MaxForeign
  /\ \E r \in Run : Subscribed(r)
  /\ foreign' = foreign + 1
  /\ \E scope \in {Elsewhere, Nobody} :
       Publish(<<[scope |-> scope, about |-> "tool", turn |-> 0]>>)
  /\ UNCHANGED <<stream, sent, segment, published>>

-----------------------------------------------------------------------------
(* The segment.                                                            *)

\* The workspace is there; a resume of a hook permission has events to send.
Prepare(r) ==
  /\ worker[r] = "preparing"
  /\ worker' = [worker EXCEPT ![r] = "asking"]
  /\ ready' = [ready EXCEPT ![r] = TRUE]
  /\ \E events \in {<<>>, <<Of(r, "hook")>>} : pre' = [pre EXCEPT ![r] = events]
  /\ UNCHANGED <<queue, stream, sent, turn, streamed, result, foreign, published>>

\* A known failure sets ready and is a result; another one just ends the task.
PrepareFails(r) ==
  /\ worker[r] = "preparing"
  /\ worker' = [worker EXCEPT ![r] = "over"]
  /\ result' = [result EXCEPT ![r] = "error"]
  /\ \E b \in BOOLEAN : ready' = [ready EXCEPT ![r] = b]
  /\ UNCHANGED <<queue, stream, sent, turn, pre, streamed, foreign, published>>

\* What the model says is on the bus while it arrives, if streaming is on;
\* otherwise only when tool calls come with it.
Speaks(r, text, calls) == text /\ (Streaming \/ calls)

\* Mutant: what has been streamed is forgotten.
Forgets(r, text, calls) == FALSE

\* text_streamed stays set for the rest of the segment.
TextStreamed(r, text, calls) == streamed[r] \/ Speaks(r, text, calls)

\* Mutant: the limit is looked at one turn late.
OneMore(r) == turn[r] <= MaxTurns[r]

\* max_tool_calls turns at most.
MayAsk(r) == turn[r] < MaxTurns[r]

\* A model call: it answers with text, with tool calls or with both.
Ask(r) ==
  /\ worker[r] = "asking" /\ MayAsk(r)
  /\ turn' = [turn EXCEPT ![r] = @ + 1]
  /\ \E text, calls \in BOOLEAN :
       LET said == IF Speaks(r, text, calls)
                   THEN <<[Of(r, "text") EXCEPT !.turn = turn[r] + 1]>> ELSE <<>>
       IN  /\ text \/ calls
           /\ PublishOf(r, said)
           /\ streamed' = [streamed EXCEPT ![r] = TextStreamed(r, text, calls)]
           /\ worker' = [worker EXCEPT ![r] = IF calls THEN "calling" ELSE "over"]
           /\ result' = [result EXCEPT ![r] = IF calls THEN @ ELSE "answer"]
  /\ UNCHANGED <<stream, sent, ready, pre, foreign>>

\* The provider fails, at once or after the first words.
AskFails(r) ==
  /\ worker[r] = "asking"
  /\ \E said \in IF Streaming THEN {<<>>, <<Of(r, "text")>>} ELSE {<<>>} :
       /\ PublishOf(r, said)
       /\ streamed' = [streamed EXCEPT ![r] = @ \/ said # <<>>]
  /\ worker' = [worker EXCEPT ![r] = "over"]
  /\ result' = [result EXCEPT ![r] = "error"]
  /\ UNCHANGED <<stream, sent, turn, ready, pre, foreign>>

\* The tool calls of a turn: the client is told, and may have to answer.
Call(r) ==
  /\ worker[r] = "calling"
  /\ PublishOf(r, <<Of(r, "tool")>>)
  /\ \E next \in {"asking", "await", "limit"} :
       /\ next = "asking" => MayAsk(r)
       /\ worker' = [worker EXCEPT ![r] = IF next = "asking" THEN "asking" ELSE "over"]
       /\ result' = [result EXCEPT ![r] = IF next = "asking" THEN @ ELSE next]
  /\ UNCHANGED <<stream, sent, turn, ready, pre, streamed, foreign>>

-----------------------------------------------------------------------------
(* The stream.                                                             *)

Send(r, events) == sent' = [sent EXCEPT ![r] = @ \o events]

\* Subscribed first, then the task of the run is started: nothing is missed.
Open(r) ==
  /\ stream[r] = "none"
  /\ stream' = [stream EXCEPT ![r] = "preparing"]
  /\ worker' = [worker EXCEPT ![r] = "preparing"]
  /\ UNCHANGED <<queue, sent, turn, ready, pre, streamed, result, foreign, published>>

\* Mutant: the end of the task is not waited for.
OnlyReady(r) == ready[r]

\* _await_segment_prep.
PrepOver(r) == ready[r] \/ worker[r] = "over"

BeginReading(r) ==
  /\ stream[r] = "preparing" /\ PrepOver(r)
  /\ Send(r, IF ready[r] THEN pre[r] ELSE <<>>)
  /\ stream' = [stream EXCEPT ![r] = "reading"]
  /\ UNCHANGED <<queue, segment, foreign, published>>

\* Mutant: the events of every run are sent.
SendAny(r, e) == Send(r, <<e>>)

SendOwn(r, e) == Send(r, IF Matches(e, r) THEN <<e>> ELSE <<>>)

\* The queue task has got the next event. Its cancellation, when the run is
\* over first, leaves the event in the queue.
Yield(r) ==
  /\ stream[r] = "reading" /\ queue[r] # <<>>
  /\ SendOwn(r, Head(queue[r]))
  /\ queue' = [queue EXCEPT ![r] = Tail(@)]
  /\ UNCHANGED <<stream, segment, foreign, published>>

\* Mutant: the end of the run is told at once.
StraightToTheEnd(r) == "telling"

\* What follows when the task is over and its queue task has nothing.
AfterTask(r) == "draining"

SeeTaskOver(r) ==
  /\ stream[r] = "reading" /\ worker[r] = "over"
  /\ stream' = [stream EXCEPT ![r] = AfterTask(r)]
  /\ UNCHANGED <<queue, sent, segment, foreign, published>>

\* get_nowait until the queue is empty.
Drain(r) ==
  /\ stream[r] = "draining"
  /\ IF queue[r] = <<>>
     THEN /\ stream' = [stream EXCEPT ![r] = "telling"]
          /\ UNCHANGED <<queue, sent>>
     ELSE /\ SendOwn(r, Head(queue[r]))
          /\ queue' = [queue EXCEPT ![r] = Tail(@)]
          /\ UNCHANGED stream
  /\ UNCHANGED <<segment, foreign, published>>

\* Text the bus has not carried, then the end.
Tell(r) ==
  /\ stream[r] = "telling"
  /\ Send(r, LET words == IF result[r] \in {"answer", "limit"} /\ ~ streamed[r]
                          THEN <<Of(r, "final")>> ELSE <<>>
                 last == CASE result[r] = "answer" -> "finished"
                           [] result[r] = "await" -> "interrupt"
                           [] OTHER -> "failed"
             IN  words \o <<Of(r, last)>>)
  /\ stream' = [stream EXCEPT ![r] = "over"]
  /\ queue' = [queue EXCEPT ![r] = <<>>]
  /\ UNCHANGED <<segment, foreign, published>>

\* The client goes away: the task is stopped, the queue given back.
Disconnect(r) ==
  /\ Subscribed(r)
  /\ stream' = [stream EXCEPT ![r] = "gone"]
  /\ worker' = [worker EXCEPT ![r] = "over"]
  /\ queue' = [queue EXCEPT ![r] = <<>>]
  /\ UNCHANGED <<sent, turn, ready, pre, streamed, result, foreign, published>>

Init ==
  /\ queue = [r \in Run |-> <<>>]
  /\ stream = [r \in Run |-> "none"]
  /\ sent = [r \in Run |-> <<>>]
  /\ worker = [r \in Run |-> "none"]
  /\ turn = [r \in Run |-> 0]
  /\ ready = [r \in Run |-> FALSE]
  /\ pre = [r \in Run |-> <<>>]
  /\ streamed = [r \in Run |-> FALSE]
  /\ result = [r \in Run |-> "none"]
  /\ foreign = 0
  /\ published = [r \in Run |-> <<>>]

Segment(r) == Prepare(r) \/ PrepareFails(r) \/ Ask(r) \/ AskFails(r) \/ Call(r)

Stream(r) ==
  \/ BeginReading(r) \/ Yield(r) \/ SeeTaskOver(r)
  \/ Drain(r) \/ Tell(r)

Next ==
  \/ \E r \in Run : Open(r) \/ Segment(r) \/ Stream(r) \/ Disconnect(r)
  \/ PublishElsewhere

Spec == Init /\ [][Next]_vars

\* The event loop runs every task that can go on, and a segment ends: its model
\* calls are bounded and its deadline cancels it.
FairSpec == Spec /\ \A r \in Run : WF_vars(Segment(r)) /\ WF_vars(Stream(r))

-----------------------------------------------------------------------------
(* Properties.                                                             *)

Own == {"hook", "text", "tool"}

\* What runs publish and a stream sends before its end.
OwnEvents == [scope : Run \cup {Elsewhere}, about : Own, turn : Nat]

\* The elements of s that are in T, in their order (SelectSeq for a set).
Keep(s, T) ==
  LET keep[i \in 0 .. Len(s)] ==
        IF i = 0 THEN <<>>
        ELSE IF s[i] \in T THEN Append(keep[i - 1], s[i]) ELSE keep[i - 1]
  IN  keep[Len(s)]

Received(r) == Keep(sent[r], OwnEvents)

\* A client gets the events of its run, and of no other run, in the order they
\* were published, each once; the hook permissions it answered come first.
OwnInOrder == \A r \in Run : IsPrefix(Received(r), pre[r] \o published[r])

\* A client is sent nothing but what is of its run.
OnlyOwn == \A r \in Run : \A i \in 1 .. Len(sent[r]) : sent[r][i].scope = r

\* The end of a run is told after everything the run has published.
NothingAfterTheEnd ==
  \A r \in Run : stream[r] = "over" => Received(r) = pre[r] \o published[r]

\* What says the answer of a run with k model calls.
LastWords(k) ==
  [scope : Run \cup {Elsewhere, Nobody}, about : {"final"}, turn : Nat]
    \cup [scope : Run \cup {Elsewhere, Nobody}, about : {"text"}, turn : {k}]

\* The client of a run that finished has read its last words, once: on the bus
\* while they came, or at the end.
AnswerDelivered ==
  \A r \in Run :
    stream[r] = "over" /\ result[r] = "answer" =>
      Len(Keep(sent[r], LastWords(turn[r]))) = 1

\* A stream that was opened ends, whatever becomes of its segment.
StreamsEnd == \A r \in Run : stream[r] = "preparing" ~> stream[r] \in {"over", "gone"}
=============================================================================
