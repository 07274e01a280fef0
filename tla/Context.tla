------------------------------- MODULE Context -------------------------------
(***************************************************************************)
(* The transcript of a conversation: what a run sends to the model, how the *)
(* results of its tools get there or into files (offload), how the whole is *)
(* kept within a budget (context_compaction.py), and what a hold and a      *)
(* fresh run make of transcript and files.                                 *)
(*                                                                         *)
(* Leading system messages are a prompt and a number of summaries; the      *)
(* history is all that follows. Texts are known by their size only.         *)
(***************************************************************************)
EXTENDS RunBinding, SequencesExt

CONSTANTS HasWorkspace,  \* tools have a workspace and a runtime directory
          IdsGiven,      \* the provider names its tool calls
          Harnesses,     \* system prompts of a harness
          Contracts,     \* system messages of a client
          Budget,        \* CONTEXT_COMPACTION_CHARS
          KeepTurns,     \* CONTEXT_COMPACTION_KEEP_RECENT_TURNS
          KeepTools,     \* CONTEXT_COMPACTION_KEEP_RECENT_TOOL_MSGS
          MaxResults,    \* bound: tool calls of a conversation
          Token          \* what prompts consist of

ASSUME SettingsBoolean == HasWorkspace \in BOOLEAN /\ IdsGiven \in BOOLEAN

ASSUME LimitsNatural == {Budget, KeepTurns, KeepTools, MaxResults} \subseteq Nat

ASSUME PromptsTyped ==
  /\ {"start", "now", "end", "begin", "finish"} \subseteq Token
  /\ Harnesses \subseteq Seq(Token) /\ Contracts \subseteq Seq(Token)

VARIABLES
  prompt,    \* the system prompt
  contract,  \* what the client said of the system
  summaries, \* the summaries that follow the prompt
  history,   \* the other messages
  files,     \* offload files: the call whose result each holds, and whether in full
  count,     \* segment_tool_call_count
  made,      \* calls so far: a call is known by its number
  phase,     \* where the run is
  pending,   \* calls of the hold that wait for the user
  before,    \* history: the calls made before this conversation
  dropped,   \* history: its calls whose batch ended with the question of a hook
  torn       \* history: an offload could not be written

vars == <<prompt, contract, summaries, history, files, count, made, phase, pending, before, dropped,
          torn>>

system == <<prompt, contract>>

\* What a tool message holds: a text in full (small, medium or large), a pointer
\* to its file, its beginning (cut), or a few words of it (shrunk).
Full == {"small", "medium", "large"}

NoFile == <<"none", 0>>

Said(role, words, asks) ==
  [role |-> role, words |-> words, asks |-> asks, call |-> 0, body |-> "small", file |-> NoFile]

Result(call, body, file) ==
  [role |-> "tool", words |-> "text", asks |-> {}, call |-> call, body |-> body, file |-> file]

-----------------------------------------------------------------------------
(* The budget.                                                             *)

Weight(m) ==
  CASE m.body \in {"small", "pointer", "shrunk"} -> 1
    [] m.body \in {"medium", "cut"} -> 2
    [] OTHER -> 3

\* message_chars.
Chars(h) ==
  LET chars[i \in 0 .. Len(h)] == IF i = 0 THEN 1 + summaries ELSE chars[i - 1] + Weight(h[i])
  IN  chars[Len(h)]

\* _over_budget.
Over(h) == Chars(h) > Budget

-----------------------------------------------------------------------------
(* Offload.                                                                *)

\* Mutant: files are named by position.
ByCount(call, calls) == <<"result", calls>>

\* The file of a result, by its tool_call_id, or else by the count of the segment
\* when the batch is over.
FileOf(call, calls) == <<"result", IF IdsGiven THEN call ELSE calls>>

\* offload_tool_result_if_needed: what becomes of a text over the threshold.
Offloaded(body, disk) ==
  IF body \notin {"large", "cut"} THEN body
  ELSE IF HasWorkspace /\ disk THEN "pointer"
  ELSE "cut"

\* files with one more written.
Written(fs, name, call, whole) ==
  [n \in DOMAIN fs \cup {name} |->
     IF n = name THEN [call |-> call, whole |-> whole] ELSE fs[n]]

\* should_skip_tool_result_offload: a text read from an offload file stays as it is.
Skipped(kind) == kind = "reread"

\* _serialize_and_offload_tool_result.
Text(kind, disk) == IF Skipped(kind) THEN "large" ELSE Offloaded(kind, disk)

\* The messages of the results of a batch.
Results(order, kinds, calls, disk) ==
  [i \in DOMAIN order |->
     LET body == Text(kinds[order[i]], disk)
     IN  Result(order[i], body, IF body = "pointer" THEN FileOf(order[i], calls) ELSE NoFile)]

\* The files after them: of one name the last result stays.
Filed(results) ==
  LET named(n) == {i \in DOMAIN results : results[i].file = n}
      latest(n) == CHOOSE i \in named(n) : \A j \in named(n) : j <= i
      names == {results[i].file : i \in DOMAIN results} \ {NoFile}
  IN  [n \in DOMAIN files \cup names |->
         IF n \in names THEN [call |-> results[latest(n)].call, whole |-> TRUE] ELSE files[n]]

-----------------------------------------------------------------------------
(* Compaction.                                                             *)

Tools(h) == {i \in DOMAIN h : h[i].role = "tool"}

\* Mutant: one message too many.
OneMoreTool(h) ==
  {i \in Tools(h) : Cardinality({j \in Tools(h) : j > i}) + 1 >= KeepTools}

\* All but the most recent tool messages.
Compactable(h) == {i \in Tools(h) : Cardinality({j \in Tools(h) : j > i}) >= KeepTools}

CompactFile(call, i) == <<"compact", IF IdsGiven THEN call ELSE i>>

\* One older tool message. With a workspace it is offloaded, if it is over the
\* threshold of an offload; without, its first words stay.
CompactOne(state, i, disk) ==
  LET m == state.history[i]
      body == IF HasWorkspace THEN Offloaded(m.body, disk) ELSE "shrunk"
      name == CompactFile(m.call, i)
  IN  IF ~ Over(state.history) \/ m.body \in {"small", "pointer", "shrunk"} THEN state
      ELSE [history |-> [state.history EXCEPT
                           ![i].body = body,
                           ![i].file = IF body = "pointer" THEN name ELSE NoFile],
            files |-> IF body = "pointer"
                      THEN Written(state.files, name, m.call, m.body = "large")
                      ELSE state.files]

\* compact_tool_messages_if_needed, the oldest first.
Compacted(h, disk) ==
  LET state[i \in 0 .. Len(h)] ==
        IF i = 0 THEN [history |-> h, files |-> files]
        ELSE IF i \in Compactable(h) THEN CompactOne(state[i - 1], i, disk)
        ELSE state[i - 1]
  IN  state[Len(h)]

-----------------------------------------------------------------------------
(* Summaries.                                                              *)

\* The last KeepTurns messages stay.
Cut(h) == Len(h) - KeepTurns

Dialogue(h) == {i \in 1 .. Cut(h) : h[i].role # "tool" /\ h[i].words # "none"}

\* There is something to summarize.
Summarizes(h) == Len(h) > KeepTurns + 1 /\ Dialogue(h) # {}

\* An attached image makes the content a list, which has no strip().
Raises(h) == Len(h) > KeepTurns + 1 /\ \E i \in Dialogue(h) : h[i].words = "parts"

\* The tool messages of the summarized part, then the recent messages.
Rebuilt(h) ==
  Piece(h, Tools(h) \cap 1 .. Cut(h)) \o SubSeq(h, Cut(h) + 1, Len(h))

-----------------------------------------------------------------------------
(* A segment.                                                              *)

\* manage_context_before_llm, in budget, or denied by the preCompact hook.
LeaveContext ==
  /\ phase = "managing"
  /\ ~ Over(history) \/ HasWorkspace
  /\ phase' = "asking"
  /\ UNCHANGED <<system, summaries, history, files, count, made, pending, before, dropped, torn>>

\* Over budget: a summary, when there is something to summarize and the model
\* gives one, then compaction if it is still needed.
ManageContext ==
  /\ phase = "managing" /\ Over(history) /\ ~ Raises(history)
  /\ \E summarized, disk \in BOOLEAN :
       /\ summarized => Summarizes(history)
       /\ LET rebuilt == IF summarized THEN Rebuilt(history) ELSE history
              state == Compacted(rebuilt, disk)
          IN  /\ history' = state.history
              /\ files' = state.files
              /\ torn' = (torn \/ ~ disk)
       /\ summaries' = summaries + (IF summarized THEN 1 ELSE 0)
  /\ phase' = "asking"
  /\ UNCHANGED <<system, count, made, pending, before, dropped>>

\* The exception of a summary ends the segment.
ManageFails ==
  /\ phase = "managing" /\ Over(history) /\ Raises(history)
  /\ phase' = "failed"
  /\ UNCHANGED <<system, summaries, history, files, count, made, pending, before, dropped, torn>>

\* The model answers: with tool calls it goes on, without them it is over. What it
\* says with a call may be nothing.
Answer ==
  /\ phase = "asking"
  /\ \E n \in 0 .. 2, words \in {"none", "text"} :
       /\ made + n <= MaxResults
       /\ n = 0 => words = "text"
       /\ history' = Append(history, Said("assistant", words, made + 1 .. made + n))
       /\ made' = made + n
       /\ phase' = IF n = 0 THEN "over" ELSE "calling"
  /\ UNCHANGED <<system, summaries, files, count, pending, before, dropped, torn>>

\* Calls in the order they were made.
InOrder(calls) == Piece([c \in 1 .. made |-> c], calls)

\* The batch is executed; then the results are appended. A call of a tool that waits
\* for the user parks the run. Files that were read as images follow as a user message before
\* the next model call; of a parked run they are dropped.
RunBatch ==
  /\ phase = "calling"
  /\ LET batch == Last(history).asks
         calls == count + Cardinality(batch)
     IN  \E kinds \in [batch -> {"small", "medium", "large", "reread"}],
            waits \in SUBSET batch, disk, image \in BOOLEAN :
           LET results == Results(InOrder(batch \ waits), kinds, calls, disk)
           IN  /\ history' = history \o results
                              \o (IF image /\ waits = {} THEN <<Said("user", "parts", {})>> ELSE <<>>)
               /\ files' = Filed(results)
               /\ torn' = (torn \/ ~ disk)
               /\ pending' = waits
               /\ count' = calls
               /\ phase' = IF waits = {} THEN "managing" ELSE "parked"
  /\ UNCHANGED <<system, summaries, made, before, dropped>>

\* A hook asks before call c. The segment returns at once, and c alone waits: what
\* the batch has executed is not appended, what waits in it is forgotten, and the
\* rest of it is never executed.
AskInBatch ==
  /\ phase = "calling"
  /\ \E c \in Last(history).asks :
       /\ pending' = {c}
       /\ dropped' = dropped \cup (Last(history).asks \ {c})
       /\ count' = count + Cardinality({d \in Last(history).asks : d <= c})
  /\ phase' = "parked"
  /\ UNCHANGED <<system, summaries, history, files, made, before, torn>>

\* The results of the calls that waited, as they are: an approved call runs now.
Replies(body) ==
  [i \in DOMAIN InOrder(pending) |-> Result(InOrder(pending)[i], body, NoFile)]

\* The user answers all that waits. Markers that do not match end the resume.
Resume ==
  /\ phase = "parked"
  /\ IF WellFormed(prompt)
     THEN \E body \in {"small", "large"} :
            /\ prompt' = Refreshed(prompt, "now")
            /\ history' = history \o Replies(body)
            /\ count' = 0
            /\ pending' = {}
            /\ phase' = "managing"
     ELSE /\ phase' = "failed"
          /\ UNCHANGED <<prompt, history, count, pending>>
  /\ UNCHANGED <<contract, summaries, files, made, before, dropped, torn>>

\* The files the messages of the holds refer to.
Referenced(holds) == UNION {{h[i].file : i \in DOMAIN h} : h \in holds}

\* cleanup_unreferenced_offloads.
CleanedUp(holds) == [n \in DOMAIN files \cap Referenced(holds) |-> files[n]]

\* What a workspace's instructions make with the binding of the segment.
Briefed(harness) == Refreshed(harness, "now")

\* The one system message of a fresh run.
Prompt(harness) == Composed(Briefed(harness), contract)

\* A new request in the same thread, from its own words alone. The hold of a parked
\* run is discarded, and with it the files no other hold refers to: there is none.
FreshRun ==
  /\ phase \in {"parked", "over", "failed"}
  /\ \E harness \in Harnesses :
       /\ WellFormed(harness)
       /\ prompt' = Prompt(harness)
  /\ summaries' = 0
  /\ history' = <<Said("user", "text", {})>>
  /\ files' = IF phase = "parked" THEN CleanedUp({}) ELSE files
  /\ count' = 0
  /\ pending' = {}
  /\ before' = made
  /\ dropped' = {}
  /\ phase' = "managing"
  /\ UNCHANGED <<contract, made, torn>>

Init ==
  /\ \E harness \in Harnesses : prompt = harness
  /\ contract \in Contracts
  /\ summaries = 0
  /\ history = <<>>
  /\ files = <<>>
  /\ count = 0
  /\ made = 0
  /\ phase = "over"
  /\ pending = {}
  /\ before = 0
  /\ dropped = {}
  /\ torn = FALSE

Next ==
  \/ LeaveContext \/ ManageContext \/ ManageFails
  \/ Answer \/ RunBatch \/ AskInBatch \/ Resume \/ FreshRun

Spec == Init /\ [][Next]_vars

-----------------------------------------------------------------------------
(* Properties.                                                             *)

Conversing == phase \in {"managing", "asking", "calling", "parked"}

\* The calls of the batch at hand.
Current == IF phase = "calling" THEN Last(history).asks ELSE {}

\* The calls of this conversation that are through: they do not wait, and no hook's
\* question cut their batch.
Concluded == (before + 1 .. made) \ (pending \cup dropped \cup Current)

\* The message holds the result of its call, or points to a file that does.
Readable(m) ==
  \/ m.body \in Full
  \/ /\ m.body = "pointer"
     /\ m.file \in DOMAIN files
     /\ files[m.file] = [call |-> m.call, whole |-> TRUE]

\* Whatever is summarized, compacted, parked and resumed, the result of every call
\* that is through is in the history once, and of no other call; and it can be read
\* in full: there, or in a file that no other result has taken. The exceptions are
\* those of the code. Of a batch that ends with the question of a hook only the call
\* it asks about ever has a result. Without a workspace, or when an offload could
\* not be written, texts over the threshold are cut.
ResultsReadable ==
  Conversing =>
    /\ \A c \in before + 1 .. made :
         Cardinality({i \in Tools(history) : history[i].call = c})
           = IF c \in Concluded THEN 1 ELSE 0
    /\ HasWorkspace /\ ~ torn => \A i \in Tools(history) : Readable(history[i])

\* The last k messages of h that are results.
LastTools(h, k) ==
  LET results == Piece(h, Tools(h))
  IN  SubSeq(results, IF Len(results) > k THEN Len(results) - k + 1 ELSE 1, Len(results))

\* What keeps the budget never touches the most recent results, and what it takes
\* out of the history it takes for a summary.
RecentKept ==
  [][phase = "managing" /\ phase' = "asking" =>
       /\ LastTools(history', KeepTools) = LastTools(history, KeepTools)
       /\ Len(history') < Len(history) => summaries' = summaries + 1]_vars

\* The part of the prompt the client has not written.
OwnPrompt == SubSeq(prompt, 1, Len(prompt) - Len(Composed(<<>>, contract)))

\* However often a run is resumed, its prompt has one binding block, the current
\* one, and ends with the contract of the client as it was sent, even when that
\* contract quotes a binding block.
OneBinding ==
  Conversing =>
    /\ IsSuffix(Composed(<<>>, contract), prompt)
    /\ Cardinality(At(OwnPrompt, "start")) = 1
    /\ Cardinality(At(OwnPrompt, "end")) = 1
    /\ \E i \in DOMAIN OwnPrompt : IsPrefix(Block("now"), SubSeq(OwnPrompt, i, Len(OwnPrompt)))

\* The delimiters of a contract set it off: no harness has them, and a contract
\* that quotes one, so that they delimit nothing, has no binding block beside it.
PlainPrompts ==
  /\ \A harness \in Harnesses : At(harness, "begin") \cup At(harness, "finish") = {}
  /\ \A text \in Contracts :
       At(text, "begin") \cup At(text, "finish") # {}
         => At(text, "start") = {} \/ At(text, "end") = {}

\* What is sent to the model is a conversation a provider takes: a result follows
\* the assistant message that asked for it.
ResultsFollowCalls ==
  phase = "asking" =>
    \A i \in Tools(history) : \E j \in 1 .. i - 1 : history[i].call \in history[j].asks
=============================================================================
