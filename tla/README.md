# Formal model of the AI orchestrator

TLA+ modules, TLC configurations and TLAPS proofs for the orchestrator service
under `src/app`: a stateless FastAPI service, run on any number of pods, that
executes agent segments (a model with tools) on behalf of two kinds of clients
and keeps everything that must survive a pod in PostgreSQL.

Paths below are relative to the repository; line numbers are those of the
commit the project was written against.

## 1. The system

### Components, their state and their operations

| Component | Source | State | Operations |
| --- | --- | --- | --- |
| Run ledger | `services/run_lifecycle.py`, `models/execution_models.py` | `executions`, `thread_sessions`, `execution_runs` (status, heartbeat), close stamps | claim a run, heartbeat, reap stale runs, finish, stamp closes |
| Hold store | `services/execution_state_service.py` | `llm_states`: one row per question the agent is parked on | create, claim for resume, complete, restore, roll back, recover stale claims, discard, abandon |
| Session close | `services/session_close_service.py`, `services/runtime_paths.py` | none of its own; removes sandboxes and runtime directories | close (stamp, cancel, poll, finalize), retry, reconcile after a run |
| Segment supervision | `SessionCloseService.manage_run`, `services/run_registry.py` | per pod: registered tasks, cancel handles and their reasons | run a worker under heartbeat, deadline and cancellation |
| REST orchestrator | `controllers/orchestrator_controller.py` | none | initiate, execute, resume, close, status |
| AG-UI | `controllers/ag_ui_controller.py`, `services/agui_*.py` | per request: event queue, stream | run (fresh or resume), close, abandon, events |
| Direct agent API | `controllers/agent_controller.py` | none | executeRequest, resumeRun, status |
| Tool loop and tools | `services/tool_hub.py`, `services/tool_registry.py`, `services/mcp_agent_service.py`, `services/local_tool_provider.py`, `services/hooks/*` | messages, pending tools, call counters of one segment; the registry of a segment; the list of MCP tools of a pod | one model turn, tool batch, ask, resume with results, limits; list, name, store, rebuild and dispatch tools |
| Event service | `services/agui_event_service.py`, the streams of `controllers/ag_ui_controller.py` | one queue per open stream | publish to all queues, filter, drain, tell the end |
| Bindings | `services/binding_contract.py`, `services/binding_runtime.py` | `executions.config`, `workspace_path` | validate, resolve, sanitize, read back, describe in the prompt |
| Workspaces | `services/workspace_*.py`, `services/storage/*`, `services/path_policy.py` | directories under the execution's root | provision, select, reuse, remove; file operations |
| Context | `services/context_compaction.py`, `services/runtime_paths.py`, `services/agui_messages.py` | messages of a run, offload files | offload, compact, summarize, compose the prompt, remove unreferenced files |
| Harness discovery | `services/harness/*` | none (reads a workspace) | detect, load instructions, skills and commands under budgets |
| Prompts, multimodal | `services/prompt_*.py`, ... | none | text and media formatting |
| Configuration and start-up | `config.py`, `db/session.py`, `main.py` | settings | one session = one transaction |

### How they interact

A request handler is a sequence of database transactions (`async with
get_session()`), with other requests, on this or another pod, between any two
of them, and a pod that may die between any two of them. `try_create_active_run`
is what serializes segments: it locks the execution row and the thread row,
fails rows whose heartbeat is old, and inserts an `active` run row when no
unfinished row is left on either scope. The worker then runs under
`manage_run`, whose heartbeat loop refreshes the row and cancels the worker when
its session is being closed. When the worker has stopped the handler settles:
it writes the execution's status (unconditionally), the holds it created or
claimed, then finishes the run row, then reconciles a close that was waiting for
it. A close stamps its scope, marks active rows `closing`, discards holds,
cancels tasks of its own pod, polls until no fresh unfinished row is left, and
terminalizes and cleans up; when it gives up it answers 202 and is finished by a
retry or by the reconciliation of the last run.

Before its worker runs, a segment prepares a workspace: the first one resolves
what the request binds, copies a source under the execution's root and records
the path; later ones read the stored configuration and the path, and look
whether the directory is there. While the worker runs, its tool hub publishes
events to one in-process bus, which copies them to the queue of every AG-UI
stream of the pod; a stream filters them by run, and tells the end when the
segment is settled. When a segment parks, messages and tool schemas are stored
with the hold, and the next segment rebuilds both, possibly on another pod.

### What is hard

- claims, reaps and closes of different pods on overlapping scopes;
- a live worker whose heartbeat is late is indistinguishable from a dead one;
- close stamps read before they are acted on;
- a settlement is several transactions: pods die, clients disconnect and closes
  commit between them;
- status writes are unconditional, so correctness rests on who may be live;
- a close depends on retries and on other requests to end;
- two timeouts with the same default (`RESUME_CLAIM_TIMEOUT_SEC`,
  `RUN_HEARTBEAT_STALE_SEC`) measure different things;
- a directory is made, filled, recorded, used and removed in steps that fail or
  die separately, and a later step judges by what an earlier one left;
- one queue carries the events of all runs of a pod, before, during and after
  the segment it belongs to;
- what a segment stored is read by another one, with another tool list, another
  binding and other files.

`PROJECT.json` lists each hazard at its line with the properties that would
catch it.

### What makes each component correct

| Component | Correct when |
| --- | --- |
| Run ledger | unfinished rows exclude each other on executions and threads; a run that heartbeats keeps its row; completed executions stay completed |
| Session close | nothing is granted after a close was requested; files are removed only when no worker is left; a closed execution is terminal; a retried close ends |
| Hold store | a hold is answered once; a failed resume leaves it answerable; an execution that awaits an answer has a hold to answer |
| Segment supervision | the heartbeat and the row outlive the worker; a worker that was told to stop never completes; a close ends the run, with or without the registry |
| Tool loop | every tool call of a turn gets a result or waits for one; it runs once, and only with its approval; the budget bounds the loop |
| AG-UI stream | its client gets its own events once and in order, the answer once, the end after everything else and after the run row is finished; every stream ends |
| Workspaces | a segment runs on all of its source, in the mode asked for; no close removes the directory of a run it can see; a closed session leaves none, unless something it could not see was under way, and then closing again removes it |
| Context | every result can still be read in full; the newest results stay; the prompt describes the current binding, whatever text looks like a description |
| Tools | a name reaches the tool it was offered for or none, and an offered tool is reached |

## 2. Modules

| Module | What it is |
| --- | --- |
| `RunLifecycle` | the run ledger with the requests and closes that use it, one action per transaction |
| `SessionLease` | the abstract promise: leases on executions and threads, broken only after they lapsed, none granted on a closing thread |
| `ResumeHolds` | the holds of one conversation and the requests that claim, answer and settle them, one action per transaction |
| `HoldPromise` | the abstract promise to those who answer: a question is on offer or with one client, may be put back or withdrawn, and is answered by the client that closes it |
| `ManagedRun` | one segment under supervision: worker, heartbeat loop, watchdog, close, registry and owner, a step between two awaits each |
| `ToolLoop` | the agent loop inside a segment, over all the segments of one run: batches, questions, hook permissions, budgets |
| `Workspace` | the directory of one execution from the request that opens it to the close, a step between two awaits or failures each |
| `EventStream` | the bus of a pod, the segments that publish to it and the streams that read it |
| `Context` | the messages and offload files of one run over turns, holds and resumptions |
| `ToolNames` | the names of tools: listing, collisions, storing, rebuilding, dispatch |
| `Bindings`, `RunBinding` | operators: what a request binds and what is stored of it (used by `Workspace`); the binding block of the system prompt (used by `Context`) |
| `MCRunLifecycle`, `MCResumeHolds`, `MCManagedRun`, `MCToolLoop`, `MCWorkspace`, `MCEventStream`, `MCContext`, `MCToolNames` | instances for TLC |
| `RunLifecycleProofs` (with `SessionLease`), `ResumeHoldsProofs` (with `HoldPromise`), `ManagedRunProofs`, `ToolLoopProofs`, `WorkspaceProofs`, `EventStreamProofs`, `ContextProofs`, `ToolNamesProofs` | theorems |

The modules meet at named places: `RunLifecycle` settles a segment in one step,
which `ResumeHolds` opens for holds and `ManagedRun` for tasks; the worker of
`ManagedRun` is `ToolLoop`, whose preparation is `Workspace`, whose transcript
is `Context`, whose tools are `ToolNames` and whose events are `EventStream`.
That at most one segment of an execution runs is proved of `RunLifecycle` and
assumed by the modules below it.

### RunLifecycle

One request `r` owns at most one run row.

| Variable | Code |
| --- | --- |
| `phase[s]` | `close_requested_at` / `closed_at` of an execution or thread: `open`, `closing`, `closed` |
| `status[e]` | `executions.status` |
| `row[r]` | `execution_runs.status` (`finished_at` is set exactly when it is `completed` or `failed`) |
| `beat[r]` | `heartbeat_at` against `RUN_HEARTBEAT_STALE_SEC` |
| `claim[r]` | the execution, thread and entry point of the request |
| `proc[r]` | where its handler is: `loaded` (before the claim), `working`, `ok`/`failed` (settled), `finished` (row finished), `done`; `rejected` between a conflict and its second transaction; `crashed` |
| `parked` | runs that left a hold |
| `stalled`, `late` | history: heartbeat lapsed while the owner lived; claimed on a closing or closed execution |

| Action | Code |
| --- | --- |
| `Initiate` | `orchestrator_controller.initiate` |
| `LoadExecute`, `ClaimLoaded` | `execute`: the load and checks, then the claim in the same session |
| `CreateAgui`, `ClaimLoaded`, `Refused`, `AnswerConflict` | AG-UI `/run`: execution created, claimed, or failed when refused |
| `ClaimResume` | `resume` and `_handle_tool_response` |
| `Settle` | the status write after the worker stopped, for each outcome |
| `FinishRun`, `Reconcile` | `finish_run(update_execution_status=False)`, then `reconcile_*_close` |
| `Heartbeat`, `HeartbeatLapse`, `Crash` | the heartbeat loop, its silence, a pod's death |
| `RequestClose`, `RetryClose` | `_close_*_scope`; `_wait_and_finalize` and a repeated close call |
| `DiscardHolds` | `/abandon` and the discard of a fresh AG-UI run |

Abstractions. Time is one bit per row. A claim transaction is one step: it
holds the execution's and the thread's row lock to its commit (the order of
lock acquisition is not modelled here). Which holds are still awaiting is left
open: a close or an abandon discards any subset of the parked executions of its
scope. Removing files succeeds or fails nondeterministically. A request is one
client call and one run; a client that retries is another request.
`Execution`, `Thread`, `Run` are arbitrary sets.

### SessionLease

`held[h]`, `lapsed`, `gate[g]` with Acquire, Release, Lapse, Renew, Break,
RequestClose and Close. `RunLifecycle` implements it under the mapping `Lease`:
a run holds the execution and thread of its unfinished row, its lease is lapsed
while the row's heartbeat is stale, and gates are thread phases.

### ResumeHolds

`RunLifecycle` settles a segment in one step; `ResumeHolds` opens that step. It
follows one conversation: every request claims its thread, so by
`ExclusiveScopes` at most one run row is unfinished (`owner`, with `stale` for
its heartbeat), and the ledger needs no more than that.

| Variable | Code |
| --- | --- |
| `status[e]` | `executions.status` (`none` before an AG-UI run creates it) |
| `hold[h]`, `of[h]` | `llm_states.status` and `execution_id`: `awaiting`, `pending` (claimed), `completed`, `discarded` |
| `closing` | a close of the conversation was requested |
| `proc[r]` | the transaction boundary a handler is at: `checked` (thread looked at), `starting` (claimed, old holds not discarded yet), `working`, `parked` (new hold committed, claim not completed), `lost` (the completion found the claim gone, not rolled back yet), `answered` (claim completed, execution not), `undo`, `undone` (hold, then execution, to be restored), `settled`; `asking`, `asked`, `raised` for `/resumeRun` |
| `kind`, `on`, `uses`, `made`, `result` | entry point, execution, claimed hold, new hold and outcome of a request |
| `robbed`, `reaped` | history: a live request's hold was recovered, abandoned, discarded or overwritten; its row was failed |

| Action | Code |
| --- | --- |
| `ClaimExecute`, `ClaimResume`, `ClaimAguiResume`, `ClaimFresh`, `CheckThread` | the claim transactions of `/execute`, `/resume` and AG-UI `/run` |
| `DiscardAwaiting` | the first thing a fresh AG-UI worker does |
| `Park`, `CompleteParked`, `LoseParked`, `RollBackParked` | `_persist_await*`, `complete_claimed_state` that finds the claim or not, `rollback_partial_resume_settlement` |
| `CompleteAnswered`, `Finalize` | `complete_claimed_state`, then `_finalize` |
| `FailFresh`, `FailResume`, `FailUnderClose`, `RestoreClaim`, `RestoreExecution` | the failure paths, a transaction each |
| `Dropped` | a close cancels the worker, or an AG-UI client disconnects at any await |
| `Recover`, `Abandon`, `RequestClose`, `ReapByClose` | what other requests do to the conversation |
| `LoadAgent`, `SettleAgent`, `FinishAgent` | `/resumeRun` |
| `HeartbeatLapse`, `Heartbeat`, `Crash` | time and pods |

A completion that fails and its rollback are two transactions (ag_ui_controller.py:963-967),
and the second restores whatever claim is on the hold then: if its run was
reaped, another request may have claimed the hold in between, and the rollback
takes that claim away in the transaction that discards the new hold.

Abstractions. `Recover` restores any set of claimed holds at any time:
`RESUME_CLAIM_TIMEOUT_SEC` is independent of heartbeats. The claim of a hold and
of its run is one step, as it is one transaction that a refusal undoes. A
transaction that fails for reasons of the database is not modelled. Holds of
`/resumeRun` carry no thread and are not discarded with it (`Threaded`); a
`/resume` of such a hold claims no thread, so the single `owner` is exact for
them only if their execution is the owner's. The finalization of a close, with
its removal of files, is in `RunLifecycle`.

### HoldPromise

`phase[q]` and `answer[q]` of each question, with Ask, Take, Revoke,
Answer and Forfeit. `ResumeHolds` implements it under the mapping `Promise`: an
awaiting hold is open, a claimed one taken, a completed or discarded one closed,
and the answer of a hold is the request that completed its claim and has reported
success or is about to (`Answered`). An answer that was not reported, because the
client went away or the pod died, is forfeited; it does not reopen the question.
`Revoke` puts a set of taken questions back and withdraws another in one step, as
the rollback of a failed settlement does, a recovery (nothing withdrawn) and an
abandon (nothing put back). It and `Answer` name no taker, as `llm_states` names
none. `/resumeRun` withdraws: it completes holds it has not claimed, and is no
answer of a claim.

### ManagedRun

`RunLifecycle` and `ResumeHolds` let a worker stop and its handler settle;
`ManagedRun` says when either may happen. It follows one segment from its claim
to its response, as the tasks of one event loop.

| Variable | Code |
| --- | --- |
| `entry`, `resumes` | REST handler or AG-UI stream; whether a hold was claimed |
| `worker` | the worker task: running, told to stop (`Task.cancel()`), or how it ended |
| `event`, `reason` | `RunCancelHandle` |
| `heart`, `dog` | the heartbeat loop (asleep, or in its transaction) and the deadline watchdog |
| `registered` | the entry in `RunRegistry` |
| `stamped`, `signalled` | a close has committed; it has looked into this pod's registry |
| `sup`, `seen` | the task inside `manage_run`, and the result it got |
| `gone`, `caught` | the stream was cancelled; the reason its `except` clause read then |
| `stage`, `outcome`, `told` | the owner: waiting, settled, row finished, ended; what it wrote and said |
| `late` | history: the reason when the worker ended |

| Action | Code |
| --- | --- |
| `WorkerEnds` | the worker returns, raises, or stops at an await or a `_raise_if_cancelled` |
| `RequestClose`, `SignalLocally` | the transaction of `_close_*_scope`, then `request_cancel_for_*` |
| `StartBeat`, `Beat`, `FailBeat` | `_heartbeat_loop` |
| `Deadline` | `_segment_deadline_watchdog` |
| `Manage`, `SeeWorker`, `Leave`, `NeverManage` | `manage_run` and the two functions that enter it |
| `Disconnect` | the cancellation of an AG-UI stream |
| `Settle`, `Finish`, `Tell` | the status transactions, `finish_run`, the response or terminal event |

Abstractions. A task that awaits another and is cancelled passes the
cancellation on and resumes when the other is over: that is asyncio, and why
`Awaited` is the supervisor's guard. Three reasons are told apart; `unknown` is
recorded only when `manage_run` is left while the worker runs, which that rule
excludes. A worker that is not cancelled may run for ever. `outcome` is the
status of the execution as the segment alone decides it: a completion that finds
its hold taken is in `ResumeHolds`. One cancellation per disconnect; a failing
settlement and a crash are not modelled here.

### ToolLoop

What the worker of a segment does. The transcript is kept as the set of its tool
calls that have no result yet, which is what a model provider and a resume care
about; a call whose result is in the messages gives its name back, so a run has
any number of calls and only the budget ends a segment.

| Variable | Code |
| --- | --- |
| `phase` | where `process_request` is: `replying` (resume answers), `looping` (about to call the model), `batch`, `parked`, `over` |
| `count` | `segment_tool_call_count` |
| `open` | calls in `messages` without a `role=tool` message |
| `todo`, `done`, `waits` | calls of the batch not reached, `batch_completed`, `batch_pending` |
| `hold` | the snapshot of `_build_await_result`: its open calls, `pending_tools`, and whether the one pending entry is a hook permission |
| `lost`, `ran`, `again`, `asked`, `granted` | history: cut off by a hook's question; ran; ran twice; asked about; approved |

| Action | Code |
| --- | --- |
| `Start`, `Resume` | the two entries of `process_request` |
| `AnswerInput`, `Decide`, `EndReplies` | the loop over `normalized_responses`, `_append_hook_ask_resume` (also through `prepare_hook_permission_resume_events`), and the second await of a partial answer |
| `CallModel` | the model's answer: a batch, or none |
| `Execute`, `Block`, `Await`, `Ask` | the outcomes of `_execute_tool_call` |
| `EndBatch` | the results join the messages; questions are saved |
| `Exhaust`, `Fail` | the budget, and every error or cancellation; a failed resume finds its hold restored (`ResumeHolds` has how) |

Abstractions. What a tool and a hook decide is open: any call may run, be
blocked, wait or be asked about. A reply that matches no pending call changes
nothing and is `EndReplies` with what is left. A batch is a set, taken in any
order. A subagent is one executed call. Text, tokens, compaction and attachments
are left out.

### Workspace

One execution. `Bindings` has the request (`Request`), its validation and
resolution, the stored configuration (`Sanitized`) and what a later segment
reads back (`SegmentConfig`).

| Variable | Code |
| --- | --- |
| `req`, `offers`, `caller` | the request that opens the execution, the parts its source holds, whether the caller's folder is there |
| `row` | the execution's status, configuration, recorded path and close stamps |
| `opened` | what the client knows: nothing, that it waits, the id, a failure, or that it closed it |
| `made`, `tree`, `runtime` | the directory under the execution's root, the parts in it, the runtime directory |
| `claim`, `work` | an active run, and where the request or worker is: checked (it has looked at the close stamps), ensured (made the thread's runtime directory), created (its execution); preparing, fetching, fetched, running; failing |
| `refused`, `lost` | history: a resolved binding could not be prepared; the sandbox disappeared |
| `stray` | history: the last removal of a close did not wait for what was under way, and has not been completed since |

| Action | Code |
| --- | --- |
| `Initiate` | the opener of `/initiate` |
| `CheckRun`, `EnsureRuntime`, `CreateExecution`, `AguiRun` | the opener of AG-UI: the close check, the runtime directory, the execution, the claim |
| `CheckSegment`, `StartSegment` | every later segment: the check, then the claim |
| `TurnedAway` | a claim that is refused |
| `Reuse`, `InPlaceMissing`, `RunBare`, `Refuse`, `BindInPlace`, `CannotStart` | the branches of the preparation of a segment |
| `StartFetch`, `Fetch`, `FetchFails`, `TooLarge`, `Fetched`, `Select`, `SelectFails` | provisioning: the directory, its contents part by part, the limits, the relative path, the record |
| `CleanupInitiate` | what a failed `/initiate` removes |
| `WriteRuntime`, `WriteFile`, `Settle`, `Cancelled`, `Crash`, `Reap` | the segment, how it ends, and pods |
| `RequestClose`, `Finalize`, `CloseAgain` | the close and its removal of files |
| `LoseSandbox`, `MoveFolder` | what others do to disks |

Abstractions. A tree has two parts, the selected subdirectory and the rest: a
copy is partial when it lacks one the source has. Every removal may leave
something (`Remains`): an `rmtree` goes on after errors or ignores them. Between
the check of a request and its claim the session may be closed, and the close may
finish; the claim of an AG-UI run and of a resume sees that, the one of an
`/execute` may not (`stale_execution_row`). A run is reaped whatever its worker
does, and its worker goes on. Bound: one request or worker at a time, so the next
request is checked when the last worker has ended; that a segment is claimed over
a reaped worker is in `RunLifecycle`.
Contents, blobs and storage back ends are left out; so are output bindings,
apart from their presence. A `git` clone that is killed leaves what it had.

### EventStream

| Variable | Code |
| --- | --- |
| `queue`, `stream`, `sent` | a subscriber's queue, where the generator is, what its client got |
| `worker`, `turn`, `ready`, `pre`, `streamed`, `result` | the segment, its model calls, `segment_prep.ready` and `pre_events`, `text_streamed`, how it ended |
| `published`, `foreign` | history of what a run published; a counter of other events |

`Prepare`, `PrepareFails`, `Ask`, `AskFails`, `Call` are the segment;
`PublishElsewhere` is a segment of the pod without this stream; `Open`,
`BeginReading`, `SeeTaskOver`, `Drain`, `Tell` and `Disconnect` are the
generator. How a run is settled between `SeeTaskOver` and `Tell` is `ManagedRun`.
An event of another AG-UI run looks to a stream like any event from elsewhere,
so one stream with foreign events stands for many. Text deltas of one turn are
one event, and `streamed` is kept over turns, as in the code.

### Context

| Variable | Code |
| --- | --- |
| `prompt`, `contract`, `summaries`, `history` | the leading system message, what the client said of the system, the summaries, the other messages |
| `files` | offload files: the call each was written for, and whether in full |
| `count`, `made`, `phase`, `pending` | the segment's call counter, the calls so far, where the run is, what the hold waits for |
| `before`, `dropped`, `torn` | history: calls of earlier conversations; calls whose batch ended with a hook's question; a file could not be written |

`ManageContext`, `LeaveContext` and `ManageFails` are `manage_context` before a
model call; `Answer` and `RunBatch` a turn, `AskInBatch` a batch in
which a hook asks: the segment returns at once (tool_hub.py:746), so that what the
batch has executed is not appended and only the call asked about waits; `Resume` and `FreshRun` the two ways
a segment starts. Texts have sizes only; the budget is a weighted sum. A fresh
run starts from its request alone: the snapshots AG-UI clients send back are not
modelled. `RunBinding` treats a prompt as tokens, so that a contract or a
harness may quote the markers of a block. `Token` is what prompts consist of.
`PlainPrompts` is no part of the model but the hypothesis of a theorem (section
4); `MCContext` has TLC evaluate that the prompts of the runs satisfy it.

### ToolNames

A name is the sequence of its parts between underscores, so that prefixes and
suffixes are members. `Fresh`, `Pause`, `Resume` are segments of one run,
`OtherFetch` any other run that lists tools on a pod, `Call` the dispatch of a
name the model was offered in this segment or an earlier one. `meaning` is
history: the tool each name was first offered for. Server names have no
underscore, are distinct, and none is `local`. `Part` is what names consist of
and `Void` an empty part. `PlainNames` is no part of the model but the hypothesis
of its theorems (section 4); `MCToolNames` has TLC evaluate that the names of
the runs satisfy it. Tools of subagents are not modelled.

## 3. Runs

| Run | Configuration | Shows |
| --- | --- | --- |
| `ledger` | one orchestrator session, one AG-UI execution on one thread, 2 requests, every entry point; symmetric requests | the safety of claims, closes and statuses |
| `ledger_lease` | two AG-UI executions on one thread, 2 requests | `RunLifecycle` implements `SessionLease` |
| `close_completes` | one session, one thread, 2 requests, fairness | a retried close ends |
| `stale_execution_row` | one session, 2 requests | violation: an execution that was closed between `/execute`'s load and its claim becomes RUNNING |
| `resume_holds` | one session, one AG-UI execution, two holds, 3 requests of all five entry points | one answer per hold, an execution that awaits an answer has a hold; `ResumeHolds` implements `HoldPromise`, so settled holds stay settled |
| `managed_run` | one segment, both entry points, fairness | the heartbeat and the row outlive the worker; who decides the outcome; a close ends the run |
| `tool_loop` | three call names, a budget of three, fairness | every call is accounted for, runs once and with its approval; the budget ends each segment |
| `workspace` | every binding whose location fits its type, legacy folders of both origins, no workspace at all; loss of the sandbox; closes between the check, the claim and the work of a request; reaped workers that go on | segments run on whole workspaces where they were asked to; closes are clean, or are when they are repeated; no close takes a directory from a run it can see |
| `event_stream` | one stream, three turns, two foreign events, fairness | a client's events are its own, in order, complete, and end |
| `context` | budget 5, two recent messages and one recent result kept, three calls, prompts and contracts that quote markers | results stay readable; one binding block; recent results stay |
| `tool_names` | two pods, two servers that share a name, built-in tools served by a server too, client tools, one of them named as a server's is listed, both modes | a name never reaches another tool; offered tools are reached |
| `alias_after_resume` | the same | violation: a tool stored under its collision alias reaches nothing after a resumption |

Bounds. `Run` bounds the number of requests that claim; a conflict, a reap, a
reclaim and a settlement after a reap need two. `Execution` and `Thread` are one
of each kind, so that one scope can be closed while another request names the
other; two executions on one thread are needed for a thread conflict without an
execution conflict. In `resume_holds` the first request makes a hold, the second
answers it and may park on the second hold, and the third answers either, so a
hold can be claimed, recovered, claimed again and completed under the first
claim's feet. `ManagedRun` and `Workspace` have no bound: their state is finite
as it is, and a session has any number of segments. In `tool_loop` a batch of
three holds a call that ran, one that waits and one a hook asks about, and the
budget is reached within a batch and between batches; call names recur, so
neither the calls of a run nor its segments are bounded. `MaxForeign` bounds
foreign events: one between own events and one after the end suffice for every
position the filter can be wrong about. `MaxResults` bounds the calls of a
conversation: with `KeepTools` = 1 three results give one that is recent, one that is
compacted and one that is summarized away or must not be. `ToolNames` has no
bound beyond its sets; any number of pauses and listings occurs.
Deadlock is checked in `tool_names`, where a segment can always call or be
replaced. In the others it is not: when all requests are used and everything is
closed the system rests.

Fairness. `HandlersProceed` says that a handler that is alive reaches its end
(the segment deadline cancels a worker, whose owner awaits it and then runs its
`finally` blocks) and that a dead owner's heartbeat goes stale because time
passes. `FairSpec` adds that a client retries a close that answered 202 and that
storage eventually lets files be removed. `WaitSpec` has no retries, as the
documentation says is enough. `ManagedRun`'s `Fairness` says that tasks that can
run do, that heartbeats go on, and that a cancelled worker ends (a
cancellation-resistant worker holds its claim until it returns,
docs/ORCHESTRATOR.md:1128-1135, and the documentation leaves it to operators). The
deadline and the registry get none, so `CloseEndsRun` rests on the heartbeat
alone, as docs/ORCHESTRATOR.md:1148 says it may. `ToolLoop` assumes that the model
and the tools answer or fail (requests have timeouts, and the segment deadline
cancels what has none) and that the loop goes on; nothing makes a run be resumed.
`EventStream` assumes the same of a segment, and that the event loop runs a
generator that has something to do; a client may leave but need not read slowly.

## 4. Proofs

`RunLifecycleProofs` proves, for all sets of executions, threads and requests:

- `TypeCorrect`: `TypeOK /\ HandlersAgree` is inductive. `HandlersAgree` ties
  `proc` and `claim` to `row` and is what later proofs need of handlers;
- `Exclusive`: `ExclusiveScopes` is inductive relative to it. A granted run saw
  no unfinished row that it did not reap, and no other step makes a row
  unfinished;
- `ClaimHeld`: a row is taken from its owner only when its heartbeat is stale;
- `OneWorkerPerScope`: the consequence of the two for workers;
- `QuietAfterClose`: a scope becomes closed only by a finalization that found no
  fresh row, a regular live worker has a fresh row, and no row is granted later;
- `ClosedStaysTerminal`: `ClosedIsTerminal`. A step changes a status only to a
  terminal one, or settles a live segment of the execution, which
  `QuietAfterClose` excludes once it is closed, or grants a row on it, which makes
  it `late` (`StatusShape`).

They rest on `StepShape`: every step either grants one request a row or leaves
every run `Undisturbed`, so each proof has two cases instead of one per action.
Assumptions: executions and threads are disjoint, `HomeThread` is a function,
entry points are those of the code.

`CompletedStays` of the same module is `CompletedPreserved`. Three things could
overwrite a completed execution. A second worker: `CompletedIdle` says none works
on it, and is inductive because whoever completed it held the claim that
excludes others (`Exclusive`, `ClaimHeld`). A reap or a close: they spare it
(`CompletedStep`). The refusal of an AG-UI run, which fails the execution it has
created: `CreatedInv` says that nobody else can name, claim or close that
execution yet, so it is still RUNNING.

`LedgerImplementsLease` is `ImplementsLease`, step by step:
`Initiate`, loads and settlements stutter; a claim that fails stale rows and is
granted is an `Acquire` that breaks lapsed leases; a refused one, a reap and the
end of an execution's close are a `Break`, the end of a thread's close is a
`Close`; heartbeats, their silence, finishes and close requests are `Renew`,
`Lapse`, `Release` and `RequestClose`. The granted case needs that no unfinished row is left on
either scope, which is the guard of the claim.

`LeaseSafe`, at the end of the module, proves the abstract promise from its steps:
`gate`, `held` and `lapsed` are variables there, not what the mapping makes of the
ledger.

`ResumeHoldsProofs` proves, for all sets of executions, holds and requests and
any mix of entry points:

- `TypeCorrect`: `TypeOK /\ HandlersAgree`; the latter says which stages imply
  which entry points, and that only resumes use a hold;
- `HoldsStaySettled`: no step reopens a completed or discarded hold;
- `OneAnswer`: two requests that claimed a hold never both succeed. A hold can
  be claimed, recovered under its owner and claimed again, and nothing records
  who owns a claim, so the hold's owner is not the invariant. What is inductive
  is that a completed claim's hold is settled and is nobody else's completed
  claim: a completion needs a hold that is still claimed, hence not settled,
  hence completed by nobody (`StepShape`, `CompletionStep`);
- `OneClaim`: a live request has its row or was reaped, so of two live requests
  that claimed one hold one was reaped;
- `AwaitingHasHold`: `AwaitingAnswerable`, also while a segment runs. The execution
  an answer was taken for is RUNNING as long as its claimer is undisturbed
  (`ClaimKept`); every hold belongs to the execution of who made or claimed it
  (`HoldsOwned`); so a status AWAITING_RESPONSE was written by a transaction that
  left a hold awaiting, and a later one either discards both or claims it and
  makes the execution RUNNING;
- `HoldsKeepPromise`: `KeepsPromise`, step by step. Claims are `Take`, parks `Ask`,
  restores, recoveries, discards, abandons, rollbacks and `/resumeRun` are
  `Revoke`, a completion that finds its claim is `Answer`, and a crash or a
  disconnect before success is reported is `Forfeit`; everything else stutters.
  The mapping needs both halves of `OneAnswer`'s invariant (a completed claim was
  the hold's last, so the answer of a taken hold is empty), that a request at work
  has claimed and has no result yet (`ClaimedWork`, `ResultLast`), and that what is
  discarded was asked (`HoldsOwned`). It says more than `OneAnswer` and
  `HoldsStaySettled` do together: completing a hold that was put back on offer
  breaks neither, and is no step of `HoldPromise`;
- `PromiseSafe`: the promise, from its own steps, means one answer per question.

`ManagedRunProofs` proves every safety invariant of `ManagedRun` from one
inductive invariant. The phase of the supervisor says what else may exist: a
worker only while it is managed (`Phases`), no task and no registry entry once it
is over (`Joined`), and no settlement before that (`Staged`). `Seen` carries the
reason across the worker's end: a reason, once recorded, is replaced but never
erased, so a worker that ended after one is never seen as `ok`.

`ToolLoopProofs` proves every safety invariant of `ToolLoop` for any names and
any budget. `Accounts` says in each phase which calls have no result: the lost
ones and those the phase still deals with, disjointly. `NotYetRun` and `Granted`
add that the latter have neither run nor, in a batch, been asked about; a failed
resume puts its pending calls back among them, which is why `ran` forgets them.

`WorkspaceProofs` proves `TypeOK` (`TypeCorrect`), `WholeUnlessLost`
(`SegmentsRunOnWhole`) and `ClaimedKept` (`ClaimedIsKept`) for any requests and
both settings. `Recorded` is the reason: a path under the
execution's root is in the row only when the copy under it is complete, so a
partial directory is never taken for a workspace; `NotRecorded` and `Copying`
carry it through the provisioning, and `NothingRuns` and `RunningHeld` say that
a close, the one step of another actor that removes anything, finds no work or
marks the session as `stray`. The two exceptions are those of the code:
`ClaimedKept` excepts the repeated close of a session that is closed, which looks
for no run, and `WholeUnlessLost` what was under way without a claim the close
could see.

Two more theorems of that module need a hypothesis about the requests, stated in
the theorem; the requests of the run satisfy both.

- `ClosesClean` proves `ClosedClean` under `LocalInPlace`: an in-place binding names
  a local path. Then what is in place is never copied (`Unmade`), and what is copied
  is marked neither in the configuration nor by its path (`Marked`), so that the
  close takes it for its own and is complete only when it is gone. Whatever the
  removals left on the way, and whatever was repeated, the session is closed when
  nothing remains; a session that was closed over a late request or a reaped worker
  is the exception (`stray`), until it is closed again. Without the
  hypothesis the property fails: `WorkspaceUrl.cfg`.
- `WorksAsAsked` proves `RunsAsAsked` under `LocalInPlace` and `OneContract`: a
  request of the new contract has no legacy folder. The row keeps the binding of
  the request (`Placed`), so a later segment that provisions again selects the same
  directory; a run without a binding never provisions.

`EventStreamProofs` proves every safety invariant of `EventStream` for any runs,
number of turns and events from elsewhere. What a client receives is a filtered
sequence of any length. The library states induction with operators as
parameters, which the provers cannot instantiate, so the module first proves
induction for sets, from the well-foundedness of `<` (`LeastNatural`,
`NaturalInduction`, `SequenceInduction`), and with it what `Keep`, the filter, does
to appended and concatenated sequences.

- `OrderKept` and `AllBeforeTheEnd` are `OwnInOrder` and `NothingAfterTheEnd`. The
  inductive invariant is `Flow`: at each place the generator can be, what its
  client received and what waits for it in the queue are together what is due,
  `pre` and then `published`; foreign events change neither.
- `AnswerReachesClient` is `AnswerDelivered` under `Streaming`
  (LLM_STREAMING_ENABLED): `Spoken` says that a run with an answer has published its
  last words once, and that its client has them once when the end was told.
  Without the hypothesis the property fails: `EventStreamPlain.cfg`.

`ContextProofs` proves every property of `Context`, for any limits, harnesses and
contracts. Prompts and histories are sequences of any length that are filtered, cut
and concatenated. The module proves induction for sets once more and with it what
`Piece`, the filter by positions, has at each index: what the sequence has at the
positions in increasing order (`PieceMatches`), of which there is only one
enumeration (`IncreasingUnique`, `PieceAt`). `Compacted`, a recursive function,
is unfolded in the same way (`CompactingExists`, `CompactingStep`).

- `BindsOnce` is `OneBinding` under `PlainPrompts`. The inductive invariant
  (`Bound`) is the form of the prompt: the current block between texts without any
  marker, and then the client's part. A fresh run makes it
  (`FreshBound`); a resume finds that one block, for what the contract quotes is
  opaque, and puts the new one in its place (`ResumeBound`), so it changes nothing
  but the binding.
- `EachHasResult` and `CanRead` come from `TranscriptInv`. `Once` says that the
  calls that are through (`Concluded`) are those that have a result, one each: not
  those that wait, nor those of a batch at hand or of one that a hook's question
  cut. A summary embeds what it
  keeps, all results among it, in what was there (`RebuiltEmbeds`, `KeepsResults`);
  compaction changes contents only (`CompactedAlike`); a batch and the answers to a
  hold add results of calls that had none (`OnceConcat`). `AllHeld` adds that a
  pointer names a file of its own call, which holds it whole; since no other call has
  this file, no later offload (`FiledHeld`) or compaction (`CompactOneHeld`) takes it.
- `KeepsRecent` is `RecentKept`: the k-th of n results has n - k after it
  (`LaterTools`), so none of the last `KeepTools` is compacted, and a summary
  leaves the sequence of results as it is (`SummaryKeepsTools`).

`PlainPrompts` says that no harness contains a delimiter of the client's contract,
and that no contract that quotes a delimiter quotes both markers of a block. The code checks
neither, and without them `OneBinding` fails: `ContextPrompts.cfg`. `CanRead` assumes
that the provider names its calls (`IdsGiven`); without, it fails:
`ContextNames.cfg`. `EachHasResult` needs neither.

`ToolNamesProofs` proves `NamesKeepTheirTool` (`RightTool`) and `OfferedIsReached`
(`OfferedRuns`) for any servers, pods, client and built-in tools and requests,
under `PlainNames`. The first half is about names alone: two different tools have
no canonical name or alias in common (`OneOwner`), the suffixes of a collision
alias can be told from the name before them (`AliasInjective`), and the registry
offers each name for the tool that registered it last (`Offered`). The second half
is the invariant of the run (`Inv`): a name that was ever offered belongs to the
tool it means, or is the alias of a stored name and means what that one meant
(`Meanings`); a segment has tools of the pod and is the first one, or has stored
names, the client's and built-in tools (`Segmented`). Then whatever the dispatch
finds, through the registry, the built-in tools, the client's or the pod's
listing, owns the name that was called (`Reaching`).

`PlainNames` says that names have no empty parts, that names of servers' and
clients' tools neither start with `AGUI-` nor end in `local`, that no server is
called `stored`, and that a client's tool with the name under which a server's is
listed shares it with no third tool. The code checks none of it. Without the last
condition `RightTool` fails: `ToolNamesClient.cfg`.

All other theorems rest on the `ASSUME`s of the modules alone.

## 5. Only model-checked

- Liveness (`CloseCompletes`, `CloseEndsRun`, `SegmentEnds`, `StreamsEnd`): out of
  the prover's reach, as is `ENABLED`.
- That `PlainNames`, `PlainPrompts`, `Streaming`, `LocalInPlace` and `OneContract` hold
  of the names, prompts, settings and requests of the runs is evaluated or checked
  there, not proved.

Every invariant and every action property of the passing runs is stated by a
theorem.

## 6. Findings

Two runs report a disagreement of code and documentation (`PROJECT.json` quotes
the lines):

1. `stale_execution_row`: an `/execute` misses a close that committed after it
   loaded its execution;
2. `alias_after_resume`: after a resumption, a tool that was stored under its
   collision alias is offered and reaches nothing.

### Further configurations

These configurations are kept beside the runs. In each TLC finds the named
property violated, which is why the runs check a weaker property, or leave out
the entry point, setting or request it needs. Each is run on the MC module of its
name.

| Configuration | Property | What happens |
| --- | --- | --- |
| `RunLifecycleWait.cfg` | `CloseReconciled` | a thread close that an `/execute` or `/resume` held up is reconciled by nobody: they reconcile the execution only (docs/ORCHESTRATOR.md:1192-1194) |
| `ResumeHoldsAgent.cfg` | `OneWorkerPerHold` | `/resumeRun` does not claim the hold it answers, so a `/resume` works on it too (docs:917-921) |
| `ResumeHoldsSettle.cfg` | `FailedSettlementDiscards` | `/resume` rolls back the discard of the hold it failed to settle: two are open (orchestrator_controller.py:1055-1077) |
| `ResumeHoldsDrop.cfg` | `FailedResumeRestored` | an AG-UI resume whose client disconnects leaves its hold claimed until the claim times out (docs:1151-1158) |
| `ToolLoopAsk.cfg` | `BatchKept` | a hook's question about one call drops the results, questions and remaining calls of its batch (tool_hub.py:746, docs:690-692) |
| `WorkspaceLost.cfg` | `WholeUnlessStray` | the workspace of a running session is lost; its provisioning anew stops half way, and the next segment takes the part for the whole, since the path is recorded already (binding_runtime.py:238-241, docs:1087) |
| `WorkspaceLate.cfg` | `ClosedLeavesNothing` | an AG-UI request that looked at the close stamps of its thread before the close makes the thread's runtime directory again after it; its claim is refused and the directory stays until the thread is closed again (ag_ui_controller.py:1447-1451, :1608, docs:1062); a reaped worker that still works does the same to the workspace |
| `WorkspaceUrl.cfg` | `ClosedClean` | a `shared_folder` given as a file:// URL and bound in place is copied, but its close treats the copy as the caller's (docs:363, :1061) |
| `WorkspaceBare.cfg` | `BindingsPrepare` | an AG-UI run with a legacy folder has no source to prepare from, and a later segment of a run without a workspace no input to read back: both fail (ag_ui_controller.py:1566, docs:41) |
| `EventStreamPlain.cfg` | `AnswerDelivered` | with LLM_STREAMING_ENABLED=false, text that came with a tool call sets `text_streamed`, and the final answer is never sent (ag_ui_controller.py:1014, tool_hub.py:663, docs:969) |
| `EventStreamUnscoped.cfg` | `OnlyOwn` | an event without a thread, as an `/execute` with frontend tools publishes, reaches every stream of the pod (tool_hub.py:994-999, ag_ui_controller.py:549-555) |
| `ToolNamesClient.cfg` | `RightTool` | a client's tool `search_web` collides with one of a server, so another server's `search`, listed as `search_web`, is offered under that name; the call is found among the client's names first and goes to the client (tool_registry.py:142-156, tool_hub.py:1060, docs:652-654) |
| `ContextOrphans.cfg` | `ResultsFollowCalls` | a summary cuts by number of messages and can separate results from the message that asked for them (context_compaction.py:317-332, :388-390, docs:834-837, :963) |
| `ContextPrompts.cfg` | `OneBinding` | a contract that quotes one of its own delimiters is not opaque, so a resume takes the block it quotes for one of its own and removes it from the contract (binding_runtime.py:52-56, :133) |
| `ContextNames.cfg` | `ResultsReadable` | ids the hub makes itself repeat in each segment, and a later result takes the file of an earlier one (tool_hub.py:759, :780) |

### Seen while modelling, without a property

- Whether the terminal event comes after `finish_run` is one guard (`Tell` in
  `ManagedRun`), which a property would repeat.
- A user message with media parts makes the summary raise
  (context_compaction.py:338; `ManageFails` in `Context`).
- Results of calls a hook's answer approved are not offloaded (tool_hub.py:1317).
- Copies are synchronous and block the event loop, heartbeats included
  (`HeartbeatLapse` of a live owner).
- The id of an `/initiate` that failed after its row was made is accepted by
  `/execute` (`opened` = "failed" in `Workspace`).
- Snapshots of AG-UI clients may carry pointers to offload files that were
  removed (ag_ui_controller.py:755-780; not modelled).

## 7. Plan

1. The order of row locks of claims and closes: the hazard at
   session_close_service.py:407 has no property.
2. Which hook decides, hook commands and their timeouts; path policy of single
   file operations.
3. `ToolLoop`: subagents as nested loops, attachments in the snapshot.
4. Client snapshots in `Context`; two streams of one run in `EventStream`.
5. Proofs: the same for `ManagedRun`, an abstract specification (one outcome per
   segment, decided once) and its refinement.

## 8. Not modelled

- Harness discovery: a single pass over a directory under byte budgets, without
  state or concurrency.
- Prompts and multimodal input: text and media formatting.
- Configuration, database session and start-up: wiring; what matters of it, one
  session is one transaction, is why an action of `RunLifecycle` is atomic.
- What the handlers of built-in tools do to files, blob back ends, model and MCP
  calls: I/O, modelled by their outcomes where a component depends on them.
- `/executeRequest`, status, listing and deletion endpoints, request models.
