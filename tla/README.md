# AstraFlow: a TLA+ development

AstraFlow runs workflows: a dashboard draws them and shows them running, a
scheduler keeps the state of every run, workers execute the nodes, and a
WebSocket session per worker carries dispatches one way and results the other.
This directory holds TLA+ models of that machinery, the TLC configurations that
check them on small instances, and proofs, checked by TLAPS, of what holds for
every instance. `PROJECT.json` relates every definition to the lines it models, and
lists runs, mutants, findings, hazards and theorems.

    tlc -config RunDispatch_faults.cfg MCRunDispatch
    tlapm RunDispatch_proofs.tla

Paths below are relative to `src/`; `biz/` stands for
`scheduler/src/scheduler_api/core/biz/` and `network/` for
`scheduler/src/scheduler_api/core/network/` when they speak of the scheduler, and
`builder/` for `dashboard/src/features/builder/`.

## 1. Inventory

| Component | State | Operations | What makes it correct | Module |
|---|---|---|---|---|
| Dispatch control plane (`biz/dispatch`, `biz/services`, `biz/engine`, `biz/facade`, `biz/adapters`) | run records with nodes; request queue; pending acks and their timers | start and cancel runs; dispatch, retry, ack, ack timeout; results, errors | every run ends; joins wait for all; nothing runs twice; final runs stay as they are; no task is forgotten | `RunDispatch` |
| Worker command handling (`worker/handlers/dispatch_handler.py`, `execution/runtime/concurrency.py`) | executions in flight, one per task | accept or refuse a dispatch; report result, error, cancellation | reports name their task; single flight | in `RunDispatch` |
| Containers and frames (`biz/engine/frames.py`, `dispatch.py`) | stack of frames per run | start a container, complete a frame, release dependents | a complete frame completes its container, at every depth; failures surface | `WorkflowEngine` |
| Middleware chains (`biz/engine/next.py`, `pending.py`, `worker/handlers/next_handler.py`) | pending next requests with deadlines, waiting futures | request, expire, cancel, answer | the inner part of a chain runs only inside `next()`; each request is answered once, with its own answer | `WorkflowEngine` |
| Message stream worker to scheduler (`worker/network/session.py`, `network/session.py`, `network/server.py`, `shared/protocol/window.py`) | sequence numbers, send credit, unacked messages and retry counts; receive window | send, ack, retry, give up; record, ack, hand over; drop, reconnect, resume | ordered, each message once; acks tell the truth; an acknowledged message is delivered | `ReceiveWindow`, `WorkerStream`, `OrderedDelivery` |
| Message stream scheduler to worker (`network/manager.py`, `worker/network/session.py`) | as above, without retries; senders waiting for credit | send, ack, reset | credit is neither lost nor made up; senders get on | `SchedulerStream` |
| Session handshake (`worker/network/session.py`, `session_state.py`, `network/manager.py`, `network/session.py`) | session id, token, epoch; which transport a session is bound to | handshake, register, accept, resume, reset, supersede | both ends restart their numbering together; a bound transport is read; the worker ends up bound | `SessionBinding` |
| Connection recovery (`worker/network/connection.py`) | the transport, the connect task | connect with backoff, send, receive, handle an error | one error never closes the connection opened after it | partly, in `WorkerStream` and `SessionBinding` |
| Event stream to the dashboard (`scheduler_api/sse`, `dashboard/src/lib/sse`, `store/runsSlice.ts`) | counter and bounded buffer of events, connections; the runs the dashboard shows | publish, connect, replay; apply an event or an answer | a resume misses nothing the buffer still holds; what is shown is what is | `EventStream` |
| Uploads (`scheduler_api/resources/uploads.py`, `impl/resources_api.py`, `dashboard/src/services/resources.ts`) | session metadata and data on disk, resources; the client's cache | create, write a part, complete, abort, expire, resume | what counts as uploaded is whole and stored, across crashes; retrying succeeds | `Uploads` |
| Workflow editor (`builder/store.ts`, `hooks/useWorkflowDraft.ts`) | the draft and its subgraphs, the graph shown, selection, history; a save in progress | edit, convert to and inline a subgraph, undo, redo, save, open | graphs are closed and fit together; the canvas shows what is there; undo is a timeline | `Builder`, `EditTimeline` |
| Workflow graph and payloads (`biz/domain`) | nodes with parameters and results, bindings | rollup; resolve bindings, copy values along edges, merge feedback | the rollup follows the nodes; a node is given what those before it ended with | `NodeData`; rollup in `RunDispatch`, `WorkflowEngine` |
| Worker runtime (`worker/execution`) | resource handles, leases | register, lease, release, collect | a leased resource stays | executor in `RunDispatch` |
| Client queues (`worker/network/client.py`) | one bounded queue per message type | enqueue with an overflow policy, idle collection | what is dropped is what the policy says | not modelled |
| Packages (`worker/packages`) | package directory, adapter registry | install, uninstall, restore | directory and registry agree after a failure | not modelled |
| Resources, grants, catalog, auth, audit, database | tables | queries | | not modelled |
| HTTP API, other dashboard pages, generated models, node packages, scripts | | | | not modelled |

How they interact. The facade and the message handlers call the run state
service and the orchestrator; the orchestrator calls `send_envelope` of the
connection manager, whose session gives the frame a number and credit; the
worker's session layer acknowledges it and its dispatch handler executes it; the
result goes back over the other stream, and the ack of the dispatch is passed to
`RunOrchestrator.register_ack`. A result may release dependents, push or pop a
frame, or answer a middleware that waits in `next()`; each of these asks the
orchestrator for more dispatches. The run state service publishes an event for
every change; the dashboard applies them next to the answers of its own requests.
The editor and the uploads meet the rest only through stored workflows and
resources. All of the scheduler is one asyncio loop, all of a worker another;
between two awaits that suspend nothing else runs. What is hard is what may happen
at those awaits, and the connection that may break at any of them. The hazards,
line by line, are in `PROJECT.json`, each with the properties that cover it or
the reason why none does.

Every model follows the same pattern. A handler is one action unless it can be
suspended half-way; then there is one action per stretch between two suspending
awaits. A fault is an action or a disjunct guarded by a kind in `Faults`, and
`MaxFaults` bounds how many occur; a run's `Faults` say what may go wrong in it,
so that what a property does not survive can be read off its configuration.
Other bounds are named `Max...` and are listed with each run.

## 2. Running a workflow

### 2.1 The dispatch control plane: `RunDispatch`

One module composes the orchestrator, the run state it drives, the handlers that
feed it and the workers' side of the wire, because their interleavings are the
point:

| Actions | Code |
|---|---|
| `SkipFinal`, `NoWorker`, `InvalidPayload`, `StartSend`, `Transmit`, `SendFails`, `MarkDispatched`, `RegisterWaiter`, `BackoffOver` | `RunOrchestrator._runner` / `_dispatch` / `_handle_retry`: the single dispatcher and where it may be suspended (`runner.pc`) |
| `HandleAck`, `MarkAcknowledged`, `AckTimeout`, `RetryAfterTimeout`, `RequeueAfterTimeout` | `register_ack`, `_await_ack`, `reset_after_ack_timeout` |
| `CollectReady`, `EnqueueReady`, `HandleResult`, `HandleCancelled`, `HandleError` | `collect_ready_nodes`, the exec handlers and `apply_record_result`, `reset_after_worker_cancel`, `apply_command_error` |
| `CancelRun`, `FlushCancelled`, `CancelFinalRun` | `facade.cancel_run`: the state first, the queue after the events are out |
| `WorkerReceive`, `WorkerFinishes`, `WorkerInterrupted`, `WorkerFails`, `WorkerRepeats`, `WorkerCrashes`, `LoseFrame`, `LoseAck` | the worker and the wire |

A `DispatchRequest` is an object that survives its retries; `requests` lists them
by creation and `queue` holds their indices. A dispatch id indexes `dispatches`.
Every change of a run record ends with `refresh_rollup`, here `Refresh`. Results,
payloads, the choice among workers and the wording of errors are abstracted away; a
worker is any that could run the package.

Fault kinds: `cancel` (a user cancels), `no_worker`, `send_fail` and `broken_send`
(the send raises before or after the frame left), `lost_frame`, `lost_ack`,
`slow_ack` (the timer fires while the ack is still to come), `worker_cancel`,
`worker_error`, `worker_crash`; `early_ack`, `early_report` (an answer is handled
before the dispatcher, which wrote the frame, has run again,
orchestrator.py:193-232); `repeated_result` (a result is sent again and passes).

Runs (a join of `a` and `b` in `c`, or `c` after `a`; `x` is a run of its own):

| Run | Instance | Shows |
|---|---|---|
| `RunDispatch_faults` | 2 runs, 3 tasks one of them invalid, 4 outcomes, all 13 kinds, 2 faults | `TypeOK`, `RollupCoherent`, `AtMostOneLateFrame`, `FinalRunFrozen` |
| `RunDispatch_reliable` | join, 2 workers, 5 kinds, 2 faults, 2 attempts | `JoinsWaitAndRunOnce` (a join waits for all, no task runs twice at once), `DoneStaysDone` |
| `RunDispatch_liveness` | join, 10 kinds, 2 faults, `FairSpec` | `NoTaskForgotten` (a queued task waits for a dependency or has a request on its way, a running one has a timer or a worker that owes its report) and `RunsTerminate` |

The faults a run leaves out are those its properties do not survive in the code:

- a dispatch that is delivered and sent again, or a repeated result, counts the
  dependents of a node down twice and runs a join early: a repeated result is
  applied as if new (updates.py:244), where docs/comm-protocol.md:63 and :104 ask
  for idempotent handling. `RunDispatch_duplicate.cfg` shows it. The theorems about
  joins (section 5) assume `OnceOnlyFaults`: none of `broken_send`, `lost_ack`,
  `slow_ack`, `early_ack` and `repeated_result`. They cover more than the run:
  errors, crashes and early reports of workers leave a join in order.
- an error reported by a worker names the dispatch envelope, not the task, and
  hits the node dispatched last (dispatch_handler.py:103;
  docs/worker-scheduler-architecture.md:943): `ErrorHitsItsTask` states what
  should hold and no run checks it. The node it hits may have ended well already, so
  `DoneStaysDone` leaves `worker_error` out.
- a worker that dies after it acknowledged a dispatch leaves the node running for
  ever, since only the ack is timed (orchestrator.py:243;
  docs/worker-scheduler-architecture.md:939 speaks of rebinding when a worker goes
  offline): add `worker_crash` to `RunDispatch_liveness`.
- a dispatch the concurrency guard refused is kept in flight although the execution
  it collided with has already reported (adapters/handlers.py:213;
  docs/worker-scheduler-architecture.md:944): add `early_report` next to `slow_ack`.

A lost frame presumes that a fresh session follows the loss; in a resumed one
nothing after it would get through (3.2).

Left out: the catch-all of the runner, which hands a request to `_handle_retry` when
`_dispatch` raises what none of its branches expects (orchestrator.py:122-128).

Bounds. A join of two is the smallest graph with a counter above one; two tasks
in flight are needed for the queue, the dispatcher and a timer to hold requests
at once; two workers for one task to run in two places; a second run for anything
to leak between runs. Two faults suffice for every violation found; a third
multiplied the states without a new behaviour. `MaxRequests` and `MaxDispatches`
cap objects and are never the reason a step is missing with that many faults.
`CHECK_DEADLOCK FALSE`: when all runs are final and the wire is empty the system
rests.

Fairness (`FairSpec`): the dispatcher coroutine, each handler and timer, and each
worker's execution go on when they can, because the loops run every ready
coroutine, timers expire and handlers return. Fairness is weak, and never on a
fault: `NonFault` restricts the fair actions to the steps that need none. That a
worker finishes a dispatch it took is an assumption on its packages.

### 2.2 Frames and chains: `WorkflowEngine`

The other half of the engine: containers open frames with nodes of their own, and
a host node runs only when the middlewares of its chain have called `next()`. A
single dispatch is one step here (`Dispatch`); how it reaches its worker is
`RunDispatch`.

A handler changes the graphs of the run in stages (`Reported`, `EndHost`,
`Release`, `Close`, `Popped`...), each an operator from a record of nodes, frames,
adopted nodes and ready requests to the next; the action installs the last one and
the rollup.

| Actions | Code |
|---|---|
| `CollectReady`, `DropRequest`, `Dispatch` | `collect_ready_nodes`, `collect_ready_for_record`, `mark_dispatched`; a request for a container opens its frame (`start_container_execution`) |
| `RejectBlank` | the request of an adopted node: `_dispatch` cannot build its payload and records a command error |
| `HandleResult`, `HandleInterrupted`, `HandleError` | `record_result` / `apply_record_result` with `release_dependents` and `complete_frame_if_needed`; `reset_after_worker_cancel`; `apply_command_error` |
| `HandleNext`, `RefuseNext`, `ExpireNext` | `handle_next_request`, `collect_expired_next_requests` |
| `CallsNext`, `GivesUp`, `Reports`, `Refused` | the worker: `middleware_next`, its timeout, its result, the concurrency guard |
| `CancelRun` | `cancel_run` |
| `Feedback`, `LeavesFeedback`, `LateFeedback` | feedback an adapter awaits, which comes before its report; feedback that `send_nowait` leaves to a task of its own, handled at any time (`record_feedback` / `apply_feedback`) |

`adopted` holds the nodes of a frame that `get_node` has recreated in the top level
of the record from their id alone; such a node has lost its role, its type and its
package. A collection while no frame is open requests it like any other node of
`record.nodes` (dispatch.py:123-138), with empty metadata (`blank`). Such a request picks a
worker without a type or package to match, cannot be made into a payload
(`ExecDispatchPayload` wants names of at least one character), and so fails its node and
the run (orchestrator.py:155-180), unless the run is over by then.

| Run | Instance | Shows |
|---|---|---|
| `NodeData_faults` (section 2.3) | four workflows: a host behind two middlewares and its dependent, a container that is a host itself, a host with its middleware inside a container, a container beside a host with its chain; 9 kinds, 2 faults, each once; 2 dispatches of a node, 2 calls of an execution | `FramesCoherent` (`StackCoherent`, `FailureSurfaces`), `DependentsWait`, `ChainsCoherent` (`InsideNext`, `WaiterRemembered`, `AnswerIsOwn`), `DataCoherent`, `RunStaysOver`, `RunTerminates` |
| `WorkflowEngine_nested` | a container that is the last node of a container's frame; `FairSpec` | violates `RunTerminates` |

`WorkflowEngine_nested` is the development's recorded disagreement:
`complete_frame_if_needed` (frames.py:58) never looks at the frame the container
itself belongs to, so nobody closes that frame and the run goes on for ever, where
docs/worker-scheduler-architecture.md:491-492 asks for recursion.

What the properties except, they except because the code does not keep it:

- a middleware of a chain of two that ends without calling `next()` leaves the
  inner middleware queued for ever (`short_circuit`); one that skips inside a chain
  ends its host and leaves the rest of the chain free to start it again (`skipped`);
- a `next()` that times out finalises the host; a late result takes it back to
  queued (updates.py:283-293), and a late report may answer the request after
  (pending.py:95-107) (`timeout`);
- an execution cancelled by its worker is started over, but the middleware that
  waits for it is not answered (lifecycle.py:295-318), and a node outside the
  topmost frame is not collected again (run_state_service.py:215-219)
  (`interrupted`);
- an error is lost when the node dispatched last is in no live graph
  (updates.py:181-205), and then who waits for the execution that failed is not
  answered; the attempt to prove `WaiterRemembered` met this order (`error`);
- feedback is applied to runs that are over, and for a node whose frame is gone
  `get_node` adds a queued one to the top level, which holds the rollup at running
  (updates.py:66-73, run_state_service.py:476-495). The next collection at the top level,
  if there is one, requests it, a host with nobody in `next()` too, and the run fails for
  it; `InsideNext` allows such a request after late feedback and no other, and none
  without it.
  docs/worker-scheduler-architecture.md:106 has synchronous adapters use
  `send_nowait`, whose task only runs when their result is already on its way, so this
  order is the rule for them (`late_feedback`). For the same reason `RunStaysOver` lets
  a run that is over gain a node, but not change one.

Also: a container whose frame failed still releases its dependents, and a
dependent that is a container itself is then sent to a worker as a plain node
(frames.py:155-171); `FailureSurfaces` and `RunStaysOver` bound what follows.

Assumed: node ids are unique across the graphs of a workflow, `ready` is a set, a
node that is adopted while its frame is opened again is one node here where the code
has two (neither completes that frame; so a `next()` to the node of the frame is not a
request of the adopted one, as `get_node` finds it in the top level), answers to `next()` are
delivered at once. Missing or empty subgraphs and repeated dependencies are left out.
No workflow checked has an edge that starts at a middleware itself: the editor draws such
edges from the host, at a port of the middleware (`mw:`, domain/graph.py:57). The engine
would take one (initialise.py:100-113) and release its target when the middleware first
succeeds, though the chain may run it again; `DependentsWait` does not hold then, and its
proof has the hypothesis `EdgesOfHosts`. A container graph that is empty, cyclic or starts
with nothing but containers is left out as well (`FramesStart`, assumed by the proofs and
met by the workflows of the runs): the frame of one whose graph has nothing to start is
opened, and its `next()` is answered `next_unavailable` while the frame is still there.
Fairness: `Progress`, every step that is not a fault, with weak fairness.

### 2.3 The data of a run: `NodeData`

`NodeData` takes every action of `WorkflowEngine` together with what it does to the
parameters and results of the nodes and to the parameters a dispatch carries. A value
is the name of the execution that made it, a path a single key, so a value tells
whose it is, of which execution, and whether it was only feedback.

| Definitions | Code |
|---|---|
| `SourceOf`, `TargetOf`, `IsBound`, `Bindings` | `build_edge_bindings_for_workflow`: the ends of an edge are ports of nodes or of their middlewares, may name another node of the graph, and are dropped when that is in no graph of the edge |
| `Applied`, `Projected`, `Written` | `apply_edge_bindings_for_graph`, `apply_middleware_output_bindings`, `_set_nested_value` |
| `ResultFlows`, `HandleResultData` | `apply_record_result`: the result, along the edges of its node unless it is a host; a middleware's onto its host, and along the host's edges when it ends the host |
| `Merges` | `apply_feedback` with `_merge_result_updates` |
| `Packed`, `Packs`, `Hands` | `build_dispatch_request` copies the parameters; the worker gets that copy |
| `Renewed`, `Cleared` | `initialise_frame_runtime` and `get_node` make nodes anew |

`DataCoherent` (run `NodeData_faults`) relates them: what a dispatch that waits or runs
carries is what the nodes it depends on ended with, complete and of their last
execution (`InputsAreResults`), and so is what the run shows of a node that ended
(`ResultsAreLast`). An edge that names a node its target does not depend on promises
nothing: it gives what is there when its source ends. Not kept after a timeout or a
skip inside a chain (the host ends before, or runs again after, its chain), nor after
late feedback, whose partial results overwrite the final ones.

The proof of it has one more hypothesis on workflows, `EdgesCarry`: an edge leaves from a
node its target waits for or from a middleware of that node's chain, and no two enter one
slot (the later would win, `_set_nested_value`). A parameter is read only from a node that
is neither container nor middleware, and only if what is given to it comes from nodes it
waits for: any other may still change after it was read. And a container puts out nothing
of its own, nor a host what it shows of a middleware, since the two would overwrite each
other.

An output port of a middleware that is bound to its parameters is left out: the code copies
it from there to the parameters of the host (graph.py:201-211), and `Projected` has the
branch for results only. No workflow of the runs has such a port.

The workflows bind a host's own result, a port of its outer middleware and what its
inner one shows through the host; a middleware's input port; a parameter; a container
that puts out nothing; and a node the edge cannot name. 2 dispatches let every node be
interrupted and run again, and let a middleware call `next()` twice (a second call is
made only while all it runs may be dispatched: `Inner`). The run takes 523,259 states.
`Fair` is `WF_vars(Progress)` written out, for the speed of TLC; `Progress` is every
step that is not a fault.

## 3. Reaching the workers

### 3.1 The stream from a worker to the scheduler: `WorkerStream`

`ReceiveWindow` is `shared/protocol/window.py` as operators on a window record
(base, bitmap, buffer): `Record` is `record()` with its sliding loop, `Ready` what
it returns, `IsSeqAcked` the sender's reading of an ack. `ReadyCount` is the
number of turns of that loop. No recursion, so it can be proved about.

`WorkerStream` composes the worker's session (numbering, credit, the retry
scheduler), connections, and the scheduler's readers with the window. It covers
one session epoch: connections drop and the worker resumes, but the numbering
never restarts. A reader is cut at its awaits: read and record; send the ack;
hand over one message after the other. Each connection has a reader, so those of
a superseded connection run beside the new one.

| Actions | Code |
|---|---|
| `Send`, `SendOffline`, `SendBreaks`, `SendRaises` | `Session.send`, `_assign_session_seq`, `Connection.send` |
| `Resend`, `ResendOffline`, `ResendBreaks`, `GiveUp` | `_ack_retry_scheduler` |
| `HandleAck` | `_handle_incoming`, `_apply_window_ack`, `_resolve_ack` |
| `Drop`, `Connect`, `SendResume` | `connection.py`, `_on_transport_reconnect` |
| `ReadMessage`, `ReadUnbound`, `ReadResume`, `SendAck`, `AckRaises`, `HandOver`, `CloseReader` | `handle_websocket`, `handle_envelope`, `_maybe_ack`, `_handle_resume` |

Fault kinds: `drop`; `broken_send` and `offline_send` (a send finds the connection
broken, or none); `offline_retry`, `early_retry` (a retry fires between
connections, or before the answer had its time); `early_frame` (a frame is
written before `control.resume`); `overlap` (two readers in the middle of their
frames); `ack_error` (sending an ack raises what `_maybe_ack` does not catch).

`OrderedDelivery` is the promise of docs/comm-protocol.md section 4: what was sent
is delivered in order, each once, without gaps. `ImplementsOrderedDelivery` is
the refinement, with `sent` mapped to `nextSeq - 1`.

| Run | Instance | Shows |
|---|---|---|
| `WorkerStream_faults` | window 2, 4 messages, 3 connections, all 8 kinds, 2 faults | `TypeOK`, `WindowOK`, `WindowAcksTruthful`, `DeliveredOnce` |
| `WorkerStream_liveness` | 3 messages, 2 faults of the sender's and the link's 3 kinds, `FairSpec` | `Delivery`, `ImplementsOrderedDelivery` |

`DeliveredOnce` speaks of messages never read before `control.resume` (the history
variable `unwindowed`): one resent on a fresh connection before it reaches the
handlers outside the window (network/session.py:118), a second time if it was
handled before. With that exception it is proved for every fault. `Delivery` promises only that a message is handed over unless it or
a predecessor was given up. Two stronger statements fail in the code:
`AckedIsDelivered`, because a failed send uses a number up (session.py:535,
`WorkerStream_gap.cfg`), and `AckedIsReceived`, because the scheduler acknowledges
a frame that does not fit its window and drops it (network/session.py:96,
`WorkerStream_overrun.cfg`).

Bounds. A window of 2 is the smallest with something behind the first missing
frame, and 4 messages go beyond a full window; 3 connections let a resumed
connection drop again. `MaxConns` also ends the reconnecting: with at most
`MaxFaults = 2` drops and breaks, 3 connections are never too few.

Fairness: reconnecting, reading, acking and handing over go on; a retry that is
due and needs no fault is made. `Quiet` and `Due` state what the retry delays do:
a timer is not early when nothing of the stream is still under way, and delays
that double keep one message from running far ahead of another. New messages and
faults are never forced.

### 3.2 The stream from the scheduler to a worker: `SchedulerStream`

The other direction has the same window but never resends. Send credit is an
asyncio semaphore of the window's size, replaced with every session epoch; senders
are the dispatcher, other tasks and the readers of the connections themselves, for
the handler of a refused next request sends its error from there.

| Actions | Code |
|---|---|
| `Send`, `Resume` | `send_envelope`, `_assign_session_seq`: take credit or wait in the semaphore's queue, and go on when woken |
| `Reader` (`ReadAck`, `ReadRequest`, `CloseReader`) | `handle_websocket`, `_handle_ack`, `apply_session_ack`, `_handle_exec_next_request`, `mark_disconnected` |
| `Drop`, `Reconnect` (`ResumeSession`, `Handshake`), `Register` | the connection, `_handle_resume`, `upsert_session` with `_reset_session_state`, which wakes the old waiters |
| `Worker` (`HandleAccept`, `HandleMessage`), `Ask` | the worker's `_handle_incoming`, window and acks; a middleware calls `next()` |

Fault kinds: `drop` (any suffix of what is under way is lost); `fresh` (a resume
that is refused or late ends in a fresh handshake); `early_frame` (a frame between
register and accept, which the accept's window reset forgets); `refused` (a next
request is refused); `late_reader` (the reader of an old connection outlives it:
it reads late acks and detaches the new transport when it ends).

`SchedulerStream_faults` (window 2, two senders and the readers of 3 connections, 4
messages, 3 faults) shows `CreditAccounted`: free credit, numbers not acknowledged and
senders about to use what was granted to them always add up to the window, nobody
waits while there is credit nor on a session that was replaced; and `Flows`
(`Delivery` and `SendersGetOn`) under `FairSpec`: messages and senders get through
as long as nothing of the session was lost (`gaps`, `ackless`) and no reader waits
for credit itself.

The exceptions are the code's, and contradict docs/comm-protocol.md:57-64: a lost
frame leaves a gap in a resumed session that nothing gets past, later frames are
buffered or dropped but acknowledged; a lost ack keeps its credit, for the
`last_seen_seq` of a resume is not used; once all credit is gone the single
dispatcher waits in `send_envelope`, and with it every other worker; a send that
raises keeps number and credit; a reader that waits for credit is the one who
would have read the acks, which takes no fault but a window of frames under way.

Bounds: with a window of 2, 4 messages and 3 connections each of the two sessions can
fill its window and be replaced. Fairness is per coroutine: reconnecting,
registering, the worker's loop, each woken sender and each reader.

### 3.3 Sessions: `SessionBinding`

Which session, over which connection: on the worker's side the coroutines that
establish a session and may overlap (`coro`: handshake, resume, register, waiting
for an ack or for the accept), on the scheduler's one reader per connection and one
record per worker. What the session carries is left to the two streams; of the
numbering there is only which pair of windows each end counts by (`gen`).

| Actions | Code |
|---|---|
| `Connect`, `Reconnect`, `Notice`, `Break` | `Session.start`, `Connection._handle_transport_error`, `_connect_with_backoff`, `_receive_loop` |
| `Establishing` (`Begin`, `Acked`, `FallsBack`, `AckFails`, `AcceptEnds`), `Resend`, `ResendFails`, `AckTimeout`, `AcceptTimeout` | `_establish_session`, `send_and_wait_ack`, `_wait_for_accept`, `_ack_retry_scheduler` |
| `Receive`, `Restart` | `_handle_incoming`: acks, accept, reset; `_restart_after_reset` |
| `Serving` (`Takes` with `HandleHandshake`, `HandleRegister`, `HandleResume`; `ReaderEnds`) | `handle_websocket`, `bind_session`, `upsert_session`, `mark_disconnected` |
| `SchedulerRestart` | a new `WorkerControlManager` |

`SessionBinding_faults` (8 connections, 9 coroutines; breaks, restarts of the
scheduler, expired tokens, slow answers and timeouts, 2 faults, `FairSpec`) shows
`BindingCoherent`: a session that would be resumed goes with the windows of its
registration, the two ends agree whenever nothing is under way, and a transport the
scheduler holds has a reader; and `EventuallyBound`, unless a wait timed out, which
nobody repeats (session.py:645-656). The agreement of the numbering needs answers
that come before their request is sent again. `SessionBinding_superseded.cfg` shows
the one thing that breaks `EventuallyBound` for good: the reader of a half-open
connection that was superseded ends late and detaches the new connection
(server.py:99), although docs/comm-protocol.md:36 lets the newer connection win.

Bounds: `MaxConns` and `MaxCoros` are more than two faults can use up. Timing
assumptions, part of the guards: a coroutine that was woken runs before timers and
new connections, a resend timer fires only when nothing is there to read.
Left out: heartbeats, drain, `stop()`, refused credentials, `refresh_registration`
on a resumed session. Fairness: `Progress`, all steps but faults, weakly.

## 4. Around the runs

### 4.1 What the dashboard shows: `EventStream`

The run state service changes a run and puts its events in `outbox`; `Publish` numbers
them, keeps the last `Capacity` for replay and queues them on the connection. The
dashboard (`Connect`, `Receive`, `Ask`, `AnswerArrives`, `CancelRun`) applies events
and answers to `shown`. A node's result is a version number, a log chunk carries the
version it belongs to. A run stands for its nodes: a result event brings all of them up
to date, so several nodes of one run, the result of one of them trimmed from the buffer
and that of another not, are not covered. A run ends succeeded, failed or cancelled; only
a node is ever `skipped`, which `refresh_rollup` counts as succeeded.

`EventStream_faults` (a run of this session and one of another, buffer 3, 3 changes, 1
event about something else; drops and a restart of the scheduler, 2 faults,
`FairSpec`, a client that presents its last id and one that does not) shows
`ShownIsTrue`: once everything is read, status and nodes shown are the scheduler's, if
the buffer still held the last event that carried them when the connection was opened;
`ResumesExactly`; and `EndShown`. The dashboard's client is the one that presents
no id (client.ts:178): it is sent the whole buffer again, snapshots go back and forth
and come right in the end. Left out as the code does not keep them: `stale_answer` (an
answer to `getRun` is written over newer events, runsSlice.ts:241; see
`EventStream_stale.cfg` against the comment at
`dashboard/src/lib/sse/RunSseSubscriptions.tsx:14`) and `late_cancel` (a cancel is
shown as done even if the run had ended). Ids restart at 1 with the scheduler;
`IdsMeanOne` excludes a client that presents an id from before. Fairness: the publisher,
the reconnect timer and the reader of the stream go on.

### 4.2 Uploads: `Uploads`

A request of the upload API is the sequence of disk states its writes go through
(`CreateWrites`, `PartWrites`, `AbortWrites`, `CompleteWrites`); `Serve` takes all of
them, `Crash` any proper prefix. A tab follows `services/resources.ts`: look for a
session to resume (`Start`, `AnswerResume`), create one, send the missing parts in any
order, complete. Requests a tab gave up may still be handled (`ServeLate`); a tab that
gives up looking for its session forgets it and asks for a new one
(resources.ts:237-240), any other request it gives up ends the upload until the user
tries again (`GiveUp`). `FindBySha256` takes any good resource with the hash, where the
provider looks at the first row only (provider.py:256-265): the two differ when the file
of the first row is missing, which takes a crash in the middle of a user's deletion, and
`DeleteByUser` has none.

`Uploads_faults` (two tabs with one file of two parts, the last one shorter, one tab
declaring its hash; both kinds of provider; one of crash, give-up, corrupted part,
deletion and expiry, and aborts; 390 thousand states) shows `RecordsKeepTheirWord`
(`CompletedIsStored`, `ReceivedIsWritten`), `DataHasAPlace` (`DataIsSwept`,
`StoredOnce`) and, under `FairSpec`, `Uploaded`. What the code does beyond: a crash
between moving the data and closing the record leaves a session with all its parts that
can only fail until its time is up (`vain` keeps track of it); the database provider
stores a resource twice after a crash between commit and unlink, a record torn by a
crash is never swept. Fairness: each tab goes on (that users retry is an assumption on
them), expired sessions are swept. Two tabs are needed for a session to be
completed under somebody; four sessions and resources are more than one fault needs.

### 4.3 The workflow editor: `Builder`

The state is the store of `builder/store.ts` (root graph, subgraph drafts, the list of
subgraphs that came with the load, the graph shown, the selection), its history, and
the save in progress with the scheduler's record and the cached copy of it. Actions are
the store's (`AddNode`, `RemoveNode`, `AddEdge`, `RemoveEdge`, `SetSelectedNodes`,
`SetActiveGraph`, `ConvertSelectionToSubgraph`, `InlineNode`, `InlineSubgraph`,
`Undo`, `Redo`), the picker's (`PickSubgraph`) and the hook's (`ClickSave`,
`CapturePreview`, `PersistWorkflow`, `Refetch`, `Reopen`). `Touch` is every edit of
something the model leaves out.

`EditTimeline` is the promise of undo and redo: the document walks on a line of
documents, an edit cuts off what lies ahead, only the last `HistoryLimit` can be
returned to. `UndoIsATimeline` is the refinement; it is what a preview recorded in the
middle of a save, a view switched between edits or a history entry sharing state would
break.

`Builder_edits` (`Entwined`: two containers open one subgraph, one of them stands in
another subgraph, and a node of the shared subgraph has the id of a container;
history 2, three edits and a last save, two new ids, one node selected by hand; 946
thousand states) shows `EdgesConnect`, `SubgraphsCoherent`, `ViewIsShown` and
`UndoIsATimeline`. `SubgraphsCoherent` relates the document, every snapshot and what is
stored: a container finds the subgraph it opens (`ContainersResolve`), and no node
is in two graphs (`NodesAreOnce`), but for what the history variable `flaws` has
collected: what came with the workflow, subgraphs inlined while a container elsewhere
opened them (`lost`), nodes inlined while the list of the load still held them
(`twice`).

What the code does beyond: a save sends the list of subgraphs that came with the load,
not the drafts (useWorkflowDraft.ts:264), so edits inside subgraphs are not stored
though the save reports success, and after a conversion the scheduler refuses the
save until it is undone; inlining from inside a subgraph always fails; the picker lets
a container open the very subgraph it is in. Since a save puts the root graph of today
next to the subgraphs of the load, two things come back from that list: a container
removed in the drafts, after the subgraph it opens was inlined (the run reaches this),
and a node converted out of a subgraph and then inlined, which is stored twice (it takes
more edits than the run makes; the proof met it). Assumed: the timer of
length 0 that inlines after a change of view fires at once. Left out: ports and
parallel edges, labels, parameters and positions, node states, workflows not saved
yet, other tabs (the last write wins), publishing, starting runs.
No liveness: nothing the editor does must happen.

## 5. Proofs

Eight modules prove, for all values of the constants that satisfy the modules'
`ASSUME`s:

| Theorem | Says |
|---|---|
| `RunDispatch_proofs!TypeCorrect`, `RollupAlwaysCoherent`, `LateFramesBounded`, `FinalIsFinal` | `Spec` implies `[]TypeOK`, `[]RollupCoherent`, `[]AtMostOneLateFrame`, `FinalRunFrozen` |
| `RunDispatch_proofs!OneClaimPerTask`, `JoinsWait` | under `OnceOnlyFaults`, `Spec` implies `[]OnceInv` and with it `[]JoinsWaitAndRunOnce` |
| `RunDispatch_proofs!DoneForGood` | under `OnceOnlyFaults` and without `worker_error`, `Spec` implies `DoneStaysDone` |
| `RunDispatch_proofs!NothingForgotten` | under `AnsweringFaults` (`OnceOnlyFaults`, and workers answer what they took, not with errors), `Spec` implies `[]NoTaskForgotten` |
| `WorkflowEngine_proofs!TypeCorrect`, `StaysOver` | `Spec` implies `[]TypeOK`, `RunStaysOver` |
| `WorkflowEngine_proofs!FailuresSurface` | where no container is in the frame of another (`Unnested`), `Spec` implies `[]FailureSurfaces` |
| `WorkflowEngine_proofs!ChainsTold`, `FramesLast`, `ChainsStayCoherent`, `FramesStayCoherent` | under `Unnested`, and if every frame has a node to start with (`FramesStart`), `Spec` implies `[]ChainInv`, `[]FrameInv`, and with them `[]ChainsCoherent`, `[]FramesCoherent` |
| `WorkflowEngine_proofs!DependentsAlwaysWait` | if moreover no edge leaves from a middleware (`EdgesOfHosts`), `Spec` implies `[]DependentsWait` |
| `NodeData_proofs!DataStaysCoherent` | if moreover edges carry what they can (`EdgesCarry`), `DSpec` implies `[]DataCoherent` |
| `NodeData_proofs!DataKeepsControl` | `NodeData`'s `DSpec` implies `Spec`, and so what the rows above say of it |
| `WorkerStream_proofs!RecordProps` | what `record()` keeps, adds and returns, for every window size |
| `WorkerStream_proofs!TypeCorrect`, `WindowAlwaysCoherent`, `WindowAcksAlwaysTruthful`, `NothingDeliveredTwice` | `Spec` implies `[]TypeOK`, `[]WindowOK`, `[]WindowAcksTruthful`, `[]DeliveredOnce` |
| `WorkerStream_proofs!StreamKeepsOrder` | under `OrderlyFaults`, `Spec` implies `ImplementsOrderedDelivery` |
| `SchedulerStream_proofs!TypeCorrect`, `CreditAlwaysAccounted` | `Spec` implies `[]TypeOK`, `[]CreditAccounted` |
| `EventStream_proofs!TypeCorrect`, `ReconnectsExactly` | `Spec` implies `[]TypeOK`, `[]ResumesExactly` |
| `EventStream_proofs!ShowsTheTruth` | without `stale_answer` and `late_cancel`, `Spec` implies `[]ShownIsTrue` |
| `Uploads_proofs!TypeCorrect`, `RecordsAreTrue`, `DataStaysInPlace` | `Spec` implies `[]TypeOK`, `[]RecordsKeepTheirWord`, `[]DataHasAPlace` |
| `Builder_proofs!HistoryIsALine` | `Spec` implies `UndoIsATimeline`: the editor implements `EditTimeline` |
| `Builder_proofs!TypeCorrect`, `GraphsAreClosed`, `ViewsAreShown`, `GraphsFit` | `Spec` implies `[]TypeOK`, `[]EdgesConnect`, `[]ViewIsShown`, `[]SubgraphsCoherent` |

An assumption on `Faults` is always one of the code's own exceptions: the sections
above name the disagreement behind each, and a passing run satisfies it. The hypotheses
on workflows (`Unnested`, `FramesStart`, `EdgesOfHosts`, `EdgesCarry`) are met by those of the run
`NodeData_faults`, which TLC checks (`HypothesesAssumption` in `MCNodeData`).

`RunDispatch`. The inductive invariant `IndInv` adds to `TypeOK` and
`RollupCoherent` three facts. `GivenUpRunEnded`: a request past its last attempt
belongs to a run that ended, because giving up fails its task and the rollup puts
failure first; without it the type of `attempts` is not inductive.
`LastNodeInRun`: an error without a task hits a node of its own run, so no other
run moves. `LateFrameBudget`: a live run has no late frame, and a frame being
sent is the first that could be late; every later request of the run is refused
by the check at the head of `_dispatch`. `OneRunPerStep` is the lemma behind the
rest: a step changes nodes of one live run only, and refreshes its rollup.

`JoinsWaitAndRunOnce` says nothing of the queue, the dispatcher, the frames, the
timers and the answers under way, each of which can start a task. `OnceInv` says that
together they hold one claim to a task: a request is active in one place (`OnePlace`:
queue, collected list, dispatcher, a dispatch under way), a task has one active request
(`OneRequest`), a dispatch is at one stage (`OneStage`); a task with a claim in a live
run is in motion (`ClaimedInMotion`); a counter is never below the number of dependencies
not done (`PendingCounts`). A claim keeps its task in motion, so its dependencies are
done (`JoinWaitsForAll`); a new claim is made only for a task that is not in motion and
whose counter is zero; a result uses its claim up, so each dependency is counted once.
Every excluded fault makes a second claim out of one. TLC checked `OnceInv` on a join
with 2 workers before it was proved. For `DoneForGood`, a task that is claimed has not
ended well, and without errors only a claim changes a node that has.

`NoTaskForgotten` is the other half: what is in motion has a claim. It is not inductive:
it lets an enqueued task lose its only place to another, and says nothing of what a
timer will find when it fires. `MemoryInv` adds to `OnceInv` that every task of a live
run is `Remembered`: it counts no more than what is undone (`CountsExactly`, so that with
`PendingCounts` a task that is not collected has something to wait for); a queued task
has its request on its way, waits, or is about to be collected (`QueuedKept`); a timed
dispatch is the one its task runs by (`TimedRuns`, so that a timeout resets the right
task and leaves its request with the coroutine); a running task has a dispatch timed or
owed (`RunningOwed`); and an acknowledged dispatch is owed an answer (`AckedOwed`), so
that it may leave the timers. Most steps only move things on (`MovesOn`): they change no
task of a run that stays live and keep its request and its dispatch somewhere. The proof
argues this for them at once (`MovingOnRemembers`), and task by task for the five that
do more: `MarkDispatched`, `AckTimeout`, `CollectReady`, `HandleResult`,
`HandleCancelled`. `AnsweringFaults` leaves out `worker_crash`, after which nobody
answers, and `worker_error`, which the scheduler may take for another task's and which
then leaves its own running. TLC checked `MemoryInv` on a join, with 2 faults and 2
workers and with 3 faults and 1 worker, before it was proved.

`WorkflowEngine`. The proofs follow the stages: each lemma says of one (`Enqueue`, `Open`,
`Release`, `Close`, `AfterReport`...) that from a record of the right shape it makes
another, and whether it can leave a failed node in a live graph (`Clean`). `ShapeInv`, the
inductive form of `TypeOK`, adds what types alone do not give: who waits is a middleware
that still runs, there is a node dispatched last whenever a worker may report an error,
and `CollectsInTime`, which bounds the collections due. `FailureSurfaces` is inductive
next to it because a handler fails nodes only where they are seen (`Seen`): in the top
level, where the rollup fails the run, or in the frame of the node it was called for,
which then closes and fails its container. A container in the frame of another breaks
the second half, for nobody looks at the outer frame (the finding of 2.2); hence
`Unnested`. The assumption on workflows (`WellFormed`) is that ids are unique, that a
middleware is in one chain, that of a host in its graph, and has no chain of its own, that
edges stay in their graph, and that containers nest like a tree: then those that open
together can be ordered as the recursion of `start_container_execution` pushes them.

`ChainsCoherent` speaks of executions and pending requests, but what keeps it are the
states of the nodes, the requests to dispatch and the frames, each of which can start
something inside a chain. `ChainInv` says, while no `next()` has timed out, that these
agree (`Told`): what is on its way or at work has a node that says so (`Claimed`), a node
has one execution, and whatever stirs inside a chain (`Astir`: running, or queued and not
blocked) has, all the way out, callers that wait; a request for `next()` under way
is for a target that is still, and a pending one for a target with one claim, a request,
an execution or a frame, made for that request. The stages of a handler are put together
with two relations. `Onward` says that from one graph state to the next nothing inside a
chain begins to stir, and that what is claimed stays claimed and for whom it was, but for
the nodes the stage ends; `Answered` says what the same step does to executions and
requests: only those whose targets ended are answered. `ToldOn` is the lemma that both
together keep `Told`. The one action that stirs a chain is `HandleNext`, and there the
caller waits by the guard. Without `FramesStart` a target that is a container could end
inside the step that opened it. The request of an adopted node (`blank`) is no claim: no
execution or frame ever comes of it, and when the dispatcher gets to it the run fails
(`Rejecting`). `ChainsCoherent` says besides that without late feedback there is no such
request, which is `FrameInv`: nothing is adopted then.

`WaiterInv` makes the second half of `ChainsCoherent` inductive: whoever waits has a request
under way or a pending one whose target is attended (`Waiters`), and any report but a success
is counted among the faults that have occurred (`Faulted`), so that the exceptions of 2.2 can
be read off `faults`. `FrameInv` is the inductive part of `StackCoherent`: nothing shadows a
node, and something in each frame has still to end, for `complete_frame_if_needed` is called
wherever the last of a frame may have ended. It needs `ChainInv`: a host inside a frame ends
after its chain, so that no middleware is left behind when the frame closes.

`DepInv` is the inductive form of `DependentsWait`. It says of the graphs (`Ordered`) that no
counter is below the number of dependencies that have not ended well, that what goes (is
enqueued, runs or has ended well) has none of those (`Counts`), and that a host ends well
with its outermost middleware (`HostsEnd`), so that who waits for the host waits for the
whole chain. A counter is counted down for a node just as that node ends well, once: then
it counts more than what is undone (`Spare`) until it is released. What undoes a success
is a second call of `next()`, which queues the inner part of the chain again; nobody depends
on a middleware there (`EdgesOfHosts`), and the host has not ended well while, as `ChainInv`
says, its outermost middleware still waits. After a timeout or a skip inside a chain it may
have.

`DataInv` is the inductive form of `DataCoherent`, in a live run without those faults that
break it. A node is `Firm` when it has ended well or rests in its chain, and an edge has
`GivenOn` what its source has when that is firm (a host, and whoever gives a parameter, only
when it has ended well). Then: results of a firm node are complete and of its last execution (`Fresh`), the slot of
an edge that was given on holds what its source has, and the slot of a host's edge that was
not is still as it was made (`Delivered`), an execution is the last one of its
node (`Numbered`), and what a request or an execution carries is what its node's slots hold
(`Loaded`), for the node is dispatched only when all it waits for has ended well and stays
so: that is `DepInv`. `ChainInv` says that nothing firm inside a chain runs again while
something that got its data works, `FrameInv` that a node is looked up in the frame it is in.
The stages of a handler are put together with `Solid`: between two of them no node but
those named comes to rest. `ResultFlows` is one equation over the states before and after
`HandleResult`; the proof takes it in the order of the code (`own`, `sent`, `shown`,
`ended`) and shows each map to give on just what `Delivered` asks of the graph it is for.

`WorkerStream`. `StreamInv` adds to `TypeOK` and `WindowOK` that only numbers that
were assigned are tracked, written and received (`SentOnly`), that a reader that
hands over has something to hand over, and `AcksTruthful`: acks sent and acks
about to be sent claim no more than was received, which stays true because the
window only grows (`RecordProps`). `HeldOnce`, which makes `DeliveredOnce` inductive:
what readers hold and what was handed over lies below the base of the window, in one
place only, or went past the window; `RecordProps` says that what `record()` returns was
above the base before. `OrderInv` adds the shape of a reconnect
(`ResumeFirst`: on a connection that is not bound nothing precedes
`control.resume`) and `HandedInOrder`: one reader at a time holds messages, and
they are exactly those between what was delivered and the base of the window. The
refinement follows step by step: a send is the abstract `Send`, `HandOver` the
abstract `Deliver`, all else stutters.

`SchedulerStream`. `CreditInv` adds to `CreditAccounted` the shape of the send state
(`CreditShape`) and `SendsOnce`: a sender waits in one place only, in the queue or
woken. Without it a release could wake two entries of one sender and count its
credit once. Any number of acks, late or repeated, with whatever bitmap, may come.
The type needs more, `ShapeInv`: how many numbers an epoch can have given out
(`Bounded`), and that the worker's window buffers only what was sent (`Buffered`); of
`record()` it needs `RecordKeeps`, the part of `RecordProps` about the window's shape.

`EventStream`. `DeliveryInv`: ids in the store are consecutive and end with the
counter, those on their way increase and are of this life of the scheduler; from this
follows that a client that presents its last id misses nothing and gets nothing twice.
`TruthInv` keeps two ids for each run, those of the last event that carried its record
and its node. Each event is owed (in the outbox or on its way) or has been got, and
after it was got all that is still to come of the run agrees with it, or is older and
followed by it. When nothing is owed, what is shown is what the scheduler has.

`Uploads`. A request is a sequence of writes, and a crash leaves any prefix of it.
`DiskOK` is the invariant of the disk, record by record; the lemmas show that each
state a request or a sweep goes through is `Sound`, not just the last one, so that a
crash anywhere in it is covered, and a request handled late as well. `TabsOK` says what a
tab knows of its session. `StoredOnce` holds because what was moved is not there to be
moved again: a session with data is not the source of a resource.

`Builder`. `IInv` says of every snapshot, the present one, those of the history and
the record stored, cached or being saved: all graphs are closed, the ids of subgraphs
are below the next one to be generated, the active graph is loaded and the selection
is inside it. The stored documents enter as an assumption (`DocumentsAssumption`):
they are closed to begin with. Theorem `Soundness` is its invariance. `FitInv` says that
containers and subgraphs of each of these fit together, relative to `flaws`, which
only grows, and that the list a save sends fits the root graph it is sent with;
`CountInv` bounds history and saves. The first attempt at this proof failed on the two
ways in which the list brings something back (4.3), and `SubgraphsCoherent` had to be
corrected: it had held in the run only because its documents were too simple. The
refinement of `EditTimeline` rests on what the operations do to the line of documents
(`UndoLine`, `RedoLine`, `EditLine`): every recorded operation takes the present
document for the past, everything else leaves document and history alone.

Only model-checked: `TypeOK` and `BindingCoherent` of `SessionBinding`, whose numbering follows from the order of the messages in both directions
of every connection at once; and the liveness properties, for liveness under fairness is out
of the prover's reach, as is induction over recursive data and anything about RECURSIVE
operators. Workflows with containers in containers are checked where `Unnested` is assumed
by a theorem only as far as the run `WorkflowEngine_nested` goes. `ImplementsOrderedDelivery`
outside `OrderlyFaults`, and `JoinsWaitAndRunOnce` outside `OnceOnlyFaults`, are not
claimed: the code breaks them. `NoTaskForgotten` outside `AnsweringFaults` is checked by
`RunDispatch_liveness` only: a late or lost ack, or a repeated result, leaves two claims
to a task, and the proof counts on one.

## 6. Not modelled, and why

- **Of the data of a run**: paths of more than one key, aliases of subgraphs, metadata,
  metrics and chunks, the value a `next()` is answered with.
- **Choice of a worker, package inventory, leases** of the worker's resources.
- **Client queues** (`worker/network/client.py`): counters with time-based guards that
  interact with nothing but the hand-over `SchedulerStream` ends with. What a dropped
  dispatch does to its run is what a worker that dies after its ack does.
- **Packages**: the scheduler's commands never carry the url an install needs, so
  installs cannot be started through the system as it is; what is left are file
  operations of one process.
- **Resources, grants, catalog, auth, audit, database, HTTP API**: request and response
  over a database; the store of resources is modelled with the uploads, the requests
  about runs with the event stream.
- **Dashboard pages, generated models (a third of the repository's code), node packages,
  scripts**: user interface, generated code and payloads.
- Of the connection: the two reporters of one error (connection.py:166), the length of a
  backoff; heartbeats and drain.

## 7. Plan

1. The result deltas that feedback sends to the dashboard, from `NodeData` to
   `EventStream`.
2. `ResourceLeases`, `TypeQueues`: the rest of the worker.
3. `RunLifecycle`, an abstract specification of a run, implemented by `RunDispatch` and
   by `WorkflowEngine`.
4. Theorems: `BindingCoherent` of `SessionBinding`; the order of hand-over in
   `SchedulerStream` from `RecordProps`.
