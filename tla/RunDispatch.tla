---------------------------- MODULE RunDispatch ----------------------------
(***************************************************************************)
(* The scheduler's dispatch control plane for runs of plain nodes:         *)
(* RunOrchestrator (dispatch/orchestrator.py), the run state it drives     *)
(* (services/run_state_service.py, engine/{lifecycle,updates,dispatch,     *)
(* frames}.py), the handlers that feed it (adapters/handlers.py) and the   *)
(* worker's dispatch handler on the far side of the wire.                  *)
(*                                                                         *)
(* The scheduler is one asyncio loop.  A coroutine runs undisturbed        *)
(* between awaits that suspend, so one action is the code between two such *)
(* awaits: transport.send / credit.acquire, asyncio.gather of the event    *)
(* emitters (always AFTER the state change), sleeps, and gather(waiter).   *)
(***************************************************************************)
EXTENDS Integers, Sequences, FiniteSets

CONSTANTS
  Run,            \* run ids
  Task,           \* the nodes of all runs (task_id = node_id)
  Worker,         \* registered workers that can run every task
  RunOf,          \* the run a task belongs to
  Deps,           \* the sources of a task's incoming edges
  InvalidTask,    \* tasks whose dispatch payload does not validate
  MaxAttempts,    \* RunOrchestrator(max_attempts)
  Outcomes,       \* result statuses the workers report
  Faults,         \* kinds of fault (or unlucky timing) that may happen
  MaxFaults,      \* bound on their number
  MaxRequests,    \* bound on DispatchRequest objects created
  MaxDispatches,  \* bound on dispatch envelopes built
  None

Final == {"succeeded", "failed", "cancelled", "skipped"}
Done  == {"succeeded", "skipped"}        \* results that release dependents
NodeStatus == {"queued", "running"} \cup Final
RunStatus  == {"queued", "running", "succeeded", "failed", "cancelled"}
FaultKinds == {"cancel", "no_worker", "send_fail", "broken_send", "lost_frame",
               "lost_ack", "slow_ack", "early_ack", "early_report",
               "worker_cancel", "worker_error", "worker_crash", "repeated_result"}

ASSUME ConstantsAssumption ==
  /\ IsFiniteSet(Task) /\ Worker # {}
  /\ RunOf \in [Task -> Run] /\ Run = {RunOf[t] : t \in Task}
  /\ Deps \in [Task -> SUBSET Task]
  /\ \A t \in Task : \A d \in Deps[t] : RunOf[d] = RunOf[t] /\ d # t
  /\ InvalidTask \subseteq Task
  /\ MaxAttempts \in Nat \ {0}
  /\ Outcomes \subseteq Final
  /\ Faults \subseteq FaultKinds
  /\ MaxFaults \in Nat /\ MaxRequests \in Nat /\ MaxDispatches \in Nat
  /\ None \notin Task /\ None \notin Nat

VARIABLES
  runStatus,    \* RunRecord.status
  lastNode,     \* RunRecord.node_id: the node dispatched last
  node,         \* NodeState of every task
  requests,     \* the DispatchRequest objects, by creation order (rid)
  queue,        \* RunOrchestrator._queue, a FIFO of rids
  runner,       \* where the single _runner coroutine is suspended
  pendingAcks,  \* _pending_acks / _ack_waiters: dispatch ids awaiting an ack
  acking,       \* register_ack calls suspended between pop and mark_acknowledged
  retrying,     \* _await_ack coroutines past their timeout
  handoff,      \* ready lists built by record_result, not enqueued yet
  collecting,   \* runs for which collect_ready_nodes is about to be called
  cancelling,   \* runs cancelled in the state service, queue not flushed yet
  dispatches,   \* dispatch envelopes built so far; a dispatch id indexes it
  frames,       \* dispatch frames on the wire
  acks,         \* control.ack frames on the wire
  executing,    \* dispatches running on a worker
  replies,      \* result and error frames on the wire
  faults,       \* faults so far
  lateFrames    \* history: dispatch frames written after the run was final

stateVars  == <<runStatus, lastNode, node>>
ackVars    == <<pendingAcks, acking, retrying>>
readyVars  == <<handoff, collecting, cancelling>>
wireVars   == <<frames, acks, executing, replies>>
vars == <<stateVars, requests, queue, runner, ackVars, readyVars, dispatches,
          wireVars, faults, lateFrames>>

---------------------------------------------------------------------------
(* The run record. *)

TasksOf(r)    == {t \in Task : RunOf[t] = r}
Dependents(t) == {u \in Task : t \in Deps[u]}
Live(r)       == runStatus[r] \notin Final

NewNode(t) == [status |-> "queued", enqueued |-> FALSE,
               pending |-> Cardinality(Deps[t]), pendingAck |-> FALSE,
               did |-> None]

Rollup(nodes, r) ==
  LET S == {nodes[t].status : t \in TasksOf(r)}
  IN  CASE "failed" \in S     -> "failed"
        [] S = {"queued"}        -> "queued"
        [] S = {"cancelled"}     -> "cancelled"
        [] S \subseteq Final \ {"failed"} /\ S # {"cancelled"} -> "succeeded"
        [] OTHER                 -> "running"

\* Mutant of Refresh: the rollup is taken before the change.
RefreshTooEarly(nodes, r) ==
  /\ node' = nodes
  /\ runStatus' = [runStatus EXCEPT ![r] = Rollup(node, r)]

\* Every change of a record ends with record.refresh_rollup().
Refresh(nodes, r) ==
  /\ node' = nodes
  /\ runStatus' = [runStatus EXCEPT ![r] = Rollup(nodes, r)]

\* Mutants of AutoDispatchable: one condition is dropped.
AutoDispatchableBeforeJoin(n) == n.status = "queued" /\ ~n.enqueued
AutoDispatchableAgain(n)      == n.pending = 0 /\ ~n.enqueued

AutoDispatchable(n) == n.status = "queued" /\ n.pending = 0 /\ ~n.enqueued

Dispatched(n, d) == [n EXCEPT !.status = "running", !.enqueued = FALSE,
                              !.pendingAck = TRUE, !.did = d]

AckTimedOut(n) == [n EXCEPT !.status = "queued", !.enqueued = TRUE,
                            !.pendingAck = FALSE, !.did = None]

WorkerCancelled(n) == [n EXCEPT !.status = "queued", !.enqueued = FALSE,
                                !.pending = 0, !.pendingAck = FALSE,
                                !.did = None]

CommandFailed(n) == [n EXCEPT !.status = "failed", !.enqueued = FALSE,
                              !.pendingAck = FALSE, !.did = None]

\* Mutant of RunCancelled: nodes that already ended are cancelled as well.
RunCancelledAll(n) == [n EXCEPT !.status = "cancelled", !.enqueued = FALSE,
                                !.pending = 0, !.pendingAck = FALSE, !.did = None]

RunCancelled(n) == IF n.status \in Final THEN n
                   ELSE [n EXCEPT !.status = "cancelled", !.enqueued = FALSE,
                                  !.pending = 0, !.pendingAck = FALSE,
                                  !.did = None]

\* apply_record_result leaves pending_ack and dispatch_id as they are.
Reported(n, st) == [n EXCEPT !.status = st, !.enqueued = FALSE]

\* Mutants of CountDown: the counter never moves, or moves below zero.
NoCountDown(n) == n
CountDownBelowZero(n) == IF n.status = "queued" THEN [n EXCEPT !.pending = @ - 1] ELSE n

\* release_dependents: only queued dependents count down.
CountDown(n) == IF n.status = "queued" /\ n.pending > 0
                THEN [n EXCEPT !.pending = @ - 1] ELSE n

Released(nodes, t) ==
  [u \in Task |-> IF u \in Dependents(t) THEN CountDown(nodes[u]) ELSE nodes[u]]

---------------------------------------------------------------------------
(* Ready lists: build_dispatch_request marks a node enqueued and makes a   *)
(* fresh DispatchRequest; the order is the order of the workflow's edges   *)
(* and nodes, here any order.                                              *)

Orderings(S) == {s \in [1..Cardinality(S) -> S] : \A x \in S : \E i \in DOMAIN s : s[i] = x}

\* The enumeration of a finite set of indices in order.
Increasing(I) == {f \in [1..Cardinality(I) -> I] : \A j, k \in DOMAIN f : j < k => f[j] < f[k]}

Enqueued(nodes, S) == [u \in Task |-> IF u \in S THEN [nodes[u] EXCEPT !.enqueued = TRUE]
                                                 ELSE nodes[u]]

NewRequests(s) == [i \in DOMAIN s |-> [task |-> s[i], attempts |-> 0]]
NewRids(s)     == [i \in DOMAIN s |-> Len(requests) + i]

TaskOfRequest(q)  == requests[q].task
TaskOfDispatch(d) == requests[dispatches[d].rid].task
RunOfRequest(q)   == RunOf[TaskOfRequest(q)]

Idle == [pc |-> "idle", rid |-> None, did |-> None]
At(pc, q, d) == [pc |-> pc, rid |-> q, did |-> d]

Fault(f) == f \in Faults /\ faults < MaxFaults /\ faults' = faults + 1
NoFault  == UNCHANGED faults

Init ==
  /\ runStatus = [r \in Run |-> "queued"]
  /\ lastNode = [r \in Run |-> None]
  /\ node = [t \in Task |-> NewNode(t)]
  /\ requests = <<>> /\ queue = <<>> /\ runner = Idle
  /\ pendingAcks = {} /\ acking = {} /\ retrying = {}
  /\ handoff = {}
  /\ collecting = Run        \* start_run: create_run is emitting its events
  /\ cancelling = {}
  /\ dispatches = <<>>
  /\ frames = {} /\ acks = {} /\ executing = {} /\ replies = {}
  /\ faults = 0
  /\ lateFrames = [r \in Run |-> 0]

---------------------------------------------------------------------------
(* Shared steps of the state service and the orchestrator. *)

\* Mutant of CommandError: errors of a final run are not ignored.
CommandErrorAlways(r, target) ==
  IF target = None THEN Refresh(node, r)
  ELSE Refresh([node EXCEPT ![target] = CommandFailed(@)], r)

\* apply_command_error; the service ignores errors of a final run.  With no
\* node to blame the final refresh_rollup undoes record.status = "failed".
CommandError(r, target) ==
  IF ~Live(r) THEN UNCHANGED <<node, runStatus>>
  ELSE IF target = None THEN Refresh(node, r)
  ELSE Refresh([node EXCEPT ![target] = CommandFailed(@)], r)

\* _handle_retry up to its sleep: a request of a live run counts one more
\* attempt; past MaxAttempts its task is failed instead.
RetriesLeft(q) == requests[q].attempts < MaxAttempts
WillRequeue(q) == Live(RunOfRequest(q)) /\ RetriesLeft(q)

HandleRetry(q) ==
  /\ requests' = IF Live(RunOfRequest(q)) THEN [requests EXCEPT ![q].attempts = @ + 1]
                                          ELSE requests
  /\ IF WillRequeue(q) THEN UNCHANGED <<node, runStatus>>
                       ELSE CommandError(RunOfRequest(q), TaskOfRequest(q))

\* RunOrchestrator.cancel_run: drop the run's queued requests and ack waiters.
Flush(r) ==
  /\ \E f \in Increasing({i \in DOMAIN queue : RunOfRequest(queue[i]) # r}) :
       queue' = [k \in DOMAIN f |-> queue[f[k]]]
  /\ pendingAcks' = {d \in pendingAcks : RunOf[TaskOfDispatch(d)] # r}

---------------------------------------------------------------------------
(* The dispatcher loop: _runner / _dispatch. *)

\* A request of a final run is dropped.
SkipFinal ==
  /\ runner.pc = "idle" /\ queue # <<>> /\ ~Live(RunOfRequest(Head(queue)))
  /\ queue' = Tail(queue)
  /\ UNCHANGED <<stateVars, requests, runner, ackVars, readyVars, dispatches,
                 wireVars, faults, lateFrames>>

\* Mutant of TakeRequest: requests of final runs are dispatched too.
TakeAnyRequest(q) ==
  /\ runner.pc = "idle" /\ queue # <<>> /\ q = Head(queue)
  /\ queue' = Tail(queue)
  /\ UNCHANGED <<lastNode, ackVars, readyVars, wireVars, lateFrames>>

TakeRequest(q) ==
  /\ runner.pc = "idle" /\ queue # <<>> /\ q = Head(queue) /\ Live(RunOfRequest(q))
  /\ queue' = Tail(queue)
  /\ UNCHANGED <<lastNode, ackVars, readyVars, wireVars, lateFrames>>

\* No worker is connected, registered and able to run the package.
NoWorker(q) ==
  /\ TakeRequest(q) /\ Fault("no_worker")
  /\ HandleRetry(q)
  /\ runner' = IF WillRequeue(q) THEN At("backoff", q, None) ELSE Idle
  /\ UNCHANGED dispatches

\* _build_payload raises: the task fails at once.
InvalidPayload(q) ==
  /\ TakeRequest(q) /\ TaskOfRequest(q) \in InvalidTask
  /\ CommandError(RunOfRequest(q), TaskOfRequest(q))
  /\ UNCHANGED <<requests, runner, dispatches, faults>>

\* A fresh dispatch id, a worker, and the send, which may wait for credit.
StartSend(q, w) ==
  /\ TakeRequest(q) /\ TaskOfRequest(q) \notin InvalidTask
  /\ Len(dispatches) < MaxDispatches
  /\ dispatches' = Append(dispatches, [rid |-> q, worker |-> w])
  /\ runner' = At("sending", q, Len(dispatches) + 1)
  /\ UNCHANGED <<node, runStatus, requests, faults>>

\* The frame is written to the transport; the coroutine waits for the drain.
Transmit ==
  /\ runner.pc = "sending"
  /\ frames' = frames \cup {runner.did}
  /\ runner' = [runner EXCEPT !.pc = "sent"]
  /\ LET r == RunOfRequest(runner.rid)
     IN  lateFrames' = [lateFrames EXCEPT ![r] = IF Live(r) THEN @ ELSE @ + 1]
  /\ UNCHANGED <<stateVars, requests, queue, ackVars, readyVars, dispatches,
                 acks, executing, replies, faults>>

\* send_envelope raises, before or after the frame left.
SendFails ==
  /\ \/ runner.pc = "sending" /\ Fault("send_fail")
     \/ runner.pc = "sent" /\ Fault("broken_send")
  /\ HandleRetry(runner.rid)
  /\ runner' = IF WillRequeue(runner.rid) THEN At("backoff", runner.rid, None) ELSE Idle
  /\ UNCHANGED <<lastNode, queue, ackVars, readyVars, dispatches, wireVars, lateFrames>>

BackoffOver ==
  /\ runner.pc = "backoff"
  /\ queue' = Append(queue, runner.rid)
  /\ runner' = Idle
  /\ UNCHANGED <<stateVars, requests, ackVars, readyVars, dispatches, wireVars,
                 faults, lateFrames>>

\* mark_dispatched, unless the run ended during the send; no check of the
\* node's own status.
MarkDispatched ==
  /\ runner.pc = "sent"
  /\ LET t == TaskOfRequest(runner.rid)
         r == RunOf[t]
     IN  IF Live(r)
         THEN /\ Refresh([node EXCEPT ![t] = Dispatched(@, runner.did)], r)
              /\ lastNode' = [lastNode EXCEPT ![r] = t]
              /\ runner' = IF runStatus'[r] \in Final THEN Idle
                           ELSE [runner EXCEPT !.pc = "marked"]
         ELSE runner' = Idle /\ UNCHANGED stateVars
  /\ UNCHANGED <<requests, queue, ackVars, readyVars, dispatches, wireVars,
                 faults, lateFrames>>

\* The node event is out: file the request under its dispatch id, start the
\* ack timer and forget earlier failed attempts.
RegisterWaiter ==
  /\ runner.pc = "marked"
  /\ pendingAcks' = pendingAcks \cup {runner.did}
  /\ requests' = [requests EXCEPT ![runner.rid].attempts = 0]
  /\ runner' = Idle
  /\ UNCHANGED <<stateVars, queue, acking, retrying, readyVars, dispatches,
                 wireVars, faults, lateFrames>>

---------------------------------------------------------------------------
(* Acks: register_ack and _await_ack. *)

\* An ack that overtakes RegisterWaiter finds no waiter and is lost; a network
\* round trip makes that unlikely, so it counts as a fault.
HandleAck(d) ==
  /\ d \in acks
  /\ IF runner.did = d THEN Fault("early_ack") ELSE NoFault
  /\ acks' = acks \ {d}
  /\ pendingAcks' = pendingAcks \ {d}
  /\ acking' = IF d \in pendingAcks THEN acking \cup {d} ELSE acking
  /\ UNCHANGED <<stateVars, requests, queue, runner, retrying, readyVars,
                 dispatches, frames, executing, replies, lateFrames>>

MarkAcknowledged(d) ==
  /\ d \in acking
  /\ acking' = acking \ {d}
  /\ LET t == TaskOfDispatch(d)
     IN  IF Live(RunOf[t]) /\ node[t].did = d
         THEN Refresh([node EXCEPT ![t].pendingAck = FALSE], RunOf[t])
         ELSE UNCHANGED <<node, runStatus>>
  /\ UNCHANGED <<lastNode, requests, queue, runner, pendingAcks, retrying,
                 readyVars, dispatches, wireVars, faults, lateFrames>>

\* The ack timer fires: the node goes back to queued if this dispatch is still
\* its current one, whatever its status.
AckTimeout(d) ==
  /\ d \in pendingAcks
  /\ IF d \in frames \cup acks THEN Fault("slow_ack") ELSE NoFault
  /\ pendingAcks' = pendingAcks \ {d}
  /\ retrying' = retrying \cup {[did |-> d, stage |-> "reset"]}
  /\ LET t == TaskOfDispatch(d)
         r == RunOf[t]
     IN  IF Live(r) /\ node[t].did = d
         THEN /\ Refresh([node EXCEPT ![t] = AckTimedOut(@)], r)
              /\ lastNode' = [lastNode EXCEPT ![r] = IF @ = t THEN None ELSE @]
         ELSE UNCHANGED stateVars
  /\ UNCHANGED <<requests, queue, runner, acking, readyVars, dispatches,
                 wireVars, lateFrames>>

RetryAfterTimeout(w) ==
  /\ w \in retrying /\ w.stage = "reset"
  /\ LET q == dispatches[w.did].rid
     IN  /\ HandleRetry(q)
         /\ retrying' = (retrying \ {w}) \cup
              (IF WillRequeue(q) THEN {[w EXCEPT !.stage = "backoff"]} ELSE {})
  /\ UNCHANGED <<lastNode, queue, runner, pendingAcks, acking, readyVars,
                 dispatches, wireVars, faults, lateFrames>>

RequeueAfterTimeout(w) ==
  /\ w \in retrying /\ w.stage = "backoff"
  /\ queue' = Append(queue, dispatches[w.did].rid)
  /\ retrying' = retrying \ {w}
  /\ UNCHANGED <<stateVars, requests, runner, pendingAcks, acking, readyVars,
                 dispatches, wireVars, faults, lateFrames>>

---------------------------------------------------------------------------
(* Ready lists: start_run, record_result and reset_after_worker_cancel. *)

\* collect_ready_nodes and, without suspending again, enqueue.
CollectReady(r) ==
  /\ r \in collecting
  /\ collecting' = collecting \ {r}
  /\ LET ready == {t \in TasksOf(r) : Live(r) /\ AutoDispatchable(node[t])}
     IN  /\ Len(requests) + Cardinality(ready) <= MaxRequests
         /\ node' = Enqueued(node, ready)
         /\ \E s \in Orderings(ready) :
              /\ requests' = requests \o NewRequests(s)
              /\ queue' = queue \o NewRids(s)
  /\ UNCHANGED <<runStatus, lastNode, runner, ackVars, handoff, cancelling,
                 dispatches, wireVars, faults, lateFrames>>

EnqueueReady(s) ==
  /\ s \in handoff
  /\ handoff' = handoff \ {s}
  /\ queue' = queue \o s
  /\ UNCHANGED <<stateVars, requests, runner, ackVars, collecting, cancelling,
                 dispatches, wireVars, faults, lateFrames>>

\* apply_record_result of a plain node: no check of the dispatch or of the
\* node's status; the dependents it frees form a ready list.
ApplyResult(t, st) ==
  LET reported == [node EXCEPT ![t] = Reported(@, st)]
      released == IF st \in Done THEN Released(reported, t) ELSE reported
      ready    == {u \in Dependents(t) : st \in Done /\ AutoDispatchable(released[u])}
  IN  /\ Len(requests) + Cardinality(ready) <= MaxRequests
      /\ Refresh(Enqueued(released, ready), RunOf[t])
      /\ \E s \in Orderings(ready) :
           /\ requests' = requests \o NewRequests(s)
           /\ handoff' = IF ready = {} THEN handoff ELSE handoff \cup {NewRids(s)}

\* A worker's frames arrive in order: its ack of a dispatch is handled before
\* what it reports of it.  A report on a task whose next dispatch is still
\* being sent counts, like an early ack, as a fault.
Sending(t) == runner.pc \in {"sent", "marked"} /\ TaskOfRequest(runner.rid) = t

Deliver(m, kind) ==
  /\ m \in replies /\ m.kind = kind /\ m.did \notin acks \cup acking
  /\ IF Sending(TaskOfDispatch(m.did)) THEN Fault("early_report") ELSE NoFault
  /\ UNCHANGED <<runner, ackVars, cancelling, dispatches, frames, acks,
                 executing, lateFrames>>

HandleResult(m) ==
  /\ Deliver(m, "result") /\ replies' = replies \ {m}
  /\ IF Live(RunOf[TaskOfDispatch(m.did)])
     THEN ApplyResult(TaskOfDispatch(m.did), m.status)
     ELSE UNCHANGED <<node, runStatus, requests, handoff>>
  /\ UNCHANGED <<lastNode, queue, collecting>>

\* E.RUNNER.CANCELLED: the node starts over.
HandleCancelled(m) ==
  /\ Deliver(m, "cancelled") /\ replies' = replies \ {m}
  /\ LET t == TaskOfDispatch(m.did)
     IN  IF Live(RunOf[t])
         THEN /\ Refresh([node EXCEPT ![t] = WorkerCancelled(@)], RunOf[t])
              /\ collecting' = collecting \cup {RunOf[t]}
         ELSE UNCHANGED <<node, runStatus, collecting>>
  /\ UNCHANGED <<lastNode, requests, queue, handoff>>

\* The worker tags its errors with the dispatch envelope's id, which is no
\* task id, so the error falls on the run's last dispatched node.
ErrorTarget(m) == lastNode[RunOf[TaskOfDispatch(m.did)]]

HandleError(m) ==
  /\ Deliver(m, "error") /\ replies' = replies \ {m}
  /\ CommandError(RunOf[TaskOfDispatch(m.did)], ErrorTarget(m))
  /\ UNCHANGED <<lastNode, requests, queue, handoff, collecting>>

---------------------------------------------------------------------------
(* Cancellation: facade.cancel_run. *)

CancelRun(r) ==
  /\ Live(r) /\ Fault("cancel")
  /\ node' = [t \in Task |-> IF RunOf[t] = r THEN RunCancelled(node[t]) ELSE node[t]]
  /\ runStatus' = [runStatus EXCEPT ![r] = "cancelled"]
  /\ cancelling' = cancelling \cup {r}
  /\ UNCHANGED <<lastNode, requests, queue, runner, ackVars, handoff, collecting,
                 dispatches, wireVars, lateFrames>>

FlushCancelled(r) ==
  /\ r \in cancelling
  /\ cancelling' = cancelling \ {r}
  /\ Flush(r)
  /\ UNCHANGED <<stateVars, requests, runner, acking, retrying, handoff,
                 collecting, dispatches, wireVars, faults, lateFrames>>

\* Cancelling a run that is already final only flushes.
CancelFinalRun(r) ==
  /\ ~Live(r) /\ Fault("cancel")
  /\ Flush(r)
  /\ UNCHANGED <<stateVars, requests, runner, acking, retrying, readyVars,
                 dispatches, wireVars, lateFrames>>

---------------------------------------------------------------------------
(* The workers: session layer ack, ConcurrencyGuard, DispatchHandler. *)

schedulerVars == <<stateVars, requests, queue, runner, ackVars, readyVars,
                   dispatches, lateFrames>>

\* Single flight per task on one worker; a rejected dispatch is acked too, and
\* the scheduler only logs the E.CMD.CONCURRENCY_VIOLATION it causes.
InFlight(d) == \E e \in executing : /\ TaskOfDispatch(e) = TaskOfDispatch(d)
                                    /\ dispatches[e].worker = dispatches[d].worker

WorkerReceive(d) ==
  /\ d \in frames
  /\ frames' = frames \ {d}
  /\ acks' = acks \cup {d}
  /\ executing' = IF InFlight(d) THEN executing ELSE executing \cup {d}
  /\ UNCHANGED <<schedulerVars, replies, faults>>

WorkerReports(d, kind, st) ==
  /\ d \in executing
  /\ executing' = executing \ {d}
  /\ replies' = replies \cup {[kind |-> kind, did |-> d, status |-> st, again |-> FALSE]}
  /\ UNCHANGED <<schedulerVars, frames, acks>>

WorkerFinishes(d, st)  == st \in Outcomes /\ WorkerReports(d, "result", st) /\ NoFault
WorkerInterrupted(d)   == WorkerReports(d, "cancelled", None) /\ Fault("worker_cancel")
WorkerFails(d)         == WorkerReports(d, "error", None) /\ Fault("worker_error")

\* A result whose ack is late is sent again; on a connection the scheduler has
\* not bound to the session yet no window filters the repetition out.
WorkerRepeats(m) ==
  /\ m \in replies /\ m.kind = "result" /\ ~m.again /\ Fault("repeated_result")
  /\ replies' = replies \cup {[m EXCEPT !.again = TRUE]}
  /\ UNCHANGED <<schedulerVars, frames, acks, executing>>

WorkerCrashes(w) ==
  /\ Fault("worker_crash")
  /\ executing' = {d \in executing : dispatches[d].worker # w}
  /\ executing' # executing
  /\ UNCHANGED <<schedulerVars, frames, acks, replies>>

\* The frames after a lost one get through because a fresh session follows the
\* loss; in a resumed one they would wait behind it (SchedulerStream).
LoseFrame(d) ==
  /\ d \in frames /\ Fault("lost_frame") /\ frames' = frames \ {d}
  /\ UNCHANGED <<schedulerVars, acks, executing, replies>>

LoseAck(d) ==
  /\ d \in acks /\ Fault("lost_ack") /\ acks' = acks \ {d}
  /\ UNCHANGED <<schedulerVars, frames, executing, replies>>

---------------------------------------------------------------------------

Rid == 1..MaxRequests
Did == 1..MaxDispatches

Dispatcher ==
  \/ SkipFinal
  \/ \E q \in Rid : NoWorker(q) \/ InvalidPayload(q)
  \/ \E q \in Rid, w \in Worker : StartSend(q, w)
  \/ Transmit \/ SendFails \/ BackoffOver \/ MarkDispatched \/ RegisterWaiter

AckHandling ==
  \/ \E d \in Did : HandleAck(d) \/ MarkAcknowledged(d) \/ AckTimeout(d)
  \/ \E w \in retrying : RetryAfterTimeout(w) \/ RequeueAfterTimeout(w)

ResultHandling ==
  \/ \E r \in Run : CollectReady(r)
  \/ \E s \in handoff : EnqueueReady(s)
  \/ \E m \in replies : HandleResult(m) \/ HandleCancelled(m) \/ HandleError(m)

Cancellation == \E r \in Run : CancelRun(r) \/ FlushCancelled(r) \/ CancelFinalRun(r)

Workers ==
  \/ \E d \in Did : \/ WorkerReceive(d) \/ WorkerInterrupted(d) \/ WorkerFails(d)
                    \/ LoseFrame(d) \/ LoseAck(d)
  \/ \E d \in Did, st \in Outcomes : WorkerFinishes(d, st)
  \/ \E m \in replies : WorkerRepeats(m)
  \/ \E w \in Worker : WorkerCrashes(w)

Next == Dispatcher \/ AckHandling \/ ResultHandling \/ Cancellation \/ Workers

Spec == Init /\ [][Next]_vars

\* The event loop runs every ready coroutine and timer, transports deliver what
\* they do not lose and handlers return; faults are never forced.
NonFault(A) == A /\ faults' = faults

FairSpec ==
  /\ Spec
  /\ WF_vars(NonFault(Dispatcher))
  /\ \A d \in Did : /\ WF_vars(NonFault(HandleAck(d))) /\ WF_vars(MarkAcknowledged(d))
                    /\ WF_vars(NonFault(AckTimeout(d))) /\ WF_vars(WorkerReceive(d))
                    /\ WF_vars(\E st \in Outcomes : WorkerFinishes(d, st))
                    /\ WF_vars(\E m \in replies : m.did = d /\ NonFault(HandleResult(m)))
                    /\ WF_vars(\E m \in replies : m.did = d /\ NonFault(HandleCancelled(m)))
                    /\ WF_vars(\E m \in replies : m.did = d /\ NonFault(HandleError(m)))
                    /\ WF_vars(\E w \in retrying : w.did = d /\ (RetryAfterTimeout(w)
                                                       \/ RequeueAfterTimeout(w)))
  /\ WF_vars(\E s \in handoff : EnqueueReady(s))
  /\ \A r \in Run : WF_vars(CollectReady(r)) /\ WF_vars(FlushCancelled(r))

---------------------------------------------------------------------------
(* What must hold. *)

NodeType == [status : NodeStatus, enqueued : BOOLEAN, pending : Nat,
             pendingAck : BOOLEAN, did : Nat \cup {None}]
RequestType == [task : Task, attempts : 0..(MaxAttempts + 1)]
DispatchType == [rid : 1..Len(requests), worker : Worker]
ReplyType ==
  [kind : {"result"}, did : 1..Len(dispatches), status : Final, again : BOOLEAN]
    \cup [kind : {"cancelled", "error"}, did : 1..Len(dispatches), status : {None},
          again : {FALSE}]

RecordTypes ==
  /\ runStatus \in [Run -> RunStatus]
  /\ lastNode \in [Run -> Task \cup {None}]
  /\ node \in [Task -> NodeType]

DispatcherTypes ==
  /\ requests \in Seq(RequestType)
  /\ queue \in Seq(1..Len(requests))
  /\ dispatches \in Seq(DispatchType)
  /\ handoff \subseteq Seq(1..Len(requests))
  /\ runner \in [pc : {"idle", "sending", "sent", "marked", "backoff"},
                 rid : Nat \cup {None}, did : Nat \cup {None}]
  /\ runner.pc # "idle" => runner.rid \in 1..Len(requests)
  /\ runner.pc \in {"sending", "sent", "marked"} => runner.did \in 1..Len(dispatches)

WireTypes ==
  /\ pendingAcks \subseteq 1..Len(dispatches) /\ acking \subseteq 1..Len(dispatches)
  /\ retrying \subseteq [did : 1..Len(dispatches), stage : {"reset", "backoff"}]
  /\ frames \subseteq 1..Len(dispatches) /\ acks \subseteq 1..Len(dispatches)
  /\ executing \subseteq 1..Len(dispatches)
  /\ replies \subseteq ReplyType

OtherTypes ==
  /\ collecting \subseteq Run /\ cancelling \subseteq Run
  /\ faults \in Nat
  /\ lateFrames \in [Run -> Nat]

\* Every variable keeps its shape: the record, the request objects and the
\* coroutine state only ever hold values the code can store there; a retried
\* request is given up after MaxAttempts.
TypeOK == RecordTypes /\ DispatcherTypes /\ WireTypes /\ OtherTypes

\* The status a run reports is the rollup of its nodes, except that a cancelled
\* run says so whatever its nodes had reached (models.py refresh_rollup and
\* every caller).
RollupCoherent ==
  \A r \in Run : runStatus[r] = Rollup(node, r) \/ runStatus[r] = "cancelled"

\* A run that reached a final status never changes again, nor does any of its
\* nodes: late results, acks, timeouts and errors are all refused by the
\* FINAL_STATUSES guards.
FinalRunFrozen ==
  [][\A r \in Run : ~Live(r) => /\ runStatus'[r] = runStatus[r]
                                /\ \A t \in TasksOf(r) : node'[t] = node[t]]_vars

\* After a run became final at most one more dispatch frame of it leaves: the
\* one the dispatcher was already sending.
AtMostOneLateFrame == \A r \in Run : lateFrames[r] <= 1

Holds(q) == \/ q \in {queue[i] : i \in DOMAIN queue}
            \/ \E s \in handoff : q \in {s[i] : i \in DOMAIN s}
            \/ runner.pc # "idle" /\ runner.rid = q
            \/ \E w \in retrying : dispatches[w.did].rid = q

OutstandingAtWorker(t) ==
  \/ \E d \in executing : TaskOfDispatch(d) = t
  \/ \E m \in replies : TaskOfDispatch(m.did) = t

\* No task of a live run is forgotten: a queued task waits for a dependency that
\* has not ended well yet, or
\* a request for it is somewhere on its way to the dispatcher; a running task
\* has an ack timer, or a worker still owes its report.
NoTaskForgotten ==
  \A t \in Task : Live(RunOf[t]) =>
    /\ node[t].status = "queued" =>
         \/ ~node[t].enqueued /\ node[t].pending > 0
              /\ \E u \in Deps[t] : node[u].status \notin Done
         \/ ~node[t].enqueued /\ RunOf[t] \in collecting
         \/ node[t].enqueued /\ \E q \in 1..Len(requests) : TaskOfRequest(q) = t /\ Holds(q)
    /\ node[t].status = "running" =>
         \/ node[t].pendingAck /\ (\/ node[t].did \in pendingAcks \cup acking
                                   \/ runner.pc = "marked" /\ runner.did = node[t].did)
         \/ OutstandingAtWorker(t)

\* A task is put in motion only when every dependency ended well.
JoinWaitsForAll ==
  \A t \in Task : Live(RunOf[t]) /\ (node[t].enqueued \/ node[t].status \in {"running"} \cup Done)
                  => \A u \in Deps[t] : node[u].status \in Done

\* A task runs on at most one worker at a time.
SingleExecution ==
  \A d, e \in executing : TaskOfDispatch(d) = TaskOfDispatch(e) => d = e

\* However the outcomes of the dependencies, retries and cancelled executions
\* interleave, a task starts after all it depends on and is not started twice.
JoinsWaitAndRunOnce == JoinWaitsForAll /\ SingleExecution

\* A node that ended well is never dispatched or queued again.
DoneStaysDone ==
  [][\A t \in Task : node[t].status \in Done => node'[t].status \in Done]_vars

\* An error a worker reports fails the task whose dispatch it executed, never
\* another one (worker-scheduler-architecture.md: errors carry the task id).
ErrorHitsItsTask ==
  [][\A m \in replies : m.kind = "error" /\ m \notin replies' =>
       \A t \in Task : node'[t].status = "failed" /\ node[t].status # "failed"
                        => t = TaskOfDispatch(m.did)]_vars

\* Every run ends, whatever its tasks report, provided the workers that took a
\* dispatch answer it.
RunsTerminate == \A r \in Run : <>(~Live(r))

---------------------------------------------------------------------------
(* The inductive invariant behind the theorems of RunDispatch_proofs.      *)

\* Only the failure that ends the run can follow the last attempt.
GivenUpRunEnded ==
  \A q \in 1..Len(requests) :
    requests[q].attempts > MaxAttempts => ~Live(RunOfRequest(q))

\* An error without a known task falls on a task of the run it names.
LastNodeInRun ==
  \A r \in Run : lastNode[r] # None => RunOf[lastNode[r]] = r

\* A live run has no late frame, and one being sent is the only one to come.
LateFrameBudget ==
  \A r \in Run :
    /\ Live(r) => lateFrames[r] = 0
    /\ runner.pc = "sending" /\ RunOfRequest(runner.rid) = r => lateFrames[r] = 0
    /\ lateFrames[r] <= 1

IndInv == TypeOK /\ GivenUpRunEnded /\ LastNodeInRun /\ RollupCoherent /\ LateFrameBudget

---------------------------------------------------------------------------
(* ... and behind those about joins and single executions: one claim to    *)
(* every task, as long as no dispatch that was delivered is sent again and *)
(* no result counts twice.                                                 *)

OnceOnlyFaults ==
  Faults \cap {"broken_send", "lost_ack", "slow_ack", "early_ack", "repeated_result"} = {}

\* Dispatches somebody still has to do something about.
SendingIds  == IF runner.pc \in {"sending", "sent", "marked"} THEN {runner.did} ELSE {}
AnsweredIds == {m.did : m \in replies}
UnderWay    == SendingIds \cup frames \cup executing \cup AnsweredIds \cup pendingAcks

\* Where the dispatcher finds a request, or what became of it.
QueueRids    == {queue[i] : i \in DOMAIN queue}
HandoffRids  == UNION {{s[i] : i \in DOMAIN s} : s \in handoff}
BackoffRids  == IF runner.pc = "backoff" THEN {runner.rid} ELSE {}
RetryRids    == {dispatches[w.did].rid : w \in retrying}
DispatchRids == {dispatches[d].rid : d \in UnderWay}
Active       == QueueRids \cup HandoffRids \cup BackoffRids \cup RetryRids \cup DispatchRids

\* A request is in one place, once.
OnePlace ==
  /\ \A i, j \in DOMAIN queue : queue[i] = queue[j] => i = j
  /\ \A r, s \in handoff : \A i \in DOMAIN r, j \in DOMAIN s : r[i] = s[j] => r = s /\ i = j
  /\ \A v, w \in retrying : dispatches[v.did].rid = dispatches[w.did].rid => v = w
  /\ \A d, e \in UnderWay : dispatches[d].rid = dispatches[e].rid => d = e
  /\ QueueRids \cap (HandoffRids \cup BackoffRids \cup RetryRids \cup DispatchRids) = {}
  /\ HandoffRids \cap (BackoffRids \cup RetryRids \cup DispatchRids) = {}
  /\ BackoffRids \cap (RetryRids \cup DispatchRids) = {} /\ RetryRids \cap DispatchRids = {}

OneRequest == \A p, q \in Active : TaskOfRequest(p) = TaskOfRequest(q) => p = q

\* A dispatch is on its way, executed or answered; what was received is not
\* timed out, for its ack is there.
OneStage ==
  /\ frames \cap (executing \cup AnsweredIds) = {} /\ executing \cap AnsweredIds = {}
  /\ \A m, n \in replies : m.did = n.did => m = n
  /\ runner.pc = "sending" => runner.did \notin frames \cup executing \cup AnsweredIds
  /\ \A d \in SendingIds : d \notin pendingAcks /\ dispatches[d].rid = runner.rid
  /\ (executing \cup AnsweredIds) \cap (SendingIds \cup pendingAcks) \subseteq acks

InMotion(n) == n.status = "running" \/ (n.status = "queued" /\ n.enqueued)

\* A task with a request is in motion, and counts no less than what it waits for.
ClaimedInMotion ==
  \A q \in Active : Live(RunOfRequest(q)) => InMotion(node[TaskOfRequest(q)])

Undone(t) == {u \in Deps[t] : node[u].status \notin Done}
PendingCounts ==
  \A t \in Task : Live(RunOf[t]) /\ node[t].status = "queued"
                    => Cardinality(Undone(t)) <= node[t].pending

OnceInv == /\ IndInv /\ OnePlace /\ OneRequest /\ OneStage
           /\ ClaimedInMotion /\ PendingCounts /\ JoinWaitsForAll

---------------------------------------------------------------------------
(* ... and behind the one that nothing is forgotten: what is in motion has *)
(* a claim, as long as a worker that took a dispatch answers it and does   *)
(* so with more than an error, which may be taken for another task's.      *)

AnsweringFaults == OnceOnlyFaults /\ Faults \cap {"worker_error", "worker_crash"} = {}

\* Dispatches that are timed, and those a worker owes or has given its answer.
TimedIds == pendingAcks \cup IF runner.pc = "marked" THEN {runner.did} ELSE {}
OwedIds  == executing \cup AnsweredIds

\* A task waits for no more than is undone.
CountsExactly(t) ==
  node[t].status \in {"queued", "running"} => node[t].pending <= Cardinality(Undone(t))

\* A task without a request waits for a dependency or is about to be collected,
\* and one marked enqueued has its request on the way to the dispatcher.
QueuedKept(t) ==
  node[t].status = "queued" =>
    IF node[t].enqueued THEN \E q \in 1..Len(requests) : TaskOfRequest(q) = t /\ Holds(q)
                        ELSE RunOf[t] \in collecting \/ Undone(t) # {}

\* What is timed is the dispatch its task runs by, and a running task has a
\* dispatch that is timed or owed an answer.
TimedRuns(t) ==
  \A d \in TimedIds : TaskOfDispatch(d) = t
                        => node[t].status = "running" /\ node[t].did = d /\ node[t].pendingAck
RunningOwed(t) ==
  node[t].status = "running" => \E d \in TimedIds \cup OwedIds : TaskOfDispatch(d) = t

Remembered(t) == CountsExactly(t) /\ QueuedKept(t) /\ TimedRuns(t) /\ RunningOwed(t)

\* An acknowledged dispatch is owed an answer, and is not timed any more.
AckedOwed == acks \cup acking \subseteq OwedIds /\ acking \cap (SendingIds \cup pendingAcks) = {}

CancelledEnded == \A r \in cancelling : ~Live(r)

MemoryInv == /\ OnceInv /\ \A t \in Task : Live(RunOf[t]) => Remembered(t)
             /\ AckedOwed /\ CancelledEnded

=============================================================================
