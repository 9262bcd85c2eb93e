---------------------------- MODULE WorkflowEngine ----------------------------
(* How one run of the scheduler walks its workflow: containers open frames   *)
(* of nodes of their own, and a host node runs only when the middlewares of  *)
(* its chain call next().  The module is core/biz/engine with the handlers   *)
(* that drive it; how a single dispatch reaches its worker, is acknowledged  *)
(* and is retried is the subject of RunDispatch, here it is one step.        *)
EXTENDS Naturals, Sequences, FiniteSets, SequencesExt

CONSTANTS Workflows,      \* records: nodes, graph, deps, chain, host, containers
          Root,           \* the name of the top-level graph
          None,
          MaxDispatches,  \* bound: dispatches of one node
          MaxCalls,       \* bound: next() calls of one execution
          Faults,         \* the kinds of fault allowed
          MaxFaults       \* bound: how many of them occur

Final == {"succeeded", "failed", "cancelled", "skipped"}
Good  == {"succeeded", "skipped"}

\* The orders in which the containers S may be opened: each before those in its
\* frame, and what opens with it before anything else.
Preorders(f, S) ==
  {o \in SetToSeqs(S) : \A i, j \in DOMAIN o : f.graph[o[j]] = o[i] =>
     i < j /\ \A l \in (i + 1)..j : f.graph[o[l]] \in {o[x] : x \in i..(l - 1)}}

\* What the scheduler accepts as a workflow: a chain is a list of nodes of the
\* host's graph, each of them in no other and without a chain of its own, an
\* edge stays in its graph, and containers nest like a tree.
WellFormed(f) ==
  /\ IsFiniteSet(f.nodes) /\ {Root, None} \cap f.nodes = {}
  /\ f.containers \subseteq f.nodes /\ f.graph \in [f.nodes -> f.containers \cup {Root}]
  /\ f.deps \in [f.nodes -> SUBSET f.nodes]
  /\ f.chain \in [f.nodes -> Seq(f.nodes)] /\ f.host \in [f.nodes -> f.nodes \cup {None}]
  /\ \A m \in f.nodes : f.host[m] # None =>
       /\ m \in ToSet(f.chain[f.host[m]]) /\ f.graph[m] = f.graph[f.host[m]]
       /\ f.chain[m] = <<>>
  /\ \A n \in f.nodes : IsInjective(f.chain[n]) /\ \A m \in ToSet(f.chain[n]) : f.host[m] = n
  /\ \A n \in f.nodes : \A d \in f.deps[n] : f.graph[d] = f.graph[n]
  /\ \A S \in SUBSET f.containers : Preorders(f, S) # {}

ASSUME WorkflowsAssumption == \A f \in Workflows : WellFormed(f)
ASSUME BoundsAssumption    == {MaxDispatches, MaxCalls, MaxFaults} \subseteq Nat

VARIABLES
  wf,           \* the workflow of the run
  node,         \* NodeState of every node; meaningful while its graph is live
  frames,       \* frame_stack; its elements are the active_frames, each named
                \* by its container
  adopted,      \* frame nodes whose state get_node recreated in the top level
  ready,        \* DispatchRequests on their way to the dispatcher
  blank,        \* adopted nodes whose DispatchRequest, without a type and a
                \* package, is on its way to the dispatcher
  execs,        \* executions at the workers, until their report is handled
  nexts,        \* biz.exec.next.request frames under way
  pendingNext,  \* _pending_next_requests: [req, target]
  runStatus,    \* record.status
  lastNode,     \* record.node_id
  dispatched,   \* how often each node was dispatched
  collecting,   \* coroutines about to call collect_ready_nodes
  late,         \* feedback that an execution left behind to be sent, see LeavesFeedback
  faults        \* the kinds of fault so far, each at most once
graphVars == <<node, frames, adopted, ready>>
vars == <<wf, node, frames, adopted, ready, blank, execs, nexts, pendingNext,
          runStatus, lastNode, dispatched, collecting, late, faults>>

---------------------------------------------------------------------------
(* The workflow.  Node ids are unique across its graphs. *)

Nodes    == wf.nodes
Graph(g) == {n \in Nodes : wf.graph[n] = g}
IsContainer(n) == n \in wf.containers

IsHost(n)       == wf.chain[n] # <<>>
HostOf(m)       == wf.host[m]          \* metadata: role, host_node_id
IsMiddleware(m) == wf.host[m] # None
ChainIndex(m)   == CHOOSE i \in DOMAIN wf.chain[HostOf(m)] : wf.chain[HostOf(m)][i] = m
Outermost(m)    == IsMiddleware(m) /\ ChainIndex(m) = 1

\* Mutant of NextTarget: the chain is never followed to its host.
NextTargetFirst(m) == wf.chain[HostOf(m)][1]

\* What middleware m's next() runs: the next middleware, at the end the host.
NextTarget(m) ==
  IF ChainIndex(m) < Len(wf.chain[HostOf(m)]) THEN wf.chain[HostOf(m)][ChainIndex(m) + 1]
                                              ELSE HostOf(m)

\* Mutant of DepsOf: the first middleware does not wait for its host's.
DepsOfEdges(n) == wf.deps[n]

\* The first middleware of a chain inherits the dependencies of its host.
DepsOf(n) == wf.deps[n] \cup (IF Outermost(n) THEN wf.deps[HostOf(n)] \ {n} ELSE {})

Dependents(n) == {u \in Nodes : n \in DepsOf(u)}

\* Mutant of NewNode: the chain does not hold its nodes back.
NewNodeUnblocked(n) ==
  [status |-> "queued", pending |-> Cardinality(DepsOf(n)), enqueued |-> FALSE, blocked |-> FALSE]

\* A host, and a middleware inside a chain, is blocked: chain_blocked.
NewNode(n) == [status |-> "queued", pending |-> Cardinality(DepsOf(n)), enqueued |-> FALSE,
               blocked |-> IsHost(n) \/ (IsMiddleware(n) /\ ~Outermost(n))]

---------------------------------------------------------------------------
(* The handlers change the graphs of the run in several stages.  A stage     *)
(* maps a record s of node, frames, adopted and ready to the next one.       *)

Graphs == [node |-> node, frames |-> frames, adopted |-> adopted, ready |-> ready]
Active(s, g)  == g = Root \/ g \in ToSet(s.frames)
Present(s, n) == n \in s.adopted \/ Active(s, wf.graph[n])
TopLevel(s)   == Graph(Root) \cup s.adopted

\* The roles that an adopted node, rebuilt from its id alone, has lost.
Hosting(s, n)  == IsHost(n) /\ n \notin s.adopted
Chained(s, n)  == IsMiddleware(n) /\ n \notin s.adopted

\* Mutant of Rollup: a failed node does not fail the run.
RollupIgnoresFailure(s) ==
  LET S == {s.node[n].status : n \in TopLevel(s)}
  IN  CASE S = {"queued"} -> "queued" [] S \subseteq Final \ {"failed"} -> "succeeded" [] OTHER -> "running"

\* refresh_rollup
Rollup(s) ==
  LET S == {s.node[n].status : n \in TopLevel(s)}
  IN  CASE "failed" \in S                              -> "failed"
        [] S = {"queued"}                              -> "queued"
        [] S = {"cancelled"}                           -> "cancelled"
        [] S \subseteq Final \ {"failed"} /\ S # {"cancelled"} -> "succeeded"
        [] OTHER                                       -> "running"

\* A node that nothing holds back.
Due(x) == x.status = "queued" /\ x.pending = 0 /\ ~x.enqueued /\ ~x.blocked

Request(n, r) == [node |-> n, for |-> r]

Update(s, S, Op(_)) == [s EXCEPT !.node = [n \in Nodes |-> IF n \in S THEN Op(n) ELSE @[n]]]

Set(s, n, x) == Update(s, {n}, LAMBDA m : x)

Enqueue(s, S, r) ==
  [Update(s, S, LAMBDA n : [s.node[n] EXCEPT !.enqueued = TRUE])
     EXCEPT !.ready = @ \cup {Request(n, r) : n \in S}]

\* What a new frame starts with.
Starts(g) == {n \in Graph(g) : Due(NewNode(n)) /\ ~IsHost(n)}

\* The containers of C and those that their frames open at once.
OpenedWith(C) ==
  {d \in wf.containers : \A S \in SUBSET wf.containers :
     C \subseteq S /\ (\A c \in S : Starts(c) \cap wf.containers \subseteq S) => d \in S}

\* start_container_execution: fresh frames, with what they start enqueued.
Open(s, C) ==
  LET opened == CHOOSE o \in Preorders(wf, OpenedWith(C)) : TRUE
      inside == UNION {Graph(c) : c \in ToSet(opened)}
      new    == Update(s, inside, NewNode)
      opens  == Update(new, ToSet(opened),
                       LAMBDA n : [new.node[n] EXCEPT !.status = "running", !.enqueued = TRUE])
  IN  IF C = {} THEN s
      ELSE Enqueue([opens EXCEPT !.frames = @ \o opened],
                   (UNION {Starts(c) : c \in ToSet(opened)}) \ wf.containers, None)

\* Start what is due: containers open their frames, others are dispatched.
Start(s, S) == Enqueue(Open(s, S \cap wf.containers), S \ wf.containers, None)

\* Mutant of CountDown: the count is not checked.
CountDownAlways(x) == IF x.status = "queued" THEN [x EXCEPT !.pending = @ - 1] ELSE x

CountDown(x) == IF x.status = "queued" /\ x.pending > 0 THEN [x EXCEPT !.pending = @ - 1] ELSE x
CountedDown(s, n) == Update(s, Dependents(n), LAMBDA u : CountDown(s.node[u]))

\* release_dependents
Release(s, n) ==
  LET c == CountedDown(s, n) IN Start(c, {u \in Dependents(n) : Due(c.node[u])})

\* collect_ready_for_record and _for_frame
CollectFrom(s, g) == Start(s, {n \in Graph(g) : Due(s.node[n]) /\ ~IsHost(n)})

---------------------------------------------------------------------------
(* complete_frame_if_needed *)

FrameFailed(s, g) == \E n \in Graph(g) : s.node[n].status = "failed"
FrameOver(s, g)   == FrameFailed(s, g) \/ \A n \in Graph(g) : s.node[n].status \in Final

\* The nodes a failed frame leaves are cancelled.
Swept(s, g) ==
  Update(s, {n \in Graph(g) : s.node[n].status \notin Final},
         LAMBDA n : [s.node[n] EXCEPT !.status = "cancelled", !.enqueued = FALSE])

\* Mutant of Popped: the frame stays on the stack.
NotPopped(s, g) == s

Popped(s, g) ==
  [s EXCEPT !.frames = IF g \in ToSet(@) THEN RemoveAt(@, CHOOSE i \in DOMAIN @ : @[i] = g) ELSE @]

\* A container that hosts a chain waits for its outermost middleware.
ContainerEnd(s, g) ==
  IF FrameFailed(s, g) THEN [s.node[g] EXCEPT !.status = "failed", !.enqueued = FALSE]
  ELSE IF IsHost(g) THEN [status |-> "queued", pending |-> 0, enqueued |-> FALSE, blocked |-> TRUE]
  ELSE [s.node[g] EXCEPT !.status = "succeeded", !.enqueued = FALSE]

\* A container's dependents follow also when it failed, and a container
\* among them is sent to a worker.
Close(s, g) ==
  LET swept == IF FrameFailed(s, g) THEN Swept(s, g) ELSE s
      ended == Popped(Set(swept, g, ContainerEnd(s, g)), g)
      next  == CountedDown(ended, g)
  IN  IF ~Active(s, wf.graph[g]) THEN Popped(swept, g)
      ELSE IF IsHost(g) THEN ended
      ELSE Enqueue(next, {u \in Dependents(g) : Due(next.node[u]) /\ ~IsHost(u)}, None)

\* A frame is looked at when one of its nodes has ended.
Closes(s, n) == n \notin s.adopted /\ wf.graph[n] # Root /\ FrameOver(s, wf.graph[n])
CloseAfter(s, n) == IF Closes(s, n) THEN Close(s, wf.graph[n]) ELSE s
ClosedWith(s, n) == IF Closes(s, n) /\ Active(s, wf.graph[wf.graph[n]]) THEN {wf.graph[n]} ELSE {}

---------------------------------------------------------------------------
(* apply_record_result *)

\* A host goes back to its chain, also when it failed.
Reported(s, n, st) ==
  IF Hosting(s, n)
  THEN [status |-> IF st = "skipped" THEN st ELSE "queued",
        pending |-> 0, enqueued |-> FALSE, blocked |-> TRUE]
  ELSE IF Chained(s, n)
  THEN [status |-> st, pending |-> IF st \in Good THEN 0 ELSE s.node[n].pending,
        enqueued |-> FALSE, blocked |-> st \notin Good]
  ELSE [s.node[n] EXCEPT !.status = st, !.enqueued = FALSE]

\* The outermost middleware, or one that skips, ends its host.
EndsHost(s, n, st) ==
  Chained(s, n) /\ (st = "skipped" \/ Outermost(n)) /\ s.node[HostOf(n)].status \notin Final

EndHost(s, n, st) ==
  LET ended == Set(s, HostOf(n), [status |-> st, pending |-> 0, enqueued |-> FALSE, blocked |-> FALSE])
  IN  IF st \in Good THEN Release(ended, HostOf(n)) ELSE ended

AfterReport(s, n, st) ==
  LET own  == Set(s, n, Reported(s, n, st))
      next == IF st \in Good /\ ~Hosting(s, n) /\ n \notin s.adopted THEN Release(own, n) ELSE own
  IN  IF EndsHost(s, n, st) THEN EndHost(next, n, st) ELSE next

\* get_node: a node that no live graph holds comes back in the top level.
Found(s, n) ==
  IF Present(s, n) THEN s
  ELSE [Set(s, n, [status |-> "queued", pending |-> 0, enqueued |-> FALSE, blocked |-> FALSE])
        EXCEPT !.adopted = @ \cup {n}]

---------------------------------------------------------------------------
Fault(f) == /\ f \in Faults \ faults /\ Cardinality(faults) < MaxFaults
            /\ faults' = faults \cup {f}
NoFault  == UNCHANGED faults
Without(F) == faults \cap F = {}
Live     == runStatus \notin Final

Install(s) ==
  /\ node' = s.node /\ frames' = s.frames /\ adopted' = s.adopted /\ ready' = s.ready

InstallAndRefresh(s) == \E t \in {s} : Install(t) /\ runStatus' = Rollup(t)

\* An answer ends the wait of the execution that asked for it.
Call(e)        == [node |-> e.node, no |-> e.no, call |-> e.calls]
Waits(e, S)    == e.waits /\ Call(e) \in S
\* Mutant of Answer: nobody is told.
AnswerNobody(E, S) == E

Answer(E, S)   == {IF Waits(e, S) THEN [e EXCEPT !.waits = FALSE] ELSE e : e \in E}
AskedFor(T)    == {p \in pendingNext : p.target \in T}
Reqs(P)        == {p.req : p \in P}

Init ==
  /\ wf \in Workflows
  /\ node = [n \in Nodes |-> NewNode(n)]
  /\ frames = <<>> /\ adopted = {} /\ ready = {} /\ blank = {}
  /\ execs = {} /\ nexts = {} /\ pendingNext = {}
  /\ runStatus = "queued" /\ lastNode = None
  /\ dispatched = [n \in Nodes |-> 0]
  /\ collecting = 1           \* start_run
  /\ late = {}
  /\ faults = {}

\* collect_ready_nodes: the frame on top of the stack, else the top level with
\* the nodes adopted there, which nothing holds back any more.
CollectReady ==
  /\ collecting > 0
  /\ collecting' = collecting - 1
  /\ IF Live THEN Install(CollectFrom(Graphs, IF frames = <<>> THEN Root ELSE Last(frames)))
             ELSE UNCHANGED graphVars
  /\ blank' = IF Live /\ frames = <<>> THEN blank \cup {n \in adopted : Due(node[n])} ELSE blank
  /\ UNCHANGED <<wf, execs, nexts, pendingNext, runStatus, lastNode, dispatched, late, faults>>

---------------------------------------------------------------------------
(* Dispatching and the workers. *)

\* The dispatcher drops a request of a run that is over.
DropRequest(q) ==
  /\ q \in ready /\ ~Live
  /\ ready' = ready \ {q}
  /\ UNCHANGED <<wf, node, frames, adopted, blank, execs, nexts, pendingNext, runStatus,
                 lastNode, dispatched, collecting, late, faults>>

\* A dispatch that is sent: mark_dispatched.
Sent(q) ==
  /\ q \in ready /\ Live /\ dispatched[q.node] < MaxDispatches
  /\ LET s == Found([Graphs EXCEPT !.ready = @ \ {q}], q.node)
     IN  InstallAndRefresh(Set(s, q.node, [s.node[q.node] EXCEPT !.status = "running",
                                                                 !.enqueued = FALSE]))
  /\ lastNode' = q.node
  /\ dispatched' = [dispatched EXCEPT ![q.node] = @ + 1]
  /\ UNCHANGED <<wf, blank, nexts, pendingNext, collecting, late, faults>>

Dispatch(q) ==
  /\ Sent(q)
  /\ execs' = execs \cup {[node |-> q.node, no |-> dispatched[q.node] + 1, for |-> q.for,
                           calls |-> 0, waits |-> FALSE, report |-> "none"]}

\* The worker still runs this task: it refuses, and the scheduler ignores
\* the refusal.
Refused(q) ==
  /\ Sent(q)
  /\ \E e \in execs : e.node = q.node /\ e.report = "none"
  /\ UNCHANGED execs

\* The request for an adopted node makes no payload: the run fails, or was over.
RejectBlank(n) ==
  /\ n \in blank /\ blank' = blank \ {n}
  /\ IF Live
     THEN InstallAndRefresh(Set(Graphs, n, [node[n] EXCEPT !.status = "failed", !.enqueued = FALSE]))
     ELSE UNCHANGED <<graphVars, runStatus>>
  /\ UNCHANGED <<wf, execs, nexts, pendingNext, lastNode, dispatched, collecting, late, faults>>

Busy(e) == e \in execs /\ ~e.waits /\ e.report = "none"
Becomes(e, x) == execs' = (execs \ {e}) \cup {x}
WorkerOnly == UNCHANGED <<wf, graphVars, blank, pendingNext, runStatus, lastNode, dispatched,
                          collecting, late>>

\* Bound: next() is called again only while all it would run may be dispatched.
Inner(m) == {n \in Nodes : n = HostOf(m) \/ (HostOf(n) = HostOf(m) /\ ChainIndex(n) > ChainIndex(m))}

\* ctx.next(): NextHandler.middleware_next
CallsNext(e) ==
  /\ Busy(e) /\ IsMiddleware(e.node)
  /\ e.calls < MaxCalls /\ dispatched[NextTarget(e.node)] < MaxDispatches
  /\ e.calls > 0 => \A n \in Inner(e.node) : dispatched[n] < MaxDispatches
  /\ LET x == [e EXCEPT !.calls = @ + 1, !.waits = TRUE]
     IN  Becomes(e, x) /\ nexts' = nexts \cup {Call(x)}
  /\ NoFault /\ WorkerOnly

\* The wait for an answer times out at the worker.
GivesUp(e) ==
  /\ e \in execs /\ e.waits /\ Fault("timeout")
  /\ Becomes(e, [e EXCEPT !.waits = FALSE])
  /\ UNCHANGED nexts /\ WorkerOnly

\* The adapter returns.  Anything but success is in Faults, and so is a
\* middleware that succeeds without having called next().
Reports(e, st) ==
  /\ Busy(e)
  /\ \/ st = "succeeded" /\ (IsMiddleware(e.node) => e.calls > 0) /\ NoFault
     \/ st = "succeeded" /\ IsMiddleware(e.node) /\ e.calls = 0 /\ Fault("short_circuit")
     \/ st \in {"skipped", "failed", "interrupted", "error"} /\ Fault(st)
  /\ Becomes(e, [e EXCEPT !.report = st])
  /\ UNCHANGED nexts /\ WorkerOnly

---------------------------------------------------------------------------
(* The scheduler's handlers.  A worker's frames arrive in order: what an     *)
(* execution asked for is read before its report.                            *)

Handled(e) ==
  /\ e \in execs
  /\ \A r \in nexts : ~(r.node = e.node /\ r.no = e.no)
  /\ UNCHANGED <<wf, blank, nexts, lastNode, dispatched, late, faults>>

HandleResult(e) ==
  /\ Handled(e) /\ e.report \in Good \cup {"failed"}
  /\ UNCHANGED collecting
  /\ IF ~Live
     THEN execs' = execs \ {e} /\ UNCHANGED <<graphVars, runStatus, pendingNext>>
     ELSE LET s    == AfterReport(Found(Graphs, e.node), e.node, e.report)
              over == AskedFor({e.node} \cup ClosedWith(s, e.node))
          IN  /\ InstallAndRefresh(CloseAfter(s, e.node))
              /\ pendingNext' = pendingNext \ over
              /\ execs' = Answer(execs \ {e}, Reqs(over))

\* E.RUNNER.CANCELLED: reset_after_worker_cancel, then collect_ready_nodes.
\* Who waits for the node is forgotten, not answered.
HandleInterrupted(e) ==
  /\ Handled(e) /\ e.report = "interrupted"
  /\ execs' = execs \ {e}
  /\ collecting' = collecting + 1
  /\ IF ~Live \/ ~Present(Graphs, e.node)
     THEN UNCHANGED <<graphVars, runStatus, pendingNext>>
     ELSE /\ InstallAndRefresh(Set(Graphs, e.node, [status |-> "queued", pending |-> 0,
                                                    enqueued |-> FALSE, blocked |-> FALSE]))
          /\ pendingNext' = pendingNext \ AskedFor({e.node})

\* Any other error: apply_command_error blames the node dispatched last, and
\* drops the answers that closing its frame produces.
HandleError(e) ==
  /\ Handled(e) /\ e.report = "error"
  /\ execs' = execs \ {e}
  /\ UNCHANGED collecting
  /\ IF ~Live \/ ~Present(Graphs, lastNode)
     THEN UNCHANGED <<graphVars, runStatus, pendingNext>>
     ELSE LET s == Set(Graphs, lastNode, [node[lastNode] EXCEPT !.status = "failed",
                                                               !.enqueued = FALSE])
          IN  /\ InstallAndRefresh(CloseAfter(s, lastNode))
              /\ pendingNext' = pendingNext \ AskedFor(ClosedWith(s, lastNode))

\* Mutant of NextReady: also when the run is over.
NextReadyEvenOver(r) ==
  LET t == NextTarget(r.node)
  IN  Present(Graphs, t) /\ t \notin ToSet(frames) /\ ~node[t].enqueued /\ node[t].pending = 0

\* handle_next_request: may this request start its target?
NextReady(r) ==
  LET t == NextTarget(r.node)
  IN  /\ Live /\ Present(Graphs, HostOf(r.node)) /\ HostOf(r.node) \notin adopted
      /\ Present(Graphs, t)
      /\ t \notin ToSet(frames)
      /\ ~node[t].enqueued /\ node[t].pending = 0

Requeued(x) ==
  [x EXCEPT !.status = IF @ \in Final \cup {"running"} THEN "queued" ELSE @,
            !.enqueued = FALSE, !.blocked = FALSE]

TakesNext(r) ==
  /\ r \in nexts /\ nexts' = nexts \ {r}
  /\ UNCHANGED <<wf, blank, lastNode, dispatched, collecting, late, faults, runStatus>>

\* A refused request is answered at once.
RefuseNext(r) ==
  /\ TakesNext(r) /\ ~NextReady(r)
  /\ execs' = Answer(execs, {r})
  /\ UNCHANGED <<graphVars, pendingNext>>

\* A container target opens its frame; when that starts nothing the request
\* is answered next_unavailable, though it stays pending.
HandleNext(r) ==
  /\ TakesNext(r) /\ NextReady(r)
  /\ LET t == NextTarget(r.node)
         q == Set(Graphs, t, Requeued(node[t]))
         s == IF IsContainer(t) THEN Open(q, {t}) ELSE Enqueue(q, {t}, r)
     IN  /\ Install(s)
         /\ pendingNext' = pendingNext \cup {[req |-> r, target |-> t]}
         /\ execs' = IF s.ready = ready THEN Answer(execs, {r}) ELSE execs

\* collect_expired_next_requests: the deadline passes at the scheduler.
ExpireNext(p) ==
  /\ p \in pendingNext /\ Fault("timeout")
  /\ pendingNext' = pendingNext \ {p}
  /\ execs' = Answer(execs, {p.req})
  /\ UNCHANGED <<wf, graphVars, blank, nexts, runStatus, lastNode, dispatched, collecting, late>>

\* cancel_run, with the queue flushed and the waiting middlewares told.
CancelRun ==
  /\ Live /\ Fault("cancel")
  /\ node' = [n \in Nodes |->
               IF Present(Graphs, n) /\ node[n].status \notin Final
               THEN [node[n] EXCEPT !.status = "cancelled", !.enqueued = FALSE, !.pending = 0]
               ELSE node[n]]
  /\ frames' = <<>> /\ ready' = {} /\ blank' = {} /\ runStatus' = "cancelled"
  /\ pendingNext' = {}
  /\ execs' = Answer(execs, Reqs(pendingNext))
  /\ UNCHANGED <<wf, adopted, nexts, lastNode, dispatched, collecting, late>>

---------------------------------------------------------------------------
(* Feedback is taken at any time, also of a run that is over, and a node    *)
(* that no live graph holds comes back in the top level.                    *)

ApplyFeedback(n) ==
  /\ Install(Found(Graphs, n))
  /\ UNCHANGED <<wf, blank, nexts, execs, pendingNext, runStatus, lastNode, dispatched, collecting>>

\* What an adapter awaits is handled before its report.
Feedback(e) ==
  /\ Busy(e) /\ Fault("feedback")
  /\ ApplyFeedback(e.node) /\ UNCHANGED late

\* send_nowait leaves it to a task of its own, which an adapter that runs on the
\* worker's loop does not give way to before its result is sent.
LeavesFeedback(e) ==
  /\ Busy(e) /\ Fault("late_feedback")
  /\ late' = late \cup {[node |-> e.node, no |-> e.no]}
  /\ UNCHANGED <<wf, graphVars, blank, nexts, execs, pendingNext, runStatus, lastNode, dispatched,
                 collecting>>

LateFeedback(f) ==
  /\ f \in late /\ late' = late \ {f}
  /\ ApplyFeedback(f.node) /\ NoFault

Next ==
  \/ CollectReady
  \/ \E q \in ready : DropRequest(q) \/ Dispatch(q) \/ Refused(q)
  \/ \E n \in blank : RejectBlank(n)
  \/ \E e \in execs :
       \/ CallsNext(e) \/ GivesUp(e)
       \/ \E st \in Good \cup {"failed", "interrupted", "error"} : Reports(e, st)
       \/ HandleResult(e) \/ HandleInterrupted(e) \/ HandleError(e)
       \/ Feedback(e) \/ LeavesFeedback(e)
  \/ \E f \in late : LateFeedback(f)
  \/ \E r \in nexts : RefuseNext(r) \/ HandleNext(r)
  \/ \E p \in pendingNext : ExpireNext(p)
  \/ CancelRun

Spec == Init /\ [][Next]_vars

\* The loops of scheduler and workers go on: a middleware calls next() before it
\* returns, adapters return, requests are dispatched, handlers run.
Progress ==
  \/ \E e \in execs : (e.calls = 0 /\ CallsNext(e)) \/ Reports(e, "succeeded")
  \/ \E q \in ready : DropRequest(q) \/ Dispatch(q)
  \/ \E n \in blank : RejectBlank(n)
  \/ \E r \in nexts : RefuseNext(r) \/ HandleNext(r)
  \/ CollectReady
  \/ \E e \in execs : HandleResult(e) \/ HandleError(e) \/ HandleInterrupted(e)
  \/ \E f \in late : LateFeedback(f)

FairSpec == Spec /\ WF_vars(Progress)

---------------------------------------------------------------------------
(* Properties. *)

\* Every variable keeps its shape: counters of dependencies stay between zero
\* and the number of dependencies, and what is under way names real nodes.
TypeOK ==
  /\ wf \in Workflows
  /\ \A n \in Nodes :
       /\ node[n].status \in Final \cup {"queued", "running"}
       /\ node[n].pending \in 0..Cardinality(DepsOf(n))
       /\ {node[n].enqueued, node[n].blocked} \subseteq BOOLEAN
  /\ ToSet(frames) \subseteq wf.containers /\ adopted \subseteq Nodes \ Graph(Root)
  /\ blank \subseteq adopted
  /\ \A q \in ready : q.node \in Nodes
  /\ \A e \in execs : e.node \in Nodes /\ e.no \in 1..MaxDispatches /\ e.calls \in 0..MaxCalls
  /\ \A p \in pendingNext : p.target = NextTarget(p.req.node)
  /\ runStatus \in Final \cup {"queued", "running"}
  /\ lastNode \in Nodes \cup {None}
  /\ dispatched \in [Nodes -> 0..MaxDispatches]
  /\ collecting \in 0..2 /\ faults \subseteq Faults
  /\ \A f \in late : f.node \in Nodes /\ f.no \in 1..MaxDispatches

NodeStates(n) ==
  [status : Final \cup {"queued", "running"}, pending : 0..Cardinality(DepsOf(n)),
   enqueued : BOOLEAN, blocked : BOOLEAN]

Calls == [node : {m \in Nodes : IsMiddleware(m)}, no : 1..MaxDispatches, call : 1..MaxCalls]

Execs == [node : Nodes, no : 1..MaxDispatches, for : Calls \cup {None}, calls : 0..MaxCalls,
          waits : BOOLEAN, report : Good \cup {"none", "failed", "interrupted", "error"}]

\* A worker cancels at most one execution: it is under way, or its collection is.
CollectsInTime ==
  /\ collecting \in 0..2
  /\ "interrupted" \notin faults => collecting <= 1
  /\ \A e \in execs : e.report = "interrupted" =>
       /\ "interrupted" \in faults /\ collecting <= 1
       /\ \A x \in execs : x.report = "interrupted" => x = e

\* The inductive form of TypeOK.
ShapeInv ==
  /\ wf \in Workflows
  /\ DOMAIN node = Nodes /\ \A n \in Nodes : node[n] \in NodeStates(n)
  /\ frames \in Seq(wf.containers) /\ adopted \subseteq Nodes \ Graph(Root)
  /\ blank \subseteq adopted
  /\ ready \subseteq [node : Nodes, for : Calls \cup {None}]
  /\ execs \subseteq Execs /\ nexts \subseteq Calls
  /\ \A e \in execs : e.waits => IsMiddleware(e.node) /\ e.report = "none"
  /\ pendingNext \subseteq {[req |-> r, target |-> NextTarget(r.node)] : r \in Calls}
  /\ runStatus \in Final \cup {"queued", "running"}
  /\ lastNode \in Nodes \cup {None} /\ (execs # {} => lastNode \in Nodes)
  /\ dispatched \in [Nodes -> 0..MaxDispatches]
  /\ faults \subseteq Faults /\ CollectsInTime
  /\ late \subseteq [node : Nodes, no : 1..MaxDispatches]

\* Each frame is on the stack once, above its parent, its container is running,
\* and something in it has still to end.  A next() that times out lets a
\* container's chain end before its frame, and late feedback may shadow a node.
StackCoherent ==
  Live /\ Without({"timeout", "late_feedback"}) => \A i \in DOMAIN frames :
            /\ \A j \in DOMAIN frames : frames[j] = frames[i] => j = i
            /\ \/ wf.graph[frames[i]] = Root
               \/ \E j \in 1..(i - 1) : frames[j] = wf.graph[frames[i]]
            /\ node[frames[i]].status = "running"
            /\ ~FrameOver(Graphs, frames[i])

\* A failure is never left behind: as long as the run is live no node of a live
\* graph is failed.  A failed host goes back to its chain; any other failure
\* closes its frame and fails the container, and so reaches the run.
FailureSurfaces ==
  Live => \A n \in Nodes : Present(Graphs, n) => node[n].status # "failed"

\* The frames of a live run are coherent, and no frame keeps a failure to itself
\* (frames.py changes the stack, the dictionary of frames and the container in
\* turn, at every result and error).
FramesCoherent == StackCoherent /\ FailureSurfaces

\* No container in the frame of another.
Unnested == \A f \in Workflows : \A c \in f.containers : f.graph[c] = Root

\* Each container's graph has a node, itself no container, that the frame
\* starts with.  When it has none, next() is answered while the frame is open.
FramesStart ==
  \A f \in Workflows : \A c \in f.containers : \E n \in f.nodes \ f.containers :
    /\ f.graph[n] = c /\ f.chain[n] = <<>> /\ f.deps[n] = {}
    /\ f.host[n] # None => f.chain[f.host[n]][1] = n /\ f.deps[f.host[n]] \subseteq {n}

\* Edges leave from nodes that are no middlewares.
EdgesOfHosts == \A f \in Workflows : \A n \in f.nodes : \A d \in f.deps[n] : f.host[d] = None

Upstream(n) == wf.deps[n] \cup (IF IsMiddleware(n) THEN wf.deps[HostOf(n)] ELSE {})
Runs(n)     == (\E e \in execs : e.node = n /\ e.report = "none") \/ n \in ToSet(frames)
Started(n)  == (\E q \in ready : q.node = n) \/ Runs(n)

\* While the run is live nothing is dispatched, and no frame is opened, before
\* all it depends on ended well; a whole chain waits for what its host depends
\* on, and the dependents of a host wait for its outermost middleware.  Not so
\* once a next() timed out, or a middleware skipped inside a chain, which ends
\* the host and leaves the chain to start it again.
DependentsWait ==
  Live /\ Without({"timeout", "skipped"}) => \A n \in Nodes : Started(n) => \A d \in Upstream(n) : node[d].status \in Good

\* The one that calls next() to run n.
CallerOf(n) ==
  IF IsHost(n) THEN wf.chain[n][Len(wf.chain[n])]
  ELSE wf.chain[HostOf(n)][ChainIndex(n) - 1]

\* A host, or a middleware inside a chain, is only on its way or running while
\* the middleware before it waits in next(): no dispatch goes around the chain,
\* and no middleware ends with the inner part still at work, unless its wait
\* timed out.  After late feedback the code does request such a node with nobody in
\* next(), as one without a role; that request cannot be sent, and fails the run
\* (RejectBlank).  Without late feedback none like it is made.
InsideNext ==
  Live /\ Without({"timeout"}) =>
    /\ \A n \in Nodes :
         Started(n) /\ (IsHost(n) \/ (IsMiddleware(n) /\ ~Outermost(n))) =>
           \E e \in execs : e.node = CallerOf(n) /\ e.waits
    /\ Without({"late_feedback"}) => blank = {}

\* A middleware that waits is remembered: its request is under way or pending,
\* and what it asked for is on its way, running or about to be handled.  Only
\* the cancellation of what it waits for by a worker is never answered, and an
\* error of it, which may be blamed on a node that no live graph holds any more.
WaiterRemembered ==
  Live /\ Without({"interrupted", "error"}) => \A e \in execs : e.waits =>
            \/ Call(e) \in nexts
            \/ \E p \in pendingNext :
                 p.req = Call(e) /\ (Started(p.target) \/ \E x \in execs : x.node = p.target)

\* The execution whose report will answer a pending request is the one that was
\* dispatched for it.  Pending requests are matched by task, so after a timeout
\* a late report may answer the next request.
AnswerIsOwn ==
  Live /\ Without({"timeout"}) =>
    \A e \in execs, p \in pendingNext : p.target = e.node => e.for = p.req

\* A chain and its pending next requests agree: its inner part moves only for a
\* middleware that waits, whoever waits will be answered, and by the execution
\* it asked for (next.py, pending.py).
ChainsCoherent == InsideNext /\ WaiterRemembered /\ AnswerIsOwn

\* Nothing changes the status, the frames or a node of a run that is over,
\* whatever is still reported, asked for or timing out.  Feedback alone is taken
\* without a look at the run, and may add a node that was in a frame.
RunStaysOver ==
  [][~Live => /\ UNCHANGED <<frames, runStatus>>
              /\ \A n \in Nodes : Present(Graphs, n) => node'[n] = node[n]]_vars

\* Every run ends, whatever nodes fail and whenever the user cancels.  It need
\* not when a chain is cut short (its inner middlewares stay queued) or a
\* middleware skips, a next() times out (the late report takes a host that has
\* ended back to queued), a worker cancels an execution (a node outside the
\* topmost frame is not collected again) or raises an error (lost when the node
\* dispatched last is in no live graph), or when late feedback adds a queued node:
\* no collection need follow that requests it, and the run fails when one does.
Ended == ~Live \/ ~Without({"short_circuit", "skipped", "timeout", "interrupted", "error", "late_feedback"})
RunTerminates == <>Ended

=============================================================================
