------------------------------- MODULE NodeData -------------------------------
(* The data of a run: the parameters and results of its nodes, how they flow *)
(* along the edges of the workflow and what a dispatch carries.  The control *)
(* is WorkflowEngine's; every action of it is taken here with what it does   *)
(* to the data.  A path into a dictionary is a key, and a value the name of  *)
(* the execution that made it, <<node, no>>; what is only a partial result   *)
(* says so.                                                                  *)
EXTENDS WorkflowEngine

VARIABLES
  params,   \* NodeState.parameters
  result,   \* NodeState.result, empty if there is none
  carried   \* the parameters in a DispatchRequest, and those an execution got
data  == <<params, result, carried>>
dvars == <<vars, data>>

Empty == [k \in {} |-> <<>>]

\* The dictionary g with the keys of f written into it.
Written(f, g) == [k \in DOMAIN f \cup DOMAIN g |-> IF k \in DOMAIN f THEN f[k] ELSE g[k]]

---------------------------------------------------------------------------
(* The bindings of the edges.  wf.edges are records: from and to, the nodes  *)
(* of the edge; out and in, the middleware whose port it leaves or enters,   *)
(* or None; scope, the node that the source port's binding names, or None;   *)
(* root and key of the source, slot of the target, a key of its parameters.  *)
(* wf.outs[n] are the keys of n's results, wf.ports[m] those among them that *)
(* an output port of middleware m is bound to.                               *)

\* Nodes and aliases of other graphs are not found: the index of a graph knows
\* its own.
SourceOf(e) == IF e.out # None THEN e.out ELSE IF e.scope # None THEN e.scope ELSE e.from
TargetOf(e) == IF e.in # None THEN e.in ELSE e.to
IsBound(e)  == {SourceOf(e), TargetOf(e)} \subseteq Graph(wf.graph[e.from])
Bindings    == {e \in wf.edges : IsBound(e)}
BindingsOf(n) == {e \in Bindings : SourceOf(e) = n}

Default(n)   == [k \in wf.slots[n] |-> <<n>>]

Read(e, P, R) == IF e.root = "parameters" THEN P[SourceOf(e)] ELSE R[SourceOf(e)]

\* apply_edge_bindings_for_graph: what n has goes to the parameters of others.
Applied(P, R, n) ==
  [u \in Nodes |->
     LET given == {e \in BindingsOf(n) : TargetOf(e) = u /\ e.key \in DOMAIN Read(e, P, R)}
     IN  Written([k \in {e.slot : e \in given} |->
                 LET e == CHOOSE e \in given : e.slot = k IN Read(e, P, R)[e.key]], P[u])]

\* apply_middleware_output_bindings: the host's result shows what its
\* middleware m put out.
Projected(R, m) ==
  [R EXCEPT ![HostOf(m)] = Written([k \in wf.ports[m] \cap DOMAIN R[m] |-> R[m][k]], @)]

---------------------------------------------------------------------------
\* Mutant of Output: what feedback has put there is kept.
OutputMerged(n, no) == IF result[n] = Empty THEN [k \in wf.outs[n] |-> <<n, no>>] ELSE result[n]

Output(n, no)  == [k \in wf.outs[n] |-> <<n, no>>]
Partial(n, no) == [k \in wf.outs[n] |-> <<n, no, "partial">>]

\* A frame that opens has new nodes, and so has the top level when get_node
\* adds one.
Opened == {n \in Nodes : wf.graph[n] \in ToSet(frames') \ ToSet(frames)}
Added  == adopted' \ adopted

Renewed(P) == [n \in Nodes |-> IF n \in Opened THEN Default(n) ELSE IF n \in Added THEN Empty ELSE P[n]]
Cleared(R) == [n \in Nodes |-> IF n \in Opened \cup Added THEN Empty ELSE R[n]]

At(e)     == [node |-> e.node, no |-> e.no]
Carriers  == ready' \cup {At(e) : e \in {x \in execs' : x.report = "none"}}

\* Mutant of Packed: a request is built before the data of the result flow.
PackedBefore(q) == params[q.node]

\* build_dispatch_request copies the parameters of the node.
Packed(q) == params'[q.node]

\* The requests that are new are packed; the others keep what they carry.
Packs == carried' = [x \in Carriers |-> IF x \in DOMAIN carried THEN carried[x] ELSE Packed(x)]

\* A step that gives no node a value.
Flows0 == params' = Renewed(params) /\ result' = Cleared(result) /\ Packs

\* The worker is handed what the request carries.
Hands(q) ==
  /\ params' = Renewed(params) /\ result' = Cleared(result)
  /\ carried' = [x \in Carriers |-> IF x \in DOMAIN carried THEN carried[x] ELSE carried[q]]

\* Mutant of ResultFlows: the data of a middleware stays with it.
ResultStays(e) ==
  LET n   == e.node
      own == [Cleared(result) EXCEPT ![n] = Output(n, e.no)]
  IN  /\ params' = IF e.report \in Good /\ n \notin adopted' THEN Applied(Renewed(params), own, n) ELSE Renewed(params)
      /\ result' = own

\* apply_record_result: the result, along the edges of its node; a middleware's
\* onto its host, and along the host's edges when it ends the host.
ResultFlows(e) ==
  LET n     == e.node
      s     == Found(Graphs, n)
      good  == e.report \in Good
      own   == [Cleared(result) EXCEPT ![n] = Output(n, e.no)]
      sent  == IF good /\ ~Hosting(s, n) /\ n \notin s.adopted THEN Applied(Renewed(params), own, n) ELSE Renewed(params)
      shown == IF Chained(s, n) THEN Projected(own, n) ELSE own
      ended == IF good /\ EndsHost(s, n, e.report) THEN Applied(sent, shown, HostOf(n)) ELSE sent
  IN  params' = ended /\ result' = shown

HandleResultData(e) ==
  /\ HandleResult(e)
  /\ IF Live THEN ResultFlows(e) ELSE UNCHANGED <<params, result>>
  /\ Packs

\* apply_feedback merges its results into those of the node.
Merges(n, no) ==
  /\ result' = [Cleared(result) EXCEPT ![n] = Written(Partial(n, no), @)]
  /\ params' = Renewed(params)
  /\ Packs

DInit ==
  /\ Init
  /\ params = [n \in Nodes |-> Default(n)]
  /\ result = [n \in Nodes |-> Empty]
  /\ carried = Empty

DNext ==
  \/ (CollectReady \/ CancelRun) /\ Flows0
  \/ \E q \in ready :
       \/ (DropRequest(q) \/ Refused(q)) /\ Flows0
       \/ Dispatch(q) /\ Hands(q)
  \/ \E n \in blank : RejectBlank(n) /\ Flows0
  \/ \E e \in execs :
       \/ (CallsNext(e) \/ GivesUp(e) \/ LeavesFeedback(e)) /\ Flows0
       \/ \E st \in Good \cup {"failed", "interrupted", "error"} : Reports(e, st) /\ Flows0
       \/ HandleResultData(e)
       \/ (HandleInterrupted(e) \/ HandleError(e)) /\ Flows0
       \/ Feedback(e) /\ Merges(e.node, e.no)
  \/ \E f \in late : LateFeedback(f) /\ Merges(f.node, f.no)
  \/ \E r \in nexts : (RefuseNext(r) \/ HandleNext(r)) /\ Flows0
  \/ \E p \in pendingNext : ExpireNext(p) /\ Flows0

\* WF_vars(Progress), written out: TLC tries the disjuncts in this order, and
\* whether Progress is enabled is what takes it long.
Fair == []<><<Progress>>_vars \/ []<>~ENABLED <<Progress>>_vars

DSpec == DInit /\ [][DNext]_dvars /\ Fair

---------------------------------------------------------------------------
(* Properties. *)

\* An edge leaves from a node its target waits for, or from a middleware of its
\* chain, and enters a slot of its own.  A parameter is read from a node that is
\* neither container nor middleware, and to which only nodes it waits for give
\* something.  A container puts out nothing, and a host not what it shows of a
\* middleware.
EdgesCarry ==
  \A f \in Workflows :
    /\ \A e \in f.edges :
         /\ {e.from, e.to} \subseteq f.nodes /\ e.from \in f.deps[e.to]
         /\ e.out \in {None} \cup ToSet(f.chain[e.from]) /\ e.in \in {None} \cup ToSet(f.chain[e.to])
         /\ e.slot \in f.slots[TargetOf(e)]
         /\ \A b \in f.edges : TargetOf(b) = TargetOf(e) /\ b.slot = e.slot => b = e
         /\ e.root = "parameters" =>
              /\ SourceOf(e) \in f.nodes => SourceOf(e) \notin f.containers /\ f.host[SourceOf(e)] = None
              /\ \A b \in f.edges : TargetOf(b) = SourceOf(e) => b.scope \in {None} \cup f.deps[SourceOf(e)]
    /\ \A c \in f.containers : f.outs[c] = {}
    /\ \A m \in f.nodes : f.host[m] # None => f.ports[m] \cap f.outs[f.host[m]] = {}

\* What a node is dispatched with is what the nodes it depends on ended with:
\* all of it, of their last executions, and nothing that was only feedback.
InputsAreResults ==
  \A x \in DOMAIN carried : \A e \in Bindings :
    TargetOf(e) = x.node /\ e.scope \in {None} \cup Upstream(x.node) =>
      carried[x][e.slot] = IF e.key \in DOMAIN Read(e, params, result)
                           THEN Read(e, params, result)[e.key] ELSE <<x.node>>

\* What the run shows of a node that ended is what its last execution put out.
ResultsAreLast ==
  \A n \in Nodes : \A k \in wf.outs[n] \cap DOMAIN result[n] :
    Present(Graphs, n) /\ node[n].status \in Good => result[n][k] = <<n, dispatched[n]>>

\* The data of a live run is coherent: a dispatch carries, and a node that ended
\* shows, results that are complete and of the last execution (updates.py and
\* graph.py copy them along the edges at each result; the request that is built
\* then waits in a queue).  Feedback that is handled after the result it belongs
\* to overwrites it, a middleware that skips ends its host before the host ran,
\* and after a timeout the host may run again when its chain has ended.
DataCoherent ==
  Live /\ Without({"timeout", "skipped", "late_feedback"}) => InputsAreResults /\ ResultsAreLast
=============================================================================
