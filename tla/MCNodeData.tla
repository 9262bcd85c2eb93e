------------------------------ MODULE MCNodeData ------------------------------
(* The workflows of MCWorkflowEngine with data on their edges. A node puts   *)
(* out one key, its name; containers put out nothing.                        *)
EXTENDS NodeData, MCWorkflowEngine

\* An edge from n's key to m's slot; ports of middlewares and scopes are set by EXCEPT.
Edge(n, key, m, slot) ==
  [from |-> n, out |-> None, scope |-> None, root |-> "results", key |-> key,
   to |-> m, in |-> None, slot |-> slot]

WithData(f, E, projected) ==
  [edges |-> E,
   outs  |-> [n \in f.nodes |-> IF n \in f.containers THEN {} ELSE {n}],
   ports |-> [n \in f.nodes |-> {n} \cap projected],
   slots |-> [n \in f.nodes |-> {e.slot : e \in {x \in E : n \in {x.to, x.in}}}
                             \cup {e.key : e \in {x \in E : n = x.from /\ x.root = "parameters"}}]] @@ f

\* z is given the result of the host, what m1 puts out at its own port, and what m2
\* puts out, by way of the host.
ChainData ==
  WithData(ChainFlow,
           {Edge(h, h, z, "own"), [Edge(h, m1, z, "port") EXCEPT !.out = m1], Edge(h, m2, z, "projected")},
           {m2})

\* z is given what the middleware of the container puts out.
HostingData == WithData(HostingFlow, {Edge(k, m1, z, "projected")}, {m1})

\* Inside the container p gives its result to the host and to its middleware; outside
\* z is given a parameter of w, nothing of the container, and nothing of a node it cannot name.
InnerData ==
  WithData(InnerFlow,
           {Edge(p, p, h, "own"), [Edge(p, p, h, "port") EXCEPT !.in = m1],
            [Edge(w, "given", z, "given") EXCEPT !.root = "parameters"],
            Edge(k, k, z, "none"), [Edge(w, p, z, "foreign") EXCEPT !.scope = p]},
           {m1})

\* No data flows between the container and the chain beside it.
BesideData == WithData(BesideFlow, {}, {})

DataFlows == {ChainData, HostingData, InnerData, BesideData}

\* The theorems' hypotheses about workflows hold of these.
ASSUME HypothesesAssumption == Unnested /\ FramesStart /\ EdgesOfHosts /\ EdgesCarry
=============================================================================
