--------------------------- MODULE MCWorkflowEngine ---------------------------
(* Workflows for TLC: a chain of two middlewares between two plain nodes, a  *)
(* container beside a plain node, a container that hosts a chain, a chain    *)
(* inside a container and one beside it, and containers in containers.       *)
EXTENDS WorkflowEngine, TLC

CONSTANTS h, m1, m2, z, k, p, w, ki

Flow(N, graph, deps, chain) ==
  [nodes      |-> N,
   graph      |-> [n \in N |-> IF n \in DOMAIN graph THEN graph[n] ELSE Root],
   deps       |-> [n \in N |-> IF n \in DOMAIN deps THEN deps[n] ELSE {}],
   chain      |-> [n \in N |-> IF n \in DOMAIN chain THEN chain[n] ELSE <<>>],
   host       |-> [m \in N |-> IF \E n \in DOMAIN chain : m \in ToSet(chain[n])
                               THEN CHOOSE n \in DOMAIN chain : m \in ToSet(chain[n])
                               ELSE None],
   containers |-> {graph[n] : n \in DOMAIN graph}]

Nothing == [n \in {} |-> None]

ChainFlow     == Flow({h, m1, m2, z}, Nothing, z :> {h}, h :> <<m1, m2>>)
HostingFlow   == Flow({k, m1, p, z}, p :> k, z :> {k}, k :> <<m1>>)
InnerFlow     == Flow({k, p, h, m1, w, z}, p :> k @@ h :> k @@ m1 :> k,
                      h :> {p} @@ z :> {k, w}, h :> <<m1>>)
BesideFlow    == Flow({k, p, h, m1}, p :> k, Nothing, h :> <<m1>>)
NestedEndFlow == Flow({k, ki, p}, ki :> k @@ p :> ki, Nothing, Nothing)

NestedFlows == {NestedEndFlow}
=============================================================================
