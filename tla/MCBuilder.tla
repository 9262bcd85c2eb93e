----------------------------- MODULE MCBuilder -----------------------------
EXTENDS Builder

\* Two containers that open one subgraph, one of them in another subgraph, and
\* a node of the subgraph that has the id of a container.
Entwined ==
    [root |-> Graph({1}, {}, 1 :> 5),
     subs |-> 4 :> Graph({2}, {}, 2 :> 5) @@ 5 :> Graph({1}, {}, <<>>)]

MCDocuments == {Entwined}
=============================================================================
