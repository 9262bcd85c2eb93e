------------------------ MODULE WorkflowEngine_proofs ------------------------
(* Theorems about the frames and chains of a run.  A handler changes the     *)
(* graphs of a run in stages, so the proofs follow the stages: what one of   *)
(* them keeps is a lemma about that stage, and an action cites the lemmas of *)
(* the stages it goes through.                                               *)
EXTENDS WorkflowEngine, FiniteSetTheorems, SequenceTheorems, TLAPS

---------------------------------------------------------------------------
(* The workflow. *)

\* What the assumption on workflows says of the one that is run.
LEMMA Flow ==
  ASSUME wf \in Workflows
  PROVE  /\ IsFiniteSet(Nodes) /\ Root \notin Nodes /\ None \notin Nodes
         /\ wf.containers \subseteq Nodes /\ IsFiniteSet(wf.containers)
         /\ \A n \in Nodes :
              /\ wf.graph[n] \in wf.containers \cup {Root}
              /\ wf.deps[n] \subseteq Nodes /\ wf.chain[n] \in Seq(Nodes)
              /\ wf.host[n] \in Nodes \cup {None}
              /\ IsMiddleware(n) => /\ HostOf(n) \in Nodes /\ n \in ToSet(wf.chain[HostOf(n)])
                                    /\ wf.graph[n] = wf.graph[HostOf(n)]
         /\ \A S \in SUBSET wf.containers : Preorders(wf, S) # {}
PROOF
<1>1. WellFormed(wf)
  BY WorkflowsAssumption
<1>2. IsFiniteSet(wf.containers)
  BY <1>1, FS_Subset DEF WellFormed
<1> QED
  BY <1>1, <1>2 DEF WellFormed, Nodes, IsMiddleware, HostOf

\* A node waits for finitely many others.
LEMMA Waits_ ==
  ASSUME wf \in Workflows, NEW n \in Nodes
  PROVE  DepsOf(n) \subseteq Nodes /\ Cardinality(DepsOf(n)) \in Nat
PROOF
<1>1. DepsOf(n) \subseteq Nodes
  BY Flow DEF DepsOf, Outermost
<1> QED
  BY <1>1, Flow, FS_Subset, FS_CardinalityType

\* What a middleware's next() runs is a node.
LEMMA Target ==
  ASSUME wf \in Workflows, NEW m \in Nodes, IsMiddleware(m)
  PROVE  NextTarget(m) \in Nodes
PROOF
<1> DEFINE chain == wf.chain[HostOf(m)]
<1>1. HostOf(m) \in Nodes /\ chain \in Seq(Nodes) /\ m \in ToSet(chain)
  BY Flow
<1>2. PICK i \in DOMAIN chain : chain[i] = m
  BY <1>1 DEF ToSet
<1>3. ChainIndex(m) \in DOMAIN chain
  BY <1>2 DEF ChainIndex
<1>4. CASE ChainIndex(m) < Len(chain)
  <2>1. ChainIndex(m) + 1 \in 1..Len(chain)
    BY <1>1, <1>3, <1>4
  <2>2. chain[ChainIndex(m) + 1] \in Nodes
    BY <2>1, <1>1
  <2> QED
    BY <2>2, <1>4 DEF NextTarget
<1>5. CASE ~(ChainIndex(m) < Len(chain))
  BY <1>1, <1>5 DEF NextTarget
<1> QED
  BY <1>4, <1>5

\* Containers open in an order that the stack can take.
LEMMA Order ==
  ASSUME wf \in Workflows, NEW C, NEW o, o = CHOOSE p \in Preorders(wf, OpenedWith(C)) : TRUE
  PROVE  o \in Seq(wf.containers) /\ ToSet(o) \subseteq OpenedWith(C)
PROOF
<1> DEFINE S == OpenedWith(C)
<1>1. S \subseteq wf.containers
  BY DEF OpenedWith
<1>2. IsFiniteSet(S) /\ Cardinality(S) \in Nat
  BY <1>1, Flow, FS_Subset, FS_CardinalityType
<1>3. Preorders(wf, S) # {}
  BY <1>1, Flow
<1>4. o \in Preorders(wf, S)
  BY <1>3
<1>5. o \in SetToSeqs(S)
  BY <1>4 DEF Preorders
<1>6. o \in [1..Cardinality(S) -> S]
  BY <1>5 DEF SetToSeqs
<1>7. o \in Seq(wf.containers)
  BY <1>6, <1>2, <1>1
<1>8. ToSet(o) \subseteq S
  BY <1>6 DEF ToSet
<1> QED
  BY <1>7, <1>8

---------------------------------------------------------------------------
(* Stages.                                                                   *)

\* The shape of a stage, as ShapeInv has it of the variables.
Shaped(s) ==
  /\ s = [node |-> s.node, frames |-> s.frames, adopted |-> s.adopted, ready |-> s.ready]
  /\ DOMAIN s.node = Nodes /\ \A n \in Nodes : s.node[n] \in NodeStates(n)
  /\ s.frames \in Seq(wf.containers)
  /\ adopted \subseteq s.adopted /\ s.adopted \subseteq Nodes \ Graph(Root)
  /\ s.ready \subseteq [node : Nodes, for : Calls \cup {None}]

\* No node of a live graph is failed.
Clean(s) == \A n \in Nodes : Present(s, n) => s.node[n].status # "failed"

\* A stage that changes nodes alone.
LEMMA NodesSet ==
  ASSUME NEW s, Shaped(s), NEW f, DOMAIN f = Nodes, \A n \in Nodes : f[n] \in NodeStates(n)
  PROVE  LET t == [s EXCEPT !.node = f]
         IN  /\ Shaped(t) /\ t.node = f
             /\ t.frames = s.frames /\ t.adopted = s.adopted /\ t.ready = s.ready
             /\ \A n : Present(t, n) = Present(s, n)
             /\ \A g : Active(t, g) = Active(s, g)
PROOF
<1> DEFINE t == [s EXCEPT !.node = f]
<1>1. t = [node |-> f, frames |-> s.frames, adopted |-> s.adopted, ready |-> s.ready]
  BY DEF Shaped
<1>2. t.node = f /\ t.frames = s.frames /\ t.adopted = s.adopted /\ t.ready = s.ready
  BY <1>1
<1>3. Shaped(t)
  BY <1>1, <1>2 DEF Shaped
<1> HIDE DEF t
<1>4. \A g : Active(t, g) = Active(s, g)
  BY <1>2, Zenon DEF Active
<1>5. \A n : Present(t, n) = Present(s, n)
  BY <1>2, <1>4, Zenon DEF Present
<1>6. /\ Shaped(t) /\ t.node = f
      /\ t.frames = s.frames /\ t.adopted = s.adopted /\ t.ready = s.ready
      /\ \A n : Present(t, n) = Present(s, n)
      /\ \A g : Active(t, g) = Active(s, g)
  BY <1>2, <1>3, <1>4, <1>5
<1> QED
  BY <1>6 DEF t

\* One node is given a state.
LEMMA SetOne ==
  ASSUME NEW s, Shaped(s), NEW n \in Nodes, NEW x \in NodeStates(n)
  PROVE  LET t == Set(s, n, x)
         IN  /\ Shaped(t) /\ t.node[n] = x /\ \A m \in Nodes \ {n} : t.node[m] = s.node[m]
             /\ t.frames = s.frames /\ t.adopted = s.adopted /\ t.ready = s.ready
             /\ \A m : Present(t, m) = Present(s, m)
             /\ \A g : Active(t, g) = Active(s, g)
             /\ Clean(s) /\ x.status # "failed" => Clean(t)
PROOF
<1> DEFINE f == [m \in Nodes |-> IF m \in {n} THEN x ELSE s.node[m]]
           t == [s EXCEPT !.node = f]
<1>1. Set(s, n, x) = t
  BY Zenon DEF Set, Update
<1>2. DOMAIN f = Nodes /\ \A m \in Nodes : f[m] \in NodeStates(m)
  BY DEF Shaped
<1>3. f[n] = x /\ \A m \in Nodes \ {n} : f[m] = s.node[m]
  OBVIOUS
<1> HIDE DEF f
<1>4. /\ Shaped(t) /\ t.node = f
      /\ t.frames = s.frames /\ t.adopted = s.adopted /\ t.ready = s.ready
      /\ \A m : Present(t, m) = Present(s, m)
      /\ \A g : Active(t, g) = Active(s, g)
  BY <1>2, NodesSet
<1> HIDE DEF t
<1>5. Clean(s) /\ x.status # "failed" => Clean(t)
  BY <1>3, <1>4 DEF Clean
<1> QED
  BY <1>1, <1>3, <1>4, <1>5

\* Requests are made for some nodes.
LEMMA Enqueues ==
  ASSUME NEW s, Shaped(s), NEW S, S \subseteq Nodes, NEW r \in Calls \cup {None}
  PROVE  LET t == Enqueue(s, S, r)
         IN  /\ Shaped(t) /\ \A m \in Nodes : t.node[m].status = s.node[m].status
             /\ t.frames = s.frames /\ t.adopted = s.adopted
             /\ \A m : Present(t, m) = Present(s, m)
             /\ \A g : Active(t, g) = Active(s, g)
             /\ (Clean(s) => Clean(t))
PROOF
<1> DEFINE f == [m \in Nodes |-> IF m \in S THEN [s.node[m] EXCEPT !.enqueued = TRUE] ELSE s.node[m]]
           u == [s EXCEPT !.node = f]
           R == s.ready \cup {Request(n, r) : n \in S}
           t == [u EXCEPT !.ready = R]
<1>1. \A m \in Nodes : f[m] \in NodeStates(m) /\ f[m].status = s.node[m].status
  BY DEF Shaped, NodeStates
<1>2. DOMAIN f = Nodes
  OBVIOUS
<1> HIDE DEF f
<1>3. /\ Shaped(u) /\ u.node = f
      /\ u.frames = s.frames /\ u.adopted = s.adopted /\ u.ready = s.ready
  BY <1>1, <1>2, NodesSet
<1> HIDE DEF u
<1>4. R \subseteq [node : Nodes, for : Calls \cup {None}]
  BY DEF Shaped, Request
<1> HIDE DEF R
<1>5. t = [node |-> u.node, frames |-> u.frames, adopted |-> u.adopted, ready |-> R]
  BY <1>3 DEF Shaped
<1>6. Shaped(t) /\ t.node = f /\ t.frames = s.frames /\ t.adopted = s.adopted
  BY <1>3, <1>4, <1>5 DEF Shaped
<1>7. Enqueue(s, S, r) = t
  BY <1>3, Zenon DEF Enqueue, Update, f, u, t, R
<1> HIDE DEF t
<1>8. \A g : Active(t, g) = Active(s, g)
  BY <1>6, Zenon DEF Active
<1>9. \A m : Present(t, m) = Present(s, m)
  BY <1>6, <1>8, Zenon DEF Present
<1>10. Clean(s) => Clean(t)
  BY <1>1, <1>6, <1>9 DEF Clean
<1> QED
  BY <1>1, <1>6, <1>7, <1>8, <1>9, <1>10

\* The containers C open their frames.
LEMMA Opening ==
  ASSUME wf \in Workflows, NEW s, Shaped(s), NEW C, C \subseteq wf.containers
  PROVE  LET t == Open(s, C)
         IN  /\ Shaped(t) /\ t.adopted = s.adopted
             /\ ToSet(s.frames) \subseteq ToSet(t.frames)
             /\ Clean(s) => Clean(t)
PROOF
<1> DEFINE o == CHOOSE p \in Preorders(wf, OpenedWith(C)) : TRUE
           inside == UNION {Graph(c) : c \in ToSet(o)}
           f == [m \in Nodes |-> IF m \in inside THEN NewNode(m) ELSE s.node[m]]
           new == [s EXCEPT !.node = f]
           h_ == [m \in Nodes |-> IF m \in ToSet(o) THEN [f[m] EXCEPT !.status = "running", !.enqueued = TRUE]
                                                  ELSE f[m]]
           opens == [new EXCEPT !.node = h_]
           stack == s.frames \o o
           v == [opens EXCEPT !.frames = stack]
           T == (UNION {Starts(c) : c \in ToSet(o)}) \ wf.containers
<1>1. CASE C = {}
  BY <1>1, Zenon DEF Open
<1>2. CASE C # {}
  <2>1. o \in Seq(wf.containers)
    BY Order
  <2>2. \A m \in Nodes : NewNode(m) \in NodeStates(m) /\ NewNode(m).status = "queued"
    BY Waits_ DEF NewNode, NodeStates
  <2> HIDE DEF o
  <2>3. \A m \in Nodes : f[m] \in NodeStates(m) /\ (m \in inside => f[m].status = "queued")
                       /\ (m \notin inside => f[m] = s.node[m])
    BY <2>2 DEF Shaped
  <2>4. DOMAIN f = Nodes
    OBVIOUS
  <2>5. Shaped(new) /\ new.node = f /\ new.frames = s.frames /\ new.adopted = s.adopted
    <3> HIDE DEF f
    <3> QED
      BY <2>3, <2>4, NodesSet
  <2>6. \A m \in Nodes : h_[m] \in NodeStates(m)
                       /\ (f[m].status # "failed" => h_[m].status # "failed")
    <3> HIDE DEF f
    <3> QED
      BY <2>3 DEF NodeStates
  <2>7. DOMAIN h_ = Nodes
    OBVIOUS
  <2>8. Shaped(opens) /\ opens.node = h_ /\ opens.frames = s.frames /\ opens.adopted = s.adopted
    <3> HIDE DEF h_, new
    <3> QED
      BY <2>5, <2>6, <2>7, NodesSet
  <2>9. stack \in Seq(wf.containers)
    BY <2>1, ConcatProperties DEF Shaped
  <2>10. v = [node |-> opens.node, frames |-> stack, adopted |-> opens.adopted, ready |-> opens.ready]
    <3> HIDE DEF opens, h_, stack
    <3> QED
      BY <2>8 DEF Shaped
  <2>11. Shaped(v) /\ v.node = h_ /\ v.frames = stack /\ v.adopted = s.adopted
    <3> HIDE DEF h_, opens, v, stack
    <3> QED
      BY <2>8, <2>9, <2>10 DEF Shaped
  <2>12. /\ ToSet(s.frames) \subseteq ToSet(stack)
         /\ ToSet(stack) \subseteq ToSet(s.frames) \cup ToSet(o)
    BY <2>1, ConcatProperties DEF Shaped, ToSet
  <2>13. Clean(s) => Clean(v)
    <3> SUFFICES ASSUME Clean(s), NEW n \in Nodes, Present(v, n)
                 PROVE  h_[n].status # "failed"
      BY <2>11 DEF Clean
    <3>1. CASE n \in inside
      BY <3>1, <2>3, <2>6
    <3>2. CASE n \notin inside
      <4>0. wf.graph[n] \notin ToSet(o)
        BY <3>2 DEF Graph
      <4>1. Present(s, n)
        <5> HIDE DEF v, inside
        <5> QED
          BY <4>0, <2>11, <2>12 DEF Present, Active
      <4> QED
        BY <4>1, <3>2, <2>3, <2>6 DEF Clean
    <3> QED
      BY <3>1, <3>2
  <2>14. T \subseteq Nodes
    BY DEF Starts, Graph
  <2>15. Open(s, C) = Enqueue(v, T, None)
    BY <1>2, <2>5, <2>8, Zenon DEF Open, Update, v, opens, new, f, h_, T, inside, o, stack
  <2> HIDE DEF v, T
  <2>16. /\ Shaped(Enqueue(v, T, None)) /\ Enqueue(v, T, None).adopted = s.adopted
         /\ Enqueue(v, T, None).frames = v.frames /\ (Clean(v) => Clean(Enqueue(v, T, None)))
    <3> HIDE DEF stack, opens, new, f, h_, inside, o
    <3>1. Shaped(v) /\ T \subseteq Nodes /\ None \in Calls \cup {None}
      BY <2>11, <2>14
    <3>2. v.adopted = s.adopted
      BY <2>11
    <3> QED
      BY <3>1, <3>2, Enqueues, Zenon
  <2> QED
    BY <2>11, <2>12, <2>13, <2>15, <2>16
<1> QED
  BY <1>1, <1>2

\* What is due is started.
LEMMA Starting ==
  ASSUME wf \in Workflows, NEW s, Shaped(s), NEW S, S \subseteq Nodes
  PROVE  /\ Shaped(Start(s, S)) /\ Start(s, S).adopted = s.adopted
         /\ ToSet(s.frames) \subseteq ToSet(Start(s, S).frames)
         /\ (Clean(s) => Clean(Start(s, S)))
PROOF
<1> DEFINE t == Open(s, S \cap wf.containers)
<1>1. /\ Shaped(t) /\ t.adopted = s.adopted /\ (Clean(s) => Clean(t))
      /\ ToSet(s.frames) \subseteq ToSet(t.frames)
  BY Opening
<1>2. Start(s, S) = Enqueue(t, S \ wf.containers, None)
  BY DEF Start
<1>3. S \ wf.containers \subseteq Nodes /\ None \in Calls \cup {None}
  OBVIOUS
<1> DEFINE u == Enqueue(t, S \ wf.containers, None)
<1> HIDE DEF t
<1>4. Shaped(u) /\ u.frames = t.frames /\ u.adopted = t.adopted /\ (Clean(t) => Clean(u))
  BY <1>1, <1>3, Enqueues
<1>5. Start(s, S) = u
  BY <1>2
<1> HIDE DEF u
<1> QED
  BY <1>1, <1>4, <1>5

\* The dependents of n have one less to wait for.
LEMMA Counting ==
  ASSUME wf \in Workflows, NEW s, Shaped(s), NEW n
  PROVE  LET t == CountedDown(s, n)
         IN  /\ Shaped(t) /\ \A m \in Nodes : t.node[m].status = s.node[m].status
             /\ t.frames = s.frames /\ t.adopted = s.adopted
             /\ \A m : Present(t, m) = Present(s, m)
             /\ (Clean(s) => Clean(t))
PROOF
<1> DEFINE f == [m \in Nodes |-> IF m \in Dependents(n) THEN CountDown(s.node[m]) ELSE s.node[m]]
           t == [s EXCEPT !.node = f]
<1>1. \A m \in Nodes : f[m] \in NodeStates(m) /\ f[m].status = s.node[m].status
  BY Waits_ DEF Shaped, NodeStates, CountDown
<1>2. DOMAIN f = Nodes
  OBVIOUS
<1>3. CountedDown(s, n) = t
  BY Zenon DEF CountedDown, Update
<1> HIDE DEF f
<1>4. /\ Shaped(t) /\ t.node = f /\ t.frames = s.frames /\ t.adopted = s.adopted
      /\ \A m : Present(t, m) = Present(s, m)
  BY <1>1, <1>2, NodesSet
<1> HIDE DEF t
<1>5. Clean(s) => Clean(t)
  BY <1>1, <1>4 DEF Clean
<1> QED
  BY <1>1, <1>3, <1>4, <1>5

LEMMA Releasing ==
  ASSUME wf \in Workflows, NEW s, Shaped(s), NEW n
  PROVE  /\ Shaped(Release(s, n)) /\ Release(s, n).adopted = s.adopted
         /\ ToSet(s.frames) \subseteq ToSet(Release(s, n).frames)
         /\ (Clean(s) => Clean(Release(s, n)))
PROOF
<1> DEFINE c == CountedDown(s, n)
           S == {u \in Dependents(n) : Due(c.node[u])}
<1>1. /\ Shaped(c) /\ c.adopted = s.adopted /\ c.frames = s.frames
      /\ (Clean(s) => Clean(c))
  BY Counting
<1>2. S \subseteq Nodes
  BY DEF Dependents
<1>3. Release(s, n) = Start(c, S)
  BY DEF Release
<1> HIDE DEF c, S
<1> QED
  BY <1>1, <1>2, <1>3, Starting

LEMMA Collecting ==
  ASSUME wf \in Workflows, NEW s, Shaped(s), NEW g
  PROVE  /\ Shaped(CollectFrom(s, g))
         /\ (Clean(s) => Clean(CollectFrom(s, g)))
PROOF
<1> DEFINE S == {n \in Graph(g) : Due(s.node[n]) /\ ~IsHost(n)}
<1>1. S \subseteq Nodes
  BY DEF Graph
<1>2. CollectFrom(s, g) = Start(s, S)
  BY DEF CollectFrom
<1> HIDE DEF S
<1> QED
  BY <1>1, <1>2, Starting

\* The nodes that a failed frame leaves are cancelled.
LEMMA Sweeping ==
  ASSUME wf \in Workflows, NEW s, Shaped(s), NEW g
  PROVE  LET t == Swept(s, g)
         IN  /\ Shaped(t) /\ t.frames = s.frames /\ t.adopted = s.adopted
             /\ \A m \in Nodes : t.node[m].status = "failed" <=> s.node[m].status = "failed"
             /\ \A x : Active(t, x) = Active(s, x)
PROOF
<1> DEFINE S == {n \in Graph(g) : s.node[n].status \notin Final}
           f == [m \in Nodes |-> IF m \in S THEN [s.node[m] EXCEPT !.status = "cancelled", !.enqueued = FALSE]
                                          ELSE s.node[m]]
           t == [s EXCEPT !.node = f]
<1>1. \A m \in Nodes : f[m] \in NodeStates(m) /\ (f[m].status = "failed" <=> s.node[m].status = "failed")
  BY DEF Shaped, NodeStates, Final
<1>2. DOMAIN f = Nodes
  OBVIOUS
<1>3. Swept(s, g) = t
  BY Zenon DEF Swept, Update
<1> HIDE DEF f
<1>4. /\ Shaped(t) /\ t.node = f /\ t.frames = s.frames /\ t.adopted = s.adopted
      /\ \A x : Active(t, x) = Active(s, x)
  BY <1>1, <1>2, NodesSet
<1> HIDE DEF t
<1> QED
  BY <1>1, <1>3, <1>4

\* A part of a sequence holds nothing else.
LEMMA Part ==
  ASSUME NEW C, NEW q \in Seq(C), NEW a \in 1..(Len(q) + 1), NEW b \in (a - 1)..Len(q)
  PROVE  SubSeq(q, a, b) \in Seq(C) /\ ToSet(SubSeq(q, a, b)) \subseteq ToSet(q)
PROOF
<1> DEFINE u == SubSeq(q, a, b)
<1>1. Len(q) \in Nat /\ \A i \in 1..Len(q) : q[i] \in C
  OBVIOUS
<1>2. a \in Int /\ b \in Int /\ \A i \in a..b : i \in 1..Len(q)
  BY <1>1
<1>3. \A i \in a..b : q[i] \in C
  BY <1>1, <1>2
<1>4. /\ u \in Seq(C) /\ Len(u) = IF a <= b THEN b - a + 1 ELSE 0
      /\ \A i \in 1..(b - a + 1) : u[i] = q[a + i - 1]
  <2> HIDE DEF u
  <2> QED
    BY <1>2, <1>3, SubSeqProperties DEF u
<1> HIDE DEF u
<1>5. DOMAIN u = 1..(b - a + 1) /\ DOMAIN q = 1..Len(q)
  BY <1>1, <1>2, <1>4
<1>6. \A i \in 1..(b - a + 1) : a + i - 1 \in 1..Len(q)
  BY <1>1, <1>2
<1>7. u \in Seq(C) /\ ToSet(u) \subseteq ToSet(q)
  BY <1>4, <1>5, <1>6 DEF ToSet
<1> QED
  BY <1>7 DEF u

\* A frame leaves the stack.
LEMMA Popping ==
  ASSUME NEW s, Shaped(s), NEW g
  PROVE  LET t == Popped(s, g)
         IN  /\ Shaped(t) /\ t.node = s.node /\ t.adopted = s.adopted /\ t.ready = s.ready
             /\ ToSet(t.frames) \subseteq ToSet(s.frames)
             /\ (Clean(s) => Clean(t))
PROOF
<1> DEFINE i == CHOOSE j \in DOMAIN s.frames : s.frames[j] = g
           st == IF g \in ToSet(s.frames) THEN RemoveAt(s.frames, i) ELSE s.frames
           t == [s EXCEPT !.frames = st]
<1>1. s.frames \in Seq(wf.containers)
  BY DEF Shaped
<1>2. g \in ToSet(s.frames) => i \in 1..Len(s.frames)
  BY <1>1 DEF ToSet
<1> HIDE DEF i
<1>3. ASSUME g \in ToSet(s.frames)
      PROVE  /\ SubSeq(s.frames, 1, i - 1) \in Seq(wf.containers)
             /\ SubSeq(s.frames, i + 1, Len(s.frames)) \in Seq(wf.containers)
             /\ ToSet(SubSeq(s.frames, 1, i - 1)) \subseteq ToSet(s.frames)
             /\ ToSet(SubSeq(s.frames, i + 1, Len(s.frames))) \subseteq ToSet(s.frames)
  <2>1. i \in 1..Len(s.frames) /\ Len(s.frames) \in Nat
    BY <1>1, <1>2, <1>3
  <2>2. /\ 1 \in 1..(Len(s.frames) + 1) /\ i - 1 \in (1 - 1)..Len(s.frames)
        /\ i + 1 \in 1..(Len(s.frames) + 1) /\ Len(s.frames) \in ((i + 1) - 1)..Len(s.frames)
    BY <2>1
  <2> QED
    BY <1>1, <2>2, Part
<1>4. st \in Seq(wf.containers) /\ ToSet(st) \subseteq ToSet(s.frames)
  <2>1. CASE g \in ToSet(s.frames)
    <3> DEFINE a == SubSeq(s.frames, 1, i - 1)
               b == SubSeq(s.frames, i + 1, Len(s.frames))
    <3>1. st = a \o b
      BY <2>1 DEF RemoveAt
    <3>2. /\ a \in Seq(wf.containers) /\ b \in Seq(wf.containers)
          /\ ToSet(a) \subseteq ToSet(s.frames) /\ ToSet(b) \subseteq ToSet(s.frames)
      BY <2>1, <1>3
    <3> HIDE DEF a, b, st
    <3>3. ToSet(a \o b) \subseteq ToSet(a) \cup ToSet(b) /\ a \o b \in Seq(wf.containers)
      BY <3>2, ConcatProperties DEF ToSet
    <3> QED
      BY <3>1, <3>2, <3>3
  <2> QED
    BY <2>1, <1>1
<1>5. Popped(s, g) = t
  BY Zenon DEF Popped, i
<1> HIDE DEF st
<1>6. t = [node |-> s.node, frames |-> st, adopted |-> s.adopted, ready |-> s.ready]
  BY DEF Shaped
<1>7. Shaped(t) /\ t.node = s.node /\ t.frames = st /\ t.adopted = s.adopted /\ t.ready = s.ready
  BY <1>4, <1>6 DEF Shaped
<1> HIDE DEF t
<1>8. Clean(s) => Clean(t)
  BY <1>4, <1>7 DEF Clean, Present, Active
<1> QED
  BY <1>4, <1>5, <1>7, <1>8

\* get_node finds its node in the stage it leaves behind.
LEMMA Finding ==
  ASSUME wf \in Workflows, NEW s, Shaped(s), NEW n \in Nodes
  PROVE  LET t == Found(s, n)
         IN  /\ Shaped(t) /\ Present(t, n) /\ t.frames = s.frames /\ t.ready = s.ready
             /\ \A m \in Nodes : Present(s, m) => t.node[m] = s.node[m]
             /\ (Clean(s) => Clean(t))
PROOF
<1>1. CASE Present(s, n)
  BY <1>1, Zenon DEF Found
<1>2. CASE ~Present(s, n)
  <2> DEFINE x == [status |-> "queued", pending |-> 0, enqueued |-> FALSE, blocked |-> FALSE]
             u == Set(s, n, x)
             A == s.adopted \cup {n}
             t == [u EXCEPT !.adopted = A]
  <2>1. x \in NodeStates(n) /\ x.status # "failed"
    BY Waits_ DEF NodeStates
  <2> HIDE DEF x
  <2>2. /\ Shaped(u) /\ u.node[n] = x /\ \A m \in Nodes \ {n} : u.node[m] = s.node[m]
        /\ u.frames = s.frames /\ u.adopted = s.adopted /\ u.ready = s.ready
    BY <2>1, SetOne
  <2>3. Found(s, n) = t
    BY <1>2, <2>2, Zenon DEF Found, x
  <2> HIDE DEF u
  <2>4. t = [node |-> u.node, frames |-> u.frames, adopted |-> A, ready |-> u.ready]
    <3> HIDE DEF A
    <3> QED
      BY <2>2 DEF Shaped
  <2>5. s.adopted \cup {n} \subseteq Nodes \ Graph(Root)
    BY <1>2 DEF Shaped, Present, Active, Graph
  <2>6. /\ Shaped(t) /\ t.node = u.node /\ t.frames = s.frames /\ t.adopted = s.adopted \cup {n}
        /\ t.ready = s.ready
    BY <2>2, <2>4, <2>5 DEF Shaped
  <2> HIDE DEF t
  <2>7. \A m \in Nodes : Present(t, m) <=> Present(s, m) \/ m = n
    BY <2>6 DEF Present, Active
  <2>8. Clean(s) => Clean(t)
    BY <2>1, <2>2, <2>6, <2>7 DEF Clean
  <2> QED
    BY <1>2, <2>2, <2>3, <2>6, <2>7, <2>8
<1> QED
  BY <1>1, <1>2

\* What a container ends with.
LEMMA Ending ==
  ASSUME wf \in Workflows, NEW s, Shaped(s), NEW g \in Nodes
  PROVE  /\ ContainerEnd(s, g) \in NodeStates(g)
         /\ ContainerEnd(s, g).status = "failed" <=> FrameFailed(s, g)
PROOF
<1>1. s.node[g] \in NodeStates(g) /\ 0 \in 0..Cardinality(DepsOf(g))
  BY Waits_ DEF Shaped
<1>2. CASE FrameFailed(s, g)
  BY <1>1, <1>2 DEF ContainerEnd, NodeStates, Final
<1>3. CASE ~FrameFailed(s, g) /\ IsHost(g)
  BY <1>1, <1>3 DEF ContainerEnd, NodeStates, Final
<1>4. CASE ~FrameFailed(s, g) /\ ~IsHost(g)
  BY <1>1, <1>4 DEF ContainerEnd, NodeStates, Final
<1> QED
  BY <1>2, <1>3, <1>4

\* complete_frame_if_needed: a failed frame fails its container, no other does.
LEMMA Closing ==
  ASSUME wf \in Workflows, NEW s, Shaped(s), NEW g \in wf.containers
  PROVE  LET t == Close(s, g)
         IN  /\ Shaped(t) /\ t.adopted = s.adopted
             /\ (~FrameFailed(s, g) /\ Clean(s) => Clean(t))
             /\ \A m \in Nodes \ {g} : s.node[m].status = "failed" => t.node[m].status = "failed"
             /\ (FrameFailed(s, g) /\ Active(s, wf.graph[g]) => t.node[g].status = "failed")
PROOF
<1> DEFINE swept == IF FrameFailed(s, g) THEN Swept(s, g) ELSE s
           put   == Set(swept, g, ContainerEnd(s, g))
           ended == Popped(put, g)
           next  == CountedDown(ended, g)
           due   == {u \in Dependents(g) : Due(next.node[u]) /\ ~IsHost(u)}
           t     == Close(s, g)
<1>1. g \in Nodes
  BY Flow
<1>2. /\ Shaped(swept) /\ swept.frames = s.frames /\ swept.adopted = s.adopted
      /\ \A m \in Nodes : swept.node[m].status = "failed" <=> s.node[m].status = "failed"
      /\ (~FrameFailed(s, g) => swept = s)
  BY Sweeping
<1>3. t = IF ~Active(s, wf.graph[g]) THEN Popped(swept, g)
          ELSE IF IsHost(g) THEN ended
          ELSE Enqueue(next, due, None)
  BY Zenon DEF Close
<1> HIDE DEF swept
<1>4. ContainerEnd(s, g) \in NodeStates(g) /\ (ContainerEnd(s, g).status = "failed" <=> FrameFailed(s, g))
  BY <1>1, Ending
<1>5. /\ Shaped(put) /\ put.node[g] = ContainerEnd(s, g)
      /\ \A m \in Nodes \ {g} : put.node[m] = swept.node[m]
      /\ put.adopted = s.adopted
      /\ (~FrameFailed(s, g) /\ Clean(s) => Clean(put))
  BY <1>1, <1>2, <1>4, SetOne
<1> HIDE DEF put
<1>6. /\ Shaped(ended) /\ ended.node = put.node /\ ended.adopted = s.adopted
      /\ (Clean(put) => Clean(ended))
  BY <1>5, Popping
<1> HIDE DEF ended
<1>7. /\ Shaped(next) /\ \A m \in Nodes : next.node[m].status = ended.node[m].status
      /\ next.adopted = s.adopted /\ (Clean(ended) => Clean(next))
  BY <1>6, Counting
<1> HIDE DEF next
<1>8. due \subseteq Nodes /\ None \in Calls \cup {None}
  BY DEF Dependents
<1> HIDE DEF due
<1>9. /\ Shaped(Enqueue(next, due, None)) /\ Enqueue(next, due, None).adopted = s.adopted
      /\ \A m \in Nodes : Enqueue(next, due, None).node[m].status = next.node[m].status
      /\ (Clean(next) => Clean(Enqueue(next, due, None)))
  BY <1>7, <1>8, Enqueues
<1>10. /\ Shaped(Popped(swept, g)) /\ Popped(swept, g).node = swept.node
       /\ Popped(swept, g).adopted = s.adopted /\ (Clean(swept) => Clean(Popped(swept, g)))
  BY <1>2, Popping
<1>11. CASE ~Active(s, wf.graph[g])
  <2>1. t = Popped(swept, g)
    BY <1>3, <1>11
  <2> QED
    BY <2>1, <1>2, <1>10, <1>11
<1>12. CASE Active(s, wf.graph[g]) /\ IsHost(g)
  <2>1. t = ended
    BY <1>3, <1>12
  <2> QED
    BY <2>1, <1>1, <1>2, <1>4, <1>5, <1>6
<1>13. CASE Active(s, wf.graph[g]) /\ ~IsHost(g)
  <2>1. t = Enqueue(next, due, None)
    BY <1>3, <1>13
  <2> QED
    BY <2>1, <1>1, <1>2, <1>4, <1>5, <1>6, <1>7, <1>9
<1> QED
  BY <1>11, <1>12, <1>13

\* The frame of a node that ended is looked at.
LEMMA ClosingAfter ==
  ASSUME wf \in Workflows, NEW s, Shaped(s), NEW n \in Nodes
  PROVE  Shaped(CloseAfter(s, n))
PROOF
<1>1. CASE Closes(s, n)
  <2>1. wf.graph[n] \in wf.containers
    BY <1>1, Flow DEF Closes
  <2> QED
    BY <2>1, <1>1, Closing DEF CloseAfter
<1>2. CASE ~Closes(s, n)
  BY <1>2, Zenon DEF CloseAfter
<1> QED
  BY <1>1, <1>2

\* The node a result is reported for.
LEMMA Reporting ==
  ASSUME wf \in Workflows, NEW s, Shaped(s), NEW n \in Nodes, NEW st \in Good \cup {"failed"}
  PROVE  /\ Reported(s, n, st) \in NodeStates(n)
         /\ Reported(s, n, st).status = "failed" => st = "failed"
PROOF
<1>1. s.node[n] \in NodeStates(n) /\ 0 \in 0..Cardinality(DepsOf(n))
  BY Waits_ DEF Shaped
<1>2. CASE Hosting(s, n)
  BY <1>1, <1>2 DEF Reported, NodeStates, Final, Good
<1>3. CASE ~Hosting(s, n) /\ Chained(s, n)
  BY <1>1, <1>3 DEF Reported, NodeStates, Final, Good
<1>4. CASE ~Hosting(s, n) /\ ~Chained(s, n)
  BY <1>1, <1>4 DEF Reported, NodeStates, Final, Good
<1> QED
  BY <1>2, <1>3, <1>4

\* A middleware ends its host.
LEMMA EndingHost ==
  ASSUME wf \in Workflows, NEW s, Shaped(s), NEW n \in Nodes, IsMiddleware(n),
         NEW st \in Good \cup {"failed"}
  PROVE  LET t == EndHost(s, n, st)
         IN  /\ Shaped(t) /\ t.adopted = s.adopted /\ ToSet(s.frames) \subseteq ToSet(t.frames)
             /\ (Clean(s) /\ st # "failed" => Clean(t))
             /\ (st = "failed" => \A m \in Nodes : /\ Present(t, m) = Present(s, m)
                                                   /\ m # HostOf(n) => t.node[m] = s.node[m])
             /\ (st = "failed" => t.node[HostOf(n)].status = "failed")
PROOF
<1> DEFINE x == [status |-> st, pending |-> 0, enqueued |-> FALSE, blocked |-> FALSE]
           ended == Set(s, HostOf(n), x)
<1>1. HostOf(n) \in Nodes
  BY Flow
<1>2. x \in NodeStates(HostOf(n)) /\ x.status = st
  BY <1>1, Waits_ DEF NodeStates, Final, Good
<1>3. EndHost(s, n, st) = IF st \in Good THEN Release(ended, HostOf(n)) ELSE ended
  BY Zenon DEF EndHost
<1> HIDE DEF x
<1>4. /\ Shaped(ended) /\ ended.adopted = s.adopted /\ ended.node[HostOf(n)] = x
      /\ ended.frames = s.frames
      /\ \A m \in Nodes \ {HostOf(n)} : ended.node[m] = s.node[m]
      /\ \A m : Present(ended, m) = Present(s, m)
      /\ (Clean(s) /\ st # "failed" => Clean(ended))
  BY <1>1, <1>2, SetOne
<1> HIDE DEF ended
<1>5. CASE st \in Good
  <2>1. st # "failed"
    BY <1>5 DEF Good
  <2> QED
    BY <2>1, <1>3, <1>4, <1>5, Releasing
<1>6. CASE st \notin Good
  <2>1. EndHost(s, n, st) = ended
    BY <1>3, <1>6
  <2> QED
    BY <2>1, <1>2, <1>4
<1> QED
  BY <1>5, <1>6

\* Failed nodes of a live graph, if there are any, are where they will be seen:
\* in the top level, or in the frame of n.
Seen(s, n) ==
  \A m \in Nodes : Present(s, m) /\ s.node[m].status = "failed" =>
    m \in s.adopted \/ (n \notin s.adopted /\ wf.graph[m] = wf.graph[n])

\* The run fails with it.
RunFails(s) == \E m \in TopLevel(s) : s.node[m].status = "failed"

\* apply_record_result: what it changes is typed, and what it fails is seen.
LEMMA ReportDone ==
  ASSUME wf \in Workflows, NEW s, Shaped(s), NEW n \in Nodes, NEW st \in Good \cup {"failed"}
  PROVE  LET t == AfterReport(s, n, st)
         IN  /\ Shaped(t) /\ t.adopted = s.adopted /\ ToSet(s.frames) \subseteq ToSet(t.frames)
             /\ (Clean(s) => Seen(t, n))
PROOF
<1> DEFINE x    == Reported(s, n, st)
           own  == Set(s, n, x)
           next == IF st \in Good /\ ~Hosting(s, n) /\ n \notin s.adopted THEN Release(own, n) ELSE own
           t    == AfterReport(s, n, st)
<1>1. x \in NodeStates(n) /\ (x.status = "failed" => st = "failed")
  BY Reporting
<1> HIDE DEF x
<1>2. /\ Shaped(own) /\ own.adopted = s.adopted /\ own.node[n] = x /\ own.frames = s.frames
      /\ \A m \in Nodes \ {n} : own.node[m] = s.node[m]
      /\ \A m : Present(own, m) = Present(s, m)
      /\ (Clean(s) /\ x.status # "failed" => Clean(own))
  BY <1>1, SetOne
<1> HIDE DEF own
<1>3. /\ Shaped(next) /\ next.adopted = s.adopted /\ (Clean(own) => Clean(next))
      /\ ToSet(s.frames) \subseteq ToSet(next.frames)
      /\ (st \notin Good => next = own)
  BY <1>2, Releasing
<1>4. t = IF EndsHost(s, n, st) THEN EndHost(next, n, st) ELSE next
  BY Zenon DEF AfterReport, own, x
<1> HIDE DEF next
<1>5. CASE st \in Good
  <2>1. st # "failed" /\ x.status # "failed"
    BY <1>1, <1>5 DEF Good
  <2>2. /\ Shaped(t) /\ t.adopted = s.adopted /\ (Clean(next) => Clean(t))
        /\ ToSet(s.frames) \subseteq ToSet(t.frames)
    <3>1. CASE EndsHost(s, n, st)
      <4>1. IsMiddleware(n)
        BY <3>1 DEF EndsHost, Chained
      <4> QED
        BY <4>1, <2>1, <1>3, <1>4, <3>1, EndingHost
    <3>2. CASE ~EndsHost(s, n, st)
      BY <1>3, <1>4, <3>2
    <3> QED
      BY <3>1, <3>2
  <2>3. Clean(t) => Seen(t, n)
    BY DEF Clean, Seen
  <2> QED
    BY <2>1, <2>2, <2>3, <1>2, <1>3
<1>6. CASE st \notin Good
  <2>1. next = own /\ st = "failed"
    BY <1>3, <1>6
  <2>2. CASE EndsHost(s, n, st)
    <3>1. IsMiddleware(n) /\ n \notin s.adopted
      BY <2>2 DEF EndsHost, Chained
    <3>2. HostOf(n) \in Nodes /\ wf.graph[n] = wf.graph[HostOf(n)]
      BY <3>1, Flow
    <3>3. /\ Shaped(t) /\ t.adopted = s.adopted /\ ToSet(s.frames) \subseteq ToSet(t.frames)
          /\ \A m \in Nodes : /\ Present(t, m) = Present(s, m)
                              /\ m \notin {n, HostOf(n)} => t.node[m] = s.node[m]
      <4>1. t = EndHost(own, n, st)
        BY <1>4, <2>1, <2>2
      <4> HIDE DEF t
      <4>2. /\ Shaped(t) /\ t.adopted = own.adopted /\ ToSet(own.frames) \subseteq ToSet(t.frames)
            /\ \A m \in Nodes : /\ Present(t, m) = Present(own, m)
                                /\ m # HostOf(n) => t.node[m] = own.node[m]
        <5>1. Shaped(t) /\ t.adopted = own.adopted /\ ToSet(own.frames) \subseteq ToSet(t.frames)
          BY <4>1, <3>1, <1>2, EndingHost
        <5>2. \A m \in Nodes : Present(t, m) = Present(own, m)
          BY <4>1, <3>1, <2>1, <1>2, EndingHost, Zenon
        <5>3. \A m \in Nodes : m # HostOf(n) => t.node[m] = own.node[m]
          BY <4>1, <3>1, <2>1, <1>2, EndingHost
        <5> QED
          BY <5>1, <5>2, <5>3, Zenon
      <4> QED
        BY <4>2, <1>2
    <3>4. Clean(s) => Seen(t, n)
      <4> HIDE DEF t
      <4> SUFFICES ASSUME Clean(s), NEW m \in Nodes, Present(t, m), t.node[m].status = "failed"
                     PROVE  m \in t.adopted \/ (n \notin t.adopted /\ wf.graph[m] = wf.graph[n])
        BY DEF Seen
      <4>2. m \in {n, HostOf(n)}
        <5> SUFFICES ASSUME m \notin {n, HostOf(n)} PROVE FALSE
          OBVIOUS
        <5>1. Present(s, m)
          BY <3>3, Zenon
        <5>2. s.node[m].status = "failed"
          BY <3>3
        <5> QED
          BY <5>1, <5>2 DEF Clean
      <4> QED
        BY <4>2, <3>1, <3>2, <3>3
    <3> QED
      BY <3>3, <3>4
  <2>3. CASE ~EndsHost(s, n, st)
    <3>1. t = own
      BY <1>4, <2>1, <2>3
    <3>2. Clean(s) => Seen(own, n)
      BY <1>2 DEF Clean, Seen
    <3> QED
      BY <3>1, <3>2, <1>2
  <2> QED
    BY <2>2, <2>3
<1> QED
  BY <1>5, <1>6

\* Where containers hold none, a failure that is seen fails the run.
LEMMA FailureRises ==
  ASSUME wf \in Workflows, Unnested, NEW s, Shaped(s), NEW n \in Nodes, Present(s, n), Seen(s, n)
  PROVE  Clean(CloseAfter(s, n)) \/ RunFails(CloseAfter(s, n))
PROOF
<1> DEFINE g == wf.graph[n]
           t == CloseAfter(s, n)
<1>1. \A c \in wf.containers : wf.graph[c] = Root /\ c \in Nodes
  BY Flow DEF Unnested
<1>2. ~Closes(s, n) => t = s
  BY Zenon DEF CloseAfter
<1>3. Closes(s, n) => /\ t = Close(s, g) /\ g \in wf.containers /\ n \notin s.adopted /\ Active(s, g)
  BY Flow, Zenon DEF CloseAfter, Closes, Present
<1>4. Closes(s, n) => /\ t.adopted = s.adopted
                      /\ (~FrameFailed(s, g) /\ Clean(s) => Clean(t))
                      /\ \A m \in Nodes \ {g} : s.node[m].status = "failed" => t.node[m].status = "failed"
                      /\ (FrameFailed(s, g) => t.node[g].status = "failed")
  <2> SUFFICES ASSUME Closes(s, n)
               PROVE  /\ t.adopted = s.adopted
                      /\ (~FrameFailed(s, g) /\ Clean(s) => Clean(t))
                      /\ \A m \in Nodes \ {g} : s.node[m].status = "failed" => t.node[m].status = "failed"
                      /\ (FrameFailed(s, g) => t.node[g].status = "failed")
    OBVIOUS
  <2>1. Active(s, wf.graph[g])
    BY <1>1, <1>3 DEF Active
  <2> QED
    BY <2>1, <1>3, Closing
<1>5. s.adopted \subseteq Nodes \ Graph(Root)
  BY DEF Shaped
<1> SUFFICES Clean(t) \/ RunFails(t)
  OBVIOUS
<1> HIDE DEF t
<1>6. CASE Clean(s)
  <2>1. Closes(s, n) => ~FrameFailed(s, g)
    BY <1>6, <1>3 DEF Clean, FrameFailed, Present, Graph
  <2> QED
    BY <2>1, <1>2, <1>4, <1>6
<1>7. CASE ~Clean(s)
  <2>1. PICK m \in Nodes : Present(s, m) /\ s.node[m].status = "failed"
    BY <1>7 DEF Clean
  <2>2. CASE m \in s.adopted
    <3>1. wf.graph[m] # Root
      BY <2>2, <1>5 DEF Graph
    <3>2. Closes(s, n) => m # g
      BY <3>1, <1>1, <1>3
    <3> QED
      BY <2>1, <2>2, <3>2, <1>2, <1>4 DEF RunFails, TopLevel
  <2>3. CASE m \notin s.adopted
    <3>1. n \notin s.adopted /\ wf.graph[m] = g
      BY <2>1, <2>3 DEF Seen
    <3>2. CASE g = Root
      <4>1. ~Closes(s, n)
        BY <3>2 DEF Closes
      <4> QED
        BY <4>1, <3>1, <3>2, <2>1, <1>2 DEF RunFails, TopLevel, Graph
    <3>3. CASE g # Root
      <4>1. FrameFailed(s, g)
        BY <3>1, <2>1 DEF FrameFailed, Graph
      <4>2. Closes(s, n)
        BY <4>1, <3>1, <3>3 DEF Closes, FrameOver
      <4>3. g \in Graph(Root)
        BY <4>2, <1>1, <1>3 DEF Graph
      <4> QED
        BY <4>1, <4>2, <4>3, <1>4 DEF RunFails, TopLevel
    <3> QED
      BY <3>2, <3>3
  <2> QED
    BY <2>2, <2>3
<1> QED
  BY <1>6, <1>7

---------------------------------------------------------------------------
(* Steps and the shape of the variables. *)

\* The parts of ShapeInv that actions change on their own.
GraphPart ==
  /\ DOMAIN node = Nodes /\ \A n \in Nodes : node[n] \in NodeStates(n)
  /\ frames \in Seq(wf.containers) /\ adopted \subseteq Nodes \ Graph(Root)
  /\ blank \subseteq adopted
  /\ ready \subseteq [node : Nodes, for : Calls \cup {None}]
ExecPart ==
  /\ execs \subseteq Execs
  /\ \A e \in execs : e.waits => IsMiddleware(e.node) /\ e.report = "none"
CallPart ==
  /\ nexts \subseteq Calls
  /\ pendingNext \subseteq {[req |-> r, target |-> NextTarget(r.node)] : r \in Calls}
RunPart ==
  /\ runStatus \in Final \cup {"queued", "running"}
  /\ lastNode \in Nodes \cup {None} /\ (execs # {} => lastNode \in Nodes)
  /\ dispatched \in [Nodes -> 0..MaxDispatches]
  /\ faults \subseteq Faults
  /\ late \subseteq [node : Nodes, no : 1..MaxDispatches]

LEMMA Parts ==
  /\ ShapeInv <=> wf \in Workflows /\ GraphPart /\ ExecPart /\ CallPart /\ RunPart /\ CollectsInTime
  /\ ShapeInv' <=> /\ wf' \in Workflows /\ GraphPart' /\ ExecPart' /\ CallPart' /\ RunPart'
                   /\ CollectsInTime'
PROOF
  BY DEF ShapeInv, GraphPart, ExecPart, CallPart, RunPart

\* The workflow of a run does not change, and what is said of it neither.
LEMMA Rigid ==
  ASSUME wf' = wf
  PROVE  /\ Nodes' = Nodes /\ Calls' = Calls /\ Execs' = Execs
         /\ \A n : NodeStates(n)' = NodeStates(n) /\ IsMiddleware(n)' = IsMiddleware(n)
         /\ \A n : NextTarget(n)' = NextTarget(n)
         /\ \A g : Graph(g)' = Graph(g)
PROOF
<1>1. Nodes' = Nodes
  BY DEF Nodes
<1>2. \A n : IsMiddleware(n)' = IsMiddleware(n) /\ HostOf(n)' = HostOf(n)
  BY DEF IsMiddleware, HostOf
<1>3. \A n : ChainIndex(n)' = ChainIndex(n)
  BY <1>2, Zenon DEF ChainIndex, HostOf
<1>4. \A n : NextTarget(n)' = NextTarget(n)
  BY <1>3, Zenon DEF NextTarget, HostOf
<1>5. \A n : Outermost(n)' = Outermost(n)
  BY <1>2, <1>3, Zenon DEF Outermost, IsMiddleware
<1>6. \A n : DepsOf(n)' = DepsOf(n)
  BY <1>5, Zenon DEF DepsOf, HostOf
<1>7. \A n : NodeStates(n)' = NodeStates(n)
  BY <1>6, Zenon DEF NodeStates
<1>8. {m \in Nodes : IsMiddleware(m)}' = {m \in Nodes : IsMiddleware(m)}
  BY <1>1, Zenon DEF IsMiddleware
<1>9. Calls' = Calls
  BY <1>8, Zenon DEF Calls
<1>10. Execs' = Execs
  BY <1>1, <1>9, Zenon DEF Execs
<1>11. \A g : Graph(g)' = Graph(g)
  BY <1>1, Zenon DEF Graph
<1> QED
  BY <1>1, <1>2, <1>4, <1>7, <1>9, <1>10, <1>11

\* The graphs of the run are a stage.
LEMMA Now ==
  ASSUME ShapeInv
  PROVE  Shaped(Graphs) /\ Graphs.node = node /\ Graphs.frames = frames /\ Graphs.adopted = adopted
         /\ Graphs.ready = ready
PROOF
  BY DEF ShapeInv, Shaped, Graphs

\* A stage becomes the graphs of the run.
LEMMA Installed ==
  ASSUME NEW s, Shaped(s), Install(s)
  PROVE  Graphs' = s
PROOF
  BY DEF Install, Shaped, Graphs

LEMMA Installing ==
  ASSUME ShapeInv, wf' = wf, blank' \subseteq blank \cup adopted, NEW s, Shaped(s), Install(s)
  PROVE  GraphPart' /\ Graphs' = s
PROOF
<1>1. node' = s.node /\ frames' = s.frames /\ adopted' = s.adopted /\ ready' = s.ready
  BY DEF Install
<1>2. DOMAIN node' = Nodes' /\ \A n \in Nodes' : node'[n] \in NodeStates(n)'
  BY <1>1, Rigid DEF Shaped
<1>3. frames' \in Seq(wf'.containers) /\ adopted' \subseteq Nodes' \ Graph(Root)'
  BY <1>1, Rigid DEF Shaped
<1>4. ready' \subseteq [node : Nodes', for : Calls' \cup {None}]
  BY <1>1, Rigid DEF Shaped
<1>5. blank' \subseteq adopted'
  BY <1>1 DEF Shaped, ShapeInv
<1> QED
  BY <1>2, <1>3, <1>4, <1>5, Installed DEF GraphPart

LEMMA Rolling ==
  ASSUME NEW s
  PROVE  Rollup(s) \in Final \cup {"queued", "running"} /\ (RunFails(s) => Rollup(s) = "failed")
PROOF
<1> DEFINE S == {s.node[n].status : n \in TopLevel(s)}
<1>1. Rollup(s) = CASE "failed" \in S                              -> "failed"
                    [] S = {"queued"}                              -> "queued"
                    [] S = {"cancelled"}                           -> "cancelled"
                    [] S \subseteq Final \ {"failed"} /\ S # {"cancelled"} -> "succeeded"
                    [] OTHER                                       -> "running"
  BY DEF Rollup
<1>2. RunFails(s) => "failed" \in S
  BY DEF RunFails
<1> HIDE DEF S
<1>3. CASE "failed" \in S
  <2>1. S # {"queued"} /\ S # {"cancelled"} /\ ~(S \subseteq Final \ {"failed"})
    BY <1>3
  <2> QED
    BY <2>1, <1>1, <1>3 DEF Final
<1>4. CASE "failed" \notin S
  <2>1. CASE S = {"queued"}
    <3>1. ~(S \subseteq Final)
      BY <2>1 DEF Final
    <3> QED
      BY <3>1, <2>1, <1>1, <1>2, <1>4 DEF Final
  <2>2. CASE S = {"cancelled"}
    BY <2>2, <1>1, <1>2, <1>4 DEF Final
  <2>3. CASE S # {"queued"} /\ S # {"cancelled"} /\ S \subseteq Final \ {"failed"}
    BY <2>3, <1>1, <1>2, <1>4 DEF Final
  <2>4. CASE S # {"queued"} /\ S # {"cancelled"} /\ ~(S \subseteq Final \ {"failed"})
    BY <2>4, <1>1, <1>2, <1>4 DEF Final
  <2> QED
    BY <2>1, <2>2, <2>3, <2>4
<1> QED
  BY <1>3, <1>4

\* What is not touched keeps its shape.
LEMMA GraphsKept ==
  ASSUME ShapeInv, wf' = wf, blank' \subseteq blank, UNCHANGED graphVars
  PROVE  GraphPart'
PROOF
  BY Rigid, Parts DEF GraphPart, graphVars

LEMMA CallsKept ==
  ASSUME ShapeInv, wf' = wf, nexts' \subseteq nexts \cup Calls,
         pendingNext' \subseteq pendingNext \cup {[req |-> r, target |-> NextTarget(r.node)] : r \in Calls}
  PROVE  CallPart'
PROOF
<1> DEFINE P == {[req |-> r, target |-> NextTarget(r.node)] : r \in Calls}
<1>1. P' = P
  <2>1. Calls' = Calls /\ \A n : NextTarget(n)' = NextTarget(n)
    BY Rigid
  <2> QED
    BY <2>1
<1>2. nexts \subseteq Calls /\ pendingNext \subseteq P
  BY DEF ShapeInv
<1>3. Calls' = Calls
  BY Rigid
<1> HIDE DEF P
<1>4. nexts' \subseteq Calls' /\ pendingNext' \subseteq P'
  BY <1>1, <1>2, <1>3 DEF P
<1> QED
  BY <1>4 DEF CallPart, P

\* Executions: those of before, without some and with others that run.
LEMMA ExecsKept ==
  ASSUME ShapeInv, wf' = wf, faults \subseteq faults', collecting' = collecting,
         \A x \in execs' : \/ x \in execs
                           \/ /\ x \in Execs /\ x.report # "interrupted"
                              /\ (x.waits => IsMiddleware(x.node) /\ x.report = "none")
  PROVE  ExecPart' /\ CollectsInTime'
PROOF
<1>1. \A x \in execs' : x \in Execs /\ (x.waits => IsMiddleware(x.node) /\ x.report = "none")
  BY DEF ShapeInv
<1>2. ExecPart'
  BY <1>1, Rigid DEF ExecPart
<1>3. \A x \in execs' : x.report = "interrupted" => x \in execs
  OBVIOUS
<1>4. CollectsInTime'
  BY <1>3 DEF ShapeInv, CollectsInTime
<1> QED
  BY <1>2, <1>4

\* Answers only end waits.
LEMMA Answering ==
  ASSUME ShapeInv, NEW E, E \subseteq execs, NEW S, NEW x \in Answer(E, S)
  PROVE  x \in execs \/ (x \in Execs /\ x.report # "interrupted" /\ ~x.waits)
PROOF
<1>1. PICK e \in E : x = IF Waits(e, S) THEN [e EXCEPT !.waits = FALSE] ELSE e
  BY DEF Answer
<1>2. e \in Execs /\ (e.waits => e.report = "none")
  BY DEF ShapeInv
<1>3. CASE Waits(e, S)
  <2>1. e.waits
    BY <1>3 DEF Waits
  <2>2. x = [e EXCEPT !.waits = FALSE]
    BY <1>1, <1>3
  <2> QED
    BY <2>1, <2>2, <1>2 DEF Execs
<1>4. CASE ~Waits(e, S)
  BY <1>1, <1>4
<1> QED
  BY <1>3, <1>4
---------------------------------------------------------------------------
(* Steps. *)

\* What every step keeps.
Keeps == ShapeInv' /\ (Unnested /\ FailureSurfaces => FailureSurfaces')

\* The stage that the graphs are is clean while the run is live.
LEMMA CleanNow ==
  ASSUME ShapeInv, FailureSurfaces, Live
  PROVE  Clean(Graphs)
PROOF
  BY Now DEF FailureSurfaces, Clean

\* A stage that becomes the graphs of the run hides no failure.
LEMMA CleanNext ==
  ASSUME wf' = wf, NEW s, Shaped(s), Install(s), runStatus' \notin Final => Clean(s)
  PROVE  FailureSurfaces'
PROOF
<1>1. Graphs' = s /\ node' = s.node /\ Nodes' = Nodes
  BY Installed, Rigid DEF Install
<1>2. SUFFICES ASSUME Live', NEW n \in Nodes', Present(Graphs, n)'
               PROVE  node'[n].status # "failed"
  BY DEF FailureSurfaces
<1>3. Present(s, n)
  BY <1>1, <1>2 DEF Present, Active
<1>4. Clean(s)
  BY <1>2 DEF Live
<1> QED
  BY <1>1, <1>2, <1>3, <1>4 DEF Clean

\* A step that leaves the graphs and the status of the run alone.
LEMMA CleanStill ==
  ASSUME wf' = wf, UNCHANGED <<graphVars, runStatus>>
  PROVE  FailureSurfaces => FailureSurfaces'
PROOF
<1>1. /\ node' = node /\ frames' = frames /\ adopted' = adopted /\ ready' = ready
      /\ runStatus' = runStatus /\ Nodes' = Nodes
  BY Rigid DEF graphVars
<1>2. Graphs' = Graphs
  BY <1>1 DEF Graphs
<1>3. \A n : Present(Graphs, n)' = Present(Graphs, n)
  BY <1>2, Zenon DEF Present, Active
<1> QED
  BY <1>1, <1>3 DEF FailureSurfaces, Live

\* A step that leaves the records of the run alone.
LEMMA RunKept ==
  ASSUME ShapeInv, wf' = wf, runStatus' = runStatus, lastNode' = lastNode, dispatched' = dispatched,
         faults' \subseteq Faults, late' \subseteq late,
         \A x \in execs' : execs # {}
  PROVE  RunPart'
PROOF
<1>1. /\ runStatus \in Final \cup {"queued", "running"}
      /\ lastNode \in Nodes \cup {None} /\ (execs # {} => lastNode \in Nodes)
      /\ dispatched \in [Nodes -> 0..MaxDispatches]
      /\ late \subseteq [node : Nodes, no : 1..MaxDispatches]
  BY DEF ShapeInv
<1>2. Nodes' = Nodes
  BY Rigid
<1>3. execs' # {} => execs # {}
  OBVIOUS
<1> QED
  BY <1>1, <1>2, <1>3 DEF RunPart

LEMMA StepCollect ==
  ASSUME ShapeInv, CollectReady
  PROVE  Keeps
PROOF
<1> DEFINE g == IF frames = <<>> THEN Root ELSE Last(frames)
           s == CollectFrom(Graphs, g)
<1>1. /\ wf' = wf /\ collecting > 0 /\ collecting' = collecting - 1
      /\ UNCHANGED <<execs, nexts, pendingNext, runStatus, lastNode, dispatched, late, faults>>
      /\ IF Live THEN Install(s) ELSE UNCHANGED graphVars
      /\ blank' \subseteq blank \cup adopted /\ (~Live => blank' = blank)
  BY DEF CollectReady
<1>2. Shaped(s) /\ (Clean(Graphs) => Clean(s))
  BY Now, Collecting DEF ShapeInv
<1> HIDE DEF s
<1>3. GraphPart'
  BY <1>1, <1>2, Installing, GraphsKept
<1>4. CallPart'
  BY <1>1, CallsKept
<1>5. RunPart'
  BY <1>1, RunKept DEF ShapeInv
<1>6. ExecPart'
  BY <1>1, Rigid DEF ShapeInv, ExecPart
<1>7. CollectsInTime'
  BY <1>1 DEF ShapeInv, CollectsInTime
<1>8. ShapeInv'
  BY <1>1, <1>3, <1>4, <1>5, <1>6, <1>7, Parts DEF ShapeInv
<1>9. FailureSurfaces => FailureSurfaces'
  <2>1. CASE Live
    BY <2>1, <1>1, <1>2, CleanNow, CleanNext
  <2>2. CASE ~Live
    BY <2>2, <1>1, CleanStill
  <2> QED
    BY <2>1, <2>2
<1> QED
  BY <1>8, <1>9 DEF Keeps

LEMMA StepDrop ==
  ASSUME ShapeInv, NEW q, DropRequest(q)
  PROVE  Keeps
PROOF
<1>1. /\ wf' = wf /\ ready' \subseteq ready /\ ~Live
      /\ UNCHANGED <<node, frames, adopted, blank, execs, nexts, pendingNext, runStatus, lastNode,
                     dispatched, collecting, late, faults>>
  BY DEF DropRequest
<1>2. GraphPart'
  BY <1>1, Rigid DEF ShapeInv, GraphPart
<1>3. CallPart'
  BY <1>1, CallsKept
<1>4. RunPart'
  BY <1>1, RunKept DEF ShapeInv
<1>5. ExecPart' /\ CollectsInTime'
  BY <1>1, ExecsKept
<1>6. ShapeInv'
  BY <1>1, <1>2, <1>3, <1>4, <1>5, Parts DEF ShapeInv
<1>7. FailureSurfaces'
  BY <1>1 DEF FailureSurfaces, Live
<1> QED
  BY <1>6, <1>7 DEF Keeps

\* mark_dispatched
LEMMA Sending ==
  ASSUME ShapeInv, NEW q, Sent(q)
  PROVE  /\ wf' = wf /\ GraphPart' /\ CallPart' /\ q.node \in Nodes /\ q.for \in Calls \cup {None}
         /\ dispatched[q.node] + 1 \in 1..MaxDispatches
         /\ runStatus' \in Final \cup {"queued", "running"} /\ lastNode' \in Nodes'
         /\ dispatched' \in [Nodes' -> 0..MaxDispatches] /\ UNCHANGED <<collecting, late>>
         /\ (FailureSurfaces => FailureSurfaces')
PROOF
<1> DEFINE s0 == [Graphs EXCEPT !.ready = @ \ {q}]
           s1 == Found(s0, q.node)
           x  == [s1.node[q.node] EXCEPT !.status = "running", !.enqueued = FALSE]
           s2 == Set(s1, q.node, x)
<1>1. /\ q \in ready /\ Live /\ dispatched[q.node] < MaxDispatches
      /\ Install(s2) /\ runStatus' = Rollup(s2) /\ lastNode' = q.node
      /\ dispatched' = [dispatched EXCEPT ![q.node] = @ + 1]
      /\ UNCHANGED <<wf, blank, nexts, pendingNext, collecting, late>>
  BY DEF Sent, InstallAndRefresh
<1>2. q.node \in Nodes /\ q.for \in Calls \cup {None}
  BY <1>1 DEF ShapeInv
<1>3. s0 = [node |-> node, frames |-> frames, adopted |-> adopted, ready |-> ready \ {q}]
  BY DEF Graphs
<1> HIDE DEF s0
<1>4. s0.node = node /\ s0.frames = frames /\ s0.adopted = adopted /\ s0.ready = ready \ {q}
  BY <1>3
<1>5. Shaped(s0)
  BY <1>3, <1>4 DEF ShapeInv, Shaped
<1>6. Clean(Graphs) => Clean(s0)
  BY <1>4, Now DEF Clean, Present, Active
<1>7. Shaped(s1) /\ (Clean(s0) => Clean(s1))
  BY <1>2, <1>5, Finding DEF ShapeInv
<1> HIDE DEF s1
<1>8. x \in NodeStates(q.node) /\ x.status # "failed"
  BY <1>2, <1>7 DEF Shaped, NodeStates
<1> HIDE DEF x
<1>9. Shaped(s2) /\ (Clean(s1) => Clean(s2))
  BY <1>2, <1>7, <1>8, SetOne
<1> HIDE DEF s2
<1>10. GraphPart'
  BY <1>1, <1>9, Installing
<1>11. CallPart'
  BY <1>1, CallsKept
<1>12. runStatus' \in Final \cup {"queued", "running"}
  BY <1>1, Rolling
<1>13. lastNode' \in Nodes' /\ Nodes' = Nodes
  BY <1>1, <1>2, Rigid
<1>14. dispatched \in [Nodes -> 0..MaxDispatches] /\ MaxDispatches \in Nat
  BY BoundsAssumption DEF ShapeInv
<1>15. dispatched' \in [Nodes' -> 0..MaxDispatches] /\ dispatched[q.node] + 1 \in 1..MaxDispatches
  BY <1>1, <1>2, <1>13, <1>14
<1>16. FailureSurfaces => FailureSurfaces'
  BY <1>1, <1>6, <1>7, <1>9, CleanNow, CleanNext
<1> QED
  BY <1>1, <1>2, <1>10, <1>11, <1>12, <1>13, <1>15, <1>16

LEMMA StepDispatch ==
  ASSUME ShapeInv, NEW q, Dispatch(q)
  PROVE  Keeps
PROOF
<1> DEFINE e == [node |-> q.node, no |-> dispatched[q.node] + 1, for |-> q.for,
                 calls |-> 0, waits |-> FALSE, report |-> "none"]
<1>1. Sent(q) /\ execs' = execs \cup {e} /\ faults' = faults
  BY DEF Dispatch, Sent
<1>2. /\ wf' = wf /\ GraphPart' /\ CallPart' /\ q.node \in Nodes /\ q.for \in Calls \cup {None}
      /\ dispatched[q.node] + 1 \in 1..MaxDispatches
      /\ runStatus' \in Final \cup {"queued", "running"} /\ lastNode' \in Nodes'
      /\ dispatched' \in [Nodes' -> 0..MaxDispatches] /\ UNCHANGED <<collecting, late>>
      /\ (FailureSurfaces => FailureSurfaces')
  BY <1>1, Sending
<1>3. e \in Execs /\ e.report # "interrupted" /\ ~e.waits
  BY <1>2, BoundsAssumption DEF Execs
<1> HIDE DEF e
<1>4. ExecPart' /\ CollectsInTime'
  BY <1>1, <1>2, <1>3, ExecsKept
<1>5. RunPart'
  BY <1>1, <1>2, Rigid DEF ShapeInv, RunPart
<1>6. ShapeInv'
  BY <1>2, <1>4, <1>5, Parts DEF ShapeInv
<1> QED
  BY <1>2, <1>6 DEF Keeps

LEMMA StepRefused ==
  ASSUME ShapeInv, NEW q, Refused(q)
  PROVE  Keeps
PROOF
<1>1. Sent(q) /\ execs' = execs /\ faults' = faults
  BY DEF Refused, Sent
<1>2. /\ wf' = wf /\ GraphPart' /\ CallPart'
      /\ runStatus' \in Final \cup {"queued", "running"} /\ lastNode' \in Nodes'
      /\ dispatched' \in [Nodes' -> 0..MaxDispatches] /\ UNCHANGED <<collecting, late>>
      /\ (FailureSurfaces => FailureSurfaces')
  BY <1>1, Sending
<1>3. ExecPart' /\ CollectsInTime'
  BY <1>1, <1>2, ExecsKept
<1>4. RunPart'
  BY <1>1, <1>2, Rigid DEF ShapeInv, RunPart
<1>5. ShapeInv'
  BY <1>2, <1>3, <1>4, Parts DEF ShapeInv
<1> QED
  BY <1>2, <1>5 DEF Keeps

\* The steps of a worker leave the scheduler alone.
LEMMA AtWorker ==
  ASSUME ShapeInv, WorkerOnly, faults' \subseteq Faults, nexts' \subseteq nexts \cup Calls,
         ExecPart', CollectsInTime', \A x \in execs' : execs # {}
  PROVE  Keeps
PROOF
<1>1. /\ wf' = wf /\ UNCHANGED graphVars /\ blank' = blank /\ pendingNext' = pendingNext
      /\ runStatus' = runStatus /\ lastNode' = lastNode /\ dispatched' = dispatched
      /\ collecting' = collecting /\ late' = late
  BY DEF WorkerOnly
<1>2. GraphPart' /\ CallPart' /\ RunPart'
  BY <1>1, GraphsKept, CallsKept, RunKept
<1>3. ShapeInv'
  BY <1>1, <1>2, Parts DEF ShapeInv
<1>4. FailureSurfaces => FailureSurfaces'
  BY <1>1, CleanStill
<1> QED
  BY <1>3, <1>4 DEF Keeps

\* A fault is one of those allowed.
LEMMA Faulty ==
  ASSUME ShapeInv, NEW f, Fault(f) \/ NoFault
  PROVE  faults \subseteq faults' /\ faults' \subseteq Faults /\ (Fault(f) => f \notin faults /\ f \in faults')
PROOF
  BY DEF Fault, NoFault, ShapeInv

LEMMA StepCall ==
  ASSUME ShapeInv, NEW e \in execs, CallsNext(e)
  PROVE  Keeps
PROOF
<1> DEFINE x == [e EXCEPT !.calls = @ + 1, !.waits = TRUE]
<1>1. /\ Busy(e) /\ IsMiddleware(e.node) /\ e.calls < MaxCalls
      /\ execs' = (execs \ {e}) \cup {x} /\ nexts' = nexts \cup {Call(x)}
      /\ NoFault /\ WorkerOnly
  BY DEF CallsNext, Becomes
<1>2. e \in Execs /\ MaxCalls \in Nat /\ e.report = "none"
  BY <1>1, BoundsAssumption DEF ShapeInv, Busy
<1>3. x \in Execs /\ x.report = "none" /\ IsMiddleware(x.node)
  <2>1. e.calls \in 0..MaxCalls /\ e.calls + 1 \in 0..MaxCalls
    BY <1>1, <1>2 DEF Execs
  <2> DEFINE k_ == e.calls + 1
  <2>2. x = [e EXCEPT !.calls = k_, !.waits = TRUE]
    OBVIOUS
  <2> HIDE DEF x, k_
  <2>3. x \in Execs
    BY <1>2, <2>1, <2>2 DEF Execs, k_
  <2>4. x.report = "none" /\ x.node = e.node
    BY <1>2, <2>2 DEF Execs
  <2> QED
    BY <1>1, <2>3, <2>4
<1>4. Call(x) \in Calls
  BY <1>1, <1>2 DEF Execs, Call, Calls
<1> HIDE DEF x
<1>5. faults \subseteq faults' /\ faults' \subseteq Faults
  BY <1>1, Faulty
<1>6. ExecPart' /\ CollectsInTime'
  BY <1>1, <1>3, <1>5, ExecsKept DEF WorkerOnly
<1> QED
  BY <1>1, <1>4, <1>5, <1>6, AtWorker

LEMMA StepGivesUp ==
  ASSUME ShapeInv, NEW e \in execs, GivesUp(e)
  PROVE  Keeps
PROOF
<1> DEFINE x == [e EXCEPT !.waits = FALSE]
<1>1. /\ e.waits /\ execs' = (execs \ {e}) \cup {x} /\ nexts' = nexts
      /\ Fault("timeout") /\ WorkerOnly
  BY DEF GivesUp, Becomes
<1>2. e \in Execs /\ e.report = "none"
  BY <1>1 DEF ShapeInv
<1>3. x \in Execs /\ x.report = "none" /\ ~x.waits
  BY <1>2 DEF Execs
<1> HIDE DEF x
<1>4. faults \subseteq faults' /\ faults' \subseteq Faults
  BY <1>1, Faulty
<1>5. ExecPart' /\ CollectsInTime'
  BY <1>1, <1>3, <1>4, ExecsKept DEF WorkerOnly
<1> QED
  BY <1>1, <1>4, <1>5, AtWorker

\* Only one execution is ever cancelled by its worker, so only one collection
\* comes of it.
LEMMA StepReports ==
  ASSUME ShapeInv, NEW e \in execs, NEW st \in Good \cup {"failed", "interrupted", "error"}, Reports(e, st)
  PROVE  Keeps
PROOF
<1> DEFINE x == [e EXCEPT !.report = st]
<1>1. /\ Busy(e) /\ execs' = (execs \ {e}) \cup {x} /\ nexts' = nexts /\ WorkerOnly
      /\ \/ NoFault \/ Fault("short_circuit") \/ Fault(st)
      /\ (st = "interrupted" => Fault("interrupted"))
  BY DEF Reports, Becomes, Good
<1>2. e \in Execs /\ ~e.waits
  BY <1>1 DEF ShapeInv, Busy
<1>3. x \in Execs /\ ~x.waits /\ x.report = st
  BY <1>2 DEF Execs, Good
<1> HIDE DEF x
<1>4. faults \subseteq faults' /\ faults' \subseteq Faults
  BY <1>1, Faulty
<1>5. collecting' = collecting
  BY <1>1 DEF WorkerOnly
<1>6. ExecPart' /\ CollectsInTime'
  <2>1. CASE st # "interrupted"
    BY <1>1, <1>3, <1>4, <1>5, <2>1, ExecsKept DEF WorkerOnly
  <2>2. CASE st = "interrupted"
    <3>1. "interrupted" \notin faults /\ "interrupted" \in faults'
      BY <1>1, <2>2, Faulty
    <3>2. collecting <= 1 /\ collecting \in 0..2 /\ \A y \in execs : y.report # "interrupted"
      BY <3>1 DEF ShapeInv, CollectsInTime
    <3>3. CollectsInTime'
      BY <1>1, <1>5, <3>1, <3>2 DEF CollectsInTime
    <3>4. \A y \in execs' : y \in Execs /\ (y.waits => IsMiddleware(y.node) /\ y.report = "none")
      BY <1>1, <1>3 DEF ShapeInv
    <3>5. ExecPart'
      BY <1>1, <3>4, Rigid DEF ExecPart, WorkerOnly
    <3> QED
      BY <3>3, <3>5
  <2> QED
    BY <2>1, <2>2
<1> QED
  BY <1>1, <1>4, <1>6, AtWorker

---------------------------------------------------------------------------
(* Steps of the scheduler's handlers. *)

\* A handler installs a stage and refreshes the rollup, or leaves the run as it is.
LEMMA Handling ==
  ASSUME ShapeInv, wf' = wf, blank' \subseteq blank, UNCHANGED <<lastNode, dispatched>>,
         late' \subseteq late, faults' \subseteq Faults,
         nexts' \subseteq nexts, pendingNext' \subseteq pendingNext,
         ExecPart', CollectsInTime', \A x \in execs' : execs # {},
         NEW s, Shaped(s), InstallAndRefresh(s)
  PROVE  /\ ShapeInv'
         /\ (Clean(s) \/ RunFails(s) => FailureSurfaces')
PROOF
<1>1. Install(s) /\ runStatus' = Rollup(s)
  BY DEF InstallAndRefresh
<1>2. GraphPart' /\ CallPart'
  BY <1>1, Installing, CallsKept
<1>3. RunPart'
  <2>1. runStatus' \in Final \cup {"queued", "running"}
    BY <1>1, Rolling
  <2>2. /\ lastNode \in Nodes \cup {None} /\ (execs # {} => lastNode \in Nodes)
        /\ dispatched \in [Nodes -> 0..MaxDispatches]
        /\ late \subseteq [node : Nodes, no : 1..MaxDispatches]
    BY DEF ShapeInv
  <2>3. execs' # {} => execs # {}
    OBVIOUS
  <2> QED
    BY <2>1, <2>2, <2>3, Rigid DEF RunPart
<1>4. ShapeInv'
  BY <1>2, <1>3, Parts DEF ShapeInv
<1>5. RunFails(s) => runStatus' \in Final
  BY <1>1, Rolling DEF Final
<1>6. Clean(s) \/ RunFails(s) => FailureSurfaces'
  BY <1>1, <1>5, CleanNext
<1> QED
  BY <1>4, <1>6

LEMMA HandlingNothing ==
  ASSUME ShapeInv, wf' = wf, blank' \subseteq blank, UNCHANGED <<lastNode, dispatched, graphVars, runStatus>>,
         late' \subseteq late, faults' \subseteq Faults,
         nexts' \subseteq nexts, pendingNext' \subseteq pendingNext,
         ExecPart', CollectsInTime', \A x \in execs' : execs # {}
  PROVE  Keeps
PROOF
<1>1. GraphPart' /\ CallPart' /\ RunPart'
  BY GraphsKept, CallsKept, RunKept
<1>2. ShapeInv'
  BY <1>1, Parts DEF ShapeInv
<1>3. FailureSurfaces => FailureSurfaces'
  BY CleanStill
<1> QED
  BY <1>2, <1>3 DEF Keeps

\* Executions that are handled, or answered.
LEMMA ExecsAnswered ==
  ASSUME ShapeInv, wf' = wf, faults \subseteq faults', collecting' = collecting,
         NEW E, E \subseteq execs, NEW S, execs' = Answer(E, S)
  PROVE  ExecPart' /\ CollectsInTime' /\ \A x \in execs' : execs # {}
PROOF
<1>1. \A x \in execs' : x \in execs \/ (x \in Execs /\ x.report # "interrupted" /\ ~x.waits)
  BY Answering
<1>2. ExecPart' /\ CollectsInTime'
  BY <1>1, ExecsKept
<1>3. \A x \in execs' : execs # {}
  BY DEF Answer
<1> QED
  BY <1>2, <1>3

LEMMA StepResult ==
  ASSUME ShapeInv, NEW e \in execs, HandleResult(e)
  PROVE  Keeps
PROOF
<1> DEFINE s0 == Found(Graphs, e.node)
           s == AfterReport(s0, e.node, e.report)
           t == CloseAfter(s, e.node)
           over == AskedFor({e.node} \cup ClosedWith(s, e.node))
<1>1. /\ UNCHANGED <<wf, blank, nexts, lastNode, dispatched, late, faults, collecting>>
      /\ e.report \in Good \cup {"failed"}
      /\ IF ~Live
         THEN execs' = execs \ {e} /\ UNCHANGED <<graphVars, runStatus, pendingNext>>
         ELSE /\ InstallAndRefresh(t)
              /\ pendingNext' = pendingNext \ over
              /\ execs' = Answer(execs \ {e}, Reqs(over))
  BY DEF HandleResult, Handled
<1>2. e.node \in Nodes /\ wf \in Workflows /\ faults \subseteq Faults
  BY DEF ShapeInv, Execs
<1>3. CASE ~Live
  <2>1. ExecPart' /\ CollectsInTime' /\ \A x \in execs' : execs # {}
    BY <1>1, <1>3, ExecsKept
  <2> QED
    BY <2>1, <1>1, <1>2, <1>3, HandlingNothing
<1>4. CASE Live
  <2>1. /\ Shaped(s0) /\ Present(s0, e.node) /\ (Clean(Graphs) => Clean(s0))
    BY <1>2, Now, Finding
  <2> HIDE DEF s0
  <2>2. /\ Shaped(s) /\ (Clean(s0) => Seen(s, e.node))
        /\ s.adopted = s0.adopted /\ ToSet(s0.frames) \subseteq ToSet(s.frames)
    BY <1>1, <1>2, <2>1, ReportDone
  <2>3. Shaped(t)
    BY <1>2, <2>2, ClosingAfter
  <2>4. InstallAndRefresh(t) /\ pendingNext' \subseteq pendingNext /\ execs' = Answer(execs \ {e}, Reqs(over))
    BY <1>1, <1>4
  <2> HIDE DEF over
  <2>5. ExecPart' /\ CollectsInTime' /\ \A x \in execs' : execs # {}
    BY <1>1, <2>4, ExecsAnswered
  <2>6. ShapeInv' /\ (Clean(t) \/ RunFails(t) => FailureSurfaces')
    <3> HIDE DEF t
    <3> QED
      BY <1>1, <1>2, <2>3, <2>4, <2>5, Handling
  <2>7. Present(s, e.node)
    <3> HIDE DEF s
    <3> QED
      BY <2>1, <2>2 DEF Present, Active
  <2>8. Unnested /\ FailureSurfaces => Clean(t) \/ RunFails(t)
    <3> HIDE DEF s
    <3> QED
      BY <1>2, <1>4, <2>1, <2>2, <2>7, CleanNow, FailureRises
  <2> QED
    BY <2>6, <2>8 DEF Keeps
<1> QED
  BY <1>3, <1>4

\* reset_after_worker_cancel: the only execution that a worker cancelled is gone
\* when its collection begins.
LEMMA StepInterrupted ==
  ASSUME ShapeInv, NEW e \in execs, HandleInterrupted(e)
  PROVE  Keeps
PROOF
<1> DEFINE x == [status |-> "queued", pending |-> 0, enqueued |-> FALSE, blocked |-> FALSE]
           t == Set(Graphs, e.node, x)
<1>1. /\ UNCHANGED <<wf, blank, nexts, lastNode, dispatched, late, faults>>
      /\ e.report = "interrupted" /\ execs' = execs \ {e} /\ collecting' = collecting + 1
      /\ IF ~Live \/ ~Present(Graphs, e.node)
         THEN UNCHANGED <<graphVars, runStatus, pendingNext>>
         ELSE /\ InstallAndRefresh(t)
              /\ pendingNext' = pendingNext \ AskedFor({e.node})
  BY DEF HandleInterrupted, Handled
<1>2. e.node \in Nodes /\ wf \in Workflows /\ faults \subseteq Faults
  BY DEF ShapeInv, Execs
<1>3. x \in NodeStates(e.node) /\ x.status # "failed"
  BY <1>2, Waits_ DEF NodeStates
<1> HIDE DEF x
<1>4. Shaped(t) /\ (Clean(Graphs) => Clean(t))
  BY <1>2, <1>3, Now, SetOne
<1> HIDE DEF t
<1>5. CollectsInTime'
  <2>1. /\ "interrupted" \in faults /\ collecting \in 0..2 /\ collecting <= 1
        /\ \A y \in execs : y.report = "interrupted" => y = e
    BY <1>1 DEF ShapeInv, CollectsInTime
  <2> QED
    BY <1>1, <2>1 DEF CollectsInTime
<1>6. ExecPart' /\ \A y \in execs' : execs # {}
  BY <1>1, Rigid DEF ShapeInv, ExecPart
<1>7. CASE ~Live \/ ~Present(Graphs, e.node)
  BY <1>1, <1>2, <1>5, <1>6, <1>7, HandlingNothing
<1>8. CASE Live /\ Present(Graphs, e.node)
  <2>1. InstallAndRefresh(t) /\ pendingNext' \subseteq pendingNext
    BY <1>1, <1>8
  <2>2. ShapeInv' /\ (Clean(t) \/ RunFails(t) => FailureSurfaces')
    BY <1>1, <1>2, <1>4, <1>5, <1>6, <2>1, Handling
  <2> QED
    BY <2>2, <1>4, <1>8, CleanNow DEF Keeps
<1> QED
  BY <1>7, <1>8

\* apply_command_error: whichever node it blames is failed where it will be seen.
LEMMA StepError ==
  ASSUME ShapeInv, NEW e \in execs, HandleError(e)
  PROVE  Keeps
PROOF
<1> DEFINE x == [node[lastNode] EXCEPT !.status = "failed", !.enqueued = FALSE]
           s == Set(Graphs, lastNode, x)
           t == CloseAfter(s, lastNode)
<1>1. /\ UNCHANGED <<wf, blank, nexts, lastNode, dispatched, late, faults, collecting>>
      /\ execs' = execs \ {e}
      /\ IF ~Live \/ ~Present(Graphs, lastNode)
         THEN UNCHANGED <<graphVars, runStatus, pendingNext>>
         ELSE /\ InstallAndRefresh(t)
              /\ pendingNext' = pendingNext \ AskedFor(ClosedWith(s, lastNode))
  BY DEF HandleError, Handled
<1>2. lastNode \in Nodes /\ wf \in Workflows /\ faults \subseteq Faults
  BY DEF ShapeInv
<1>3. x \in NodeStates(lastNode) /\ x.status = "failed"
  BY <1>2 DEF ShapeInv, NodeStates, Final
<1> HIDE DEF x
<1>4. /\ Shaped(s) /\ s.node[lastNode] = x /\ s.adopted = adopted
      /\ \A m \in Nodes \ {lastNode} : s.node[m] = node[m]
      /\ \A m : Present(s, m) = Present(Graphs, m)
  BY <1>2, <1>3, Now, SetOne
<1> HIDE DEF s
<1>5. Shaped(t)
  BY <1>2, <1>4, ClosingAfter
<1>6. ExecPart' /\ CollectsInTime' /\ \A y \in execs' : execs # {}
  BY <1>1, ExecsKept
<1>7. CASE ~Live \/ ~Present(Graphs, lastNode)
  BY <1>1, <1>2, <1>6, <1>7, HandlingNothing
<1>8. CASE Live /\ Present(Graphs, lastNode)
  <2>1. InstallAndRefresh(t) /\ pendingNext' \subseteq pendingNext
    BY <1>1, <1>8
  <2>2. ShapeInv' /\ (Clean(t) \/ RunFails(t) => FailureSurfaces')
    <3> HIDE DEF t
    <3> QED
      BY <1>1, <1>2, <1>5, <1>6, <2>1, Handling
  <2>3. FailureSurfaces => Seen(s, lastNode)
    <3> SUFFICES ASSUME FailureSurfaces, NEW m \in Nodes, Present(s, m), s.node[m].status = "failed"
                 PROVE  m = lastNode
      BY DEF Seen
    <3>1. Present(Graphs, m)
      BY <1>4, Zenon
    <3>2. node[m].status # "failed"
      BY <3>1, <1>8 DEF FailureSurfaces
    <3> QED
      BY <3>2, <1>4
  <2>4. Present(s, lastNode)
    BY <1>4, <1>8, Zenon
  <2>5. Unnested /\ FailureSurfaces => Clean(t) \/ RunFails(t)
    BY <1>2, <1>4, <2>3, <2>4, FailureRises
  <2> QED
    BY <2>2, <2>5 DEF Keeps
<1> QED
  BY <1>7, <1>8

LEMMA StepRefuse ==
  ASSUME ShapeInv, NEW r, RefuseNext(r)
  PROVE  Keeps
PROOF
<1>1. /\ UNCHANGED <<wf, blank, lastNode, dispatched, collecting, late, faults, runStatus, graphVars,
                     pendingNext>>
      /\ nexts' \subseteq nexts /\ execs' = Answer(execs, {r})
  BY DEF RefuseNext, TakesNext
<1>2. faults \subseteq Faults
  BY DEF ShapeInv
<1>3. ExecPart' /\ CollectsInTime' /\ \A x \in execs' : execs # {}
  BY <1>1, ExecsAnswered
<1> QED
  BY <1>1, <1>2, <1>3, HandlingNothing

\* handle_next_request
LEMMA StepNext ==
  ASSUME ShapeInv, NEW r, HandleNext(r)
  PROVE  Keeps
PROOF
<1> DEFINE t == NextTarget(r.node)
           x == Requeued(node[t])
           q == Set(Graphs, t, x)
           s == IF IsContainer(t) THEN Open(q, {t}) ELSE Enqueue(q, {t}, r)
           p == [req |-> r, target |-> t]
<1>1. /\ UNCHANGED <<wf, blank, lastNode, dispatched, collecting, late, faults, runStatus>>
      /\ r \in nexts /\ nexts' = nexts \ {r} /\ Live
      /\ Install(s) /\ pendingNext' = pendingNext \cup {p}
      /\ execs' = IF s.ready = ready THEN Answer(execs, {r}) ELSE execs
  BY DEF HandleNext, TakesNext, NextReady
<1>2. r \in Calls /\ r.node \in Nodes /\ IsMiddleware(r.node) /\ wf \in Workflows
  BY <1>1 DEF ShapeInv, Calls
<1>3. t \in Nodes
  BY <1>2, Target
<1>4. p \in {[req |-> c, target |-> NextTarget(c.node)] : c \in Calls}
  BY <1>2
<1> HIDE DEF t, p
<1>5. x \in NodeStates(t) /\ x.status # "failed"
  BY <1>3 DEF ShapeInv, NodeStates, Requeued, Final
<1> HIDE DEF x
<1>6. Shaped(q) /\ (Clean(Graphs) => Clean(q))
  BY <1>2, <1>3, <1>5, Now, SetOne
<1> HIDE DEF q
<1>7. Shaped(s) /\ (Clean(Graphs) => Clean(s))
  <2>1. CASE IsContainer(t)
    <3>1. s = Open(q, {t}) /\ {t} \subseteq wf.containers
      BY <2>1 DEF IsContainer
    <3> QED
      BY <3>1, <1>2, <1>6, Opening
  <2>2. CASE ~IsContainer(t)
    <3>1. s = Enqueue(q, {t}, r) /\ {t} \subseteq Nodes
      BY <2>2, <1>3
    <3> QED
      BY <3>1, <1>2, <1>6, Enqueues
  <2> QED
    BY <2>1, <2>2
<1> HIDE DEF s
<1>8. ExecPart' /\ CollectsInTime' /\ \A y \in execs' : execs # {}
  <2>1. CASE s.ready = ready
    BY <2>1, <1>1, ExecsAnswered
  <2>2. CASE s.ready # ready
    BY <2>2, <1>1, ExecsKept
  <2> QED
    BY <2>1, <2>2
<1>9. GraphPart' /\ CallPart' /\ RunPart'
  <2>1. GraphPart'
    BY <1>1, <1>7, Installing
  <2>2. CallPart'
    BY <1>1, <1>4, CallsKept
  <2>3. RunPart'
    BY <1>1, <1>8, RunKept DEF ShapeInv
  <2> QED
    BY <2>1, <2>2, <2>3
<1>10. ShapeInv'
  BY <1>1, <1>2, <1>8, <1>9, Parts
<1>11. FailureSurfaces => FailureSurfaces'
  BY <1>1, <1>7, CleanNow, CleanNext
<1> QED
  BY <1>10, <1>11 DEF Keeps

LEMMA StepExpire ==
  ASSUME ShapeInv, NEW p, ExpireNext(p)
  PROVE  Keeps
PROOF
<1>1. /\ UNCHANGED <<wf, graphVars, blank, nexts, runStatus, lastNode, dispatched, collecting, late>>
      /\ pendingNext' \subseteq pendingNext /\ execs' = Answer(execs, {p.req}) /\ Fault("timeout")
  BY DEF ExpireNext
<1>2. faults \subseteq faults' /\ faults' \subseteq Faults
  BY <1>1, Faulty
<1>3. ExecPart' /\ CollectsInTime' /\ \A x \in execs' : execs # {}
  BY <1>1, <1>2, ExecsAnswered
<1> QED
  BY <1>1, <1>2, <1>3, HandlingNothing

\* cancel_run
LEMMA StepCancel ==
  ASSUME ShapeInv, CancelRun
  PROVE  Keeps
PROOF
<1> DEFINE f == [n \in Nodes |->
                   IF Present(Graphs, n) /\ node[n].status \notin Final
                   THEN [node[n] EXCEPT !.status = "cancelled", !.enqueued = FALSE, !.pending = 0]
                   ELSE node[n]]
<1>1. /\ UNCHANGED <<wf, adopted, nexts, lastNode, dispatched, collecting, late>>
      /\ Fault("cancel") /\ node' = f /\ frames' = <<>> /\ ready' = {} /\ blank' = {} /\ runStatus' = "cancelled"
      /\ pendingNext' = {} /\ execs' = Answer(execs, Reqs(pendingNext))
  BY DEF CancelRun
<1>2. faults \subseteq faults' /\ faults' \subseteq Faults
  BY <1>1, Faulty
<1>3. ExecPart' /\ CollectsInTime' /\ \A x \in execs' : execs # {}
  BY <1>1, <1>2, ExecsAnswered
<1>4. wf \in Workflows
  BY DEF ShapeInv
<1>5. GraphPart'
  <2>1. \A n \in Nodes : f[n] \in NodeStates(n)
    <3> SUFFICES ASSUME NEW n \in Nodes
                 PROVE  f[n] \in NodeStates(n)
      OBVIOUS
    <3>1. node[n] \in NodeStates(n) /\ 0 \in 0..Cardinality(DepsOf(n))
      BY <1>4, Waits_ DEF ShapeInv
    <3>2. [node[n] EXCEPT !.status = "cancelled", !.enqueued = FALSE, !.pending = 0] \in NodeStates(n)
      BY <3>1 DEF NodeStates, Final
    <3> QED
      BY <3>1, <3>2
  <2>2. DOMAIN f = Nodes
    OBVIOUS
  <2> HIDE DEF f
  <2>3. adopted \subseteq Nodes \ Graph(Root) /\ <<>> \in Seq(wf.containers)
    BY DEF ShapeInv
  <2> QED
    BY <1>1, <2>1, <2>2, <2>3, Rigid DEF GraphPart
<1> HIDE DEF f
<1>6. CallPart'
  BY <1>1, CallsKept
<1>7. RunPart'
  <2>1. /\ lastNode \in Nodes \cup {None} /\ (execs # {} => lastNode \in Nodes)
        /\ dispatched \in [Nodes -> 0..MaxDispatches]
        /\ late \subseteq [node : Nodes, no : 1..MaxDispatches]
    BY DEF ShapeInv
  <2>2. execs' # {} => execs # {}
    BY <1>3
  <2> QED
    BY <1>1, <1>2, <2>1, <2>2, Rigid DEF RunPart, Final
<1>8. ShapeInv'
  BY <1>1, <1>3, <1>4, <1>5, <1>6, <1>7, Parts
<1>9. FailureSurfaces'
  BY <1>1 DEF FailureSurfaces, Live, Final
<1> QED
  BY <1>8, <1>9 DEF Keeps

\* Feedback leaves behind nothing but, perhaps, a node that is queued.
LEMMA Feeding ==
  ASSUME ShapeInv, NEW n \in Nodes, ApplyFeedback(n), faults \subseteq faults', faults' \subseteq Faults,
         late' \subseteq late
  PROVE  Keeps
PROOF
<1> DEFINE s == Found(Graphs, n)
<1>1. /\ UNCHANGED <<wf, blank, nexts, execs, pendingNext, runStatus, lastNode, dispatched, collecting>>
      /\ Install(s)
  BY DEF ApplyFeedback
<1>2. Shaped(s) /\ (Clean(Graphs) => Clean(s)) /\ wf \in Workflows
  BY Now, Finding DEF ShapeInv
<1> HIDE DEF s
<1>3. GraphPart'
  BY <1>1, <1>2, Installing
<1>4. CallPart'
  BY <1>1, CallsKept
<1>5. RunPart'
  BY <1>1, RunKept
<1>6. ExecPart' /\ CollectsInTime'
  BY <1>1, ExecsKept
<1>7. ShapeInv'
  BY <1>1, <1>2, <1>3, <1>4, <1>5, <1>6, Parts
<1>8. FailureSurfaces => FailureSurfaces'
  BY <1>1, <1>2, CleanNow, CleanNext DEF Live
<1> QED
  BY <1>7, <1>8 DEF Keeps

LEMMA StepFeedback ==
  ASSUME ShapeInv, NEW e \in execs, Feedback(e)
  PROVE  Keeps
PROOF
<1>1. ApplyFeedback(e.node) /\ late' = late /\ Fault("feedback")
  BY DEF Feedback
<1>2. e.node \in Nodes
  BY DEF ShapeInv, Execs
<1> QED
  BY <1>1, <1>2, Faulty, Feeding

LEMMA StepLate ==
  ASSUME ShapeInv, NEW f \in late, LateFeedback(f)
  PROVE  Keeps
PROOF
<1>1. ApplyFeedback(f.node) /\ late' \subseteq late /\ NoFault
  BY DEF LateFeedback
<1>2. f.node \in Nodes
  BY DEF ShapeInv
<1> QED
  BY <1>1, <1>2, Faulty, Feeding

LEMMA StepLeaves ==
  ASSUME ShapeInv, NEW e \in execs, LeavesFeedback(e)
  PROVE  Keeps
PROOF
<1> DEFINE l == [node |-> e.node, no |-> e.no]
<1>1. /\ UNCHANGED <<wf, graphVars, blank, nexts, execs, pendingNext, runStatus, lastNode, dispatched,
                     collecting>>
      /\ Fault("late_feedback") /\ late' = late \cup {l}
  BY DEF LeavesFeedback
<1>2. faults \subseteq faults' /\ faults' \subseteq Faults
  BY <1>1, Faulty
<1>3. l \in [node : Nodes, no : 1..MaxDispatches]
  BY DEF ShapeInv, Execs
<1> HIDE DEF l
<1>4. GraphPart' /\ CallPart'
  BY <1>1, GraphsKept, CallsKept
<1>5. RunPart'
  BY <1>1, <1>2, <1>3, Rigid DEF ShapeInv, RunPart
<1>6. ExecPart' /\ CollectsInTime'
  BY <1>1, <1>2, ExecsKept
<1>7. ShapeInv'
  BY <1>1, <1>4, <1>5, <1>6, Parts DEF ShapeInv
<1>8. FailureSurfaces => FailureSurfaces'
  BY <1>1, CleanStill
<1> QED
  BY <1>7, <1>8 DEF Keeps

\* The request for an adopted node is dropped, or fails the run.
LEMMA Rejecting ==
  ASSUME ShapeInv, NEW n \in blank, RejectBlank(n)
  PROVE  ShapeInv' /\ ~Live'
PROOF
<1> DEFINE x == [node[n] EXCEPT !.status = "failed", !.enqueued = FALSE]
           s == Set(Graphs, n, x)
<1>1. /\ UNCHANGED <<wf, execs, nexts, pendingNext, lastNode, dispatched, collecting, late, faults>>
      /\ IF Live THEN InstallAndRefresh(s) ELSE UNCHANGED <<graphVars, runStatus>>
      /\ blank' \subseteq blank
  BY DEF RejectBlank
<1>2. n \in Nodes /\ n \in adopted /\ faults \subseteq Faults
  BY DEF ShapeInv
<1>3. ExecPart' /\ CollectsInTime'
  BY <1>1, ExecsKept
<1>4. CASE Live
  <2>1. x \in NodeStates(n) /\ x.status = "failed"
    BY <1>2 DEF ShapeInv, NodeStates, Final
  <2> HIDE DEF x
  <2>2. Shaped(s) /\ s.node[n] = x /\ s.adopted = adopted
    BY <1>2, <2>1, Now, SetOne
  <2>3. InstallAndRefresh(s)
    BY <1>1, <1>4
  <2> HIDE DEF s
  <2>4. ShapeInv'
    BY <1>1, <1>2, <1>3, <2>2, <2>3, Handling
  <2>5. RunFails(s)
    BY <1>2, <2>1, <2>2 DEF RunFails, TopLevel
  <2>6. runStatus' = "failed"
    BY <2>3, <2>5, Rolling DEF InstallAndRefresh
  <2> QED
    BY <2>4, <2>6 DEF Live, Final
<1>5. CASE ~Live
  <2>1. Keeps
    BY <1>1, <1>2, <1>3, <1>5, HandlingNothing
  <2> QED
    BY <2>1, <1>1, <1>5 DEF Keeps, Live
<1> QED
  BY <1>4, <1>5

LEMMA StepReject ==
  ASSUME ShapeInv, NEW n \in blank, RejectBlank(n)
  PROVE  Keeps
PROOF
  BY Rejecting DEF Keeps, FailureSurfaces

---------------------------------------------------------------------------
(* Theorems. *)

LEMMA AtFirst ==
  ASSUME Init
  PROVE  ShapeInv /\ FailureSurfaces
PROOF
<1>1. /\ wf \in Workflows /\ node = [n \in Nodes |-> NewNode(n)]
      /\ frames = <<>> /\ adopted = {} /\ ready = {} /\ blank = {} /\ execs = {} /\ nexts = {}
      /\ pendingNext = {} /\ runStatus = "queued" /\ lastNode = None /\ dispatched = [n \in Nodes |-> 0]
      /\ collecting = 1 /\ late = {} /\ faults = {}
  BY DEF Init
<1>2. \A n \in Nodes : NewNode(n) \in NodeStates(n) /\ NewNode(n).status = "queued"
  BY <1>1, Waits_ DEF NewNode, NodeStates
<1>3. GraphPart
  BY <1>1, <1>2 DEF GraphPart
<1>4. ExecPart /\ CallPart /\ CollectsInTime
  BY <1>1 DEF ExecPart, CallPart, CollectsInTime
<1>5. RunPart
  BY <1>1, BoundsAssumption DEF RunPart
<1>6. FailureSurfaces
  BY <1>1, <1>2 DEF FailureSurfaces
<1> QED
  BY <1>1, <1>3, <1>4, <1>5, <1>6, Parts

LEMMA Steps ==
  ASSUME ShapeInv, [Next]_vars
  PROVE  Keeps
PROOF
<1>1. CASE UNCHANGED vars
  <2>1. UNCHANGED <<wf, graphVars, blank, execs, nexts, pendingNext, runStatus, lastNode, dispatched,
                    collecting, late, faults>>
    BY <1>1 DEF vars, graphVars
  <2>2. faults \subseteq Faults
    BY DEF ShapeInv
  <2>3. ExecPart' /\ CollectsInTime'
    BY <2>1, ExecsKept
  <2> QED
    BY <2>1, <2>2, <2>3, HandlingNothing
<1>2. CASE CollectReady \/ CancelRun
  BY <1>2, StepCollect, StepCancel
<1>3. CASE \E q \in ready : DropRequest(q) \/ Dispatch(q) \/ Refused(q)
  BY <1>3, StepDrop, StepDispatch, StepRefused
<1>4. ASSUME NEW e \in execs, CallsNext(e) \/ GivesUp(e) \/ Feedback(e) \/ LeavesFeedback(e)
      PROVE  Keeps
  BY <1>4, StepCall, StepGivesUp, StepFeedback, StepLeaves
<1>5. ASSUME NEW e \in execs, NEW st \in Good \cup {"failed", "interrupted", "error"}, Reports(e, st)
      PROVE  Keeps
  BY <1>5, StepReports
<1>6. ASSUME NEW e \in execs, HandleResult(e) \/ HandleInterrupted(e) \/ HandleError(e)
      PROVE  Keeps
  BY <1>6, StepResult, StepInterrupted, StepError
<1>7. CASE \E f \in late : LateFeedback(f)
  BY <1>7, StepLate
<1>8. CASE \E r \in nexts : RefuseNext(r) \/ HandleNext(r)
  BY <1>8, StepRefuse, StepNext
<1>9. CASE \E p \in pendingNext : ExpireNext(p)
  BY <1>9, StepExpire
<1>10. CASE \E n \in blank : RejectBlank(n)
  BY <1>10, StepReject
<1> QED
  BY <1>1, <1>2, <1>3, <1>4, <1>5, <1>6, <1>7, <1>8, <1>9, <1>10, Zenon DEF Next

\* The shape of the variables, and with it that at most two collections are ever
\* due, is inductive.
THEOREM ShapeKept == Spec => []ShapeInv
PROOF
<1>1. Init => ShapeInv
  BY AtFirst
<1>2. ShapeInv /\ [Next]_vars => ShapeInv'
  BY Steps DEF Keeps
<1> QED
  BY <1>1, <1>2, PTL DEF Spec

LEMMA ShapeIsType == ShapeInv => TypeOK
PROOF
<1> SUFFICES ASSUME ShapeInv PROVE TypeOK
  OBVIOUS
<1>1. \A n \in Nodes : /\ node[n].status \in Final \cup {"queued", "running"}
                       /\ node[n].pending \in 0..Cardinality(DepsOf(n))
                       /\ {node[n].enqueued, node[n].blocked} \subseteq BOOLEAN
  BY DEF ShapeInv, NodeStates
<1>2. ToSet(frames) \subseteq wf.containers /\ adopted \subseteq Nodes \ Graph(Root) /\ blank \subseteq adopted
  BY DEF ShapeInv, ToSet
<1>3. /\ \A q \in ready : q.node \in Nodes
      /\ \A e \in execs : e.node \in Nodes /\ e.no \in 1..MaxDispatches /\ e.calls \in 0..MaxCalls
      /\ \A f \in late : f.node \in Nodes /\ f.no \in 1..MaxDispatches
  BY DEF ShapeInv, Execs
<1>4. \A p \in pendingNext : p.target = NextTarget(p.req.node)
  BY DEF ShapeInv
<1>5. /\ wf \in Workflows /\ runStatus \in Final \cup {"queued", "running"}
      /\ lastNode \in Nodes \cup {None} /\ dispatched \in [Nodes -> 0..MaxDispatches]
      /\ collecting \in 0..2 /\ faults \subseteq Faults
  BY DEF ShapeInv, CollectsInTime
<1> QED
  BY <1>1, <1>2, <1>3, <1>4, <1>5 DEF TypeOK

THEOREM TypeCorrect == Spec => []TypeOK
PROOF
  BY ShapeKept, ShapeIsType, PTL

\* No handler revives a run, or touches a node of one that is over.
LEMMA Over ==
  ASSUME ShapeInv, ~Live, Next
  PROVE  /\ UNCHANGED <<frames, runStatus>>
         /\ \A n \in Nodes : Present(Graphs, n) => node'[n] = node[n]
PROOF
<1> DEFINE Kept == /\ UNCHANGED <<frames, runStatus>>
                   /\ \A n \in Nodes : Present(Graphs, n) => node'[n] = node[n]
<1>1. UNCHANGED <<node, frames, runStatus>> => Kept
  BY DEF Kept
<1> SUFFICES Kept
  OBVIOUS
<1> HIDE DEF Kept
<1>2. CASE CollectReady \/ CancelRun
  BY <1>1, <1>2 DEF CollectReady, CancelRun, graphVars
<1>3. CASE \E q \in ready : DropRequest(q) \/ Dispatch(q) \/ Refused(q)
  BY <1>1, <1>3 DEF DropRequest, Dispatch, Refused, Sent
<1>4. ASSUME NEW e \in execs, CallsNext(e) \/ GivesUp(e) \/ LeavesFeedback(e)
      PROVE  Kept
  BY <1>1, <1>4 DEF CallsNext, GivesUp, LeavesFeedback, WorkerOnly, graphVars
<1>5. ASSUME NEW e \in execs, NEW st \in Good \cup {"failed", "interrupted", "error"}, Reports(e, st)
      PROVE  Kept
  BY <1>1, <1>5 DEF Reports, WorkerOnly, graphVars
<1>6. ASSUME NEW e \in execs, HandleResult(e) \/ HandleInterrupted(e) \/ HandleError(e)
      PROVE  Kept
  BY <1>1, <1>6 DEF HandleResult, HandleInterrupted, HandleError, graphVars
<1>7. ASSUME NEW n \in Nodes, ApplyFeedback(n) PROVE Kept
  <2>1. runStatus' = runStatus /\ Install(Found(Graphs, n)) /\ wf \in Workflows
    BY <1>7 DEF ApplyFeedback, ShapeInv
  <2>2. /\ Found(Graphs, n).frames = frames
        /\ \A m \in Nodes : Present(Graphs, m) => Found(Graphs, n).node[m] = node[m]
    BY <2>1, Now, Finding
  <2> QED
    BY <2>1, <2>2 DEF Install, Kept
<1>8. ASSUME NEW e \in execs, Feedback(e) PROVE Kept
  BY <1>7, <1>8 DEF Feedback, ShapeInv, Execs
<1>9. CASE \E f \in late : LateFeedback(f)
  BY <1>7, <1>9 DEF LateFeedback, ShapeInv
<1>10. CASE \E r \in nexts : RefuseNext(r) \/ HandleNext(r)
  BY <1>1, <1>10 DEF RefuseNext, HandleNext, TakesNext, NextReady, graphVars
<1>11. CASE \E p \in pendingNext : ExpireNext(p)
  BY <1>1, <1>11 DEF ExpireNext, graphVars
<1>12. CASE \E n \in blank : RejectBlank(n)
  BY <1>1, <1>12 DEF RejectBlank, graphVars
<1> QED
  BY <1>2, <1>3, <1>4, <1>5, <1>6, <1>8, <1>9, <1>10, <1>11, <1>12, Zenon DEF Next

\* Once a run is over no handler touches it, whatever is still under way.
THEOREM StaysOver == Spec => RunStaysOver
PROOF
<1> DEFINE Kept == /\ UNCHANGED <<frames, runStatus>>
                   /\ \A n \in Nodes : Present(Graphs, n) => node'[n] = node[n]
<1>1. ShapeInv /\ [Next]_vars => [~Live => Kept]_vars
  BY Over
<1> QED
  BY <1>1, ShapeKept, PTL DEF Spec, RunStaysOver

\* Where no container is in the frame of another, a failure never stays behind
\* in a live run: it is in the top level, and then the run has failed, or it has
\* failed the container whose frame it closed.
THEOREM FailuresSurface ==
  ASSUME Unnested
  PROVE  Spec => []FailureSurfaces
PROOF
<1>1. Init => FailureSurfaces
  BY AtFirst
<1>2. ShapeInv /\ FailureSurfaces /\ [Next]_vars => FailureSurfaces'
  BY Steps DEF Keeps
<1> QED
  BY <1>1, <1>2, ShapeKept, PTL DEF Spec

---------------------------------------------------------------------------
(* Chains. *)

\* A node that only next() starts: a host, or a middleware inside a chain.
Within(n) == IsHost(n) \/ (IsMiddleware(n) /\ ~Outermost(n))

\* The middlewares whose next() calls lead to n.
Callers(n) ==
  IF IsHost(n) THEN ToSet(wf.chain[n])
  ELSE {wf.chain[HostOf(n)][i] : i \in 1..(ChainIndex(n) - 1)}

\* The members of a chain are its host's middlewares, each at one place.
LEMMA Members ==
  ASSUME wf \in Workflows, NEW n \in Nodes
  PROVE  /\ wf.chain[n] \in Seq(Nodes)
         /\ IsHost(n) => Len(wf.chain[n]) \in Nat \ {0} /\ ~IsMiddleware(n)
         /\ \A i \in 1..Len(wf.chain[n]) :
              LET m == wf.chain[n][i]
              IN  /\ m \in Nodes /\ m # n /\ IsMiddleware(m) /\ HostOf(m) = n
                  /\ ChainIndex(m) = i /\ ~IsHost(m) /\ wf.graph[m] = wf.graph[n]
PROOF
<1>1. WellFormed(wf)
  BY WorkflowsAssumption
<1>2. /\ wf.chain[n] \in Seq(Nodes) /\ None \notin Nodes
      /\ \A i, j \in DOMAIN wf.chain[n] : wf.chain[n][i] = wf.chain[n][j] => i = j
      /\ \A m \in ToSet(wf.chain[n]) : wf.host[m] = n
      /\ \A m \in Nodes : wf.host[m] # None => wf.chain[m] = <<>> /\ wf.graph[m] = wf.graph[wf.host[m]]
  BY <1>1, Flow DEF WellFormed, IsInjective, Nodes
<1>3. IsHost(n) => Len(wf.chain[n]) \in Nat \ {0}
  BY <1>2, EmptySeq DEF IsHost
<1>4. IsHost(n) => ~IsMiddleware(n)
  BY <1>2 DEF IsHost, IsMiddleware
<1>5. ASSUME NEW i \in 1..Len(wf.chain[n])
      PROVE  LET m == wf.chain[n][i]
              IN  /\ m \in Nodes /\ m # n /\ IsMiddleware(m) /\ HostOf(m) = n
                  /\ ChainIndex(m) = i /\ ~IsHost(m) /\ wf.graph[m] = wf.graph[n]
  <2> DEFINE m == wf.chain[n][i]
  <2>1. i \in DOMAIN wf.chain[n] /\ DOMAIN wf.chain[n] = 1..Len(wf.chain[n])
    BY <1>2, <1>5
  <2>2. m \in Nodes /\ m \in ToSet(wf.chain[n])
    BY <2>1, <1>2 DEF ToSet
  <2>3. wf.host[m] = n
    BY <2>2, <1>2
  <2>4. IsMiddleware(m) /\ HostOf(m) = n /\ ~IsHost(m) /\ wf.graph[m] = wf.graph[n]
    BY <2>2, <2>3, <1>2 DEF IsMiddleware, HostOf, IsHost
  <2>5. m # n
    BY <2>1, <2>4, <1>2 DEF IsHost
  <2>6. ChainIndex(m) = i
    BY <2>1, <2>4, <1>2 DEF ChainIndex
  <2> QED
    BY <2>2, <2>4, <2>5, <2>6
<1> QED
  BY <1>2, <1>3, <1>4, <1>5

\* The place of a middleware in its chain.
LEMMA Place ==
  ASSUME wf \in Workflows, NEW m \in Nodes, IsMiddleware(m)
  PROVE  /\ HostOf(m) \in Nodes /\ IsHost(HostOf(m)) /\ wf.graph[HostOf(m)] = wf.graph[m]
         /\ ChainIndex(m) \in 1..Len(wf.chain[HostOf(m)])
         /\ wf.chain[HostOf(m)][ChainIndex(m)] = m /\ ~IsHost(m)
PROOF
<1>1. /\ HostOf(m) \in Nodes /\ m \in ToSet(wf.chain[HostOf(m)]) /\ wf.chain[HostOf(m)] \in Seq(Nodes)
      /\ wf.graph[m] = wf.graph[HostOf(m)]
  BY Flow
<1>2. PICK i \in DOMAIN wf.chain[HostOf(m)] : wf.chain[HostOf(m)][i] = m
  BY <1>1 DEF ToSet
<1>3. i \in 1..Len(wf.chain[HostOf(m)]) /\ wf.chain[HostOf(m)] # <<>>
  BY <1>1, <1>2
<1>4. ChainIndex(m) = i /\ ~IsHost(m)
  BY <1>1, <1>2, <1>3, Members
<1> QED
  BY <1>1, <1>2, <1>3, <1>4 DEF IsHost

\* What next() starts: the callers of the target are those of the caller and
\* the caller, and the target is nobody else's.
LEMMA Following ==
  ASSUME wf \in Workflows, NEW m \in Nodes, IsMiddleware(m)
  PROVE  LET t == NextTarget(m)
         IN  /\ t \in Nodes /\ Within(t) /\ wf.graph[t] = wf.graph[m] /\ t # m
             /\ Callers(t) = Callers(m) \cup {m}
             /\ t = HostOf(m) \/ (IsMiddleware(t) /\ ~Outermost(t) /\ HostOf(t) = HostOf(m) /\ ChainIndex(t) = ChainIndex(m) + 1)
PROOF
<1> DEFINE h == HostOf(m)
           c == wf.chain[h]
           i == ChainIndex(m)
           t == NextTarget(m)
<1>1. /\ h \in Nodes /\ IsHost(h) /\ wf.graph[h] = wf.graph[m] /\ i \in 1..Len(c) /\ c[i] = m
      /\ ~IsHost(m) /\ c \in Seq(Nodes)
  BY Place, Members
<1>2. Callers(m) = {c[j] : j \in 1..(i - 1)}
  BY <1>1 DEF Callers
<1>3. CASE i < Len(c)
  <2>1. t = c[i + 1] /\ i + 1 \in 1..Len(c)
    BY <1>1, <1>3 DEF NextTarget
  <2>2. /\ t \in Nodes /\ IsMiddleware(t) /\ HostOf(t) = h /\ ChainIndex(t) = i + 1 /\ ~IsHost(t)
        /\ wf.graph[t] = wf.graph[h]
    BY <2>1, <1>1, Members
  <2>3. ~Outermost(t) /\ t # m
    BY <2>2, <1>1 DEF Outermost
  <2>4. Callers(t) = {c[j] : j \in 1..((i + 1) - 1)}
    BY <2>2 DEF Callers
  <2>5. 1..((i + 1) - 1) = 1..(i - 1) \cup {i}
    BY <1>1
  <2> HIDE DEF t, c, i, h
  <2>6. Callers(t) = Callers(m) \cup {m}
    BY <2>4, <2>5, <1>1, <1>2
  <2>7. Within(t)
    BY <2>2, <2>3 DEF Within
  <2> QED
    BY <1>1, <2>2, <2>3, <2>6, <2>7 DEF t, h, i
<1>4. CASE ~(i < Len(c))
  <2>1. t = h /\ i = Len(c)
    BY <1>1, <1>4 DEF NextTarget
  <2>2. Callers(t) = {c[j] : j \in 1..i}
    BY <2>1, <1>1 DEF Callers, ToSet
  <2>3. 1..i = 1..(i - 1) \cup {i}
    BY <1>1
  <2> HIDE DEF t, c, i, h
  <2>4. Callers(t) = Callers(m) \cup {m}
    BY <2>2, <2>3, <1>1, <1>2
  <2>5. Within(t) /\ t # m
    BY <2>1, <1>1 DEF Within
  <2> QED
    BY <1>1, <2>1, <2>4, <2>5 DEF t, h
<1> QED
  BY <1>3, <1>4

\* Who leads to a node leads to the next on the way to it.
LEMMA OnTheWay ==
  ASSUME wf \in Workflows, NEW n \in Nodes, Within(n), NEW m \in Callers(n)
  PROVE  /\ m \in Nodes /\ IsMiddleware(m) /\ wf.graph[m] = wf.graph[n] /\ m # n
         /\ NextTarget(m) = n \/ NextTarget(m) \in Callers(n)
PROOF
<1> DEFINE h == IF IsHost(n) THEN n ELSE HostOf(n)
           c == wf.chain[h]
           last == IF IsHost(n) THEN Len(c) ELSE ChainIndex(n) - 1
<1>1. /\ h \in Nodes /\ wf.graph[h] = wf.graph[n] /\ c \in Seq(Nodes) /\ last \in 0..Len(c) /\ last \in Nat
      /\ Callers(n) = {c[i] : i \in 1..last}
      /\ (n = h /\ IsHost(n) /\ last = Len(c)) \/ (last < Len(c) /\ c[last + 1] = n)
  <2>1. CASE IsHost(n)
    BY <2>1, Members DEF Callers, ToSet
  <2>2. CASE ~IsHost(n)
    <3>1. IsMiddleware(n)
      BY <2>2 DEF Within
    <3>2. /\ h \in Nodes /\ wf.graph[h] = wf.graph[n] /\ ChainIndex(n) \in 1..Len(c) /\ c[ChainIndex(n)] = n
          /\ c \in Seq(Nodes)
      BY <2>2, <3>1, Place, Members
    <3>3. Callers(n) = {c[i] : i \in 1..(ChainIndex(n) - 1)}
      BY <2>2 DEF Callers
    <3> QED
      BY <2>2, <3>2, <3>3
  <2> QED
    BY <2>1, <2>2
<1> HIDE DEF last, c, h
<1>2. PICK i \in 1..last : m = c[i]
  BY <1>1
<1>3. i \in 1..Len(c)
  BY <1>1, <1>2
<1>4. /\ m \in Nodes /\ IsMiddleware(m) /\ HostOf(m) = h /\ ChainIndex(m) = i
      /\ wf.graph[m] = wf.graph[h] /\ m # h
  BY <1>1, <1>2, <1>3, Members DEF c
<1>5. NextTarget(m) = IF i < Len(c) THEN c[i + 1] ELSE h
  BY <1>4 DEF NextTarget, c
<1>6. NextTarget(m) = n \/ NextTarget(m) \in Callers(n)
  <2>1. CASE i < last
    <3>1. i + 1 \in 1..last /\ i < Len(c)
      BY <2>1, <1>1, <1>2
    <3> QED
      BY <3>1, <1>1, <1>5
  <2>2. CASE i = last
    BY <2>2, <1>1, <1>3, <1>5
  <2> QED
    BY <2>1, <2>2, <1>1, <1>2
<1>7. m # n
  <2>1. CASE n = h
    BY <2>1, <1>4
  <2>2. CASE last < Len(c) /\ c[last + 1] = n
    <3>1. ChainIndex(n) = last + 1
      BY <2>2, <1>1, Members DEF c
    <3> QED
      BY <3>1, <1>1, <1>2, <1>4
  <2> QED
    BY <2>1, <2>2, <1>1
<1> QED
  BY <1>1, <1>4, <1>6, <1>7

\* Two middlewares call for different nodes.
LEMMA OwnTarget ==
  ASSUME wf \in Workflows, NEW m \in Nodes, IsMiddleware(m), NEW l \in Nodes, IsMiddleware(l),
         NextTarget(m) = NextTarget(l)
  PROVE  m = l
PROOF
<1> DEFINE t == NextTarget(m)
<1>1. t = NextTarget(l)
  OBVIOUS
<1>2. /\ ChainIndex(m) \in 1..Len(wf.chain[HostOf(m)]) /\ wf.chain[HostOf(m)][ChainIndex(m)] = m
      /\ ChainIndex(l) \in 1..Len(wf.chain[HostOf(l)]) /\ wf.chain[HostOf(l)][ChainIndex(l)] = l
      /\ HostOf(m) \in Nodes /\ IsHost(HostOf(m)) /\ HostOf(l) \in Nodes /\ IsHost(HostOf(l))
  BY Place
<1>3. ~IsMiddleware(HostOf(m)) /\ ~IsMiddleware(HostOf(l))
  BY <1>2, Members
<1>4. /\ \/ t = HostOf(m)
         \/ IsMiddleware(t) /\ HostOf(t) = HostOf(m) /\ ChainIndex(t) = ChainIndex(m) + 1
      /\ \/ t = HostOf(l)
         \/ IsMiddleware(t) /\ HostOf(t) = HostOf(l) /\ ChainIndex(t) = ChainIndex(l) + 1
  <2>1. \/ t = HostOf(m)
        \/ IsMiddleware(t) /\ HostOf(t) = HostOf(m) /\ ChainIndex(t) = ChainIndex(m) + 1
    BY Following
  <2>2. \/ NextTarget(l) = HostOf(l)
        \/ IsMiddleware(NextTarget(l)) /\ HostOf(NextTarget(l)) = HostOf(l) /\ ChainIndex(NextTarget(l)) = ChainIndex(l) + 1
    BY Following
  <2> QED
    BY <2>1, <2>2, <1>1
<1>5. HostOf(m) = HostOf(l)
  BY <1>3, <1>4
<1>6. t = HostOf(m) => ChainIndex(m) = Len(wf.chain[HostOf(m)])
  <2> SUFFICES ASSUME t = HostOf(m), ChainIndex(m) < Len(wf.chain[HostOf(m)]) PROVE FALSE
    BY <1>2, Members
  <2>1. t = wf.chain[HostOf(m)][ChainIndex(m) + 1] /\ ChainIndex(m) + 1 \in 1..Len(wf.chain[HostOf(m)])
    BY <1>2 DEF NextTarget
  <2> QED
    BY <2>1, <1>2, Members
<1>7. t = HostOf(l) => ChainIndex(l) = Len(wf.chain[HostOf(l)])
  <2> SUFFICES ASSUME t = HostOf(l), ChainIndex(l) < Len(wf.chain[HostOf(l)]) PROVE FALSE
    BY <1>2, Members
  <2>1. t = wf.chain[HostOf(l)][ChainIndex(l) + 1] /\ ChainIndex(l) + 1 \in 1..Len(wf.chain[HostOf(l)])
    BY <1>1, <1>2 DEF NextTarget
  <2> QED
    BY <2>1, <1>2, Members
<1>8. ChainIndex(m) = ChainIndex(l)
  <2>1. CASE t = HostOf(m)
    BY <2>1, <1>5, <1>6, <1>7
  <2>2. CASE t # HostOf(m)
    BY <2>2, <1>2, <1>4, <1>5
  <2> QED
    BY <2>1, <2>2
<1> QED
  BY <1>2, <1>5, <1>8

\* A node within a chain has a caller, and the outermost leads to it.
LEMMA Called ==
  ASSUME wf \in Workflows, NEW n \in Nodes, Within(n)
  PROVE  /\ CallerOf(n) \in Callers(n)
         /\ IsHost(n) => wf.chain[n][1] \in Callers(n)
         /\ IsMiddleware(n) => wf.chain[HostOf(n)][1] \in Callers(n)
         /\ ~IsHost(n) => IsMiddleware(n)
PROOF
<1>1. CASE IsHost(n)
  <2>1. Len(wf.chain[n]) \in Nat \ {0} /\ wf.chain[n] \in Seq(Nodes) /\ ~IsMiddleware(n)
    BY <1>1, Members
  <2>2. Len(wf.chain[n]) \in DOMAIN wf.chain[n] /\ 1 \in DOMAIN wf.chain[n]
    BY <2>1
  <2> QED
    BY <1>1, <2>1, <2>2 DEF Callers, CallerOf, ToSet
<1>2. CASE ~IsHost(n)
  <2>1. IsMiddleware(n) /\ ~Outermost(n)
    BY <1>2 DEF Within
  <2>2. ChainIndex(n) \in 1..Len(wf.chain[HostOf(n)]) /\ ChainIndex(n) # 1 /\ Len(wf.chain[HostOf(n)]) \in Nat
    BY <2>1, Place, Members DEF Outermost
  <2>3. ChainIndex(n) - 1 \in 1..(ChainIndex(n) - 1) /\ 1 \in 1..(ChainIndex(n) - 1)
    BY <2>2
  <2> QED
    BY <1>2, <2>1, <2>3 DEF Callers, CallerOf
<1> QED
  BY <1>1, <1>2

---------------------------------------------------------------------------
(* What the stages do, node by node. *)

LEMMA EnqueueIs ==
  ASSUME NEW s, Shaped(s), NEW S, S \subseteq Nodes, NEW r \in Calls \cup {None}
  PROVE  LET t == Enqueue(s, S, r)
         IN  /\ t.ready = s.ready \cup {Request(n, r) : n \in S}
             /\ \A m \in Nodes :
                  /\ t.node[m].status = s.node[m].status /\ t.node[m].pending = s.node[m].pending
                  /\ t.node[m].blocked = s.node[m].blocked
                  /\ m \notin S => t.node[m].enqueued = s.node[m].enqueued
                  /\ m \in S => t.node[m].enqueued = TRUE
PROOF
<1> DEFINE f == [m \in Nodes |-> IF m \in S THEN [s.node[m] EXCEPT !.enqueued = TRUE] ELSE s.node[m]]
           u == [s EXCEPT !.node = f]
           R == u.ready \cup {Request(n, r) : n \in S}
           t == [u EXCEPT !.ready = R]
<1>1. \A m \in Nodes : f[m] \in NodeStates(m)
  BY DEF Shaped, NodeStates
<1>2. \A m \in Nodes :
        /\ f[m].status = s.node[m].status /\ f[m].pending = s.node[m].pending
        /\ f[m].blocked = s.node[m].blocked
        /\ m \notin S => f[m].enqueued = s.node[m].enqueued
        /\ m \in S => f[m].enqueued = TRUE
  BY DEF Shaped, NodeStates
<1>3. DOMAIN f = Nodes
  OBVIOUS
<1> HIDE DEF f
<1>4. Shaped(u) /\ u.node = f /\ u.ready = s.ready
  BY <1>1, <1>3, NodesSet
<1>5. Enqueue(s, S, r) = t
  BY Zenon DEF Enqueue, Update, f, u, t, R
<1> HIDE DEF u
<1>6. t.node = u.node /\ t.ready = R
  BY <1>4 DEF Shaped
<1> HIDE DEF t
<1> QED
  BY <1>2, <1>4, <1>5, <1>6

LEMMA CountIs ==
  ASSUME wf \in Workflows, NEW s, Shaped(s), NEW n
  PROVE  LET t == CountedDown(s, n)
         IN  /\ t.ready = s.ready
             /\ \A m \in Nodes :
                  /\ t.node[m].status = s.node[m].status /\ t.node[m].blocked = s.node[m].blocked
                  /\ t.node[m].enqueued = s.node[m].enqueued
                  /\ m \notin Dependents(n) => t.node[m].pending = s.node[m].pending
                  /\ m \in Dependents(n) /\ s.node[m].status = "queued" /\ s.node[m].pending > 0 =>
                       t.node[m].pending = s.node[m].pending - 1
                  /\ ~(s.node[m].status = "queued" /\ s.node[m].pending > 0) =>
                       t.node[m].pending = s.node[m].pending
PROOF
<1> DEFINE f == [m \in Nodes |-> IF m \in Dependents(n) THEN CountDown(s.node[m]) ELSE s.node[m]]
           t == [s EXCEPT !.node = f]
<1>1. \A m \in Nodes : f[m] \in NodeStates(m)
  BY Waits_ DEF Shaped, NodeStates, CountDown
<1>2. \A m \in Nodes :
        /\ f[m].status = s.node[m].status /\ f[m].blocked = s.node[m].blocked
        /\ f[m].enqueued = s.node[m].enqueued
        /\ m \notin Dependents(n) => f[m].pending = s.node[m].pending
        /\ m \in Dependents(n) /\ s.node[m].status = "queued" /\ s.node[m].pending > 0 =>
             f[m].pending = s.node[m].pending - 1
        /\ ~(s.node[m].status = "queued" /\ s.node[m].pending > 0) => f[m].pending = s.node[m].pending
  BY DEF Shaped, NodeStates, CountDown
<1>3. DOMAIN f = Nodes
  OBVIOUS
<1>4. CountedDown(s, n) = t
  BY Zenon DEF CountedDown, Update
<1> HIDE DEF f
<1>5. Shaped(t) /\ t.node = f /\ t.ready = s.ready
  BY <1>1, <1>3, NodesSet
<1> QED
  BY <1>2, <1>4, <1>5

\* Where containers hold none, those that open are those that are asked for,
\* each once.
LEMMA OpenOrder ==
  ASSUME wf \in Workflows, Unnested, NEW C, C \subseteq wf.containers,
         NEW o, o = CHOOSE p \in Preorders(wf, OpenedWith(C)) : TRUE
  PROVE  /\ OpenedWith(C) = C /\ o \in Seq(wf.containers) /\ ToSet(o) = C
         /\ \A i, j \in DOMAIN o : o[i] = o[j] => i = j
PROOF
<1>1. \A c \in wf.containers : wf.graph[c] = Root /\ c # Root
  BY Flow DEF Unnested
<1>2. \A c \in C : Starts(c) \cap wf.containers = {}
  BY <1>1 DEF Starts, Graph
<1>3. OpenedWith(C) = C
  <2>1. C \subseteq OpenedWith(C)
    BY DEF OpenedWith
  <2>2. OpenedWith(C) \subseteq C
    BY <1>2 DEF OpenedWith
  <2> QED
    BY <2>1, <2>2
<1>4. IsFiniteSet(C) /\ Cardinality(C) \in Nat
  BY Flow, FS_Subset, FS_CardinalityType
<1>5. o \in Preorders(wf, C)
  BY <1>3, Flow
<1>6. o \in SetToSeqs(C)
  BY <1>5 DEF Preorders
<1>7. o \in [1..Cardinality(C) -> C] /\ \A i, j \in 1..Cardinality(C) : i # j => o[i] # o[j]
  BY <1>6 DEF SetToSeqs
<1>8. o \in Injection(1..Cardinality(C), C)
  BY <1>7 DEF Injection, IsInjective
<1>9. IsFiniteSet(1..Cardinality(C)) /\ Cardinality(1..Cardinality(C)) = Cardinality(C)
  BY <1>4, FS_Interval
<1>10. o \in Surjection(1..Cardinality(C), C)
  <2> DEFINE D == 1..Cardinality(C)
  <2>1. o \in Injection(D, C) /\ IsFiniteSet(C) /\ Cardinality(D) = Cardinality(C)
    BY <1>4, <1>8, <1>9
  <2> HIDE DEF D
  <2>2. Cardinality(D) = Cardinality(C) <=> o \in Surjection(D, C)
    BY <2>1, FS_Injection
  <2>3. o \in Surjection(D, C)
    BY <2>1, <2>2
  <2> QED
    BY <2>3 DEF D
<1>11. ToSet(o) = C
  <2>1. \A c \in C : \E i \in 1..Cardinality(C) : o[i] = c
    BY <1>10, Zenon DEF Surjection
  <2>2. DOMAIN o = 1..Cardinality(C) /\ \A i \in 1..Cardinality(C) : o[i] \in C
    BY <1>7
  <2> QED
    BY <2>1, <2>2 DEF ToSet
<1>12. o \in Seq(wf.containers)
  BY Order
<1> QED
  BY <1>3, <1>7, <1>11, <1>12


\* What the frames of the containers C start with, no container among it.
News(C) == (UNION {Starts(c) : c \in C}) \ wf.containers

\* Frames that open: their containers run, their nodes are new, and what they
\* start with is requested.
LEMMA OpenIs ==
  ASSUME wf \in Workflows, Unnested, NEW s, Shaped(s), NEW C, C \subseteq wf.containers
  PROVE  LET t == Open(s, C)
         IN  /\ \E o \in Seq(wf.containers) :
                  /\ ToSet(o) = C /\ \A i, j \in DOMAIN o : o[i] = o[j] => i = j
                  /\ t.frames = s.frames \o o
             /\ t.ready = s.ready \cup {Request(n, None) : n \in News(C)}
             /\ \A m \in Nodes :
                  /\ m \in C => /\ t.node[m].status = "running" /\ t.node[m].enqueued = TRUE
                                /\ t.node[m].blocked = s.node[m].blocked
                                /\ t.node[m].pending = s.node[m].pending
                  /\ wf.graph[m] \in C => /\ t.node[m].status = "queued"
                                          /\ t.node[m].blocked = NewNode(m).blocked
                                          /\ t.node[m].pending = Cardinality(DepsOf(m))
                                          /\ m \in News(C) => t.node[m].enqueued = TRUE
                                          /\ m \notin News(C) => t.node[m].enqueued = FALSE
                  /\ m \notin C /\ wf.graph[m] \notin C =>
                       /\ t.node[m].status = s.node[m].status /\ t.node[m].blocked = s.node[m].blocked
                       /\ t.node[m].pending = s.node[m].pending
                       /\ t.node[m].enqueued = s.node[m].enqueued
PROOF
<1> DEFINE o == CHOOSE p \in Preorders(wf, OpenedWith(C)) : TRUE
           inside == UNION {Graph(c) : c \in ToSet(o)}
           f == [m \in Nodes |-> IF m \in inside THEN NewNode(m) ELSE s.node[m]]
           new == [s EXCEPT !.node = f]
           h_ == [m \in Nodes |-> IF m \in ToSet(o) THEN [f[m] EXCEPT !.status = "running", !.enqueued = TRUE]
                                                  ELSE f[m]]
           opens == [new EXCEPT !.node = h_]
           stack == s.frames \o o
           v == [opens EXCEPT !.frames = stack]
           T == (UNION {Starts(c) : c \in ToSet(o)}) \ wf.containers
<1>1. CASE C = {}
  <2>1. Open(s, C) = s
    BY <1>1, Zenon DEF Open
  <2>2. News(C) = {}
    BY <1>1 DEF News
  <2>3. <<>> \in Seq(wf.containers) /\ ToSet(<<>>) = C /\ s.frames = s.frames \o <<>>
    BY <1>1 DEF Shaped, ToSet
  <2> HIDE DEF o
  <2>4. DOMAIN <<>> = {}
    OBVIOUS
  <2> QED
    BY <2>1, <2>2, <2>3, <2>4, <1>1
<1>2. CASE C # {}
  <2>1. /\ o \in Seq(wf.containers) /\ ToSet(o) = C
        /\ \A i, j \in DOMAIN o : o[i] = o[j] => i = j
    BY OpenOrder
  <2>2. \A m \in Nodes : NewNode(m) \in NodeStates(m)
    BY Waits_ DEF NewNode, NodeStates
  <2>3. \A c \in C : wf.graph[c] = Root /\ c # Root
    BY Flow DEF Unnested
  <2> HIDE DEF o
  <2>4. \A m \in Nodes : m \in inside <=> wf.graph[m] \in C
    BY <2>1 DEF Graph
  <2>5. T = News(C)
    BY <2>1 DEF News
  <2> HIDE DEF inside, T
  <2>6. \A m \in Nodes : f[m] \in NodeStates(m) /\ (m \in inside => f[m] = NewNode(m))
                       /\ (m \notin inside => f[m] = s.node[m])
    BY <2>2 DEF Shaped
  <2>7. DOMAIN f = Nodes
    OBVIOUS
  <2> HIDE DEF f
  <2>8. Shaped(new) /\ new.node = f /\ new.frames = s.frames /\ new.ready = s.ready
    BY <2>6, <2>7, NodesSet
  <2>9. \A m \in Nodes : /\ h_[m] \in NodeStates(m)
                         /\ m \notin ToSet(o) => h_[m] = f[m]
                         /\ m \in ToSet(o) => /\ h_[m].status = "running" /\ h_[m].enqueued = TRUE
                                              /\ h_[m].blocked = f[m].blocked
                                              /\ h_[m].pending = f[m].pending
    BY <2>6 DEF NodeStates
  <2>10. DOMAIN h_ = Nodes
    OBVIOUS
  <2> HIDE DEF h_, new
  <2>11. Shaped(opens) /\ opens.node = h_ /\ opens.frames = s.frames /\ opens.ready = s.ready
    BY <2>8, <2>9, <2>10, NodesSet
  <2>12. stack \in Seq(wf.containers)
    BY <2>1, ConcatProperties DEF Shaped
  <2> HIDE DEF opens, stack
  <2>13. v = [node |-> opens.node, frames |-> stack, adopted |-> opens.adopted, ready |-> opens.ready]
    BY <2>11 DEF Shaped
  <2>14. Shaped(v) /\ v.node = h_ /\ v.frames = stack /\ v.ready = s.ready
    BY <2>11, <2>12, <2>13 DEF Shaped
  <2>15. Open(s, C) = Enqueue(v, T, None)
    BY <1>2, <2>8, <2>11, Zenon DEF Open, Update, v, opens, new, f, h_, T, inside, o, stack
  <2> HIDE DEF v
  <2>16. T \subseteq Nodes /\ None \in Calls \cup {None}
    BY DEF T, Starts, Graph
  <2> DEFINE t == Enqueue(v, T, None)
  <2>17. t.frames = v.frames
    BY <2>14, <2>16, Enqueues
  <2>18. /\ t.ready = v.ready \cup {Request(n, None) : n \in T}
         /\ \A m \in Nodes :
                  /\ t.node[m].status = v.node[m].status /\ t.node[m].pending = v.node[m].pending
                  /\ t.node[m].blocked = v.node[m].blocked
                  /\ m \notin T => t.node[m].enqueued = v.node[m].enqueued
                  /\ m \in T => t.node[m].enqueued = TRUE
    BY <2>14, <2>16, EnqueueIs
  <2>19. Open(s, C) = t
    BY <2>15
  <2> HIDE DEF t
  <2>20. t.frames = s.frames \o o
    BY <2>14, <2>17 DEF stack
  <2>21. \A m \in News(C) : m \in Nodes /\ wf.graph[m] \in C
    BY DEF News, Starts, Graph
  <2>22. \A m \in Nodes :
           /\ NewNode(m).status = "queued" /\ NewNode(m).enqueued = FALSE
           /\ NewNode(m).pending = Cardinality(DepsOf(m))
    BY DEF NewNode
  <2>23. ASSUME NEW m \in Nodes
         PROVE  /\ m \in C => /\ t.node[m].status = "running" /\ t.node[m].enqueued = TRUE
                              /\ t.node[m].blocked = s.node[m].blocked
                              /\ t.node[m].pending = s.node[m].pending
                /\ wf.graph[m] \in C => /\ t.node[m].status = "queued"
                                        /\ t.node[m].blocked = NewNode(m).blocked
                                        /\ t.node[m].pending = Cardinality(DepsOf(m))
                                        /\ m \in News(C) => t.node[m].enqueued = TRUE
                                        /\ m \notin News(C) => t.node[m].enqueued = FALSE
                /\ m \notin C /\ wf.graph[m] \notin C =>
                     /\ t.node[m].status = s.node[m].status /\ t.node[m].blocked = s.node[m].blocked
                     /\ t.node[m].pending = s.node[m].pending
                     /\ t.node[m].enqueued = s.node[m].enqueued
    <3>1. CASE m \in C
      <4>1. wf.graph[m] \notin C /\ m \notin inside /\ m \notin T
        BY <3>1, <2>3, <2>4, <2>5, <2>21
      <4> QED
        BY <3>1, <4>1, <2>1, <2>6, <2>9, <2>14, <2>18
    <3>2. CASE wf.graph[m] \in C
      <4>1. m \notin C /\ m \in inside
        BY <3>2, <2>3, <2>4
      <4>2. h_[m] = NewNode(m)
        BY <4>1, <2>1, <2>6, <2>9
      <4>3. /\ t.node[m].status = "queued" /\ t.node[m].blocked = NewNode(m).blocked
            /\ t.node[m].pending = Cardinality(DepsOf(m))
        BY <4>2, <2>14, <2>18, <2>22
      <4>4. /\ m \in News(C) => t.node[m].enqueued = TRUE
            /\ m \notin News(C) => t.node[m].enqueued = FALSE
        BY <4>2, <2>5, <2>14, <2>18, <2>22
      <4> QED
        BY <3>2, <4>1, <4>3, <4>4
    <3>3. CASE m \notin C /\ wf.graph[m] \notin C
      <4>1. m \notin inside /\ m \notin T
        BY <3>3, <2>4, <2>5, <2>21
      <4> QED
        BY <3>3, <4>1, <2>1, <2>6, <2>9, <2>14, <2>18
    <3> QED
      BY <3>1, <3>2, <3>3
  <2>24. t.ready = s.ready \cup {Request(n, None) : n \in News(C)}
    BY <2>5, <2>14, <2>18
  <2> QED
    BY <2>1, <2>19, <2>20, <2>23, <2>24
<1> QED
  BY <1>1, <1>2


---------------------------------------------------------------------------
(* Who has a claim to a node: a request, an execution, an open frame. *)

Held(s, n) == Active(s, wf.graph[n])

\* On its way or at work, or about to be: what holds a host back does not.
Astir(x) == x.status = "running" \/ (x.status = "queued" /\ ~x.blocked)
Tight(x) == x.status = "running" \/ (x.status = "queued" /\ ~x.blocked /\ x.enqueued)
Loose(x) == x.status = "queued" /\ ~x.blocked /\ ~x.enqueued

\* The state of a node tells which it is, and there is one of each.
ReadyTold(s) ==
  /\ \A q \in s.ready : Held(s, q.node) /\ s.node[q.node].status = "queued"
                        /\ s.node[q.node].enqueued = TRUE /\ s.node[q.node].blocked = FALSE
  /\ \A q, r \in s.ready : q.node = r.node => q = r
ExecsTold(s, X) ==
  \A e \in X : Held(s, e.node) /\ s.node[e.node].status = "running" /\ s.node[e.node].enqueued = FALSE
FramesTold(s) ==
  /\ \A c \in ToSet(s.frames) : s.node[c].status = "running" /\ s.node[c].enqueued = TRUE
  /\ \A i, j \in DOMAIN s.frames : s.frames[i] = s.frames[j] => i = j
Claimed(s, X) == ReadyTold(s) /\ ExecsTold(s, X) /\ FramesTold(s)

\* From one stage to another, but for the nodes D: what is within a chain and
\* astir was so before, what is on its way or at work stays so, for whom it was,
\* and what has another status has been started.
Onward(s, t, D) ==
  /\ \A n \in Nodes : Within(n) /\ Held(t, n) /\ Astir(t.node[n]) => Held(s, n) /\ Astir(s.node[n])
  /\ \A n \in Nodes \ D : Held(s, n) /\ Tight(s.node[n]) =>
       Held(t, n) /\ Tight(t.node[n]) /\ \A q \in t.ready : q.node = n => q \in s.ready
  /\ \A n \in Nodes \ D : Held(t, n) =>
       \/ Held(s, n) /\ t.node[n].status = s.node[n].status
       \/ Held(s, n) /\ s.node[n].status = "queued" /\ t.node[n].status = "running"
       \/ ~Held(s, n) /\ t.node[n].status \in {"queued", "running"}

LEMMA OnwardTwice ==
  ASSUME NEW s, NEW t, NEW u, NEW D, NEW E, Onward(s, t, D), Onward(t, u, E),
         \A n \in Nodes : Held(s, n) /\ Held(u, n) => Held(t, n)
  PROVE  Onward(s, u, D \cup E)
PROOF
<1>1. \A n \in Nodes : Within(n) /\ Held(u, n) /\ Astir(u.node[n]) => Held(s, n) /\ Astir(s.node[n])
  BY DEF Onward
<1>2. ASSUME NEW n \in Nodes \ (D \cup E), Held(s, n), Tight(s.node[n])
      PROVE  Held(u, n) /\ Tight(u.node[n]) /\ \A q \in u.ready : q.node = n => q \in s.ready
  <2>1. Held(t, n) /\ Tight(t.node[n]) /\ \A q \in t.ready : q.node = n => q \in s.ready
    BY <1>2 DEF Onward
  <2>2. Held(u, n) /\ Tight(u.node[n]) /\ \A q \in u.ready : q.node = n => q \in t.ready
    BY <1>2, <2>1 DEF Onward
  <2> QED
    BY <2>1, <2>2
<1>3. ASSUME NEW n \in Nodes \ (D \cup E), Held(u, n)
      PROVE  \/ Held(s, n) /\ u.node[n].status = s.node[n].status
             \/ Held(s, n) /\ s.node[n].status = "queued" /\ u.node[n].status = "running"
             \/ ~Held(s, n) /\ u.node[n].status \in {"queued", "running"}
  <2>1. \/ Held(t, n) /\ u.node[n].status = t.node[n].status
        \/ Held(t, n) /\ t.node[n].status = "queued" /\ u.node[n].status = "running"
        \/ ~Held(t, n) /\ u.node[n].status \in {"queued", "running"}
    BY <1>3 DEF Onward
  <2>2. Held(t, n) =>
          \/ Held(s, n) /\ t.node[n].status = s.node[n].status
          \/ Held(s, n) /\ s.node[n].status = "queued" /\ t.node[n].status = "running"
          \/ ~Held(s, n) /\ t.node[n].status \in {"queued", "running"}
    BY <1>3 DEF Onward
  <2> QED
    BY <1>3, <2>1, <2>2
<1> QED
  BY <1>1, <1>2, <1>3 DEF Onward

\* A node in another state that is not astir.
LEMMA Stages_ ==
  ASSUME NEW s, NEW t, \A g : Active(t, g) = Active(s, g)
  PROVE  \A n : Held(t, n) = Held(s, n)
PROOF
  BY Zenon DEF Held

\* Requests for nodes that are due keep the claims apart.
LEMMA EnqueueClaims ==
  ASSUME wf \in Workflows, NEW s, Shaped(s), NEW S, S \subseteq Nodes, NEW r \in Calls \cup {None},
         NEW X, Claimed(s, X), \A e \in X : e.node \in Nodes,
         \A n \in S : Held(s, n) /\ Loose(s.node[n])
  PROVE  Claimed(Enqueue(s, S, r), X) /\ Onward(s, Enqueue(s, S, r), {})
PROOF
<1> DEFINE t == Enqueue(s, S, r)
<1>1. /\ t.frames = s.frames /\ \A g : Active(t, g) = Active(s, g)
  BY Enqueues
<1>2. /\ t.ready = s.ready \cup {Request(n, r) : n \in S}
      /\ \A m \in Nodes :
           /\ t.node[m].status = s.node[m].status /\ t.node[m].pending = s.node[m].pending
           /\ t.node[m].blocked = s.node[m].blocked
           /\ m \notin S => t.node[m].enqueued = s.node[m].enqueued
           /\ m \in S => t.node[m].enqueued = TRUE
  BY EnqueueIs
<1> HIDE DEF t
<1>3. \A n : Held(t, n) = Held(s, n)
  BY <1>1, Stages_, Zenon
<1>4. \A q \in t.ready : q \in s.ready \/ (q.node \in S /\ q = Request(q.node, r))
  BY <1>2 DEF Request
<1>5. \A q \in s.ready : q.node \in Nodes
  BY DEF Shaped
<1>6. \A q \in s.ready : q.node \notin S
  BY DEF Claimed, ReadyTold, Loose
<1>7. ReadyTold(t)
  <2>1. \A q \in t.ready : Held(t, q.node)
    BY <1>3, <1>4 DEF Claimed, ReadyTold
  <2>2. \A q \in t.ready : /\ t.node[q.node].status = "queued" /\ t.node[q.node].enqueued = TRUE
                           /\ t.node[q.node].blocked = FALSE
    <3> SUFFICES ASSUME NEW q \in t.ready
                 PROVE  /\ t.node[q.node].status = "queued" /\ t.node[q.node].enqueued = TRUE
                        /\ t.node[q.node].blocked = FALSE
      OBVIOUS
    <3>1. CASE q \in s.ready
      BY <3>1, <1>2, <1>5, <1>6 DEF Claimed, ReadyTold
    <3>2. CASE q.node \in S
      <4>1. q.node \in Nodes /\ Loose(s.node[q.node]) /\ s.node[q.node].blocked \in BOOLEAN
        BY <3>2 DEF Shaped, NodeStates
      <4> QED
        BY <3>2, <4>1, <1>2 DEF Loose
    <3> QED
      BY <3>1, <3>2, <1>4
  <2>3. \A q, p \in t.ready : q.node = p.node => q = p
    BY <1>4, <1>6 DEF Claimed, ReadyTold
  <2> QED
    BY <2>1, <2>2, <2>3 DEF ReadyTold
<1>8. ExecsTold(t, X)
  <2> SUFFICES ASSUME NEW e \in X
               PROVE  Held(t, e.node) /\ t.node[e.node].status = "running" /\ t.node[e.node].enqueued = FALSE
    BY DEF ExecsTold
  <2>1. /\ e.node \in Nodes /\ Held(s, e.node) /\ s.node[e.node].status = "running"
        /\ s.node[e.node].enqueued = FALSE
    BY DEF Claimed, ExecsTold
  <2>2. e.node \notin S
    BY <2>1 DEF Loose
  <2> QED
    BY <2>1, <2>2, <1>2, <1>3
<1>9. FramesTold(t)
  <2>1. \A c \in ToSet(s.frames) : c \in Nodes
    BY Flow DEF Shaped, ToSet
  <2> QED
    BY <2>1, <1>1, <1>2 DEF Claimed, FramesTold, Loose
<1>10. Onward(s, t, {})
  <2>1. \A n \in Nodes : Astir(t.node[n]) => Astir(s.node[n])
    BY <1>2 DEF Astir
  <2>2. \A n \in Nodes : Tight(s.node[n]) => Tight(t.node[n]) /\ n \notin S
    BY <1>2 DEF Tight, Loose
  <2>3. \A n \in Nodes : t.node[n].status = s.node[n].status
    BY <1>2
  <2>4. \A n \in Nodes \ S : \A q \in t.ready : q.node = n => q \in s.ready
    BY <1>4
  <2> QED
    BY <1>3, <2>1, <2>2, <2>3, <2>4 DEF Onward
<1> QED
  BY <1>7, <1>8, <1>9, <1>10 DEF Claimed, t

\* Where containers hold none, a frame of the root holds nothing of another.
LEMMA Apart ==
  ASSUME wf \in Workflows, Unnested
  PROVE  \A c \in wf.containers : c \in Nodes /\ wf.graph[c] = Root /\ c # Root
PROOF
  BY Flow DEF Unnested

\* A stack that grows.
LEMMA Grown ==
  ASSUME NEW C, NEW p \in Seq(C), NEW o \in Seq(C)
  PROVE  /\ ToSet(p \o o) = ToSet(p) \cup ToSet(o)
         /\ (/\ \A i, j \in DOMAIN p : p[i] = p[j] => i = j
             /\ \A i, j \in DOMAIN o : o[i] = o[j] => i = j
             /\ ToSet(p) \cap ToSet(o) = {}
             => \A i, j \in DOMAIN (p \o o) : (p \o o)[i] = (p \o o)[j] => i = j)
PROOF
<1> DEFINE q == p \o o
<1>1. /\ Len(p) \in Nat /\ Len(o) \in Nat /\ DOMAIN p = 1..Len(p) /\ DOMAIN o = 1..Len(o)
      /\ DOMAIN q = 1..(Len(p) + Len(o))
      /\ \A i \in 1..(Len(p) + Len(o)) : q[i] = IF i <= Len(p) THEN p[i] ELSE o[i - Len(p)]
  OBVIOUS
<1> HIDE DEF q
<1>2. ASSUME NEW i \in DOMAIN q
      PROVE  \/ i \in DOMAIN p /\ q[i] = p[i]
             \/ (i - Len(p)) \in DOMAIN o /\ q[i] = o[i - Len(p)]
  BY <1>1
<1>3. \A i \in DOMAIN p : i \in DOMAIN q /\ q[i] = p[i]
  BY <1>1
<1>4. \A j \in DOMAIN o : Len(p) + j \in DOMAIN q /\ q[Len(p) + j] = o[j]
  BY <1>1
<1>5. ToSet(q) = ToSet(p) \cup ToSet(o)
  BY <1>2, <1>3, <1>4 DEF ToSet
<1>6. ASSUME \A i, j \in DOMAIN p : p[i] = p[j] => i = j,
             \A i, j \in DOMAIN o : o[i] = o[j] => i = j,
             ToSet(p) \cap ToSet(o) = {},
             NEW i \in DOMAIN q, NEW j \in DOMAIN q, q[i] = q[j]
      PROVE  i = j
  <2>1. \A a \in DOMAIN p, b \in DOMAIN o : p[a] # o[b]
    BY <1>6 DEF ToSet
  <2>2. \/ i \in DOMAIN p /\ q[i] = p[i]
        \/ (i - Len(p)) \in DOMAIN o /\ q[i] = o[i - Len(p)]
    BY <1>2
  <2>3. \/ j \in DOMAIN p /\ q[j] = p[j]
        \/ (j - Len(p)) \in DOMAIN o /\ q[j] = o[j - Len(p)]
    BY <1>2
  <2>4. i \in Nat /\ j \in Nat
    BY <1>1
  <2>5. CASE i \in DOMAIN p /\ j \in DOMAIN p
    BY <2>5, <1>3, <1>6
  <2>6. CASE i \in DOMAIN p /\ j \notin DOMAIN p
    BY <2>6, <2>1, <2>2, <2>3, <1>3, <1>6
  <2>7. CASE i \notin DOMAIN p /\ j \in DOMAIN p
    BY <2>7, <2>1, <2>2, <2>3, <1>3, <1>6
  <2>8. CASE i \notin DOMAIN p /\ j \notin DOMAIN p
    <3>1. i - Len(p) = j - Len(p)
      BY <2>2, <2>3, <2>8, <1>6
    <3> QED
      BY <3>1, <2>4, <1>1
  <2> QED
    BY <2>5, <2>6, <2>7, <2>8
<1> QED
  BY <1>5, <1>6 DEF q

\* Frames that open for containers that nobody has started keep the claims apart.
LEMMA OpenClaims ==
  ASSUME wf \in Workflows, Unnested, NEW s, Shaped(s), NEW C, C \subseteq wf.containers,
         NEW X, Claimed(s, X), \A e \in X : e.node \in Nodes, \A c \in C : Loose(s.node[c])
  PROVE  LET t == Open(s, C)
         IN  /\ Claimed(t, X) /\ Onward(s, t, {}) /\ s.ready \subseteq t.ready
             /\ \A n : Held(s, n) => Held(t, n)
             /\ \A n \in Nodes : Held(s, n) /\ n \notin C => t.node[n].status = s.node[n].status
                  /\ t.node[n].blocked = s.node[n].blocked /\ t.node[n].enqueued = s.node[n].enqueued
                  /\ t.node[n].pending = s.node[n].pending
PROOF
<1> DEFINE t == Open(s, C)
<1>0. /\ \E o \in Seq(wf.containers) :
           /\ ToSet(o) = C /\ \A i, j \in DOMAIN o : o[i] = o[j] => i = j
           /\ t.frames = s.frames \o o
      /\ t.ready = s.ready \cup {Request(n, None) : n \in News(C)}
      /\ \A m \in Nodes :
           /\ m \in C => /\ t.node[m].status = "running" /\ t.node[m].enqueued = TRUE
                         /\ t.node[m].blocked = s.node[m].blocked
                         /\ t.node[m].pending = s.node[m].pending
           /\ wf.graph[m] \in C => /\ t.node[m].status = "queued"
                                   /\ t.node[m].blocked = NewNode(m).blocked
                                   /\ t.node[m].pending = Cardinality(DepsOf(m))
                                   /\ m \in News(C) => t.node[m].enqueued = TRUE
                                   /\ m \notin News(C) => t.node[m].enqueued = FALSE
           /\ m \notin C /\ wf.graph[m] \notin C =>
                /\ t.node[m].status = s.node[m].status /\ t.node[m].blocked = s.node[m].blocked
                /\ t.node[m].pending = s.node[m].pending
                /\ t.node[m].enqueued = s.node[m].enqueued
  BY OpenIs
<1> HIDE DEF t
<1>1. PICK o \in Seq(wf.containers) :
        /\ ToSet(o) = C /\ \A i, j \in DOMAIN o : o[i] = o[j] => i = j
        /\ t.frames = s.frames \o o
  BY <1>0, Zenon
<1>2. t.ready = s.ready \cup {Request(n, None) : n \in News(C)}
  BY <1>0, Zenon
<1>3. \A m \in Nodes :
        /\ m \in C => /\ t.node[m].status = "running" /\ t.node[m].enqueued = TRUE
                      /\ t.node[m].blocked = s.node[m].blocked
                      /\ t.node[m].pending = s.node[m].pending
        /\ wf.graph[m] \in C => /\ t.node[m].status = "queued"
                                /\ t.node[m].blocked = NewNode(m).blocked
                                /\ t.node[m].pending = Cardinality(DepsOf(m))
                                /\ m \in News(C) => t.node[m].enqueued = TRUE
                                /\ m \notin News(C) => t.node[m].enqueued = FALSE
        /\ m \notin C /\ wf.graph[m] \notin C =>
             /\ t.node[m].status = s.node[m].status /\ t.node[m].blocked = s.node[m].blocked
             /\ t.node[m].pending = s.node[m].pending
             /\ t.node[m].enqueued = s.node[m].enqueued
  BY <1>0, Zenon
<1>4. s.frames \in Seq(wf.containers) /\ ToSet(t.frames) = ToSet(s.frames) \cup C
  BY <1>1, Grown DEF Shaped
<1>5. \A c \in C : c \notin ToSet(s.frames)
  BY DEF Claimed, FramesTold, Loose
<1>6. \A i, j \in DOMAIN t.frames : t.frames[i] = t.frames[j] => i = j
  <2>1. \A i, j \in DOMAIN s.frames : s.frames[i] = s.frames[j] => i = j
    BY DEF Claimed, FramesTold
  <2>2. ToSet(s.frames) \cap ToSet(o) = {}
    BY <1>1, <1>5
  <2>3. s.frames \in Seq(wf.containers)
    BY <1>4
  <2>4. \A i, j \in DOMAIN (s.frames \o o) : (s.frames \o o)[i] = (s.frames \o o)[j] => i = j
    BY <2>1, <2>2, <2>3, <1>1, Grown, Zenon
  <2> QED
    BY <2>4, <1>1
<1>7. \A n : Held(t, n) <=> Held(s, n) \/ wf.graph[n] \in C
  BY <1>4 DEF Held, Active
<1>8. \A n : Held(s, n) => wf.graph[n] \notin C
  BY <1>5, Apart DEF Held, Active
<1>9. \A n \in News(C) : n \in Nodes /\ wf.graph[n] \in C /\ NewNode(n).blocked = FALSE /\ n \notin C
  <2>1. \A n \in News(C) : n \in Nodes /\ wf.graph[n] \in C /\ Due(NewNode(n)) /\ n \notin C
    <3> SUFFICES ASSUME NEW n \in News(C)
                 PROVE  n \in Nodes /\ wf.graph[n] \in C /\ Due(NewNode(n)) /\ n \notin C
      OBVIOUS
    <3>1. PICK c \in C : n \in Starts(c) /\ n \notin wf.containers
      BY Zenon DEF News
    <3> QED
      BY <3>1 DEF Starts, Graph
  <2>2. \A n \in Nodes : NewNode(n).blocked \in BOOLEAN
    BY DEF NewNode, IsHost, IsMiddleware, Outermost
  <2> QED
    BY <2>1, <2>2 DEF Due
<1>10. \A q \in t.ready : q \in s.ready \/ (q.node \in News(C) /\ q = Request(q.node, None))
  BY <1>2 DEF Request
<1>11. \A q \in s.ready : q.node \in Nodes /\ Held(s, q.node) /\ q.node \notin C /\ wf.graph[q.node] \notin C
  BY <1>8 DEF Shaped, Claimed, ReadyTold, Loose
<1>12. ReadyTold(t)
  <2>1. ASSUME NEW q \in t.ready
        PROVE  Held(t, q.node) /\ t.node[q.node].status = "queued"
               /\ t.node[q.node].enqueued = TRUE /\ t.node[q.node].blocked = FALSE
    <3>1. CASE q \in s.ready
      BY <3>1, <1>3, <1>7, <1>11 DEF Claimed, ReadyTold
    <3>2. CASE q.node \in News(C)
      BY <3>2, <1>3, <1>7, <1>9
    <3> QED
      BY <3>1, <3>2, <1>10
  <2>2. \A q, p \in t.ready : q.node = p.node => q = p
    BY <1>9, <1>10, <1>11 DEF Claimed, ReadyTold
  <2> QED
    BY <2>1, <2>2 DEF ReadyTold
<1>13. ExecsTold(t, X)
  <2> SUFFICES ASSUME NEW e \in X
               PROVE  Held(t, e.node) /\ t.node[e.node].status = "running" /\ t.node[e.node].enqueued = FALSE
    BY DEF ExecsTold
  <2>1. /\ e.node \in Nodes /\ Held(s, e.node) /\ s.node[e.node].status = "running"
        /\ s.node[e.node].enqueued = FALSE
    BY DEF Claimed, ExecsTold
  <2>2. e.node \notin C
    BY <2>1 DEF Loose
  <2> QED
    BY <2>1, <2>2, <1>3, <1>7, <1>8
<1>14. FramesTold(t)
  <2>1. ASSUME NEW c \in ToSet(t.frames)
        PROVE  t.node[c].status = "running" /\ t.node[c].enqueued = TRUE
    <3>1. CASE c \in C
      BY <3>1, <1>3, Apart
    <3>2. CASE c \in ToSet(s.frames) /\ c \notin C
      <4>1. c \in wf.containers
        BY <3>2, <1>4 DEF ToSet
      <4>2. c \in Nodes /\ wf.graph[c] \notin C
        BY <4>1, Apart
      <4> QED
        BY <3>2, <4>2, <1>3 DEF Claimed, FramesTold
    <3> QED
      BY <3>1, <3>2, <1>4
  <2> QED
    BY <2>1, <1>6 DEF FramesTold
<1>15. \A n \in Nodes : Held(s, n) /\ n \notin C =>
         t.node[n].status = s.node[n].status /\ t.node[n].blocked = s.node[n].blocked
         /\ t.node[n].enqueued = s.node[n].enqueued /\ t.node[n].pending = s.node[n].pending
  BY <1>3, <1>8
<1>16. Onward(s, t, {})
  <2>1. ASSUME NEW n \in Nodes, Within(n), Held(t, n), Astir(t.node[n])
        PROVE  Held(s, n) /\ Astir(s.node[n])
    <3>1. CASE wf.graph[n] \in C
      <4>1. t.node[n].status = "queued" /\ t.node[n].blocked = NewNode(n).blocked
        BY <3>1, <1>3
      <4>2. NewNode(n).blocked
        BY <2>1 DEF NewNode, Within
      <4> QED
        BY <4>1, <4>2, <2>1 DEF Astir
    <3>2. CASE n \in C
      <4>1. Held(s, n)
        BY <3>2, Apart DEF Held, Active
      <4> QED
        BY <3>2, <4>1 DEF Loose, Astir
    <3>3. CASE wf.graph[n] \notin C /\ n \notin C
      BY <3>3, <2>1, <1>3, <1>7 DEF Astir
    <3> QED
      BY <3>1, <3>2, <3>3
  <2>2. ASSUME NEW n \in Nodes, Held(s, n), Tight(s.node[n])
        PROVE  Held(t, n) /\ Tight(t.node[n]) /\ \A q \in t.ready : q.node = n => q \in s.ready
    <3>1. n \notin C
      BY <2>2 DEF Loose, Tight
    <3>2. n \notin News(C)
      BY <2>2, <1>8, <1>9
    <3> QED
      BY <3>1, <3>2, <2>2, <1>7, <1>10, <1>15 DEF Tight
  <2>3. ASSUME NEW n \in Nodes, Held(t, n)
        PROVE  \/ Held(s, n) /\ t.node[n].status = s.node[n].status
               \/ Held(s, n) /\ s.node[n].status = "queued" /\ t.node[n].status = "running"
               \/ ~Held(s, n) /\ t.node[n].status \in {"queued", "running"}
    <3>1. CASE wf.graph[n] \in C
      BY <3>1, <1>3, <1>8
    <3>2. CASE n \in C
      <4>1. Held(s, n)
        BY <3>2, Apart DEF Held, Active
      <4> QED
        BY <3>2, <4>1, <1>3 DEF Loose
    <3>3. CASE wf.graph[n] \notin C /\ n \notin C
      BY <3>3, <2>3, <1>3, <1>7
    <3> QED
      BY <3>1, <3>2, <3>3
  <2> QED
    BY <2>1, <2>2, <2>3 DEF Onward
<1>17. s.ready \subseteq t.ready /\ \A n : Held(s, n) => Held(t, n)
  BY <1>2, <1>7
<1> QED
  BY <1>12, <1>13, <1>14, <1>15, <1>16, <1>17 DEF Claimed, t

\* A stage that leaves no claim and no request behind.
Advances(s, t, X, D) ==
  /\ Claimed(t, X) /\ Onward(s, t, D)
  /\ s.ready \subseteq t.ready /\ \A n : Held(s, n) => Held(t, n)

LEMMA AdvancesTwice ==
  ASSUME NEW s, NEW t, NEW u, NEW X, NEW D, NEW E, Advances(s, t, X, D), Advances(t, u, X, E)
  PROVE  Advances(s, u, X, D \cup E)
PROOF
<1>1. Onward(s, u, D \cup E)
  BY OnwardTwice DEF Advances
<1> QED
  BY <1>1 DEF Advances

LEMMA AdvancesNot ==
  ASSUME NEW s, NEW X, Claimed(s, X)
  PROVE  Advances(s, s, X, {})
PROOF
  BY DEF Advances, Onward

\* What is due is started: it had no claim.
LEMMA StartClaims ==
  ASSUME wf \in Workflows, Unnested, NEW s, Shaped(s), NEW S, S \subseteq Nodes,
         NEW X, Claimed(s, X), \A e \in X : e.node \in Nodes,
         \A n \in S : Held(s, n) /\ Loose(s.node[n])
  PROVE  Advances(s, Start(s, S), X, {})
PROOF
<1> DEFINE C == S \cap wf.containers
           t == Open(s, C)
           R == S \ wf.containers
           u == Enqueue(t, R, None)
<1>1. C \subseteq wf.containers /\ R \subseteq Nodes /\ \A n \in C : Loose(s.node[n])
  OBVIOUS
<1>2. Start(s, S) = u
  BY Zenon DEF Start
<1>3. \A n \in R : n \in Nodes /\ n \notin C /\ Held(s, n) /\ Loose(s.node[n])
  OBVIOUS
<1> HIDE DEF C, R
<1>4. /\ Claimed(t, X) /\ Onward(s, t, {}) /\ s.ready \subseteq t.ready
      /\ \A n : Held(s, n) => Held(t, n)
      /\ \A n \in Nodes : Held(s, n) /\ n \notin C => t.node[n].status = s.node[n].status
           /\ t.node[n].blocked = s.node[n].blocked /\ t.node[n].enqueued = s.node[n].enqueued
           /\ t.node[n].pending = s.node[n].pending
  BY <1>1, OpenClaims
<1>5. Shaped(t)
  BY <1>1, Opening
<1> HIDE DEF t
<1>6. \A n \in R : Held(t, n) /\ Loose(t.node[n])
  BY <1>3, <1>4 DEF Loose
<1>7. Claimed(u, X) /\ Onward(t, u, {})
  BY <1>1, <1>4, <1>5, <1>6, EnqueueClaims
<1>8. t.ready \subseteq u.ready /\ \A g : Active(u, g) = Active(t, g)
  BY <1>1, <1>5, EnqueueIs, Enqueues
<1>9. \A n : Held(u, n) = Held(t, n)
  BY <1>8, Stages_, Zenon
<1> HIDE DEF u
<1>10. Onward(s, u, {} \cup {})
  BY <1>4, <1>7, OnwardTwice
<1> QED
  BY <1>2, <1>4, <1>7, <1>8, <1>9, <1>10 DEF Advances

\* Counting down changes no claim.
LEMMA CountClaims ==
  ASSUME wf \in Workflows, NEW s, Shaped(s), NEW n,
         NEW X, Claimed(s, X), \A e \in X : e.node \in Nodes
  PROVE  Advances(s, CountedDown(s, n), X, {})
PROOF
<1> DEFINE t == CountedDown(s, n)
<1>1. /\ t.ready = s.ready
      /\ \A m \in Nodes :
           /\ t.node[m].status = s.node[m].status /\ t.node[m].blocked = s.node[m].blocked
           /\ t.node[m].enqueued = s.node[m].enqueued
  BY CountIs
<1>2. t.frames = s.frames
  BY Counting
<1> HIDE DEF t
<1>3. \A m : Held(t, m) = Held(s, m)
  BY <1>2, Zenon DEF Held, Active
<1>4. \A c \in ToSet(s.frames) : c \in Nodes
  BY Flow DEF Shaped, ToSet
<1>5. \A q \in s.ready : q.node \in Nodes
  BY DEF Shaped
<1>6. ReadyTold(t)
  BY <1>1, <1>3, <1>5 DEF Claimed, ReadyTold
<1>7. ExecsTold(t, X)
  BY <1>1, <1>3 DEF Claimed, ExecsTold
<1>8. FramesTold(t)
  BY <1>1, <1>2, <1>4 DEF Claimed, FramesTold
<1>9. Onward(s, t, {})
  BY <1>1, <1>3 DEF Onward, Astir, Tight
<1> QED
  BY <1>1, <1>3, <1>6, <1>7, <1>8, <1>9 DEF Advances, Claimed, t

\* Who waits for a node is in its graph.
LEMMA Neighbours ==
  ASSUME wf \in Workflows, NEW n \in Nodes, NEW u \in Dependents(n)
  PROVE  u \in Nodes /\ wf.graph[u] = wf.graph[n]
PROOF
<1>1. u \in Nodes /\ n \in DepsOf(u)
  BY DEF Dependents
<1>2. \A x \in Nodes : \A d \in wf.deps[x] : wf.graph[d] = wf.graph[x]
  BY WorkflowsAssumption DEF WellFormed, Nodes
<1>3. CASE n \in wf.deps[u]
  BY <1>1, <1>2, <1>3
<1>4. CASE Outermost(u) /\ n \in wf.deps[HostOf(u)]
  <2>1. IsMiddleware(u)
    BY <1>4 DEF Outermost
  <2>2. HostOf(u) \in Nodes /\ wf.graph[HostOf(u)] = wf.graph[u]
    BY <1>1, <2>1, Place
  <2> QED
    BY <1>1, <1>2, <1>4, <2>2
<1> QED
  BY <1>1, <1>3, <1>4 DEF DepsOf

\* release_dependents starts what is due.
LEMMA ReleaseClaims ==
  ASSUME wf \in Workflows, Unnested, NEW s, Shaped(s), NEW n \in Nodes, Held(s, n),
         NEW X, Claimed(s, X), \A e \in X : e.node \in Nodes
  PROVE  Advances(s, Release(s, n), X, {})
PROOF
<1> DEFINE c == CountedDown(s, n)
           S == {u \in Dependents(n) : Due(c.node[u])}
<1>1. Release(s, n) = Start(c, S)
  BY Zenon DEF Release
<1>2. Advances(s, c, X, {}) /\ Shaped(c)
  BY CountClaims, Counting
<1> HIDE DEF c
<1>3. \A u \in Nodes : c.node[u].enqueued \in BOOLEAN /\ c.node[u].blocked \in BOOLEAN
  BY <1>2 DEF Shaped, NodeStates
<1>4. ASSUME NEW u \in S
      PROVE  u \in Nodes /\ Held(c, u) /\ Loose(c.node[u])
  <2>1. u \in Dependents(n) /\ Due(c.node[u])
    OBVIOUS
  <2>2. u \in Nodes /\ wf.graph[u] = wf.graph[n]
    BY <2>1, Neighbours
  <2>3. Held(s, u)
    BY <2>2 DEF Held
  <2> QED
    BY <2>1, <2>2, <2>3, <1>2 DEF Advances, Due, Loose
<1> HIDE DEF S
<1>5. Advances(c, Start(c, S), X, {})
  BY <1>2, <1>4, StartClaims DEF Advances
<1>6. Advances(s, Start(c, S), X, {} \cup {})
  BY <1>2, <1>5, AdvancesTwice, Zenon
<1> QED
  BY <1>1, <1>6

\* collect_ready_for_record and collect_ready_for_frame start what is due.
LEMMA CollectClaims ==
  ASSUME wf \in Workflows, Unnested, NEW s, Shaped(s), NEW g, Active(s, g),
         NEW X, Claimed(s, X), \A e \in X : e.node \in Nodes
  PROVE  Advances(s, CollectFrom(s, g), X, {})
PROOF
<1> DEFINE S == {n \in Graph(g) : Due(s.node[n]) /\ ~IsHost(n)}
<1>1. CollectFrom(s, g) = Start(s, S)
  BY Zenon DEF CollectFrom
<1>2. ASSUME NEW n \in S
      PROVE  n \in Nodes /\ Held(s, n) /\ Loose(s.node[n])
  BY DEF Graph, Held, Due, Loose
<1> HIDE DEF S
<1>3. Advances(s, Start(s, S), X, {})
  BY <1>2, StartClaims
<1> QED
  BY <1>1, <1>3

\* A node without a claim comes to rest.
LEMMA SetClaims ==
  ASSUME wf \in Workflows, NEW s, Shaped(s), NEW n \in Nodes, NEW x \in NodeStates(n), NEW D, n \in D,
         NEW X, Claimed(s, X), \A e \in X : e.node \in Nodes /\ e.node # n,
         n \notin ToSet(s.frames), \A q \in s.ready : q.node # n,
         Within(n) /\ Held(s, n) /\ Astir(x) => Astir(s.node[n])
  PROVE  LET t == Set(s, n, x)
         IN  /\ Advances(s, t, X, D) /\ t.node[n] = x /\ \A m \in Nodes : m # n => t.node[m] = s.node[m]
             /\ Shaped(t) /\ t.frames = s.frames /\ t.ready = s.ready /\ t.adopted = s.adopted
PROOF
<1> DEFINE t == Set(s, n, x)
<1>1. /\ Shaped(t) /\ t.node[n] = x /\ \A m \in Nodes : m # n => t.node[m] = s.node[m]
      /\ t.frames = s.frames /\ t.ready = s.ready /\ t.adopted = s.adopted
  BY SetOne
<1> HIDE DEF t
<1>2. \A m : Held(t, m) = Held(s, m)
  BY <1>1, Zenon DEF Held, Active
<1>3. \A c \in ToSet(s.frames) : c \in Nodes
  BY Flow DEF Shaped, ToSet
<1>4. \A q \in s.ready : q.node \in Nodes
  BY DEF Shaped
<1>5. ReadyTold(t)
  BY <1>1, <1>2, <1>4 DEF Claimed, ReadyTold
<1>6. ExecsTold(t, X)
  BY <1>1, <1>2 DEF Claimed, ExecsTold
<1>7. FramesTold(t)
  BY <1>1, <1>3 DEF Claimed, FramesTold
<1>8. Onward(s, t, D)
  BY <1>1, <1>2 DEF Onward
<1> QED
  BY <1>1, <1>2, <1>5, <1>6, <1>7, <1>8 DEF Advances, Claimed, t

\* What is left of a sequence.
LEMMA PartIs ==
  ASSUME NEW C, NEW q \in Seq(C), NEW a \in 1..(Len(q) + 1), NEW b \in (a - 1)..Len(q)
  PROVE  /\ SubSeq(q, a, b) \in Seq(C) /\ Len(SubSeq(q, a, b)) = b - a + 1
         /\ \A i \in 1..(b - a + 1) : SubSeq(q, a, b)[i] = q[a + i - 1]
PROOF
<1> DEFINE u == SubSeq(q, a, b)
<1>1. Len(q) \in Nat /\ \A i \in 1..Len(q) : q[i] \in C
  OBVIOUS
<1>2. a \in Int /\ b \in Int /\ \A i \in a..b : i \in 1..Len(q)
  BY <1>1
<1>3. \A i \in a..b : q[i] \in C
  BY <1>1, <1>2
<1> HIDE DEF u
<1>4. /\ u \in Seq(C) /\ Len(u) = IF a <= b THEN b - a + 1 ELSE 0
      /\ \A i \in 1..(b - a + 1) : u[i] = q[a + i - 1]
  BY <1>2, <1>3, SubSeqProperties DEF u
<1>5. Len(u) = b - a + 1
  BY <1>1, <1>4
<1> QED
  BY <1>4, <1>5 DEF u

LEMMA RemovedIs ==
  ASSUME NEW C, NEW p \in Seq(C), NEW k \in 1..Len(p)
  PROVE  LET q == RemoveAt(p, k)
         IN  /\ DOMAIN q = 1..(Len(p) - 1)
             /\ \A i \in 1..(Len(p) - 1) : q[i] = IF i < k THEN p[i] ELSE p[i + 1]
PROOF
<1> DEFINE q == RemoveAt(p, k)
<1>1. Len(p) \in Nat /\ DOMAIN p = 1..Len(p)
  OBVIOUS
<1>2. PICK lo \in 0..Len(p) : lo = k - 1
  BY <1>1
<1>3. PICK hi \in 1..(Len(p) + 1) : hi = k + 1
  BY <1>1
<1>4. PICK n \in (hi - 1)..Len(p) : n = Len(p)
  <2>1. Len(p) \in (hi - 1)..Len(p)
    BY <1>1
  <2> QED
    BY <2>1
<1> DEFINE a == SubSeq(p, 1, lo)
           b == SubSeq(p, hi, n)
<1>5. q = a \o b
  BY <1>2, <1>3, <1>4 DEF RemoveAt
<1> HIDE DEF a, b, q
<1>6. 1 \in 1..(Len(p) + 1) /\ lo \in (1 - 1)..Len(p)
  BY <1>1
<1>7. /\ a \in Seq(C) /\ Len(a) = lo - 1 + 1 /\ \A i \in 1..(lo - 1 + 1) : a[i] = p[1 + i - 1]
  BY <1>6, PartIs DEF a
<1>8. /\ b \in Seq(C) /\ Len(b) = n - hi + 1 /\ \A i \in 1..(n - hi + 1) : b[i] = p[hi + i - 1]
  BY PartIs DEF b
<1>9. /\ q \in Seq(C) /\ Len(q) = Len(a) + Len(b)
      /\ \A i \in 1..(Len(a) + Len(b)) : q[i] = IF i <= Len(a) THEN a[i] ELSE b[i - Len(a)]
  BY <1>5, <1>7, <1>8, ConcatProperties
<1>10. Len(a) = k - 1 /\ Len(b) = Len(p) - k
  BY <1>1, <1>2, <1>3, <1>4, <1>7, <1>8
<1>11. ASSUME NEW i \in 1..(Len(p) - 1)
       PROVE  q[i] = IF i < k THEN p[i] ELSE p[i + 1]
  <2>1. CASE i < k
    <3>1. i \in 1..(lo - 1 + 1) /\ 1 + i - 1 = i /\ i <= Len(a) /\ i \in 1..(Len(a) + Len(b))
      BY <2>1, <1>1, <1>2, <1>10
    <3> QED
      BY <3>1, <2>1, <1>7, <1>9
  <2>2. CASE ~(i < k)
    <3>1. /\ i - Len(a) \in 1..(n - hi + 1) /\ hi + (i - Len(a)) - 1 = i + 1 /\ ~(i <= Len(a))
          /\ i \in 1..(Len(a) + Len(b))
      BY <2>2, <1>1, <1>3, <1>4, <1>10
    <3>2. q[i] = b[i - Len(a)]
      BY <3>1, <1>9
    <3> QED
      BY <3>1, <3>2, <2>2, <1>8
  <2> QED
    BY <2>1, <2>2
<1>12. DOMAIN q = 1..(Len(p) - 1)
  BY <1>1, <1>9, <1>10
<1> QED
  BY <1>11, <1>12 DEF q

\* A frame that is popped leaves the others as they are.
LEMMA PopIs ==
  ASSUME NEW s, Shaped(s), NEW g, g \in ToSet(s.frames),
         \A i, j \in DOMAIN s.frames : s.frames[i] = s.frames[j] => i = j
  PROVE  LET t == Popped(s, g)
         IN  /\ ToSet(t.frames) = ToSet(s.frames) \ {g}
             /\ \A i, j \in DOMAIN t.frames : t.frames[i] = t.frames[j] => i = j
PROOF
<1> DEFINE t == Popped(s, g)
           p == s.frames
           k == CHOOSE i \in DOMAIN p : p[i] = g
           q == RemoveAt(p, k)
<1>1. p \in Seq(wf.containers) /\ \A i, j \in DOMAIN p : p[i] = p[j] => i = j
  BY DEF Shaped
<1>2. k \in DOMAIN p /\ p[k] = g
  BY DEF ToSet
<1>3. t.frames = q
  <2>1. t = [s EXCEPT !.frames = q]
    BY Zenon DEF Popped
  <2> HIDE DEF q
  <2> QED
    BY <2>1 DEF Shaped
<1> HIDE DEF k, p, t
<1>4. /\ Len(p) \in Nat /\ DOMAIN p = 1..Len(p) /\ k \in 1..Len(p)
      /\ DOMAIN q = 1..(Len(p) - 1)
      /\ \A i \in 1..(Len(p) - 1) : q[i] = IF i < k THEN p[i] ELSE p[i + 1]
  <2>1. Len(p) \in Nat /\ DOMAIN p = 1..Len(p) /\ k \in 1..Len(p)
    BY <1>1, <1>2
  <2> QED
    BY <2>1, <1>1, RemovedIs
<1> HIDE DEF q
<1>5. ASSUME NEW i \in DOMAIN q
      PROVE  /\ i \in Nat
             /\ i < k => i \in DOMAIN p /\ q[i] = p[i]
             /\ i >= k => i + 1 \in DOMAIN p /\ q[i] = p[i + 1]
             /\ q[i] # g
  <2>1. i \in Nat /\ k \in Nat
    BY <1>4
  <2>2. i < k => i \in DOMAIN p /\ q[i] = p[i]
    BY <1>4
  <2>3. i >= k => i + 1 \in DOMAIN p /\ q[i] = p[i + 1]
    BY <1>4
  <2>4. q[i] # g
    BY <2>1, <2>2, <2>3, <1>1, <1>2
  <2> QED
    BY <2>1, <2>2, <2>3, <2>4
<1>6. ASSUME NEW j \in DOMAIN p, p[j] # g
      PROVE  \E i \in DOMAIN q : q[i] = p[j]
  <2>1. j \in Nat /\ k \in Nat /\ j # k
    BY <1>2, <1>4, <1>6
  <2>2. CASE j < k
    BY <2>1, <2>2, <1>4
  <2>3. CASE j > k
    <3>1. j - 1 \in DOMAIN q /\ q[j - 1] = p[j]
      BY <2>1, <2>3, <1>4
    <3> QED
      BY <3>1
  <2> QED
    BY <2>1, <2>2, <2>3
<1>7. ToSet(q) = ToSet(p) \ {g}
  BY <1>5, <1>6, <1>4 DEF ToSet
<1>8. \A i, j \in DOMAIN q : q[i] = q[j] => i = j
  <2> SUFFICES ASSUME NEW i \in DOMAIN q, NEW j \in DOMAIN q, q[i] = q[j] PROVE i = j
    OBVIOUS
  <2>1. i \in Nat /\ j \in Nat /\ k \in Nat
    BY <1>4, <1>5
  <2>2. CASE i < k /\ j < k
    BY <2>2, <1>1, <1>5
  <2>3. CASE i < k /\ j >= k
    BY <2>1, <2>3, <1>1, <1>5
  <2>4. CASE i >= k /\ j < k
    BY <2>1, <2>4, <1>1, <1>5
  <2>5. CASE i >= k /\ j >= k
    <3>1. i + 1 = j + 1
      BY <2>5, <1>1, <1>5
    <3> QED
      BY <3>1, <2>1
  <2> QED
    BY <2>1, <2>2, <2>3, <2>4, <2>5
<1> QED
  BY <1>3, <1>7, <1>8 DEF t, p

\* A frame in which all has ended well closes: its container comes to rest, and
\* nobody has a claim to what was in it.
LEMMA CloseClaims ==
  ASSUME wf \in Workflows, Unnested, NEW s, Shaped(s), NEW g \in wf.containers, g \in ToSet(s.frames),
         NEW X, Claimed(s, X), \A e \in X : e.node \in Nodes,
         ~FrameFailed(s, g), \A n \in Graph(g) : s.node[n].status \in Final
  PROVE  LET t == Close(s, g)
         IN  /\ Claimed(t, X) /\ Onward(s, t, {g}) /\ ~Astir(t.node[g]) /\ s.ready \subseteq t.ready
             /\ ToSet(t.frames) = ToSet(s.frames) \ {g}
             /\ t.node[g].status = (IF IsHost(g) THEN "queued" ELSE "succeeded")
             /\ \A m \in Nodes \ {g} : t.node[m].status = s.node[m].status
             /\ \A m \in Nodes \ {g} : t.node[m].blocked = s.node[m].blocked
PROOF
<1> DEFINE x == ContainerEnd(s, g)
           c == Set(s, g, x)
           u == Popped(c, g)
           v == CountedDown(u, g)
           S == {m \in Dependents(g) : Due(v.node[m]) /\ ~IsHost(m)}
           w == Enqueue(v, S, None)
           t == Close(s, g)
<1>1. g \in Nodes /\ wf.graph[g] = Root /\ g # Root
  BY Apart
<1>2. x \in NodeStates(g) /\ x.status # "failed"
  BY <1>1, Ending
<1>3. x.status = (IF IsHost(g) THEN "queued" ELSE "succeeded") /\ ~Astir(x)
  <2>1. CASE IsHost(g)
    <3>1. x = [status |-> "queued", pending |-> 0, enqueued |-> FALSE, blocked |-> TRUE]
      BY <2>1, Zenon DEF ContainerEnd
    <3> QED
      BY <3>1, <2>1 DEF Astir
  <2>2. CASE ~IsHost(g)
    <3>1. x = [s.node[g] EXCEPT !.status = "succeeded", !.enqueued = FALSE]
      BY <2>2, Zenon DEF ContainerEnd
    <3>2. s.node[g] \in NodeStates(g)
      BY <1>1 DEF Shaped
    <3>3. x.status = "succeeded"
      BY <3>1, <3>2 DEF NodeStates
    <3> QED
      BY <3>3, <2>2 DEF Astir
  <2> QED
    BY <2>1, <2>2
<1>4. Active(s, wf.graph[g])
  BY <1>1 DEF Active
<1>5. t = IF IsHost(g) THEN u ELSE w
  BY <1>4, Zenon DEF Close
<1> HIDE DEF x, t
<1>6. /\ Shaped(c) /\ c.node[g] = x /\ \A m \in Nodes \ {g} : c.node[m] = s.node[m]
      /\ c.frames = s.frames /\ c.ready = s.ready
  BY <1>1, <1>2, SetOne
<1> HIDE DEF c
<1>7. Shaped(u) /\ u.node = c.node /\ u.ready = c.ready
  BY <1>6, Popping
<1>8. /\ ToSet(u.frames) = ToSet(s.frames) \ {g}
      /\ \A i, j \in DOMAIN u.frames : u.frames[i] = u.frames[j] => i = j
  <2>1. /\ g \in ToSet(c.frames)
        /\ \A i, j \in DOMAIN c.frames : c.frames[i] = c.frames[j] => i = j
    BY <1>6 DEF Claimed, FramesTold
  <2>2. /\ ToSet(u.frames) = ToSet(c.frames) \ {g}
        /\ \A i, j \in DOMAIN u.frames : u.frames[i] = u.frames[j] => i = j
    BY <2>1, <1>6, PopIs
  <2> QED
    BY <2>2, <1>6
<1> HIDE DEF u
<1>9. \A n : Held(u, n) <=> Held(s, n) /\ wf.graph[n] # g
  BY <1>1, <1>8 DEF Held, Active
<1>10. \A n \in Nodes : s.node[n].status \notin Final => wf.graph[n] # g
  BY DEF Graph
<1>11. \A q \in s.ready : q.node \in Nodes /\ q.node # g
  BY DEF Shaped, Claimed, ReadyTold, FramesTold
<1>12. \A e \in X : e.node \in Nodes /\ e.node # g
  BY DEF Claimed, ExecsTold, FramesTold
<1>13. ReadyTold(u)
  <2>1. ASSUME NEW q \in s.ready
        PROVE  Held(u, q.node) /\ u.node[q.node].status = "queued"
               /\ u.node[q.node].enqueued = TRUE /\ u.node[q.node].blocked = FALSE
    <3>1. /\ Held(s, q.node) /\ s.node[q.node].status = "queued"
          /\ s.node[q.node].enqueued = TRUE /\ s.node[q.node].blocked = FALSE
      BY DEF Claimed, ReadyTold
    <3>2. wf.graph[q.node] # g
      BY <3>1, <1>10, <1>11 DEF Final
    <3> QED
      BY <3>1, <3>2, <1>6, <1>7, <1>9, <1>11
  <2> QED
    BY <2>1, <1>6, <1>7 DEF Claimed, ReadyTold
<1>14. ExecsTold(u, X)
  <2> SUFFICES ASSUME NEW e \in X
               PROVE  Held(u, e.node) /\ u.node[e.node].status = "running" /\ u.node[e.node].enqueued = FALSE
    BY DEF ExecsTold
  <2>1. Held(s, e.node) /\ s.node[e.node].status = "running" /\ s.node[e.node].enqueued = FALSE
    BY DEF Claimed, ExecsTold
  <2>2. wf.graph[e.node] # g
    BY <2>1, <1>10, <1>12 DEF Final
  <2> QED
    BY <2>1, <2>2, <1>6, <1>7, <1>9, <1>12
<1>15. FramesTold(u)
  <2>1. \A d \in ToSet(s.frames) : d \in Nodes
    BY Flow DEF Shaped, ToSet
  <2> QED
    BY <2>1, <1>6, <1>7, <1>8 DEF Claimed, FramesTold
<1>16. Claimed(u, X)
  BY <1>13, <1>14, <1>15 DEF Claimed
<1>17. Onward(s, u, {g})
  <2>1. ASSUME NEW n \in Nodes, Within(n), Held(u, n), Astir(u.node[n])
        PROVE  Held(s, n) /\ Astir(s.node[n])
    BY <2>1, <1>3, <1>6, <1>7, <1>9
  <2>2. ASSUME NEW n \in Nodes \ {g}, Held(s, n), Tight(s.node[n])
        PROVE  Held(u, n) /\ Tight(u.node[n]) /\ \A q \in u.ready : q.node = n => q \in s.ready
    <3>1. wf.graph[n] # g
      BY <2>2, <1>10 DEF Tight, Final
    <3> QED
      BY <3>1, <2>2, <1>6, <1>7, <1>9
  <2>3. ASSUME NEW n \in Nodes \ {g}, Held(u, n)
        PROVE  Held(s, n) /\ u.node[n].status = s.node[n].status
    BY <2>3, <1>6, <1>7, <1>9
  <2> QED
    BY <2>1, <2>2, <2>3 DEF Onward
<1>18. CASE IsHost(g)
  BY <1>18, <1>3, <1>5, <1>6, <1>7, <1>8, <1>16, <1>17 DEF t
<1>19. CASE ~IsHost(g)
  <2>1. Advances(u, v, X, {}) /\ Shaped(v) /\ v.frames = u.frames
        /\ \A m \in Nodes : v.node[m].status = u.node[m].status
    BY <1>7, <1>16, CountClaims, Counting
  <2>2. \A m \in Nodes : v.node[m].blocked = u.node[m].blocked
    BY <1>7, CountIs
  <2> HIDE DEF v
  <2>3. \A m \in Nodes : v.node[m].enqueued \in BOOLEAN /\ v.node[m].blocked \in BOOLEAN
    BY <2>1 DEF Shaped, NodeStates
  <2>4. ASSUME NEW m \in S
        PROVE  m \in Nodes /\ Held(v, m) /\ Loose(v.node[m])
    <3>1. m \in Dependents(g) /\ Due(v.node[m])
      OBVIOUS
    <3>2. m \in Nodes /\ wf.graph[m] = Root
      BY <3>1, <1>1, Neighbours
    <3> QED
      BY <3>1, <3>2, <2>3 DEF Due, Loose, Held, Active
  <2> HIDE DEF S
  <2>0. S \subseteq Nodes /\ None \in Calls \cup {None}
    BY <2>4
  <2>5. Claimed(w, X) /\ Onward(v, w, {})
    BY <2>0, <2>1, <2>4, EnqueueClaims DEF Advances
  <2>6. w.frames = v.frames /\ \A m \in Nodes : w.node[m].status = v.node[m].status
    BY <2>0, <2>1, <2>4, Enqueues
  <2>7. /\ w.ready = v.ready \cup {Request(m, None) : m \in S}
        /\ \A m \in Nodes :
             /\ w.node[m].status = v.node[m].status /\ w.node[m].pending = v.node[m].pending
             /\ w.node[m].blocked = v.node[m].blocked
             /\ m \notin S => w.node[m].enqueued = v.node[m].enqueued
             /\ m \in S => w.node[m].enqueued = TRUE
    BY <2>0, <2>1, <2>4, EnqueueIs
  <2> HIDE DEF w
  <2>8. \A n : Held(w, n) = Held(v, n)
    BY <2>6, Zenon DEF Held, Active
  <2>9. \A n : Held(v, n) = Held(u, n)
    BY <2>1, Zenon DEF Held, Active
  <2>10. Onward(u, w, {} \cup {})
    BY <2>1, <2>5, <2>8, <2>9, OnwardTwice DEF Advances
  <2>11. Onward(s, w, {g} \cup {})
    <3>1. Onward(u, w, {})
      BY <2>10
    <3>2. \A n \in Nodes : Held(s, n) /\ Held(w, n) => Held(u, n)
      BY <2>8, <2>9
    <3> QED
      BY <3>1, <3>2, <1>17, OnwardTwice
  <2>12. Onward(s, w, {g})
    BY <2>11
  <2>13. w.node[g].status = "succeeded"
    BY <1>1, <1>3, <1>6, <1>7, <1>19, <2>1, <2>6
  <2>14. t = w
    BY <1>5, <1>19
  <2>15. ~Astir(w.node[g])
    BY <2>13 DEF Astir
  <2>16. s.ready \subseteq w.ready
    BY <1>6, <1>7, <2>1, <2>7 DEF Advances
  <2>17. \A m \in Nodes \ {g} : w.node[m].status = s.node[m].status /\ w.node[m].blocked = s.node[m].blocked
    BY <1>6, <1>7, <2>1, <2>2, <2>6, <2>7
  <2>18. ToSet(w.frames) = ToSet(s.frames) \ {g}
    BY <1>8, <2>1, <2>6
  <2> QED
    BY <1>19, <2>5, <2>12, <2>13, <2>14, <2>15, <2>16, <2>17, <2>18 DEF t
<1> QED
  BY <1>18, <1>19

---------------------------------------------------------------------------
(* What a chain is told. *)

WaitsFor(X, r) == \E e \in X : e.waits /\ Call(e) = r

\* What is astir within a chain is so for callers that wait; a request under way
\* is for a target that is not, a pending one for a target that is, and for the
\* request or execution that was made for it.
Told(s, X, N, P) ==
  /\ Claimed(s, X)
  /\ \A e, f \in X : e.node = f.node => e = f
  /\ \A n \in Nodes : Within(n) /\ Held(s, n) /\ Astir(s.node[n]) =>
       \A m \in Callers(n) : \E e \in X : e.node = m /\ e.waits
  /\ \A r \in N : WaitsFor(X, r) /\ ~Astir(s.node[NextTarget(r.node)])
  /\ \A p \in P : /\ WaitsFor(X, p.req) /\ Tight(s.node[p.target])
                  /\ \A q \in s.ready : q.node = p.target => q.for = p.req
                  /\ \A e \in X : e.node = p.target => e.for = p.req

Typed(X, N, P) ==
  /\ \A e \in X : e.node \in Nodes /\ (e.waits => IsMiddleware(e.node))
  /\ \A r \in N : r.node \in Nodes /\ IsMiddleware(r.node)
  /\ \A p \in P : p.req.node \in Nodes /\ IsMiddleware(p.req.node) /\ p.target = NextTarget(p.req.node)

\* The executions X become Z, the requests under way and pending, N and P, become
\* M and Q: those of R are answered, and their targets have ended.
Answered(t, D, X, N, P, Z, M, Q, R) ==
  /\ M \subseteq N /\ Q \subseteq P
  /\ \A z, y \in Z : z.node = y.node => z = y
  /\ \A z \in Z : \E y \in X : y.node = z.node /\ y.for = z.for /\ (z.waits => y = z)
  /\ \A y \in X : y.waits /\ Call(y) \notin R => y \in Z
  /\ \A y \in X : y.waits /\ Call(y) \in R =>
       /\ ~(Held(t, NextTarget(y.node)) /\ Astir(t.node[NextTarget(y.node)]))
       /\ \A x \in X : x.node = NextTarget(y.node) => ~x.waits
  /\ \A r \in M : r \notin R
  /\ \A p \in Q : p.req \notin R /\ p.target \notin D

\* What is told stays told by a stage after which the nodes D have ended.
LEMMA ToldOn ==
  ASSUME wf \in Workflows, NEW s, NEW t, NEW D, NEW X, NEW N, NEW P, NEW Z, NEW M, NEW Q, NEW R,
         Typed(X, N, P), Told(s, X, N, P), Claimed(t, Z), Onward(s, t, D),
         Answered(t, D, X, N, P, Z, M, Q, R)
  PROVE  Told(t, Z, M, Q)
PROOF
<1>0. /\ M \subseteq N /\ Q \subseteq P
      /\ \A z, y \in Z : z.node = y.node => z = y
      /\ \A z \in Z : \E y \in X : y.node = z.node /\ y.for = z.for /\ (z.waits => y = z)
      /\ \A y \in X : y.waits /\ Call(y) \notin R => y \in Z
      /\ \A y \in X : y.waits /\ Call(y) \in R =>
           /\ ~(Held(t, NextTarget(y.node)) /\ Astir(t.node[NextTarget(y.node)]))
           /\ \A x \in X : x.node = NextTarget(y.node) => ~x.waits
      /\ \A r \in M : r \notin R
      /\ \A p \in Q : p.req \notin R /\ p.target \notin D
  BY Zenon DEF Answered
<1> USE <1>0
<1>1. ASSUME NEW n \in Nodes, Within(n), Held(t, n), Astir(t.node[n]), NEW m \in Callers(n)
      PROVE  \E e \in Z : e.node = m /\ e.waits
  <2>1. Held(s, n) /\ Astir(s.node[n])
    BY <1>1 DEF Onward
  <2>2. PICK e \in X : e.node = m /\ e.waits
    BY <1>1, <2>1 DEF Told
  <2>3. NextTarget(m) = n \/ NextTarget(m) \in Callers(n)
    BY <1>1, OnTheWay
  <2>4. Call(e) \notin R
    <3> SUFFICES ASSUME Call(e) \in R PROVE FALSE
      OBVIOUS
    <3>1. /\ ~(Held(t, NextTarget(m)) /\ Astir(t.node[NextTarget(m)]))
          /\ \A x \in X : x.node = NextTarget(m) => ~x.waits
      BY <2>2
    <3>2. NextTarget(m) \in Callers(n)
      BY <3>1, <2>3, <1>1
    <3>3. \E x \in X : x.node = NextTarget(m) /\ x.waits
      BY <3>2, <1>1, <2>1 DEF Told
    <3> QED
      BY <3>1, <3>3
  <2> QED
    BY <2>2, <2>4
<1>2. ASSUME NEW r \in M
      PROVE  WaitsFor(Z, r) /\ ~Astir(t.node[NextTarget(r.node)])
  <2>1. PICK e \in X : e.waits /\ Call(e) = r
    BY DEF Told, WaitsFor
  <2>2. e \in Z
    BY <2>1
  <2>3. e.node = r.node /\ r.node \in Nodes /\ IsMiddleware(r.node)
    BY <2>1 DEF Call, Typed
  <2>4. Held(t, r.node)
    BY <2>2, <2>3 DEF Claimed, ExecsTold
  <2>5. /\ NextTarget(r.node) \in Nodes /\ Within(NextTarget(r.node))
        /\ wf.graph[NextTarget(r.node)] = wf.graph[r.node]
    BY <2>3, Following
  <2>6. Held(t, NextTarget(r.node))
    BY <2>4, <2>5 DEF Held
  <2>7. ~Astir(s.node[NextTarget(r.node)])
    BY DEF Told
  <2>8. ~Astir(t.node[NextTarget(r.node)])
    BY <2>5, <2>6, <2>7 DEF Onward
  <2> QED
    BY <2>1, <2>2, <2>8 DEF WaitsFor
<1>3. ASSUME NEW p \in Q
      PROVE  /\ WaitsFor(Z, p.req) /\ Tight(t.node[p.target])
             /\ \A q \in t.ready : q.node = p.target => q.for = p.req
             /\ \A e \in Z : e.node = p.target => e.for = p.req
  <2>1. PICK e \in X : e.waits /\ Call(e) = p.req
    BY DEF Told, WaitsFor
  <2>2. e \in Z
    BY <2>1
  <2>3. e.node = p.req.node /\ e.node \in Nodes /\ IsMiddleware(e.node) /\ p.target = NextTarget(e.node)
    BY <2>1 DEF Call, Typed
  <2>4. Held(s, e.node)
    BY DEF Told, Claimed, ExecsTold
  <2>5. p.target \in Nodes /\ wf.graph[p.target] = wf.graph[e.node]
    BY <2>3, Following
  <2>6. Held(s, p.target)
    BY <2>4, <2>5 DEF Held
  <2>7. Tight(s.node[p.target])
    BY DEF Told
  <2>8. Tight(t.node[p.target]) /\ \A q \in t.ready : q.node = p.target => q \in s.ready
    BY <2>5, <2>6, <2>7 DEF Onward
  <2>9. \A q \in t.ready : q.node = p.target => q.for = p.req
    BY <2>8 DEF Told
  <2>10. \A z \in Z : z.node = p.target => z.for = p.req
    BY DEF Told
  <2> QED
    BY <2>1, <2>2, <2>8, <2>9, <2>10 DEF WaitsFor
<1> QED
  BY <1>1, <1>2, <1>3 DEF Told

\* What is at rest has no claim.
LEMMA AtRest ==
  ASSUME wf \in Workflows, NEW s, Shaped(s), NEW X, Claimed(s, X), NEW n \in Nodes, ~Astir(s.node[n])
  PROVE  /\ n \notin ToSet(s.frames) /\ \A e \in X : e.node # n
         /\ \A q \in s.ready : q.node # n
PROOF
<1>1. s.node[n].status # "running"
  BY DEF Astir
<1>2. \A q \in s.ready : q.node # n
  BY DEF Claimed, ReadyTold, Astir
<1> QED
  BY <1>1, <1>2 DEF Claimed, ExecsTold, FramesTold

\* A node whose execution has ended comes to rest, and its host with it where it
\* ends the chain; what both release starts.
LEMMA ReportClaims ==
  ASSUME wf \in Workflows, Unnested, NEW s, Shaped(s), NEW n \in Nodes, Held(s, n),
         NEW st \in Good \cup {"failed"}, st \in Good \/ Hosting(s, n),
         NEW X, Claimed(s, X), \A e \in X : e.node \in Nodes /\ e.node # n,
         n \notin ToSet(s.frames), \A q \in s.ready : q.node # n,
         IsMiddleware(n) => ~Astir(s.node[HostOf(n)])
  PROVE  LET t == AfterReport(s, n, st)
         IN  Advances(s, t, X, {n, HostOf(n)}) /\ ~Astir(t.node[n])
PROOF
<1> DEFINE x    == Reported(s, n, st)
           own  == Set(s, n, x)
           next == IF st \in Good /\ ~Hosting(s, n) /\ n \notin s.adopted THEN Release(own, n) ELSE own
           t    == AfterReport(s, n, st)
           h    == HostOf(n)
           y    == [status |-> st, pending |-> 0, enqueued |-> FALSE, blocked |-> FALSE]
           done == Set(next, h, y)
           last == IF st \in Good THEN Release(done, h) ELSE done
<1>1. x \in NodeStates(n)
  BY Reporting
<1>2. /\ ~Astir(x) /\ (~Hosting(s, n) => x.status \in Good)
  <2>1. CASE Hosting(s, n)
    <3>1. x = [status |-> IF st = "skipped" THEN st ELSE "queued",
               pending |-> 0, enqueued |-> FALSE, blocked |-> TRUE]
      BY <2>1, Zenon DEF Reported
    <3> QED
      BY <3>1, <2>1 DEF Astir
  <2>2. CASE ~Hosting(s, n) /\ Chained(s, n)
    <3>1. x = [status |-> st, pending |-> IF st \in Good THEN 0 ELSE s.node[n].pending,
               enqueued |-> FALSE, blocked |-> st \notin Good]
      BY <2>2, Zenon DEF Reported
    <3> QED
      BY <3>1, <2>2 DEF Astir, Good
  <2>3. CASE ~Hosting(s, n) /\ ~Chained(s, n)
    <3>1. x = [s.node[n] EXCEPT !.status = st, !.enqueued = FALSE]
      BY <2>3, Zenon DEF Reported
    <3>2. s.node[n] \in NodeStates(n)
      BY DEF Shaped
    <3>3. x.status = st
      BY <3>1, <3>2 DEF NodeStates
    <3> QED
      BY <3>3, <2>3 DEF Astir, Good
  <2> QED
    BY <2>1, <2>2, <2>3
<1> HIDE DEF x
<1>3. /\ Advances(s, own, X, {n}) /\ own.node[n] = x /\ Shaped(own) /\ own.adopted = s.adopted
  <2>1. PICK z \in NodeStates(n) : z = x
    BY <1>1
  <2>2. \A e \in X : e.node \in Nodes /\ e.node # n
    OBVIOUS
  <2>3. Within(n) /\ Held(s, n) /\ Astir(z) => Astir(s.node[n])
    BY <1>2, <2>1
  <2> DEFINE u == Set(s, n, z)
  <2> HIDE DEF own, next, t, h, y, done, last
  <2>0. PICK D : D = {n}
    OBVIOUS
  <2>00. n \in D
    BY <2>0
  <2>4. /\ Advances(s, u, X, D) /\ u.node[n] = z /\ \A m \in Nodes : m # n => u.node[m] = s.node[m]
        /\ Shaped(u) /\ u.frames = s.frames /\ u.ready = s.ready /\ u.adopted = s.adopted
    BY <2>00, <2>2, <2>3, SetClaims
  <2>5. own = u
    BY <2>1 DEF own
  <2> QED
    BY <2>0, <2>1, <2>4, <2>5
<1> HIDE DEF own
<1>4. /\ Advances(own, next, X, {}) /\ Shaped(next)
  <2>1. CASE next = own
    BY <2>1, <1>3, AdvancesNot DEF Advances
  <2>2. CASE next = Release(own, n)
    <3>1. Held(own, n) /\ Claimed(own, X)
      BY <1>3 DEF Advances
    <3>2. Advances(own, Release(own, n), X, {}) /\ Shaped(Release(own, n))
      BY <3>1, <1>3, ReleaseClaims, Releasing
    <3> QED
      BY <2>2, <3>2
  <2> QED
    BY <2>1, <2>2
<1>5. ~Astir(next.node[n]) /\ Held(next, n)
  <2>1. Held(own, n) /\ Held(next, n)
    BY <1>3, <1>4 DEF Advances
  <2>2. CASE next = own
    BY <2>1, <2>2, <1>2, <1>3
  <2>3. CASE ~Hosting(s, n)
    <3>1. next.node[n].status = x.status
      BY <2>1, <2>3, <1>2, <1>3, <1>4 DEF Advances, Onward, Good
    <3> QED
      BY <2>1, <2>3, <3>1, <1>2 DEF Astir, Good
  <2> QED
    BY <2>2, <2>3
<1>6. Advances(s, next, X, {n} \cup {})
  BY <1>3, <1>4, AdvancesTwice
<1> HIDE DEF next
<1>7. ~EndsHost(s, n, st) => t = next
  BY Zenon DEF AfterReport, next, own, x
<1>8. EndsHost(s, n, st) => t = last
  BY Zenon DEF AfterReport, EndHost, next, own, x
<1> HIDE DEF t, done
<1>9. CASE ~EndsHost(s, n, st)
  <2>1. Advances(s, next, X, {n, h})
    BY <1>6 DEF Advances, Onward
  <2> QED
    BY <2>1, <1>5, <1>7, <1>9 DEF t
<1>10. CASE EndsHost(s, n, st)
  <2>1. IsMiddleware(n) /\ ~Hosting(s, n)
    <3>1. IsMiddleware(n)
      BY <1>10 DEF EndsHost, Chained
    <3>2. ~IsHost(n)
      BY <3>1, Place
    <3> QED
      BY <3>1, <3>2 DEF Hosting
  <2>2. h \in Nodes /\ IsHost(h) /\ wf.graph[h] = wf.graph[n] /\ h # n /\ Within(h)
    BY <2>1, Place DEF Within
  <2>3. st \in Good
    BY <2>1
  <2>4. ~Astir(next.node[h])
    <3>1. Held(next, h)
      BY <2>2, <1>5 DEF Held
    <3> QED
      BY <3>1, <2>1, <2>2, <1>6 DEF Advances, Onward
  <2>5. h \notin ToSet(next.frames) /\ (\A e \in X : e.node # h) /\ \A q \in next.ready : q.node # h
    BY <2>2, <2>4, <1>4, AtRest DEF Advances
  <2>6. y \in NodeStates(h) /\ ~Astir(y)
    <3>1. Cardinality(DepsOf(h)) \in Nat
      BY <2>2, Waits_
    <3>2. 0 \in 0..Cardinality(DepsOf(h))
      BY <3>1
    <3> QED
      BY <3>2, <2>3 DEF NodeStates, Astir, Good, Final
  <2> HIDE DEF y
  <2>7. /\ Advances(next, done, X, {h}) /\ Shaped(done)
        /\ \A m \in Nodes : m # h => done.node[m] = next.node[m]
    <3>1. PICK z \in NodeStates(h) : z = y
      BY <2>6
    <3>2. PICK k \in Nodes : k = h
      BY <2>2
    <3>3. \A e \in X : e.node \in Nodes /\ e.node # k
      BY <2>5, <3>2
    <3>4. Within(k) /\ Held(next, k) /\ Astir(z) => Astir(next.node[k])
      BY <2>6, <3>1
    <3>5. z \in NodeStates(k) /\ k \notin ToSet(next.frames) /\ \A q \in next.ready : q.node # k
      BY <2>5, <3>1, <3>2
    <3>6. Claimed(next, X) /\ Shaped(next)
      BY <1>4 DEF Advances
    <3> DEFINE u == Set(next, k, z)
    <3>0. PICK D : D = {h}
      OBVIOUS
    <3>00. k \in D
      BY <3>0, <3>2
    <3>7. /\ Advances(next, u, X, D) /\ u.node[k] = z /\ \A m \in Nodes : m # k => u.node[m] = next.node[m]
          /\ Shaped(u) /\ u.frames = next.frames /\ u.ready = next.ready /\ u.adopted = next.adopted
      BY <3>00, <3>3, <3>4, <3>5, <3>6, SetClaims
    <3>8. done = u
      BY <3>1, <3>2 DEF done
    <3> QED
      BY <3>0, <3>2, <3>7, <3>8
  <2>8. Held(done, h) /\ Held(done, n) /\ Claimed(done, X)
    BY <2>2, <2>7, <1>5 DEF Held, Advances
  <2>9. Advances(done, Release(done, h), X, {})
    BY <2>2, <2>7, <2>8, ReleaseClaims
  <2>10. t = Release(done, h)
    BY <2>3, <1>8, <1>10
  <2> HIDE DEF h
  <2>11. Advances(next, t, X, {h} \cup {})
    BY <2>7, <2>9, <2>10, AdvancesTwice
  <2>12. Advances(s, t, X, ({n} \cup {}) \cup ({h} \cup {}))
    BY <2>11, <1>6, AdvancesTwice
  <2>13. ({n} \cup {}) \cup ({h} \cup {}) = {n, h}
    OBVIOUS
  <2>14. ~Astir(t.node[n])
    <3>1. next.node[n].status \in Good
      <4>1. Held(next, n) /\ Held(own, n)
        BY <1>3, <1>5 DEF Advances
      <4> QED
        BY <4>1, <2>1, <1>2, <1>3, <1>4 DEF Advances, Onward, Good
    <3>2. done.node[n].status \in Good
      BY <3>1, <2>2, <2>7
    <3>3. t.node[n].status \in Good
      <4>1. Held(t, n)
        BY <2>8, <2>9, <2>10 DEF Advances
      <4> QED
        BY <4>1, <3>2, <2>8, <2>9, <2>10 DEF Advances, Onward, Good
    <3> QED
      BY <3>3 DEF Astir, Good
  <2> QED
    BY <2>12, <2>13, <2>14 DEF h, t
<1> QED
  BY <1>9, <1>10

\* A failure that is looked at ends the run.
LEMMA FailedEnds ==
  ASSUME wf \in Workflows, Unnested, NEW s, Shaped(s), NEW n \in Nodes, Present(s, n),
         s.node[n].status = "failed"
  PROVE  RunFails(CloseAfter(s, n))
PROOF
<1> DEFINE g == wf.graph[n]
           t == CloseAfter(s, n)
<1>1. ~Closes(s, n) => t = s
  BY Zenon DEF CloseAfter
<1>2. Closes(s, n) => t = Close(s, g)
  BY Zenon DEF CloseAfter
<1> SUFFICES RunFails(t)
  OBVIOUS
<1> HIDE DEF t
<1>3. CASE n \in s.adopted \/ g = Root
  <2>1. ~Closes(s, n)
    BY <1>3 DEF Closes
  <2> QED
    BY <2>1, <1>1, <1>3 DEF RunFails, TopLevel, Graph
<1>4. CASE n \notin s.adopted /\ g # Root
  <2>1. FrameFailed(s, g)
    BY DEF FrameFailed, Graph
  <2>2. Closes(s, n)
    BY <2>1, <1>4 DEF Closes, FrameOver
  <2>3. g \in wf.containers
    BY <1>4, Flow
  <2>4. g \in Nodes /\ wf.graph[g] = Root
    BY <2>3, Apart
  <2>5. Active(s, wf.graph[g])
    BY <2>4 DEF Active
  <2>6. t.node[g].status = "failed"
    BY <2>1, <2>2, <2>3, <2>5, <1>2, Closing
  <2> QED
    BY <2>4, <2>6 DEF RunFails, TopLevel, Graph
<1> QED
  BY <1>3, <1>4

\* complete_frame_if_needed: when the run goes on, a frame that is closed leaves
\* no claim, and its container is at rest.
LEMMA CloseStage ==
  ASSUME wf \in Workflows, Unnested, NEW s, Shaped(s), NEW n \in Nodes, Held(s, n),
         NEW X, Claimed(s, X), \A e \in X : e.node \in Nodes,
         NEW t, t = CloseAfter(s, n), ~RunFails(t), NEW C, C = ClosedWith(s, n)
  PROVE  /\ Claimed(t, X) /\ Onward(s, t, C) /\ s.ready \subseteq t.ready
         /\ C \subseteq {wf.graph[n]} \cap ToSet(s.frames) /\ ToSet(t.frames) = ToSet(s.frames) \ C
         /\ \A c \in C : c \in Nodes /\ wf.graph[c] = Root /\ ~Astir(t.node[c])
         /\ \A m \in Nodes : m \notin C => t.node[m].status = s.node[m].status
         /\ C = {} => t = s
         /\ n \notin s.adopted /\ wf.graph[n] \in ToSet(t.frames) => ~FrameOver(s, wf.graph[n])
PROOF
<1> DEFINE g == wf.graph[n]
<1>1. CASE ~Closes(s, n)
  <2>1. t = s
    BY <1>1, Zenon DEF CloseAfter
  <2>2. C = {}
    BY <1>1, Zenon DEF ClosedWith
  <2>3. g \in ToSet(s.frames) => g # Root
    BY Apart DEF Shaped, ToSet
  <2>4. n \notin s.adopted /\ g \in ToSet(s.frames) => ~FrameOver(s, g)
    BY <2>3, <1>1 DEF Closes
  <2>5. Onward(s, t, C)
    BY <2>1 DEF Onward
  <2> QED
    BY <2>1, <2>2, <2>4, <2>5
<1>2. CASE Closes(s, n)
  <2>1. t = Close(s, g) /\ n \notin s.adopted /\ g # Root /\ FrameOver(s, g)
    BY <1>2, Zenon DEF CloseAfter, Closes
  <2>2. g \in wf.containers /\ g \in ToSet(s.frames)
    BY <2>1, Flow DEF Held, Active
  <2>3. g \in Nodes /\ wf.graph[g] = Root
    BY <2>2, Apart
  <2>4. Active(s, wf.graph[g])
    BY <2>3 DEF Active
  <2>5. C = {g}
    BY <2>4, <1>2, Zenon DEF ClosedWith
  <2>6. ~FrameFailed(s, g)
    <3> SUFFICES ASSUME FrameFailed(s, g) PROVE FALSE
      OBVIOUS
    <3>1. t.node[g].status = "failed"
      BY <2>1, <2>2, <2>4, Closing
    <3> QED
      BY <3>1, <2>3 DEF RunFails, TopLevel, Graph
  <2>7. \A m \in Graph(g) : s.node[m].status \in Final
    BY <2>1, <2>6 DEF FrameOver
  <2> DEFINE u == Close(s, g)
  <2> HIDE DEF g
  <2>8. /\ Claimed(u, X) /\ Onward(s, u, {g}) /\ ~Astir(u.node[g]) /\ s.ready \subseteq u.ready
        /\ ToSet(u.frames) = ToSet(s.frames) \ {g}
        /\ u.node[g].status = (IF IsHost(g) THEN "queued" ELSE "succeeded")
        /\ \A m \in Nodes \ {g} : u.node[m].status = s.node[m].status
        /\ \A m \in Nodes \ {g} : u.node[m].blocked = s.node[m].blocked
    BY <2>2, <2>6, <2>7, CloseClaims
  <2>9. t = u
    BY <2>1
  <2> HIDE DEF u
  <2> QED
    BY <2>2, <2>3, <2>5, <2>8, <2>9 DEF g
<1> QED
  BY <1>1, <1>2

\* Answering ends waits and changes nothing else of an execution.
LEMMA AnswerIs ==
  ASSUME NEW E, E \subseteq Execs, NEW S, NEW Z, Z = Answer(E, S)
  PROVE  /\ \A z \in Z : \E y \in E : /\ y.node = z.node /\ y.for = z.for /\ y.report = z.report
                                      /\ y.no = z.no /\ (z.waits => y = z /\ Call(y) \notin S)
         /\ \A y \in E : ~(y.waits /\ Call(y) \in S) => y \in Z
         /\ \A y \in E : \E z \in Z : z.node = y.node /\ z.no = y.no /\ z.report = y.report
         /\ (\A y, x \in E : y.node = x.node => y = x) => \A y, x \in Z : y.node = x.node => y = x
PROOF
<1> DEFINE A(e) == IF Waits(e, S) THEN [e EXCEPT !.waits = FALSE] ELSE e
<1>1. Z = {A(e) : e \in E}
  BY Zenon DEF Answer
<1>2. ASSUME NEW e \in E
      PROVE  /\ A(e).node = e.node /\ A(e).for = e.for /\ A(e).report = e.report /\ A(e).no = e.no
             /\ (A(e).waits => A(e) = e /\ Call(e) \notin S)
             /\ ~(e.waits /\ Call(e) \in S) => A(e) = e
  <2>1. CASE Waits(e, S)
    <3>1. A(e) = [e EXCEPT !.waits = FALSE]
      BY <2>1, Zenon
    <3>2. e \in Execs
      OBVIOUS
    <3> HIDE DEF A
    <3>3. A(e).node = e.node /\ A(e).for = e.for /\ A(e).report = e.report /\ A(e).no = e.no
          /\ A(e).waits = FALSE
      BY <3>1, <3>2 DEF Execs
    <3> QED
      BY <3>3, <2>1 DEF Waits
  <2>2. CASE ~Waits(e, S)
    <3>1. A(e) = e
      BY <2>2, Zenon
    <3> HIDE DEF A
    <3> QED
      BY <3>1, <2>2 DEF Waits
  <2> QED
    BY <2>1, <2>2
<1> HIDE DEF A
<1>3. ASSUME NEW z \in Z
      PROVE  \E y \in E : /\ y.node = z.node /\ y.for = z.for /\ y.report = z.report
                          /\ y.no = z.no /\ (z.waits => y = z /\ Call(y) \notin S)
  BY <1>1, <1>2
<1>4. \A y \in E : ~(y.waits /\ Call(y) \in S) => y \in Z
  BY <1>1, <1>2
<1>5. \A y \in E : \E z \in Z : z.node = y.node /\ z.no = y.no /\ z.report = y.report
  BY <1>1, <1>2
<1>6. ASSUME \A y, x \in E : y.node = x.node => y = x, NEW y \in Z, NEW x \in Z, y.node = x.node
      PROVE  y = x
  <2>1. PICK a \in E : y = A(a)
    BY <1>1
  <2>2. PICK b \in E : x = A(b)
    BY <1>1
  <2>3. a.node = b.node
    BY <1>6, <2>1, <2>2, <1>2
  <2> QED
    BY <1>6, <2>1, <2>2, <2>3
<1> QED
  BY <1>3, <1>4, <1>5, <1>6

\* What the nodes D do not explain was so or has been started; where a frame of
\* theirs stays, something in it has still to end.
Statuses(s, t, D) ==
  \A n \in Nodes \ D : Held(t, n) =>
    \/ Held(s, n) /\ t.node[n].status = s.node[n].status
    \/ Held(s, n) /\ s.node[n].status = "queued" /\ t.node[n].status = "running"
    \/ ~Held(s, n) /\ t.node[n].status \in {"queued", "running"}

Lasting(s, t) ==
  \E D : /\ Statuses(s, t, D)
         /\ \A c \in ToSet(t.frames) : D \cap Graph(c) # {} =>
              \E n \in Graph(c) : t.node[n].status \notin Final

\* What is told and typed of a request that is under way or pending.
LEMMA ToldIs ==
  ASSUME wf \in Workflows, NEW s, NEW X, NEW N, NEW P, Typed(X, N, P), Told(s, X, N, P)
  PROVE  /\ \A r \in N : /\ Held(s, NextTarget(r.node)) /\ NextTarget(r.node) \in Nodes
                         /\ ~Astir(s.node[NextTarget(r.node)])
         /\ \A p \in P : /\ Held(s, p.target) /\ p.target \in Nodes /\ p.target = NextTarget(p.req.node)
                         /\ Astir(s.node[p.target]) /\ p.req \notin N
PROOF
<1>1. ASSUME NEW r, WaitsFor(X, r), r.node \in Nodes, IsMiddleware(r.node)
      PROVE  Held(s, NextTarget(r.node)) /\ NextTarget(r.node) \in Nodes
  <2>1. PICK e \in X : Call(e) = r
    BY <1>1 DEF WaitsFor
  <2>2. e.node = r.node
    BY <2>1 DEF Call
  <2>3. Held(s, r.node)
    BY <2>1, <2>2 DEF Told, Claimed, ExecsTold
  <2> QED
    BY <2>3, <1>1, Following DEF Held
<1>2. \A r \in N : WaitsFor(X, r) /\ ~Astir(s.node[NextTarget(r.node)])
  BY DEF Told
<1>3. \A p \in P : WaitsFor(X, p.req) /\ Tight(s.node[p.target])
  BY DEF Told
<1>4. /\ \A r \in N : r.node \in Nodes /\ IsMiddleware(r.node)
      /\ \A p \in P : p.req.node \in Nodes /\ IsMiddleware(p.req.node) /\ p.target = NextTarget(p.req.node)
  BY DEF Typed
<1>5. \A p \in P : Astir(s.node[p.target])
  BY <1>3 DEF Tight, Astir
<1> QED
  BY <1>1, <1>2, <1>3, <1>4, <1>5

\* An execution that is not waiting leaves its host at rest, and has no other
\* claim to its node.
LEMMA Reporter ==
  ASSUME wf \in Workflows, NEW s, NEW X, NEW N, NEW P, Typed(X, N, P), Told(s, X, N, P),
         NEW e \in X, ~e.waits
  PROVE  /\ e.node \in Nodes /\ Held(s, e.node) /\ s.node[e.node].status = "running"
         /\ e.node \notin ToSet(s.frames) /\ (\A q \in s.ready : q.node # e.node)
         /\ (\A x \in X : x # e => x.node # e.node)
         /\ (IsMiddleware(e.node) => ~Astir(s.node[HostOf(e.node)]))
PROOF
<1>1. e.node \in Nodes /\ Held(s, e.node) /\ s.node[e.node].status = "running"
      /\ s.node[e.node].enqueued = FALSE
  BY DEF Typed, Told, Claimed, ExecsTold
<1>2. e.node \notin ToSet(s.frames)
  BY <1>1 DEF Told, Claimed, FramesTold
<1>3. \A q \in s.ready : q.node # e.node
  BY <1>1 DEF Told, Claimed, ReadyTold
<1>4. \A x \in X : x # e => x.node # e.node
  BY DEF Told
<1>5. ASSUME IsMiddleware(e.node), Astir(s.node[HostOf(e.node)])
      PROVE  FALSE
  <2> DEFINE h == HostOf(e.node)
  <2>1. /\ h \in Nodes /\ IsHost(h) /\ wf.graph[h] = wf.graph[e.node] /\ e.node \in ToSet(wf.chain[h])
    BY <1>1, <1>5, Place, Flow
  <2>2. Held(s, h) /\ Within(h) /\ e.node \in Callers(h)
    BY <2>1, <1>1 DEF Held, Within, Callers
  <2>3. \E x \in X : x.node = e.node /\ x.waits
    BY <2>1, <2>2, <1>5 DEF Told
  <2> QED
    BY <2>3, <1>4
<1> QED
  BY <1>1, <1>2, <1>3, <1>4, <1>5

\* What is no host and fails stays failed.
LEMMA ReportFails ==
  ASSUME wf \in Workflows, NEW s, Shaped(s), NEW n \in Nodes, ~Hosting(s, n)
  PROVE  AfterReport(s, n, "failed").node[n].status = "failed"
PROOF
<1> DEFINE x == Reported(s, n, "failed")
           own == Set(s, n, x)
           t == AfterReport(s, n, "failed")
<1>1. x \in NodeStates(n)
  BY Reporting
<1>2. x.status = "failed"
  <2>1. CASE Chained(s, n)
    <3>1. x = [status |-> "failed", pending |-> IF "failed" \in Good THEN 0 ELSE s.node[n].pending,
               enqueued |-> FALSE, blocked |-> "failed" \notin Good]
      BY <2>1, Zenon DEF Reported
    <3> QED
      BY <3>1
  <2>2. CASE ~Chained(s, n)
    <3>1. x = [s.node[n] EXCEPT !.status = "failed", !.enqueued = FALSE]
      BY <2>2, Zenon DEF Reported
    <3>2. s.node[n] \in NodeStates(n)
      BY DEF Shaped
    <3> QED
      BY <3>1, <3>2 DEF NodeStates
  <2> QED
    BY <2>1, <2>2
<1> HIDE DEF x
<1>3. Shaped(own) /\ own.node[n] = x
  BY <1>1, SetOne
<1> HIDE DEF own
<1>4. "failed" \notin Good
  BY DEF Good
<1>5. t = IF EndsHost(s, n, "failed") THEN EndHost(own, n, "failed") ELSE own
  BY <1>4, Zenon DEF AfterReport, own, x
<1> HIDE DEF t
<1>6. CASE ~EndsHost(s, n, "failed")
  BY <1>2, <1>3, <1>5, <1>6 DEF t
<1>7. CASE EndsHost(s, n, "failed")
  <2>1. IsMiddleware(n) /\ t = EndHost(own, n, "failed")
    BY <1>5, <1>7 DEF EndsHost, Chained
  <2>2. HostOf(n) # n
    BY <2>1, Place
  <2>3. t.node[n] = own.node[n] \/ t.node[n].status = "failed"
    <3> DEFINE u == EndHost(own, n, "failed")
    <3>1. u = Set(own, HostOf(n), [status |-> "failed", pending |-> 0, enqueued |-> FALSE, blocked |-> FALSE])
      BY <1>4, Zenon DEF EndHost
    <3>2. [status |-> "failed", pending |-> 0, enqueued |-> FALSE, blocked |-> FALSE] \in NodeStates(HostOf(n))
      <4>1. Cardinality(DepsOf(HostOf(n))) \in Nat
        BY <2>1, Place, Waits_
      <4>2. 0 \in 0..Cardinality(DepsOf(HostOf(n)))
        BY <4>1
      <4> QED
        BY <4>2 DEF NodeStates, Final
    <3>3. HostOf(n) \in Nodes
      BY <2>1, Place
    <3>4. PICK z \in NodeStates(HostOf(n)) : z = [status |-> "failed", pending |-> 0, enqueued |-> FALSE, blocked |-> FALSE]
      BY <3>2
    <3>5. \A m \in Nodes \ {HostOf(n)} : Set(own, HostOf(n), z).node[m] = own.node[m]
      BY <1>3, <3>3, SetOne
    <3> HIDE DEF u
    <3> QED
      BY <3>1, <3>4, <3>5, <2>1, <2>2 DEF u
  <2> QED
    BY <2>3, <1>2, <1>3 DEF t
<1> QED
  BY <1>6, <1>7

\* The execution e of n reports st, which takes s over a to t: the containers C
\* of closed frames end with n, and the requests R of what is over are answered.
Concludes(s, X, P, e, n, st, a, t, C, Y, over, R, Z, Q) ==
  /\ e \in X /\ ~e.waits /\ n = e.node /\ st \in Good \cup {"failed"}
  /\ a = AfterReport(s, n, st) /\ t = CloseAfter(a, n) /\ ~RunFails(t)
  /\ C = ClosedWith(a, n) /\ Y = X \ {e}
  /\ over = {p \in P : p.target \in {n} \cup C} /\ R = Reqs(over)
  /\ Z = Answer(Y, R) /\ Q = P \ over

\* apply_record_result, with the frame that it may close: when the run goes on,
\* chains know what they are told, and no frame that stays has ended.
LEMMA ResultStage ==
  ASSUME wf \in Workflows, Unnested, NEW s, Shaped(s),
         NEW X, NEW N, NEW P, X \subseteq Execs, Typed(X, N, P), Told(s, X, N, P),
         \A p, q \in P : p.req = q.req => p = q,
         NEW e, NEW n, NEW st, NEW a, NEW t, NEW C, NEW Y, NEW over, NEW R, NEW Z, NEW Q,
         Concludes(s, X, P, e, n, st, a, t, C, Y, over, R, Z, Q)
  PROVE  Told(t, Z, N, Q) /\ (n \notin s.adopted => Lasting(s, t)) /\ s.ready \subseteq t.ready
PROOF
<1>0. /\ e \in X /\ ~e.waits /\ n = e.node /\ st \in Good \cup {"failed"}
      /\ a = AfterReport(s, n, st) /\ t = CloseAfter(a, n) /\ ~RunFails(t)
      /\ C = ClosedWith(a, n)
      /\ \A x : x \in Y <=> x \in X /\ x # e
      /\ \A p : p \in over <=> p \in P /\ (p.target = n \/ p.target \in C)
      /\ R = Reqs(over) /\ Z = Answer(Y, R)
      /\ \A p : p \in Q <=> p \in P /\ p \notin over
  BY DEF Concludes
<1> USE <1>0
<1> DEFINE h == HostOf(n)
<1>1. /\ n \in Nodes /\ Held(s, n) /\ s.node[n].status = "running"
      /\ n \notin ToSet(s.frames) /\ (\A q \in s.ready : q.node # n)
      /\ (\A x \in X : x # e => x.node # n)
      /\ (IsMiddleware(n) => ~Astir(s.node[h]))
  BY Reporter
<1>2. /\ Shaped(a) /\ a.adopted = s.adopted /\ ToSet(s.frames) \subseteq ToSet(a.frames)
  BY <1>1, ReportDone
<1>3. Held(a, n) /\ Present(a, n)
  BY <1>1, <1>2 DEF Held, Present, Active
<1>4. st \in Good \/ Hosting(s, n)
  <2> SUFFICES ASSUME st = "failed", ~Hosting(s, n) PROVE FALSE
    OBVIOUS
  <2>1. a.node[n].status = "failed"
    BY <1>1, ReportFails
  <2> QED
    BY <2>1, <1>1, <1>2, <1>3, FailedEnds
<1>5. Claimed(s, Y) /\ \A x \in Y : x.node \in Nodes /\ x.node # n
  BY <1>1 DEF Told, Typed, Claimed, ExecsTold
<1>6. PICK D : D = {n, h}
  OBVIOUS
<1>7. Advances(s, a, Y, D) /\ ~Astir(a.node[n])
  BY <1>1, <1>4, <1>5, <1>6, ReportClaims
<1>8. /\ Claimed(t, Y) /\ Onward(a, t, C) /\ a.ready \subseteq t.ready
      /\ C \subseteq {wf.graph[n]} \cap ToSet(a.frames) /\ ToSet(t.frames) = ToSet(a.frames) \ C
      /\ \A c \in C : c \in Nodes /\ wf.graph[c] = Root /\ ~Astir(t.node[c])
      /\ \A m \in Nodes : m \notin C => t.node[m].status = a.node[m].status
      /\ C = {} => t = a
      /\ n \notin a.adopted /\ wf.graph[n] \in ToSet(t.frames) => ~FrameOver(a, wf.graph[n])
  <2>1. C = ClosedWith(a, n) /\ t = CloseAfter(a, n) /\ Claimed(a, Y) /\ \A x \in Y : x.node \in Nodes
    BY <1>5, <1>7 DEF Advances
  <2> QED
    BY <2>1, <1>1, <1>2, <1>3, CloseStage
<1>9. Onward(s, t, D \cup C)
  <2>1. \A m \in Nodes : Held(s, m) /\ Held(t, m) => Held(a, m)
    BY <1>7 DEF Advances
  <2> QED
    BY <2>1, <1>7, <1>8, OnwardTwice DEF Advances
<1>10. /\ \A p \in over : p \in P /\ p.target \in {n} \cup C
       /\ \A p \in P : p \notin over => p.target \notin {n} \cup C
  OBVIOUS
<1>11. /\ \A z \in Z : \E y \in Y : y.node = z.node /\ y.for = z.for /\ (z.waits => y = z)
       /\ \A y \in Y : ~(y.waits /\ Call(y) \in R) => y \in Z
       /\ \A y, x \in Z : y.node = x.node => y = x
  <2>1. \A y, x \in Y : y.node = x.node => y = x
    BY DEF Told
  <2>2. Y \subseteq Execs
    OBVIOUS
  <2> QED
    BY <2>1, <2>2, AnswerIs
<1>12. Claimed(t, Z)
  BY <1>8, <1>11 DEF Claimed, ExecsTold
<1>13. /\ \A r \in N : /\ Held(s, NextTarget(r.node)) /\ NextTarget(r.node) \in Nodes
                       /\ ~Astir(s.node[NextTarget(r.node)])
       /\ \A p \in P : /\ Held(s, p.target) /\ p.target \in Nodes /\ p.target = NextTarget(p.req.node)
                       /\ Astir(s.node[p.target]) /\ p.req \notin N
  BY ToldIs
<1>14. \A r \in R : \E p \in over : p.req = r
  BY DEF Reqs
<1>15. ASSUME NEW c \in C
       PROVE  c \in ToSet(s.frames) /\ ~Astir(t.node[c]) /\ \A x \in X : x.node # c
  <2>1. wf.graph[n] = c /\ c # Root /\ c \in Nodes
    BY <1>1, <1>8, Flow
  <2>2. c \in ToSet(s.frames)
    BY <2>1, <1>1 DEF Held, Active
  <2>3. s.node[c].enqueued = TRUE
    BY <2>2 DEF Told, Claimed, FramesTold
  <2>4. \A x \in X : x.node # c
    BY <2>3 DEF Told, Claimed, ExecsTold
  <2> QED
    BY <2>2, <2>4, <1>8
<1>16. ~(Held(t, n) /\ Astir(t.node[n]))
  <2>1. CASE C = {}
    BY <2>1, <1>7, <1>8
  <2>2. CASE C # {}
    <3>1. wf.graph[n] \in C
      BY <2>2, <1>8
    <3>2. wf.graph[n] \notin ToSet(t.frames) /\ wf.graph[n] # Root
      BY <3>1, <1>8, Flow
    <3> QED
      BY <3>2 DEF Held, Active
  <2> QED
    BY <2>1, <2>2
<1>17. ASSUME NEW y \in X, y.waits, Call(y) \in R
       PROVE  /\ ~(Held(t, NextTarget(y.node)) /\ Astir(t.node[NextTarget(y.node)]))
              /\ \A x \in X : x.node = NextTarget(y.node) => ~x.waits
  <2>1. PICK p \in over : p.req = Call(y)
    BY <1>14, <1>17
  <2>2. p.target = NextTarget(y.node)
    BY <2>1, <1>10, <1>13 DEF Call
  <2>3. p.target = n \/ p.target \in C
    BY <1>10
  <2>4. CASE p.target = n
    BY <2>2, <2>4, <1>1, <1>16
  <2>5. CASE p.target \in C
    BY <2>2, <2>5, <1>15
  <2> QED
    BY <2>3, <2>4, <2>5
<1>18. \A r \in N : r \notin R
  BY <1>10, <1>13, <1>14
<1>19. ASSUME NEW p \in Q
       PROVE  p.req \notin R /\ p.target \notin D \cup C
  <2>1. p.req \notin R
    BY <1>10, <1>14
  <2>2. p.target \notin {n} \cup C
    BY <1>10
  <2>3. p.target # h
    <3> SUFFICES ASSUME p.target = h PROVE FALSE
      OBVIOUS
    <3>1. h \in Nodes /\ Astir(s.node[h])
      BY <1>13
    <3>2. IsMiddleware(n)
      BY <3>1, Flow DEF IsMiddleware, HostOf
    <3> QED
      BY <3>1, <3>2, <1>1
  <2> QED
    BY <2>1, <2>2, <2>3, <1>6
<1>20. \A y \in X : y.waits /\ Call(y) \notin R => y \in Z
  BY <1>11
<1>21. \A z \in Z : \E y \in X : y.node = z.node /\ y.for = z.for /\ (z.waits => y = z)
  BY <1>11
<1>22. Told(t, Z, N, Q)
  <2> DEFINE E == D \cup C
  <2>1. Q \subseteq P /\ N \subseteq N /\ \A p \in Q : p.req \notin R /\ p.target \notin E
    BY <1>19
  <2>2. Onward(s, t, E)
    BY <1>9
  <2> HIDE DEF E
  <2>3. Answered(t, E, X, N, P, Z, N, Q, R)
    BY <2>1, <1>11, <1>17, <1>18, <1>20, <1>21 DEF Answered
  <2> QED
    BY <2>2, <2>3, <1>12, ToldOn
<1>23. ASSUME n \notin s.adopted
       PROVE  Lasting(s, t)
  <2>1. Statuses(s, t, D \cup C)
    BY <1>9 DEF Onward, Statuses
  <2>2. ASSUME NEW c \in ToSet(t.frames), (D \cup C) \cap Graph(c) # {}
        PROVE  \E m \in Graph(c) : t.node[m].status \notin Final
    <3>1. c # Root /\ c \in Nodes
      <4>1. c \in ToSet(a.frames)
        BY <1>8
      <4>2. c \in wf.containers
        BY <4>1, <1>2 DEF Shaped, ToSet
      <4> QED
        BY <4>2, Apart
    <3>2. PICK m \in D \cup C : m \in Nodes /\ wf.graph[m] = c
      BY <2>2 DEF Graph
    <3>3. m \notin C
      BY <3>1, <3>2, <1>8
    <3>4. m = n \/ m = h
      BY <3>3, <1>6
    <3>5. m = h => IsMiddleware(n)
      BY <3>2, <1>1, Flow DEF IsMiddleware, HostOf
    <3>6. wf.graph[n] = c
      BY <3>2, <3>4, <3>5, <1>1, Place
    <3>7. ~FrameOver(a, c)
      BY <3>6, <1>2, <1>8, <1>23
    <3>8. PICK l \in Graph(c) : a.node[l].status \notin Final
      BY <3>7 DEF FrameOver
    <3>9. l \in Nodes /\ wf.graph[l] = c
      BY DEF Graph
    <3>10. l \notin C
      BY <3>1, <3>9, <1>8
    <3> QED
      BY <3>8, <3>9, <3>10, <1>8
  <2> QED
    BY <2>1, <2>2 DEF Lasting
<1>24. s.ready \subseteq t.ready
  BY <1>7, <1>8 DEF Advances
<1> QED
  BY <1>22, <1>23, <1>24

---------------------------------------------------------------------------
(* Chains along the steps. *)

\* What a chain is told, of the run as it is.
ToldNow == Told(Graphs, execs, nexts, pendingNext)

\* A stage that becomes the graphs of the run.
LEMMA ToldNext ==
  ASSUME wf' = wf, NEW t, Graphs' = t, Told(t, execs', nexts', pendingNext')
  PROVE  ToldNow'
PROOF
<1>1. Nodes' = Nodes /\ \A n : NextTarget(n)' = NextTarget(n) /\ IsMiddleware(n)' = IsMiddleware(n)
  BY Rigid
<1>2. \A n : IsHost(n)' = IsHost(n) /\ HostOf(n)' = HostOf(n)
  BY DEF IsHost, HostOf
<1>3. \A n : ChainIndex(n)' = ChainIndex(n)
  BY Zenon DEF ChainIndex, HostOf
<1>4. \A n : Outermost(n)' = Outermost(n)
  BY <1>1, <1>3, Zenon DEF Outermost
<1>5. \A n : Within(n)' = Within(n)
  BY <1>1, <1>2, <1>4, Zenon DEF Within
<1>6. \A n : Callers(n)' = Callers(n)
  BY <1>2, <1>3, Zenon DEF Callers
<1>7. \A n : Held(Graphs, n)' = Held(t, n)
  BY Zenon DEF Held, Active
<1>8. ReadyTold(Graphs)'
  BY <1>7 DEF Told, Claimed, ReadyTold
<1>9. ExecsTold(Graphs, execs)'
  BY <1>7 DEF Told, Claimed, ExecsTold
<1>10. FramesTold(Graphs)'
  BY DEF Told, Claimed, FramesTold
<1>11. \A e, f \in execs' : e.node = f.node => e = f
  BY DEF Told
<1>12. \A r : WaitsFor(execs, r)' = WaitsFor(execs', r)
  BY DEF WaitsFor, Call
<1>13. (\A n \in Nodes : Within(n) /\ Held(Graphs, n) /\ Astir(Graphs.node[n]) =>
          \A m \in Callers(n) : \E e \in execs : e.node = m /\ e.waits)'
  BY <1>1, <1>5, <1>6, <1>7 DEF Told, Astir
<1>14. (\A r \in nexts : WaitsFor(execs, r) /\ ~Astir(Graphs.node[NextTarget(r.node)]))'
  BY <1>1, <1>12 DEF Told, Astir
<1>15. (\A p \in pendingNext : /\ WaitsFor(execs, p.req) /\ Tight(Graphs.node[p.target])
                  /\ \A q \in Graphs.ready : q.node = p.target => q.for = p.req
                  /\ \A e \in execs : e.node = p.target => e.for = p.req)'
  BY <1>12 DEF Told, Tight
<1> QED
  BY <1>8, <1>9, <1>10, <1>11, <1>13, <1>14, <1>15 DEF ToldNow, Told, Claimed

LEMMA TypedNow ==
  ASSUME ShapeInv
  PROVE  /\ wf \in Workflows /\ Shaped(Graphs) /\ execs \subseteq Execs
         /\ Typed(execs, nexts, pendingNext)
         /\ \A p, q \in pendingNext : p.req = q.req => p = q
PROOF
<1>1. /\ wf \in Workflows /\ Shaped(Graphs) /\ execs \subseteq Execs /\ nexts \subseteq Calls
      /\ pendingNext \subseteq {[req |-> r, target |-> NextTarget(r.node)] : r \in Calls}
      /\ \A e \in execs : e.waits => IsMiddleware(e.node)
  BY Now DEF ShapeInv
<1>2. \A r \in Calls : r.node \in Nodes /\ IsMiddleware(r.node)
  BY DEF Calls
<1>3. \A e \in Execs : e.node \in Nodes
  BY DEF Execs
<1>4. \A p \in pendingNext : \E r \in Calls : p = [req |-> r, target |-> NextTarget(r.node)]
  BY <1>1
<1>5. \A p \in pendingNext : p.req \in Calls /\ p = [req |-> p.req, target |-> NextTarget(p.req.node)]
  BY <1>4
<1>6. \A p \in pendingNext : p.target = NextTarget(p.req.node)
  BY <1>5
<1>7. \A p, q \in pendingNext : p.req = q.req => p = q
  BY <1>5
<1> QED
  BY <1>1, <1>2, <1>3, <1>5, <1>6, <1>7 DEF Typed

\* A step of a live run leaves chains what they are told, and a frame of it only
\* when all of it has ended.
Carries ==
  /\ ToldNow' /\ (adopted = {} => Lasting(Graphs, Graphs'))
  /\ adopted' = adopted \/ late # {}

\* The graphs go to a stage, and what is told stays told.
LEMMA Carried ==
  ASSUME ShapeInv, wf' = wf, NEW t, Shaped(t), Install(t), Told(t, execs', nexts', pendingNext'),
         adopted = {} => Lasting(Graphs, t), t.adopted = adopted \/ late # {}
  PROVE  Carries
PROOF
<1>1. Graphs' = t /\ adopted' = t.adopted
  BY Installed DEF Install
<1>2. ToldNow'
  BY <1>1, ToldNext
<1> QED
  BY <1>1, <1>2 DEF Carries

LEMMA StillLasting ==
  ASSUME NEW s
  PROVE  Lasting(s, s)
PROOF
<1>1. Statuses(s, s, {})
  BY DEF Statuses
<1>2. \A c \in ToSet(s.frames) : {} \cap Graph(c) # {} => \E n \in Graph(c) : s.node[n].status \notin Final
  OBVIOUS
<1> QED
  BY <1>1, <1>2 DEF Lasting

\* A step that leaves the graphs alone.
LEMMA Quiet ==
  ASSUME ShapeInv, ToldNow, wf' = wf, UNCHANGED graphVars, NEW R,
         Answered(Graphs, {}, execs, nexts, pendingNext, execs', nexts', pendingNext', R)
  PROVE  Carries
PROOF
<1>1. /\ wf \in Workflows /\ Shaped(Graphs) /\ Typed(execs, nexts, pendingNext)
  BY TypedNow
<1>2. Install(Graphs)
  BY DEF Install, Graphs, graphVars
<1>3. \A z \in execs' : \E y \in execs : y.node = z.node
  BY DEF Answered
<1>4. Claimed(Graphs, execs')
  BY <1>3 DEF ToldNow, Told, Claimed, ExecsTold
<1>5. Onward(Graphs, Graphs, {})
  BY DEF Onward
<1> DEFINE D == {}
<1>6. Onward(Graphs, Graphs, D) /\ Answered(Graphs, D, execs, nexts, pendingNext, execs', nexts', pendingNext', R)
  BY <1>5
<1> HIDE DEF D
<1>7. Told(Graphs, execs', nexts', pendingNext')
  BY <1>1, <1>4, <1>6, ToldOn DEF ToldNow
<1>8. Graphs.adopted = adopted
  BY Now
<1> QED
  BY <1>1, <1>2, <1>7, <1>8, StillLasting, Carried

\* An execution that changes itself, or goes, and was not waiting.
LEMMA Alone ==
  ASSUME ShapeInv, ToldNow, NEW e \in execs, ~e.waits, NEW E, execs' = (execs \ {e}) \cup E,
         \A x \in E : x.node = e.node /\ x.for = e.for /\ ~x.waits,
         \A x, y \in E : x = y, UNCHANGED <<nexts, pendingNext>>, NEW t
  PROVE  Answered(t, {}, execs, nexts, pendingNext, execs', nexts', pendingNext', {})
PROOF
<1>1. \A x, y \in execs : x.node = y.node => x = y
  BY DEF ToldNow, Told
<1>2. \A z, y \in execs' : z.node = y.node => z = y
  BY <1>1
<1>3. \A z \in execs' : \E y \in execs : y.node = z.node /\ y.for = z.for /\ (z.waits => y = z)
  OBVIOUS
<1>4. \A y \in execs : y.waits /\ Call(y) \notin {} => y \in execs'
  OBVIOUS
<1> QED
  BY <1>2, <1>3, <1>4, Zenon DEF Answered

LEMMA CarriesReports ==
  ASSUME ShapeInv, ToldNow, NEW e \in execs, NEW st, Reports(e, st)
  PROVE  Carries
PROOF
<1> DEFINE x == [e EXCEPT !.report = st]
<1>1. /\ Busy(e) /\ execs' = (execs \ {e}) \cup {x} /\ nexts' = nexts /\ WorkerOnly
  BY DEF Reports, Becomes
<1>2. e \in Execs /\ ~e.waits
  BY <1>1 DEF ShapeInv, Busy
<1>3. x.node = e.node /\ x.for = e.for /\ ~x.waits
  BY <1>2 DEF Execs
<1> HIDE DEF x
<1>4. wf' = wf /\ UNCHANGED graphVars /\ pendingNext' = pendingNext
  BY <1>1 DEF WorkerOnly
<1> DEFINE E == {x}
<1>5. /\ \A y \in E : y.node = e.node /\ y.for = e.for /\ ~y.waits
      /\ \A y, z \in E : y = z
      /\ execs' = (execs \ {e}) \cup E
  BY <1>1, <1>3
<1> HIDE DEF E
<1>6. Answered(Graphs, {}, execs, nexts, pendingNext, execs', nexts', pendingNext', {})
  BY <1>1, <1>2, <1>4, <1>5, Alone
<1> QED
  BY <1>4, <1>6, Quiet

LEMMA CarriesLeaves ==
  ASSUME ShapeInv, ToldNow, NEW e, Feedback(e) \/ LeavesFeedback(e)
  PROVE  Carries
PROOF
<1>1. e \in execs /\ wf' = wf /\ UNCHANGED <<nexts, execs, pendingNext>> /\ (Feedback(e) => Install(Found(Graphs, e.node)))
      /\ (LeavesFeedback(e) => UNCHANGED graphVars)
  BY DEF Feedback, LeavesFeedback, ApplyFeedback, Busy
<1>2. Held(Graphs, e.node)
  BY <1>1 DEF ToldNow, Told, Claimed, ExecsTold
<1>3. Found(Graphs, e.node) = Graphs
  BY <1>2, Zenon DEF Found, Present, Held
<1>4. UNCHANGED graphVars
  BY <1>1, <1>3 DEF Install, Graphs, graphVars
<1>5. \A x, y \in execs : x.node = y.node => x = y
  BY DEF ToldNow, Told
<1>6. Answered(Graphs, {}, execs, nexts, pendingNext, execs', nexts', pendingNext', {})
  BY <1>1, <1>5 DEF Answered
<1> QED
  BY <1>1, <1>4, <1>6, Quiet

LEMMA CarriesRefuse ==
  ASSUME ShapeInv, ToldNow, NEW r, RefuseNext(r)
  PROVE  Carries
PROOF
<1>1. /\ r \in nexts /\ nexts' = nexts \ {r} /\ wf' = wf
      /\ execs' = Answer(execs, {r}) /\ UNCHANGED graphVars /\ pendingNext' = pendingNext
  BY DEF RefuseNext, TakesNext
<1>2. /\ wf \in Workflows /\ Shaped(Graphs) /\ execs \subseteq Execs /\ Typed(execs, nexts, pendingNext)
  BY TypedNow
<1>3. Told(Graphs, execs, nexts, pendingNext) /\ Claimed(Graphs, execs)
  BY DEF ToldNow, Told
<1>4. \A x, y \in execs : x.node = y.node => x = y
  BY DEF ToldNow, Told
<1> DEFINE R == {r}
           Z == Answer(execs, R)
<1>5. /\ \A z \in Z : \E y \in execs : /\ y.node = z.node /\ y.for = z.for /\ y.report = z.report
                                       /\ y.no = z.no /\ (z.waits => y = z /\ Call(y) \notin R)
      /\ \A y \in execs : ~(y.waits /\ Call(y) \in R) => y \in Z
      /\ \A y, x \in Z : y.node = x.node => y = x
  <2> HIDE DEF R
  <2> QED
    BY <1>2, <1>4, AnswerIs
<1> HIDE DEF Z
<1>6. /\ NextTarget(r.node) \in Nodes /\ ~Astir(Graphs.node[NextTarget(r.node)])
  BY <1>1, <1>2, <1>3, ToldIs
<1>7. \A x \in execs : x.node # NextTarget(r.node)
  BY <1>2, <1>3, <1>6, AtRest
<1>8. \A y \in execs : y.waits /\ Call(y) \in R =>
        /\ ~(Held(Graphs, NextTarget(y.node)) /\ Astir(Graphs.node[NextTarget(y.node)]))
        /\ \A x \in execs : x.node = NextTarget(y.node) => ~x.waits
  BY <1>6, <1>7 DEF Call
<1>9. \A p \in pendingNext : p.req \notin R
  BY <1>1, <1>2, <1>3, ToldIs
<1>10. \A q \in nexts \ {r} : q \notin R
  OBVIOUS
<1>11. execs' = Z
  BY <1>1 DEF Z
<1> HIDE DEF R
<1>12. Answered(Graphs, {}, execs, nexts, pendingNext, execs', nexts', pendingNext', R)
  BY <1>1, <1>5, <1>8, <1>9, <1>10, <1>11 DEF Answered
<1> QED
  BY <1>1, <1>12, Quiet

\* The worker has no other execution of a node that is on its way.
LEMMA CarriesRefused ==
  ASSUME ToldNow, NEW q, Refused(q)
  PROVE  FALSE
PROOF
<1>1. q \in Graphs.ready /\ \E e \in execs : e.node = q.node
  BY DEF Refused, Sent, Graphs
<1>2. \A e \in execs : Graphs.node[e.node].status = "running"
  BY DEF ToldNow, Told, Claimed, ExecsTold
<1>3. Graphs.node[q.node].status = "queued"
  BY <1>1 DEF ToldNow, Told, Claimed, ReadyTold
<1> QED
  BY <1>1, <1>2, <1>3

\* A stage that ends no node and answers nothing.
LEMMA CarriesOn ==
  ASSUME ShapeInv, ToldNow, wf' = wf, NEW t, Shaped(t), Install(t), Claimed(t, execs),
         Onward(Graphs, t, {}), t.adopted = adopted \/ late # {},
         UNCHANGED <<execs, nexts, pendingNext>>
  PROVE  Carries
PROOF
<1>1. wf \in Workflows /\ Typed(execs, nexts, pendingNext)
  BY TypedNow
<1>2. \A x, y \in execs : x.node = y.node => x = y
  BY DEF ToldNow, Told
<1>3. Answered(t, {}, execs, nexts, pendingNext, execs', nexts', pendingNext', {})
  BY <1>2 DEF Answered
<1>4. Lasting(Graphs, t)
  <2>1. Statuses(Graphs, t, {})
    BY DEF Onward, Statuses
  <2>2. \A c \in ToSet(t.frames) : {} \cap Graph(c) # {} => \E n \in Graph(c) : t.node[n].status \notin Final
    OBVIOUS
  <2> QED
    BY <2>1, <2>2 DEF Lasting
<1> DEFINE D == {}
<1>5. Onward(Graphs, t, D) /\ Answered(t, D, execs, nexts, pendingNext, execs', nexts', pendingNext', D)
  BY <1>3
<1> HIDE DEF D
<1>6. Claimed(t, execs')
  OBVIOUS
<1>7. Told(t, execs', nexts', pendingNext')
  BY <1>1, <1>5, <1>6, ToldOn DEF ToldNow
<1> QED
  BY <1>4, <1>7, Carried

LEMMA CarriesCollect ==
  ASSUME Unnested, ShapeInv, ToldNow, CollectReady, Live'
  PROVE  Carries
PROOF
<1> DEFINE g == IF frames = <<>> THEN Root ELSE Last(frames)
           s == CollectFrom(Graphs, g)
<1>1. /\ wf' = wf /\ UNCHANGED <<execs, nexts, pendingNext, runStatus>>
      /\ IF Live THEN Install(s) ELSE UNCHANGED graphVars
  BY DEF CollectReady
<1>2. Live
  BY <1>1 DEF Live
<1>3. /\ wf \in Workflows /\ Shaped(Graphs) /\ Typed(execs, nexts, pendingNext)
  BY TypedNow
<1>4. Active(Graphs, g)
  <2>1. CASE frames = <<>>
    BY <2>1 DEF Active
  <2>2. CASE frames # <<>>
    <3>1. frames \in Seq(wf.containers) /\ Graphs.frames = frames
      BY Now DEF ShapeInv
    <3>2. Len(frames) \in DOMAIN frames
      BY <2>2, <3>1
    <3>3. g = frames[Len(frames)]
      BY <2>2 DEF Last
    <3> QED
      BY <3>1, <3>2, <3>3 DEF Active, ToSet
  <2> QED
    BY <2>1, <2>2
<1> HIDE DEF g
<1>5. Claimed(Graphs, execs) /\ \A e \in execs : e.node \in Nodes
  BY <1>3 DEF ToldNow, Told, Typed
<1>6. Advances(Graphs, s, execs, {})
  BY <1>3, <1>4, <1>5, CollectClaims
<1>7. Shaped(s)
  BY <1>3, Collecting
<1>8. s.adopted = adopted
  <2> DEFINE S == {n \in Graph(g) : Due(Graphs.node[n]) /\ ~IsHost(n)}
  <2>1. s = Start(Graphs, S) /\ S \subseteq Nodes
    BY Zenon DEF CollectFrom, Graph
  <2> HIDE DEF S, s
  <2> QED
    BY <2>1, <1>3, Starting, Now
<1> HIDE DEF s
<1> QED
  BY <1>1, <1>2, <1>6, <1>7, <1>8, CarriesOn DEF Advances

\* get_node changes nothing of the graphs that are live.
LEMMA CarriesLate ==
  ASSUME Unnested, ShapeInv, ToldNow, NEW f \in late, LateFeedback(f)
  PROVE  Carries
PROOF
<1> DEFINE n == f.node
           x == [status |-> "queued", pending |-> 0, enqueued |-> FALSE, blocked |-> FALSE]
           t == Found(Graphs, n)
           u == Set(Graphs, n, x)
<1>1. /\ wf' = wf /\ UNCHANGED <<execs, nexts, pendingNext>> /\ Install(t)
  BY DEF LateFeedback, ApplyFeedback
<1>2. /\ wf \in Workflows /\ Shaped(Graphs) /\ execs \subseteq Execs /\ Typed(execs, nexts, pendingNext)
  BY TypedNow
<1>3. n \in Nodes
  BY DEF ShapeInv
<1>4. /\ Shaped(t) /\ t.frames = Graphs.frames /\ t.ready = Graphs.ready
      /\ \A m \in Nodes : Present(Graphs, m) => t.node[m] = Graphs.node[m]
  BY <1>2, <1>3, Finding
<1>5. \A m : Held(t, m) = Held(Graphs, m)
  BY <1>4, Zenon DEF Held, Active
<1>6. \A m \in Nodes : Held(Graphs, m) => t.node[m] = Graphs.node[m]
  BY <1>4 DEF Held, Present
<1>7. Claimed(Graphs, execs) /\ \A e \in execs : e.node \in Nodes
  BY <1>2 DEF ToldNow, Told, Typed
<1>8. \A c \in ToSet(Graphs.frames) : c \in Nodes /\ Held(Graphs, c)
  <2>1. \A c \in ToSet(Graphs.frames) : c \in wf.containers
    BY <1>2 DEF Shaped, ToSet
  <2> QED
    BY <2>1, <1>2, Apart DEF Held, Active
<1> HIDE DEF t, n
<1>9. \A q \in Graphs.ready : q.node \in Nodes
  BY <1>2 DEF Shaped
<1>10. ReadyTold(t)
  BY <1>4, <1>5, <1>6, <1>7, <1>9 DEF Claimed, ReadyTold
<1>11. ExecsTold(t, execs)
  BY <1>4, <1>5, <1>6, <1>7 DEF Claimed, ExecsTold
<1>12. FramesTold(t)
  BY <1>4, <1>6, <1>7, <1>8 DEF Claimed, FramesTold
<1>13. Onward(Graphs, t, {})
  BY <1>4, <1>5, <1>6 DEF Onward
<1>14. late # {}
  OBVIOUS
<1> QED
  BY <1>1, <1>4, <1>10, <1>11, <1>12, <1>13, <1>14, CarriesOn DEF Claimed

LEMMA Fails ==
  ASSUME NEW t, InstallAndRefresh(t), Live'
  PROVE  ~RunFails(t) /\ Install(t)
PROOF
<1>1. Install(t) /\ runStatus' = Rollup(t)
  BY DEF InstallAndRefresh
<1>2. RunFails(t) => Rollup(t) = "failed"
  BY Rolling
<1> QED
  BY <1>1, <1>2 DEF Live, Final

LEMMA CarriesResult ==
  ASSUME Unnested, ShapeInv, ToldNow, NEW e \in execs, HandleResult(e), Live'
  PROVE  Carries
PROOF
<1> DEFINE s0 == Found(Graphs, e.node)
           s == AfterReport(s0, e.node, e.report)
           t == CloseAfter(s, e.node)
           over == AskedFor({e.node} \cup ClosedWith(s, e.node))
<1>1. /\ UNCHANGED <<wf, nexts>> /\ e.report \in Good \cup {"failed"}
      /\ IF ~Live
         THEN execs' = execs \ {e} /\ UNCHANGED <<graphVars, runStatus, pendingNext>>
         ELSE /\ InstallAndRefresh(t)
              /\ pendingNext' = pendingNext \ over
              /\ execs' = Answer(execs \ {e}, Reqs(over))
  BY DEF HandleResult, Handled
<1>2. Live
  BY <1>1 DEF Live
<1>3. /\ wf \in Workflows /\ Shaped(Graphs) /\ execs \subseteq Execs /\ Typed(execs, nexts, pendingNext)
      /\ \A p, q \in pendingNext : p.req = q.req => p = q
  BY TypedNow
<1>4. ~e.waits
  BY <1>1 DEF ShapeInv, Good
<1>5. e.node \in Nodes /\ Held(Graphs, e.node)
  BY <1>3, <1>4, Reporter DEF ToldNow
<1>6. s0 = Graphs
  BY <1>5, Zenon DEF Found, Present, Held
<1>7. ~RunFails(t) /\ Install(t)
  <2> HIDE DEF t
  <2> QED
    BY <1>1, <1>2, Fails
<1>8. over = {p \in pendingNext : p.target \in {e.node} \cup ClosedWith(s, e.node)}
  BY Zenon DEF AskedFor
<1>9. Shaped(s) /\ s.adopted = Graphs.adopted
  BY <1>1, <1>3, <1>5, <1>6, ReportDone
<1>10. Shaped(t) /\ t.adopted = adopted
  <2>1. CASE Closes(s, e.node)
    <3>1. t = Close(s, wf.graph[e.node]) /\ wf.graph[e.node] \in wf.containers
      BY <2>1, <1>3, <1>5, Flow, Zenon DEF CloseAfter, Closes
    <3> HIDE DEF s
    <3> QED
      BY <3>1, <1>3, <1>9, Closing, Now
  <2>2. CASE ~Closes(s, e.node)
    <3>1. t = s
      BY <2>2, Zenon DEF CloseAfter
    <3> HIDE DEF s, t
    <3> QED
      BY <3>1, <1>9, Now
  <2> QED
    BY <2>1, <2>2
<1>11. PICK g : g = Graphs
  OBVIOUS
<1>12. Told(g, execs, nexts, pendingNext) /\ Shaped(g) /\ s = AfterReport(g, e.node, e.report) /\ t = CloseAfter(s, e.node)
  BY <1>3, <1>6, <1>11 DEF ToldNow
<1> HIDE DEF s0, s, t, over
<1>13. PICK n, C, Y, R, Z, Q : /\ n = e.node /\ C = ClosedWith(s, n) /\ Y = execs \ {e} /\ R = Reqs(over)
                                /\ Z = Answer(Y, R) /\ Q = pendingNext \ over
  OBVIOUS
<1>14. /\ Told(t, Z, nexts, Q) /\ (n \notin g.adopted => Lasting(g, t)) /\ g.ready \subseteq t.ready
  <2>1. Concludes(g, execs, pendingNext, e, n, e.report, s, t, C, Y, over, R, Z, Q)
    BY <1>1, <1>4, <1>7, <1>8, <1>12, <1>13 DEF Concludes
  <2> QED
    BY <2>1, <1>3, <1>12, ResultStage
<1>15. adopted = {} => Lasting(Graphs, t)
  BY <1>11, <1>14, Now
<1>16. Told(t, execs', nexts', pendingNext')
  BY <1>1, <1>2, <1>13, <1>14
<1> QED
  BY <1>1, <1>7, <1>10, <1>15, <1>16, Carried

LEMMA CarriesInterrupted ==
  ASSUME Unnested, ShapeInv, ToldNow, NEW e \in execs, HandleInterrupted(e), Live'
  PROVE  Carries
PROOF
<1> DEFINE x == [status |-> "queued", pending |-> 0, enqueued |-> FALSE, blocked |-> FALSE]
           n == e.node
           t == Set(Graphs, n, x)
           Y == execs \ {e}
           Q == pendingNext \ AskedFor({n})
<1>1. /\ UNCHANGED <<wf, nexts>> /\ e.report = "interrupted" /\ execs' = Y
      /\ IF ~Live \/ ~Present(Graphs, n)
         THEN UNCHANGED <<graphVars, runStatus, pendingNext>>
         ELSE InstallAndRefresh(t) /\ pendingNext' = Q
  BY DEF HandleInterrupted, Handled
<1>2. /\ wf \in Workflows /\ Shaped(Graphs) /\ execs \subseteq Execs /\ Typed(execs, nexts, pendingNext)
  BY TypedNow
<1>3. ~e.waits
  BY <1>1 DEF ShapeInv
<1>4. Told(Graphs, execs, nexts, pendingNext)
  BY DEF ToldNow
<1>5. /\ n \in Nodes /\ Held(Graphs, n) /\ Graphs.node[n].status = "running"
      /\ n \notin ToSet(Graphs.frames) /\ (\A q \in Graphs.ready : q.node # n)
      /\ (\A z \in execs : z # e => z.node # n)
  BY <1>2, <1>3, <1>4, Reporter
<1>6. Present(Graphs, n)
  BY <1>5 DEF Present, Held
<1>7. InstallAndRefresh(t) /\ pendingNext' = Q
  <2>1. ~Live => UNCHANGED runStatus
    BY <1>1, Zenon
  <2>2. Live
    BY <2>1 DEF Live
  <2> HIDE DEF t, n, Q, Y
  <2> QED
    BY <2>2, <1>1, <1>6
<1>8. x \in NodeStates(n)
  <2>1. Cardinality(DepsOf(n)) \in Nat
    BY <1>2, <1>5, Waits_
  <2> QED
    BY <2>1 DEF NodeStates, Final
<1>9. Claimed(Graphs, Y) /\ \A z \in Y : z.node \in Nodes /\ z.node # n
  BY <1>2, <1>4, <1>5 DEF Told, Typed, Claimed, ExecsTold
<1>10. PICK D : D = {n}
  OBVIOUS
<1>11. PICK z \in NodeStates(n) : z = x
  BY <1>8
<1>12. Within(n) /\ Held(Graphs, n) /\ Astir(z) => Astir(Graphs.node[n])
  BY <1>5 DEF Astir
<1>13. n \in D /\ t = Set(Graphs, n, z)
  BY <1>10, <1>11
<1>14. z.status = "queued"
  BY <1>11
<1> HIDE DEF t, x, n, Y
<1>15. /\ Advances(Graphs, t, Y, D) /\ t.node[n] = z /\ \A m \in Nodes : m # n => t.node[m] = Graphs.node[m]
       /\ Shaped(t) /\ t.frames = Graphs.frames /\ t.ready = Graphs.ready /\ t.adopted = Graphs.adopted
  BY <1>2, <1>5, <1>9, <1>12, <1>13, SetClaims
<1>16. Lasting(Graphs, t)
  <2>1. Statuses(Graphs, t, D)
    BY <1>15 DEF Advances, Onward, Statuses
  <2>2. \A c \in ToSet(t.frames) : D \cap Graph(c) # {} => \E m \in Graph(c) : t.node[m].status \notin Final
    BY <1>10, <1>14, <1>15 DEF Final
  <2> QED
    BY <2>1, <2>2 DEF Lasting
<1>17. Answered(t, D, execs, nexts, pendingNext, Y, nexts, Q, {})
  <2>1. \A y \in execs : y.waits => y \in Y
    BY <1>3 DEF Y
  <2>2. \A p \in Q : p \in pendingNext /\ p.target \notin D
    BY <1>10 DEF Q, AskedFor
  <2>3. \A y, w \in execs : y.node = w.node => y = w
    BY <1>4 DEF Told
  <2>4. Y \subseteq execs /\ Q \subseteq pendingNext
    BY DEF Y
  <2> HIDE DEF Q
  <2> QED
    BY <2>1, <2>2, <2>3, <2>4 DEF Answered
<1> HIDE DEF Q
<1>18. Told(t, Y, nexts, Q)
  BY <1>2, <1>4, <1>15, <1>17, ToldOn DEF Advances
<1>19. Install(t)
  BY <1>7, Fails
<1>20. t.adopted = adopted
  BY <1>15, Now
<1> QED
  BY <1>1, <1>7, <1>15, <1>16, <1>18, <1>19, <1>20, Carried

\* apply_command_error: a failure that the run still knows ends it.
LEMMA ErrorQuiet ==
  ASSUME Unnested, ShapeInv, NEW e \in execs, HandleError(e), Live'
  PROVE  /\ UNCHANGED <<wf, graphVars, nexts, pendingNext>>
         /\ ~e.waits /\ execs' = execs \ {e}
PROOF
<1> DEFINE x == [node[lastNode] EXCEPT !.status = "failed", !.enqueued = FALSE]
           s == Set(Graphs, lastNode, x)
           t == CloseAfter(s, lastNode)
<1>1. /\ UNCHANGED <<wf, nexts>> /\ e.report = "error" /\ execs' = execs \ {e}
      /\ IF ~Live \/ ~Present(Graphs, lastNode)
         THEN UNCHANGED <<graphVars, runStatus, pendingNext>>
         ELSE InstallAndRefresh(t)
  BY DEF HandleError, Handled
<1>2. wf \in Workflows /\ Shaped(Graphs)
  BY TypedNow
<1>3. ~e.waits
  BY <1>1 DEF ShapeInv
<1>4. ~Live \/ ~Present(Graphs, lastNode)
  <2> SUFFICES ASSUME Live, Present(Graphs, lastNode) PROVE FALSE
    OBVIOUS
  <2>1. lastNode \in Nodes
    BY DEF ShapeInv
  <2>2. x \in NodeStates(lastNode) /\ x.status = "failed"
    <3>1. node[lastNode] \in NodeStates(lastNode)
      BY <2>1 DEF ShapeInv
    <3> QED
      BY <3>1 DEF NodeStates, Final
  <2>3. PICK z \in NodeStates(lastNode) : z = x
    BY <2>2
  <2> HIDE DEF x
  <2>4. Shaped(s) /\ s.node[lastNode] = z /\ Present(s, lastNode)
    <3> DEFINE u == Set(Graphs, lastNode, z)
    <3>1. /\ Shaped(u) /\ u.node[lastNode] = z /\ \A m \in Nodes \ {lastNode} : u.node[m] = Graphs.node[m]
          /\ u.frames = Graphs.frames /\ u.adopted = Graphs.adopted /\ u.ready = Graphs.ready
          /\ \A m : Present(u, m) = Present(Graphs, m)
          /\ \A g : Active(u, g) = Active(Graphs, g)
          /\ Clean(Graphs) /\ z.status # "failed" => Clean(u)
      BY <1>2, <2>1, SetOne
    <3> HIDE DEF u
    <3>2. u = s
      BY <2>3 DEF u
    <3> QED
      BY <3>1, <3>2
  <2> HIDE DEF s
  <2>5. RunFails(t)
    BY <1>2, <2>1, <2>2, <2>3, <2>4, FailedEnds
  <2> HIDE DEF t
  <2> QED
    BY <2>5, <1>1, Fails
<1>5. UNCHANGED graphVars /\ pendingNext' = pendingNext
  BY <1>1, <1>4
<1> QED
  BY <1>1, <1>3, <1>5

LEMMA CarriesError ==
  ASSUME Unnested, ShapeInv, ToldNow, NEW e \in execs, HandleError(e), Live'
  PROVE  Carries
PROOF
<1>1. /\ UNCHANGED <<wf, graphVars, nexts, pendingNext>>
      /\ ~e.waits /\ execs' = execs \ {e}
  BY ErrorQuiet
<1> DEFINE E == {}
<1>6. /\ \A y \in E : y.node = e.node /\ y.for = e.for /\ ~y.waits
      /\ \A y, z \in E : y = z
      /\ execs' = (execs \ {e}) \cup E
  BY <1>1
<1> HIDE DEF E
<1>7. Answered(Graphs, {}, execs, nexts, pendingNext, execs', nexts', pendingNext', {})
  BY <1>1, <1>6, Alone
<1> QED
  BY <1>1, <1>7, Quiet

\* A middleware that calls next() was not waiting: its target is at rest.
LEMMA CarriesCalls ==
  ASSUME ShapeInv, ToldNow, NEW e \in execs, CallsNext(e)
  PROVE  Carries
PROOF
<1> DEFINE x == [e EXCEPT !.calls = @ + 1, !.waits = TRUE]
           t == NextTarget(e.node)
<1>1. /\ ~e.waits /\ IsMiddleware(e.node)
      /\ execs' = (execs \ {e}) \cup {x} /\ nexts' = nexts \cup {Call(x)} /\ WorkerOnly
  BY DEF CallsNext, Busy, Becomes
<1>2. /\ wf \in Workflows /\ Shaped(Graphs) /\ execs \subseteq Execs /\ Typed(execs, nexts, pendingNext)
  BY TypedNow
<1>3. x.node = e.node /\ x.for = e.for /\ x.waits = TRUE
  BY <1>2 DEF Execs
<1> HIDE DEF x
<1>4. wf' = wf /\ UNCHANGED graphVars /\ pendingNext' = pendingNext
  BY <1>1 DEF WorkerOnly
<1>5. Told(Graphs, execs, nexts, pendingNext) /\ Claimed(Graphs, execs)
  BY DEF ToldNow, Told
<1>6. \A y, z \in execs : y.node = z.node => y = z
  BY <1>5 DEF Told
<1>7. e.node \in Nodes /\ Held(Graphs, e.node)
  BY <1>2, <1>5 DEF Typed, Claimed, ExecsTold
<1>8. /\ t \in Nodes /\ Within(t) /\ wf.graph[t] = wf.graph[e.node] /\ t # e.node
      /\ Callers(t) = Callers(e.node) \cup {e.node}
      /\ t = HostOf(e.node) \/ (IsMiddleware(t) /\ ~Outermost(t) /\ HostOf(t) = HostOf(e.node) /\ ChainIndex(t) = ChainIndex(e.node) + 1)
  BY <1>1, <1>2, <1>7, Following
<1> HIDE DEF t
<1>9. ~Astir(Graphs.node[t])
  <2> SUFFICES ASSUME Astir(Graphs.node[t]) PROVE FALSE
    OBVIOUS
  <2>1. Held(Graphs, t) /\ e.node \in Callers(t)
    BY <1>7, <1>8 DEF Held
  <2>2. \E y \in execs : y.node = e.node /\ y.waits
    BY <2>1, <1>5, <1>8 DEF Told
  <2> QED
    BY <2>2, <1>1, <1>6
<1>10. \A y \in execs : y.waits => y \in execs'
  BY <1>1
<1>11. \A y \in execs' : y = x \/ y \in execs
  BY <1>1
<1>12. \A r : WaitsFor(execs, r) => WaitsFor(execs', r)
  BY <1>10 DEF WaitsFor
<1>13. x \in execs' /\ WaitsFor(execs', Call(x)) /\ Call(x).node = e.node
  BY <1>1, <1>3 DEF WaitsFor, Call
<1>14. Claimed(Graphs, execs')
  BY <1>3, <1>5, <1>11 DEF Claimed, ExecsTold
<1>15. \A y, z \in execs' : y.node = z.node => y = z
  BY <1>1, <1>3, <1>6
<1>16. \A n \in Nodes : Within(n) /\ Held(Graphs, n) /\ Astir(Graphs.node[n]) =>
         \A m \in Callers(n) : \E y \in execs' : y.node = m /\ y.waits
  BY <1>5, <1>10 DEF Told
<1>17. \A r \in nexts' : WaitsFor(execs', r) /\ ~Astir(Graphs.node[NextTarget(r.node)])
  <2>1. ASSUME NEW r \in nexts
        PROVE  WaitsFor(execs', r) /\ ~Astir(Graphs.node[NextTarget(r.node)])
    BY <1>5, <1>12 DEF Told
  <2>2. WaitsFor(execs', Call(x)) /\ ~Astir(Graphs.node[NextTarget(Call(x).node)])
    BY <1>9, <1>13 DEF t
  <2> QED
    BY <2>1, <2>2, <1>1
<1>18. \A p \in pendingNext : /\ WaitsFor(execs', p.req) /\ Tight(Graphs.node[p.target])
                              /\ \A q \in Graphs.ready : q.node = p.target => q.for = p.req
                              /\ \A y \in execs' : y.node = p.target => y.for = p.req
  BY <1>3, <1>5, <1>11, <1>12 DEF Told
<1>19. Told(Graphs, execs', nexts', pendingNext')
  BY <1>4, <1>14, <1>15, <1>16, <1>17, <1>18 DEF Told
<1>20. Install(Graphs) /\ Graphs.adopted = adopted
  BY <1>4, Now DEF Install, Graphs, graphVars
<1> QED
  BY <1>2, <1>4, <1>19, <1>20, StillLasting, Carried

\* mark_dispatched: a request on its way becomes an execution for whom it was.
LEMMA CarriesDispatch ==
  ASSUME Unnested, ShapeInv, ToldNow, NEW q, Dispatch(q)
  PROVE  Carries
PROOF
<1> DEFINE n == q.node
           g == [Graphs EXCEPT !.ready = @ \ {q}]
           s == Found(g, n)
           x == [s.node[n] EXCEPT !.status = "running", !.enqueued = FALSE]
           t == Set(s, n, x)
           y == [node |-> q.node, no |-> dispatched[q.node] + 1, for |-> q.for,
                 calls |-> 0, waits |-> FALSE, report |-> "none"]
<1>1. /\ q \in ready /\ InstallAndRefresh(t) /\ UNCHANGED <<wf, nexts, pendingNext>>
      /\ execs' = execs \cup {y}
  BY DEF Dispatch, Sent
<1>2. /\ wf \in Workflows /\ Shaped(Graphs) /\ execs \subseteq Execs /\ Typed(execs, nexts, pendingNext)
  BY TypedNow
<1>3. Told(Graphs, execs, nexts, pendingNext) /\ Claimed(Graphs, execs)
  BY DEF ToldNow, Told
<1>4. /\ g.node = Graphs.node /\ g.frames = Graphs.frames /\ g.adopted = Graphs.adopted
      /\ g.ready = Graphs.ready \ {q} /\ Shaped(g)
  <2>1. g = [node |-> node, frames |-> frames, adopted |-> adopted, ready |-> ready \ {q}]
    BY DEF Graphs
  <2> HIDE DEF g
  <2>2. /\ g.node = Graphs.node /\ g.frames = Graphs.frames /\ g.adopted = Graphs.adopted
        /\ g.ready = Graphs.ready \ {q}
    BY <2>1, Now
  <2>3. g = [node |-> g.node, frames |-> g.frames, adopted |-> g.adopted, ready |-> g.ready]
    BY <2>1
  <2> QED
    BY <2>2, <2>3, <1>2 DEF Shaped
<1> HIDE DEF g
<1>5. q \in Graphs.ready /\ n \in Nodes
  BY <1>1, <1>2, Now DEF Shaped
<1>6. /\ Held(Graphs, n) /\ Graphs.node[n].status = "queued" /\ Graphs.node[n].blocked = FALSE
      /\ Graphs.node[n].enqueued = TRUE /\ \A r \in Graphs.ready : r.node = n => r = q
  BY <1>3, <1>5 DEF Claimed, ReadyTold
<1>7. Present(g, n)
  BY <1>4, <1>6 DEF Present, Held, Active
<1>8. s = g
  BY <1>7, Zenon DEF Found
<1>9. /\ x \in NodeStates(n) /\ x.status = "running" /\ x.enqueued = FALSE
  <2>1. s.node[n] \in NodeStates(n)
    BY <1>4, <1>5, <1>8 DEF Shaped
  <2> HIDE DEF s
  <2> QED
    BY <2>1 DEF NodeStates
<1>10. PICK z \in NodeStates(n) : z = x
  BY <1>9
<1> HIDE DEF x, s
<1>11. /\ Shaped(t) /\ t.node[n] = z /\ \A m \in Nodes : m # n => t.node[m] = Graphs.node[m]
       /\ t.frames = Graphs.frames /\ t.ready = Graphs.ready \ {q} /\ t.adopted = Graphs.adopted
  <2> DEFINE u == Set(g, n, z)
  <2>1. /\ Shaped(u) /\ u.node[n] = z /\ \A m \in Nodes \ {n} : u.node[m] = g.node[m]
        /\ u.frames = g.frames /\ u.adopted = g.adopted /\ u.ready = g.ready
        /\ \A m : Present(u, m) = Present(g, m)
        /\ \A h : Active(u, h) = Active(g, h)
        /\ Clean(g) /\ z.status # "failed" => Clean(u)
    BY <1>4, <1>5, SetOne
  <2>2. u = t
    BY <1>8, <1>10
  <2> HIDE DEF u, t
  <2> QED
    BY <2>1, <2>2, <1>4
<1> HIDE DEF t
<1>12. \A m : Held(t, m) = Held(Graphs, m)
  BY <1>11, Zenon DEF Held, Active
<1>13. z.status = "running" /\ z.enqueued = FALSE
  BY <1>9, <1>10
<1>14. \A e \in execs : e.node # n /\ e.node \in Nodes
  BY <1>2, <1>3, <1>6 DEF Claimed, ExecsTold, Typed
<1>15. n \notin ToSet(Graphs.frames) /\ \A c \in ToSet(Graphs.frames) : c \in Nodes
  BY <1>2, <1>3, <1>6, Flow DEF Claimed, FramesTold, Shaped, ToSet
<1>16. y.node = n /\ y.for = q.for /\ ~y.waits
  OBVIOUS
<1> HIDE DEF y, n
<1>17. \A r \in t.ready : r \in Graphs.ready /\ r.node # n /\ r.node \in Nodes
  BY <1>2, <1>6, <1>11 DEF Shaped
<1>18. ReadyTold(t)
  BY <1>3, <1>11, <1>12, <1>17 DEF Claimed, ReadyTold
<1>19. ExecsTold(t, execs')
  BY <1>1, <1>3, <1>6, <1>11, <1>12, <1>13, <1>14, <1>16 DEF Claimed, ExecsTold
<1>20. FramesTold(t)
  BY <1>3, <1>11, <1>15 DEF Claimed, FramesTold
<1>21. \A e, f \in execs' : e.node = f.node => e = f
  BY <1>1, <1>3, <1>14, <1>16 DEF Told
<1>22. \A r : WaitsFor(execs, r) => WaitsFor(execs', r)
  BY <1>1 DEF WaitsFor
<1>23. \A m \in Nodes : Astir(t.node[m]) => Astir(Graphs.node[m])
  BY <1>6, <1>11 DEF Astir
<1>24. \A m \in Nodes : Within(m) /\ Held(t, m) /\ Astir(t.node[m]) =>
         \A l \in Callers(m) : \E e \in execs' : e.node = l /\ e.waits
  BY <1>1, <1>3, <1>12, <1>23 DEF Told
<1>25. /\ \A r \in nexts : /\ Held(Graphs, NextTarget(r.node)) /\ NextTarget(r.node) \in Nodes
                           /\ ~Astir(Graphs.node[NextTarget(r.node)])
       /\ \A p \in pendingNext : /\ Held(Graphs, p.target) /\ p.target \in Nodes /\ p.target = NextTarget(p.req.node)
                                 /\ Astir(Graphs.node[p.target]) /\ p.req \notin nexts
  BY <1>2, <1>3, ToldIs
<1>26. \A r \in nexts : WaitsFor(execs', r) /\ ~Astir(t.node[NextTarget(r.node)])
  BY <1>3, <1>22, <1>23, <1>25 DEF Told
<1>27. ASSUME NEW p \in pendingNext
       PROVE  /\ WaitsFor(execs', p.req) /\ Tight(t.node[p.target])
              /\ \A r \in t.ready : r.node = p.target => r.for = p.req
              /\ \A e \in execs' : e.node = p.target => e.for = p.req
  <2>1. /\ WaitsFor(execs, p.req) /\ Tight(Graphs.node[p.target])
        /\ \A r \in Graphs.ready : r.node = p.target => r.for = p.req
        /\ \A e \in execs : e.node = p.target => e.for = p.req
    BY <1>3 DEF Told
  <2>2. Tight(t.node[p.target])
    BY <2>1, <1>11, <1>13, <1>25 DEF Tight
  <2>3. \A e \in execs' : e.node = p.target => e.for = p.req
    BY <2>1, <1>1, <1>5, <1>16 DEF n
  <2> QED
    BY <2>1, <2>2, <2>3, <1>17, <1>22
<1>28. Told(t, execs', nexts', pendingNext')
  BY <1>1, <1>18, <1>19, <1>20, <1>21, <1>24, <1>26, <1>27 DEF Told, Claimed
<1>29. Lasting(Graphs, t)
  <2>1. Statuses(Graphs, t, {})
    BY <1>6, <1>11, <1>12, <1>13 DEF Statuses
  <2>2. \A c \in ToSet(t.frames) : {} \cap Graph(c) # {} => \E m \in Graph(c) : t.node[m].status \notin Final
    OBVIOUS
  <2> QED
    BY <2>1, <2>2 DEF Lasting
<1>30. Install(t)
  BY <1>1 DEF InstallAndRefresh
<1>31. t.adopted = adopted
  BY <1>11, Now
<1> QED
  BY <1>1, <1>11, <1>28, <1>29, <1>30, <1>31, Carried

\* A node without a claim may change: no other claim is touched.
LEMMA SetUnclaimed ==
  ASSUME wf \in Workflows, NEW s, Shaped(s), NEW n \in Nodes, NEW x \in NodeStates(n),
         NEW X, Claimed(s, X), \A e \in X : e.node \in Nodes /\ e.node # n,
         n \notin ToSet(s.frames), \A q \in s.ready : q.node # n
  PROVE  LET t == Set(s, n, x)
         IN  /\ Claimed(t, X) /\ t.node[n] = x /\ \A m \in Nodes : m # n => t.node[m] = s.node[m]
             /\ Shaped(t) /\ t.frames = s.frames /\ t.ready = s.ready /\ t.adopted = s.adopted
             /\ \A m : Held(t, m) = Held(s, m)
PROOF
<1> DEFINE t == Set(s, n, x)
<1>1. /\ Shaped(t) /\ t.node[n] = x /\ \A m \in Nodes : m # n => t.node[m] = s.node[m]
      /\ t.frames = s.frames /\ t.ready = s.ready /\ t.adopted = s.adopted
  BY SetOne
<1> HIDE DEF t
<1>2. \A m : Held(t, m) = Held(s, m)
  BY <1>1, Zenon DEF Held, Active
<1>3. \A c \in ToSet(s.frames) : c \in Nodes
  BY Flow DEF Shaped, ToSet
<1>4. \A q \in s.ready : q.node \in Nodes
  BY DEF Shaped
<1>5. ReadyTold(t)
  BY <1>1, <1>2, <1>4 DEF Claimed, ReadyTold
<1>6. ExecsTold(t, X)
  BY <1>1, <1>2 DEF Claimed, ExecsTold
<1>7. FramesTold(t)
  BY <1>1, <1>3 DEF Claimed, FramesTold
<1> QED
  BY <1>1, <1>2, <1>5, <1>6, <1>7 DEF Claimed, t

\* A new frame has something to start.
LEMMA StartsSome ==
  ASSUME wf \in Workflows, FramesStart, NEW c \in wf.containers
  PROVE  \E n \in Nodes : wf.graph[n] = c /\ n \in News({c})
PROOF
<1>1. PICK n \in Nodes \ wf.containers :
        /\ wf.graph[n] = c /\ wf.chain[n] = <<>> /\ wf.deps[n] = {}
        /\ wf.host[n] # None => wf.chain[wf.host[n]][1] = n /\ wf.deps[wf.host[n]] \subseteq {n}
  BY DEF FramesStart, Nodes
<1>2. ~IsHost(n)
  BY <1>1 DEF IsHost
<1>3. IsMiddleware(n) => Outermost(n)
  <2> SUFFICES ASSUME IsMiddleware(n) PROVE ChainIndex(n) = 1
    BY DEF Outermost
  <2>1. HostOf(n) \in Nodes /\ IsHost(HostOf(n)) /\ wf.chain[HostOf(n)][1] = n
    BY <1>1, Place DEF HostOf, IsMiddleware
  <2>2. 1 \in 1..Len(wf.chain[HostOf(n)])
    BY <2>1, Members
  <2> QED
    BY <2>1, <2>2, Members
<1>4. DepsOf(n) = {}
  BY <1>1 DEF DepsOf, Outermost, IsMiddleware, HostOf
<1>5. Cardinality(DepsOf(n)) = 0
  BY <1>4, FS_EmptySet
<1>6. Due(NewNode(n))
  BY <1>2, <1>3, <1>5 DEF Due, NewNode
<1>7. n \in Starts(c)
  BY <1>1, <1>2, <1>6 DEF Starts, Graph
<1> QED
  BY <1>1, <1>7 DEF News

\* All that lead to what a request under way asks for are waiting.
LEMMA CallersWait ==
  ASSUME wf \in Workflows, NEW s, NEW X, NEW N, NEW P, Typed(X, N, P), Told(s, X, N, P), NEW r \in N
  PROVE  \A l \in Callers(NextTarget(r.node)) : \E y \in X : y.node = l /\ y.waits
PROOF
<1> DEFINE t == NextTarget(r.node)
<1>1. r.node \in Nodes /\ IsMiddleware(r.node)
  BY DEF Typed
<1>2. Callers(t) = Callers(r.node) \cup {r.node}
  BY <1>1, Following
<1> HIDE DEF t
<1>3. WaitsFor(X, r)
  BY DEF Told
<1>4. PICK e \in X : e.waits /\ Call(e) = r
  BY <1>3 DEF WaitsFor
<1>5. e.node = r.node
  BY <1>4 DEF Call
<1> SUFFICES ASSUME NEW l \in Callers(t) PROVE \E y \in X : y.node = l /\ y.waits
  BY DEF t
<1>6. CASE l = r.node
  BY <1>4, <1>5, <1>6
<1>7. CASE l # r.node
  <2>1. l \in Callers(r.node)
    BY <1>2, <1>7
  <2>2. Within(r.node)
    <3> SUFFICES ASSUME ~Within(r.node) PROVE FALSE
      OBVIOUS
    <3>1. ~IsHost(r.node) /\ ChainIndex(r.node) = 1
      BY <1>1 DEF Within, Outermost
    <3>2. Callers(r.node) = {}
      BY <3>1 DEF Callers
    <3> QED
      BY <2>1, <3>2
  <2>3. Held(s, r.node) /\ Astir(s.node[r.node])
    BY <1>4, <1>5 DEF Told, Claimed, ExecsTold, Astir
  <2> QED
    BY <2>1, <2>2, <2>3, <1>1 DEF Told
<1> QED
  BY <1>6, <1>7

\* handle_next_request: the target goes on its way, or opens its frame, for the
\* middleware that waits.
LEMMA CarriesNext ==
  ASSUME Unnested, FramesStart, ShapeInv, ToldNow, NEW r, HandleNext(r)
  PROVE  Carries
PROOF
<1> DEFINE t == NextTarget(r.node)
           x == Requeued(node[t])
           q == Set(Graphs, t, x)
           s == IF IsContainer(t) THEN Open(q, {t}) ELSE Enqueue(q, {t}, r)
           new == [req |-> r, target |-> t]
<1>1. /\ r \in nexts /\ nexts' = nexts \ {r} /\ wf' = wf
      /\ Install(s) /\ pendingNext' = pendingNext \cup {new}
      /\ execs' = IF s.ready = ready THEN Answer(execs, {r}) ELSE execs
  BY DEF HandleNext, TakesNext
<1>2. /\ wf \in Workflows /\ Shaped(Graphs) /\ execs \subseteq Execs /\ Typed(execs, nexts, pendingNext)
  BY TypedNow
<1>3. Told(Graphs, execs, nexts, pendingNext) /\ Claimed(Graphs, execs)
  BY DEF ToldNow, Told
<1>4. Held(Graphs, t) /\ t \in Nodes /\ ~Astir(Graphs.node[t])
  BY <1>1, <1>2, <1>3, ToldIs
<1>5. r.node \in Nodes /\ IsMiddleware(r.node) /\ r \in Calls
  BY <1>1, <1>2 DEF Typed, ShapeInv
<1>6. /\ t \in Nodes /\ Within(t) /\ wf.graph[t] = wf.graph[r.node] /\ t # r.node
      /\ Callers(t) = Callers(r.node) \cup {r.node}
      /\ t = HostOf(r.node) \/ (IsMiddleware(t) /\ ~Outermost(t) /\ HostOf(t) = HostOf(r.node) /\ ChainIndex(t) = ChainIndex(r.node) + 1)
  BY <1>2, <1>5, Following
<1>7. t \notin ToSet(Graphs.frames) /\ (\A e \in execs : e.node # t) /\ \A p \in Graphs.ready : p.node # t
  BY <1>2, <1>3, <1>4, AtRest
<1>8. \A l \in Nodes : IsMiddleware(l) /\ NextTarget(l) = t => l = r.node
  BY <1>2, <1>5, OwnTarget
<1> HIDE DEF t
<1>9. x \in NodeStates(t) /\ Loose(x)
  <2>1. node[t] \in NodeStates(t)
    BY <1>4 DEF ShapeInv
  <2>2. x = [node[t] EXCEPT !.status = IF @ \in Final \cup {"running"} THEN "queued" ELSE @,
                            !.enqueued = FALSE, !.blocked = FALSE]
    BY Zenon DEF Requeued
  <2> HIDE DEF x
  <2>3. x.status = "queued" /\ x.enqueued = FALSE /\ x.blocked = FALSE /\ x \in NodeStates(t)
    BY <2>1, <2>2 DEF NodeStates
  <2> QED
    BY <2>3 DEF Loose
<1>10. PICK z \in NodeStates(t) : z = x
  BY <1>9
<1>11. \A e \in execs : e.node \in Nodes /\ e.node # t
  BY <1>2, <1>7 DEF Typed
<1>12. /\ Claimed(q, execs) /\ q.node[t] = z /\ \A m \in Nodes : m # t => q.node[m] = Graphs.node[m]
       /\ Shaped(q) /\ q.frames = Graphs.frames /\ q.ready = Graphs.ready /\ q.adopted = Graphs.adopted
       /\ \A m : Held(q, m) = Held(Graphs, m)
  <2> DEFINE u == Set(Graphs, t, z)
  <2>1. /\ Claimed(u, execs) /\ u.node[t] = z /\ \A m \in Nodes : m # t => u.node[m] = Graphs.node[m]
        /\ Shaped(u) /\ u.frames = Graphs.frames /\ u.ready = Graphs.ready /\ u.adopted = Graphs.adopted
        /\ \A m : Held(u, m) = Held(Graphs, m)
    BY <1>2, <1>3, <1>4, <1>7, <1>11, SetUnclaimed
  <2>2. u = q
    BY <1>10
  <2> HIDE DEF u, q
  <2> QED
    BY <2>1, <2>2
<1>13. Loose(q.node[t]) /\ Held(q, t)
  BY <1>4, <1>9, <1>10, <1>12
<1> HIDE DEF q, x
<1>14. /\ Claimed(s, execs) /\ Onward(q, s, {}) /\ Shaped(s) /\ s.adopted = adopted
       /\ Held(s, t) /\ Tight(s.node[t]) /\ (\A p \in s.ready : p.node = t => p.for = r)
       /\ s.ready # ready /\ \A m : Held(q, m) => Held(s, m)
  <2>1. CASE IsContainer(t)
    <3> DEFINE u == Open(q, {t})
    <3>1. {t} \subseteq wf.containers /\ t \in wf.containers /\ \A c \in {t} : Loose(q.node[c])
      BY <2>1, <1>13 DEF IsContainer
    <3>2. PICK C : C = {t}
      OBVIOUS
    <3>3. C \subseteq wf.containers /\ \A c \in C : Loose(q.node[c])
      BY <3>1, <3>2
    <3> DEFINE v == Open(q, C)
    <3>4. /\ Claimed(v, execs) /\ Onward(q, v, {}) /\ q.ready \subseteq v.ready
          /\ \A n : Held(q, n) => Held(v, n)
          /\ \A n \in Nodes : Held(q, n) /\ n \notin C => v.node[n].status = q.node[n].status
               /\ v.node[n].blocked = q.node[n].blocked /\ v.node[n].enqueued = q.node[n].enqueued
               /\ v.node[n].pending = q.node[n].pending
      BY <3>3, <1>2, <1>11, <1>12, OpenClaims
    <3>5. /\ Shaped(v) /\ v.adopted = q.adopted
      BY <3>3, <1>2, <1>12, Opening
    <3>6. /\ \E o \in Seq(wf.containers) :
               /\ ToSet(o) = C /\ \A i, j \in DOMAIN o : o[i] = o[j] => i = j
               /\ v.frames = q.frames \o o
          /\ v.ready = q.ready \cup {Request(n, None) : n \in News(C)}
          /\ \A m \in Nodes :
               /\ m \in C => /\ v.node[m].status = "running" /\ v.node[m].enqueued = TRUE
                             /\ v.node[m].blocked = q.node[m].blocked
                             /\ v.node[m].pending = q.node[m].pending
               /\ wf.graph[m] \in C => /\ v.node[m].status = "queued"
                                       /\ v.node[m].blocked = NewNode(m).blocked
                                       /\ v.node[m].pending = Cardinality(DepsOf(m))
                                       /\ m \in News(C) => v.node[m].enqueued = TRUE
                                       /\ m \notin News(C) => v.node[m].enqueued = FALSE
               /\ m \notin C /\ wf.graph[m] \notin C =>
                    /\ v.node[m].status = q.node[m].status /\ v.node[m].blocked = q.node[m].blocked
                    /\ v.node[m].pending = q.node[m].pending
                    /\ v.node[m].enqueued = q.node[m].enqueued
      BY <3>3, <1>2, <1>12, OpenIs
    <3> HIDE DEF v
    <3>7. \A m \in C : m \in Nodes => v.node[m].status = "running"
      BY <3>6
    <3>8. v = s
      BY <2>1, <3>2 DEF v
    <3> HIDE DEF u, s
    <3>9. PICK n \in Nodes : wf.graph[n] = t /\ n \in News(C)
      BY <3>1, <3>2, <1>2, StartsSome
    <3>10. t # Root /\ t \notin ToSet(q.frames)
      BY <3>1, <1>2, <1>7, <1>12, Apart
    <3>11. ~Held(q, n)
      BY <3>9, <3>10 DEF Held, Active
    <3>12. Request(n, None) \in v.ready /\ Request(n, None) \notin q.ready
      BY <3>6, <3>9, <3>11, <1>12 DEF Request, Claimed, ReadyTold
    <3>13. s.ready # ready
      BY <3>8, <3>12, <1>12, Now
    <3>14. \A m \in News(C) : m \notin wf.containers
      BY DEF News
    <3>15. \A p \in s.ready : p.node # t
      BY <3>1, <3>6, <3>8, <3>14, <1>7, <1>12 DEF Request
    <3>16. Tight(s.node[t]) /\ Held(s, t)
      BY <3>2, <3>4, <3>7, <3>8, <1>4, <1>13 DEF Tight
    <3> QED
      BY <3>4, <3>5, <3>8, <3>13, <3>15, <3>16, <1>12, Now
  <2>2. CASE ~IsContainer(t)
    <3>2. PICK S : S = {t}
      OBVIOUS
    <3>3. S \subseteq Nodes /\ r \in Calls \cup {None} /\ \A n \in S : Held(q, n) /\ Loose(q.node[n])
      BY <3>2, <1>4, <1>5, <1>13
    <3> DEFINE v == Enqueue(q, S, r)
    <3>4. Claimed(v, execs) /\ Onward(q, v, {})
      BY <3>3, <1>2, <1>11, <1>12, EnqueueClaims
    <3>5. /\ Shaped(v) /\ v.adopted = q.adopted /\ \A g : Active(v, g) = Active(q, g)
      BY <3>3, <1>12, Enqueues
    <3>6. /\ v.ready = q.ready \cup {Request(n, r) : n \in S}
          /\ \A m \in Nodes :
               /\ v.node[m].status = q.node[m].status /\ v.node[m].pending = q.node[m].pending
               /\ v.node[m].blocked = q.node[m].blocked
               /\ m \notin S => v.node[m].enqueued = q.node[m].enqueued
               /\ m \in S => v.node[m].enqueued = TRUE
      BY <3>3, <1>12, EnqueueIs
    <3> HIDE DEF v
    <3>7. v.node[t].status = q.node[t].status /\ v.node[t].blocked = q.node[t].blocked /\ v.node[t].enqueued = TRUE
      BY <3>2, <3>6, <1>4
    <3>8. v = s
      BY <2>2, <3>2 DEF v
    <3> HIDE DEF s
    <3>9. Held(v, t) /\ \A m : Held(q, m) => Held(v, m)
      BY <3>5, <1>13 DEF Held
    <3>10. \A p \in v.ready : p.node = t => p.for = r
      BY <3>2, <3>6, <1>7, <1>12 DEF Request
    <3>11. Request(t, r) \in v.ready /\ Request(t, r) \notin q.ready
      BY <3>2, <3>6, <1>7, <1>12 DEF Request
    <3>12. v.ready # ready
      BY <3>11, <1>12, Now
    <3>13. Tight(v.node[t])
      BY <3>7, <1>13 DEF Tight, Loose
    <3> QED
      BY <3>4, <3>5, <3>8, <3>9, <3>10, <3>12, <3>13, <1>12, Now
  <2> QED
    BY <2>1, <2>2
<1>15. execs' = execs
  BY <1>1, <1>14
<1> HIDE DEF s
<1>16. \A m \in Nodes : Within(m) /\ Held(s, m) /\ Astir(s.node[m]) => Held(Graphs, m) /\ (m = t \/ Astir(Graphs.node[m]))
  BY <1>12, <1>14 DEF Onward
<1>17. WaitsFor(execs, r)
  BY <1>1, <1>3 DEF Told
<1>18. PICK e \in execs : e.waits /\ Call(e) = r
  BY <1>17 DEF WaitsFor
<1>19. e.node = r.node
  BY <1>18 DEF Call
<1>20. \A f, y \in execs : f.node = y.node => f = y
  BY <1>3 DEF Told
<1>21. \A l \in Callers(t) : \E y \in execs : y.node = l /\ y.waits
  BY <1>1, <1>2, <1>3, CallersWait DEF t
<1>22. ASSUME NEW m \in Nodes, Within(m), Held(s, m), Astir(s.node[m]), NEW l \in Callers(m)
       PROVE  \E y \in execs : y.node = l /\ y.waits
  <2>1. CASE m = t
    BY <2>1, <1>21, <1>22
  <2>2. CASE m # t
    BY <2>2, <1>3, <1>16, <1>22 DEF Told
  <2> QED
    BY <2>1, <2>2
<1>23. \A c \in nexts : c.node \in Nodes /\ IsMiddleware(c.node)
  BY <1>2 DEF Typed
<1>24. ASSUME NEW c \in nexts \ {r}
       PROVE  WaitsFor(execs, c) /\ ~Astir(s.node[NextTarget(c.node)])
  <2>1. WaitsFor(execs, c) /\ ~Astir(Graphs.node[NextTarget(c.node)])
    BY <1>3 DEF Told
  <2>2. NextTarget(c.node) # t
    <3> SUFFICES ASSUME NextTarget(c.node) = t PROVE FALSE
      OBVIOUS
    <3>1. c.node = r.node
      BY <1>8, <1>23
    <3>2. PICK y \in execs : y.waits /\ Call(y) = c
      BY <2>1 DEF WaitsFor
    <3>3. y.node = r.node
      BY <3>1, <3>2 DEF Call
    <3> QED
      BY <3>2, <3>3, <1>18, <1>19, <1>20
  <2>3. /\ NextTarget(c.node) \in Nodes /\ Within(NextTarget(c.node))
    BY <1>2, <1>23, Following
  <2>4. Held(s, NextTarget(c.node))
    <3>1. Held(Graphs, NextTarget(c.node))
      BY <1>2, <1>3, ToldIs
    <3>2. \A m \in Nodes : Held(q, m) => Held(s, m)
      BY <1>14
    <3> QED
      BY <3>1, <3>2, <2>3, <1>12
  <2> QED
    BY <2>1, <2>2, <2>3, <2>4, <1>16
<1>25. ASSUME NEW p \in pendingNext
       PROVE  /\ WaitsFor(execs, p.req) /\ Tight(s.node[p.target])
              /\ \A y \in s.ready : y.node = p.target => y.for = p.req
              /\ \A y \in execs : y.node = p.target => y.for = p.req
  <2>1. /\ WaitsFor(execs, p.req) /\ Tight(Graphs.node[p.target])
        /\ \A y \in Graphs.ready : y.node = p.target => y.for = p.req
        /\ \A y \in execs : y.node = p.target => y.for = p.req
    BY <1>3 DEF Told
  <2>2. Held(Graphs, p.target) /\ p.target \in Nodes
    BY <1>2, <1>3, ToldIs
  <2>3. p.target # t
    BY <2>1, <1>4 DEF Astir, Tight
  <2>4. Held(q, p.target) /\ Tight(q.node[p.target])
    BY <2>1, <2>2, <2>3, <1>12
  <2>5. Tight(s.node[p.target]) /\ \A y \in s.ready : y.node = p.target => y \in q.ready
    BY <2>2, <2>4, <1>14 DEF Onward
  <2> QED
    BY <2>1, <2>5, <1>12
<1>26. WaitsFor(execs, new.req) /\ new.target = t /\ new.req = r
  BY <1>17
<1> HIDE DEF new
<1>27. ASSUME NEW p \in pendingNext \cup {new}
       PROVE  /\ WaitsFor(execs, p.req) /\ Tight(s.node[p.target])
              /\ \A y \in s.ready : y.node = p.target => y.for = p.req
              /\ \A y \in execs : y.node = p.target => y.for = p.req
  <2>1. CASE p \in pendingNext
    BY <2>1, <1>25
  <2>2. CASE p = new
    BY <2>2, <1>7, <1>14, <1>26
  <2> QED
    BY <2>1, <2>2
<1>28. Told(s, execs', nexts', pendingNext')
  <2>1. Told(s, execs, nexts \ {r}, pendingNext \cup {new})
    BY <1>14, <1>20, <1>22, <1>24, <1>27 DEF Told
  <2> QED
    BY <2>1, <1>1, <1>15
<1>29. Lasting(Graphs, s)
  <2>1. Statuses(Graphs, s, {t})
    <3>1. Statuses(q, s, {})
      BY <1>14 DEF Onward, Statuses
    <3> QED
      BY <3>1, <1>12 DEF Statuses
  <2>2. s.node[t].status \notin Final
    BY <1>14 DEF Tight, Final
  <2>3. \A c \in ToSet(s.frames) : {t} \cap Graph(c) # {} => \E n \in Graph(c) : s.node[n].status \notin Final
    BY <2>2
  <2> QED
    BY <2>1, <2>3 DEF Lasting
<1> QED
  BY <1>1, <1>14, <1>28, <1>29, Carried

\* The kinds of fault only grow.
LEMMA FaultsGrow ==
  ASSUME ShapeInv, [Next]_vars
  PROVE  faults \subseteq faults'
PROOF
<1>1. CASE UNCHANGED vars
  BY <1>1 DEF vars
<1>2. CASE CollectReady \/ CancelRun
  BY <1>2, Faulty DEF CollectReady, CancelRun
<1>3. CASE \E q \in ready : DropRequest(q) \/ Dispatch(q) \/ Refused(q)
  BY <1>3 DEF DropRequest, Dispatch, Refused, Sent
<1>4. ASSUME NEW e \in execs, CallsNext(e) \/ GivesUp(e) \/ Feedback(e) \/ LeavesFeedback(e)
      PROVE  faults \subseteq faults'
  BY <1>4, Faulty DEF CallsNext, GivesUp, Feedback, LeavesFeedback
<1>5. ASSUME NEW e \in execs, NEW st \in Good \cup {"failed", "interrupted", "error"}, Reports(e, st)
      PROVE  faults \subseteq faults'
  BY <1>5, Faulty DEF Reports
<1>6. ASSUME NEW e \in execs, HandleResult(e) \/ HandleInterrupted(e) \/ HandleError(e)
      PROVE  faults \subseteq faults'
  BY <1>6 DEF HandleResult, HandleInterrupted, HandleError, Handled
<1>7. CASE \E f \in late : LateFeedback(f)
  BY <1>7, Faulty DEF LateFeedback
<1>8. CASE \E r \in nexts : RefuseNext(r) \/ HandleNext(r)
  BY <1>8 DEF RefuseNext, HandleNext, TakesNext
<1>9. CASE \E p \in pendingNext : ExpireNext(p)
  BY <1>9, Faulty DEF ExpireNext
<1>10. CASE \E n \in blank : RejectBlank(n)
  BY <1>10 DEF RejectBlank
<1> QED
  BY <1>1, <1>2, <1>3, <1>4, <1>5, <1>6, <1>7, <1>8, <1>9, <1>10, Zenon DEF Next

\* While the run is live chains know what they are told, unless a next() timed out.
ChainInv == Live /\ Without({"timeout"}) => ToldNow

LEMMA ToldFirst ==
  ASSUME Init
  PROVE  ToldNow
PROOF
<1>1. /\ wf \in Workflows /\ node = [n \in Nodes |-> NewNode(n)]
      /\ frames = <<>> /\ ready = {} /\ execs = {} /\ nexts = {} /\ pendingNext = {}
  BY DEF Init
<1>2. Graphs.node = node /\ Graphs.frames = frames /\ Graphs.ready = ready
  BY DEF Graphs
<1>3. \A n \in Nodes : Within(n) => ~Astir(Graphs.node[n])
  <2> SUFFICES ASSUME NEW n \in Nodes, Within(n) PROVE ~Astir(Graphs.node[n])
    OBVIOUS
  <2>1. NewNode(n).blocked /\ NewNode(n).status = "queued"
    BY DEF NewNode, Within
  <2>2. Graphs.node[n] = NewNode(n)
    BY <1>1, <1>2
  <2> QED
    BY <2>1, <2>2 DEF Astir
<1>4. Claimed(Graphs, execs)
  BY <1>1, <1>2 DEF Claimed, ReadyTold, ExecsTold, FramesTold, ToSet
<1> QED
  BY <1>1, <1>2, <1>3, <1>4 DEF ToldNow, Told

\* What a live run does without a timeout.
LEMMA StepCarries ==
  ASSUME Unnested, FramesStart, ShapeInv, ToldNow, [Next]_vars, Live', Without({"timeout"})'
  PROVE  Carries
PROOF
<1>1. CASE UNCHANGED vars
  <2>1. wf' = wf /\ UNCHANGED <<graphVars, execs, nexts, pendingNext>>
    BY <1>1 DEF vars, graphVars
  <2>2. \A x, y \in execs : x.node = y.node => x = y
    BY DEF ToldNow, Told
  <2>3. Answered(Graphs, {}, execs, nexts, pendingNext, execs', nexts', pendingNext', {})
    BY <2>1, <2>2 DEF Answered
  <2> QED
    BY <2>1, <2>3, Quiet
<1>2. CASE CollectReady
  BY <1>2, CarriesCollect
<1>3. CASE CancelRun
  BY <1>3 DEF CancelRun, Live, Final
<1>4. CASE \E q \in ready : DropRequest(q)
  BY <1>4 DEF DropRequest, Live
<1>5. CASE \E q \in ready : Dispatch(q) \/ Refused(q)
  BY <1>5, CarriesDispatch, CarriesRefused
<1>6. ASSUME NEW e \in execs, CallsNext(e) \/ Feedback(e) \/ LeavesFeedback(e)
      PROVE  Carries
  BY <1>6, CarriesCalls, CarriesLeaves
<1>7. ASSUME NEW e \in execs, GivesUp(e)
      PROVE  FALSE
  <2>1. "timeout" \in faults'
    BY <1>7 DEF GivesUp, Fault
  <2> QED
    BY <2>1 DEF Without
<1>8. ASSUME NEW e \in execs, NEW st \in Good \cup {"failed", "interrupted", "error"}, Reports(e, st)
      PROVE  Carries
  BY <1>8, CarriesReports
<1>9. ASSUME NEW e \in execs, HandleResult(e) \/ HandleInterrupted(e) \/ HandleError(e)
      PROVE  Carries
  BY <1>9, CarriesResult, CarriesInterrupted, CarriesError
<1>10. CASE \E f \in late : LateFeedback(f)
  BY <1>10, CarriesLate
<1>11. CASE \E r \in nexts : RefuseNext(r) \/ HandleNext(r)
  BY <1>11, CarriesRefuse, CarriesNext
<1>12. CASE \E p \in pendingNext : ExpireNext(p)
  <2>1. "timeout" \in faults'
    BY <1>12 DEF ExpireNext, Fault
  <2> QED
    BY <2>1 DEF Without
<1>13. ~\E n \in blank : RejectBlank(n)
  BY Rejecting
<1> QED
  BY <1>1, <1>2, <1>3, <1>4, <1>5, <1>6, <1>7, <1>8, <1>9, <1>10, <1>11, <1>12, <1>13, Zenon DEF Next

LEMMA LiveBefore ==
  ASSUME ShapeInv, [Next]_vars, Live'
  PROVE  Live
PROOF
<1> SUFFICES ASSUME ~Live PROVE FALSE
  OBVIOUS
<1>1. runStatus' = runStatus
  BY Over DEF vars
<1> QED
  BY <1>1 DEF Live

LEMMA ChainStep ==
  ASSUME Unnested, FramesStart, ShapeInv, ChainInv, [Next]_vars, Live', Without({"timeout"})'
  PROVE  Live /\ Without({"timeout"}) /\ ToldNow /\ Carries
PROOF
<1>1. Live /\ faults \subseteq faults'
  BY LiveBefore, FaultsGrow
<1>2. Without({"timeout"})
  BY <1>1 DEF Without
<1>3. ToldNow
  BY <1>1, <1>2 DEF ChainInv
<1> QED
  BY <1>1, <1>2, <1>3, StepCarries

\* What a chain is told holds of every live run: one claim at most to a node
\* inside a chain, and a caller that waits for it (next.py, pending.py,
\* updates.py).  A claim is a request that can be sent, an execution or a frame.
\* The request that a collection makes for an adopted node (blank) is none: it
\* cannot be sent, and the dispatcher fails the run when it comes to it.
THEOREM ChainsTold ==
  ASSUME Unnested, FramesStart
  PROVE  Spec => []ChainInv
PROOF
<1>1. Init => ChainInv
  BY ToldFirst DEF ChainInv
<1>2. ShapeInv /\ ChainInv /\ [Next]_vars => ChainInv'
  <2> SUFFICES ASSUME ShapeInv, ChainInv, [Next]_vars PROVE ChainInv'
    OBVIOUS
  <2>1. Live' /\ Without({"timeout"})' => ToldNow'
    BY ChainStep DEF Carries
  <2> QED
    BY <2>1 DEF ChainInv
<1> QED
  BY <1>1, <1>2, ShapeKept, PTL DEF Spec

---------------------------------------------------------------------------
(* Requests and frames are not lost. *)

\* But for the frames C, what is on its way stays so.
Grows(s, t, C) ==
  /\ s.ready \subseteq t.ready
  /\ \A c \in ToSet(s.frames) : c \notin C => c \in ToSet(t.frames)

LEMMA EnqueuesReady ==
  ASSUME NEW s, Shaped(s), NEW S, S \subseteq Nodes, NEW r \in Calls \cup {None}
  PROVE  s.ready \subseteq Enqueue(s, S, r).ready
PROOF
<1> DEFINE t == Enqueue(s, S, r)
<1>1. /\ t.ready = s.ready \cup {Request(n, r) : n \in S}
      /\ \A m \in Nodes :
           /\ t.node[m].status = s.node[m].status /\ t.node[m].pending = s.node[m].pending
           /\ t.node[m].blocked = s.node[m].blocked
           /\ m \notin S => t.node[m].enqueued = s.node[m].enqueued
           /\ m \in S => t.node[m].enqueued = TRUE
  BY EnqueueIs
<1> HIDE DEF t
<1> QED
  BY <1>1 DEF t

LEMMA OpensReady ==
  ASSUME wf \in Workflows, Unnested, NEW s, Shaped(s), NEW C, C \subseteq wf.containers
  PROVE  s.ready \subseteq Open(s, C).ready
PROOF
<1> DEFINE t == Open(s, C)
<1>1. /\ \E o \in Seq(wf.containers) :
           /\ ToSet(o) = C /\ \A i, j \in DOMAIN o : o[i] = o[j] => i = j
           /\ t.frames = s.frames \o o
      /\ t.ready = s.ready \cup {Request(n, None) : n \in News(C)}
      /\ \A m \in Nodes :
           /\ m \in C => /\ t.node[m].status = "running" /\ t.node[m].enqueued = TRUE
                         /\ t.node[m].blocked = s.node[m].blocked
                         /\ t.node[m].pending = s.node[m].pending
           /\ wf.graph[m] \in C => /\ t.node[m].status = "queued"
                                   /\ t.node[m].blocked = NewNode(m).blocked
                                   /\ t.node[m].pending = Cardinality(DepsOf(m))
                                   /\ m \in News(C) => t.node[m].enqueued = TRUE
                                   /\ m \notin News(C) => t.node[m].enqueued = FALSE
           /\ m \notin C /\ wf.graph[m] \notin C =>
                /\ t.node[m].status = s.node[m].status /\ t.node[m].blocked = s.node[m].blocked
                /\ t.node[m].pending = s.node[m].pending
                /\ t.node[m].enqueued = s.node[m].enqueued
  BY OpenIs
<1> HIDE DEF t
<1> QED
  BY <1>1 DEF t

LEMMA EnqueuedReady ==
  ASSUME NEW s, Shaped(s), NEW S, S \subseteq Nodes, NEW r \in Calls \cup {None}
  PROVE  \A n \in S : Request(n, r) \in Enqueue(s, S, r).ready
PROOF
<1> DEFINE t == Enqueue(s, S, r)
<1>1. /\ t.ready = s.ready \cup {Request(n, r) : n \in S}
      /\ \A m \in Nodes :
           /\ t.node[m].status = s.node[m].status /\ t.node[m].pending = s.node[m].pending
           /\ t.node[m].blocked = s.node[m].blocked
           /\ m \notin S => t.node[m].enqueued = s.node[m].enqueued
           /\ m \in S => t.node[m].enqueued = TRUE
  BY EnqueueIs
<1> HIDE DEF t
<1> QED
  BY <1>1 DEF t

LEMMA OpensFrames ==
  ASSUME wf \in Workflows, Unnested, NEW s, Shaped(s), NEW C, C \subseteq wf.containers
  PROVE  \A c \in C : c \in ToSet(Open(s, C).frames)
PROOF
<1> DEFINE t == Open(s, C)
<1>1. /\ \E o \in Seq(wf.containers) :
           /\ ToSet(o) = C /\ \A i, j \in DOMAIN o : o[i] = o[j] => i = j
           /\ t.frames = s.frames \o o
      /\ t.ready = s.ready \cup {Request(n, None) : n \in News(C)}
      /\ \A m \in Nodes :
           /\ m \in C => /\ t.node[m].status = "running" /\ t.node[m].enqueued = TRUE
                         /\ t.node[m].blocked = s.node[m].blocked
                         /\ t.node[m].pending = s.node[m].pending
           /\ wf.graph[m] \in C => /\ t.node[m].status = "queued"
                                   /\ t.node[m].blocked = NewNode(m).blocked
                                   /\ t.node[m].pending = Cardinality(DepsOf(m))
                                   /\ m \in News(C) => t.node[m].enqueued = TRUE
                                   /\ m \notin News(C) => t.node[m].enqueued = FALSE
           /\ m \notin C /\ wf.graph[m] \notin C =>
                /\ t.node[m].status = s.node[m].status /\ t.node[m].blocked = s.node[m].blocked
                /\ t.node[m].pending = s.node[m].pending
                /\ t.node[m].enqueued = s.node[m].enqueued
  BY OpenIs
<1> HIDE DEF t
<1>2. PICK o \in Seq(wf.containers) : ToSet(o) = C /\ t.frames = s.frames \o o
  BY <1>1
<1>3. s.frames \in Seq(wf.containers)
  BY DEF Shaped
<1>4. ASSUME NEW c \in C PROVE c \in ToSet(t.frames)
  <2>1. PICK i \in DOMAIN o : o[i] = c
    BY <1>2 DEF ToSet
  <2>2. Len(s.frames) + i \in DOMAIN (s.frames \o o) /\ (s.frames \o o)[Len(s.frames) + i] = c
    BY <2>1, <1>3
  <2> QED
    BY <2>2, <1>2 DEF ToSet
<1> QED
  BY <1>4 DEF t

LEMMA StartGrows ==
  ASSUME wf \in Workflows, Unnested, NEW s, Shaped(s), NEW S, S \subseteq Nodes
  PROVE  Grows(s, Start(s, S), {})
PROOF
<1> DEFINE C == S \cap wf.containers
           t == Open(s, C)
           R == S \ wf.containers
           u == Enqueue(t, R, None)
<1>1. C \subseteq wf.containers /\ R \subseteq Nodes
  OBVIOUS
<1>2. Start(s, S) = u
  BY Zenon DEF Start
<1> HIDE DEF C, R
<1>3. s.ready \subseteq t.ready
  BY <1>1, OpensReady
<1>4. Shaped(t)
  BY <1>1, Opening
<1> HIDE DEF t
<1>5. None \in Calls \cup {None}
  OBVIOUS
<1>6. t.ready \subseteq u.ready
  BY <1>1, <1>4, <1>5, EnqueuesReady
<1> HIDE DEF u
<1>7. s.ready \subseteq u.ready
  BY <1>3, <1>6
<1>8. ToSet(s.frames) \subseteq ToSet(Start(s, S).frames)
  BY Starting
<1> QED
  BY <1>2, <1>7, <1>8 DEF Grows

LEMMA ReleaseGrows ==
  ASSUME wf \in Workflows, Unnested, NEW s, Shaped(s), NEW n
  PROVE  Grows(s, Release(s, n), {})
PROOF
<1> DEFINE c == CountedDown(s, n)
           S == {u \in Dependents(n) : Due(c.node[u])}
<1>1. Release(s, n) = Start(c, S) /\ S \subseteq Nodes
  BY Zenon DEF Release, Dependents
<1>2. Shaped(c) /\ c.frames = s.frames
  BY Counting
<1>3. /\ c.ready = s.ready
      /\ \A m \in Nodes :
           /\ c.node[m].status = s.node[m].status /\ c.node[m].blocked = s.node[m].blocked
           /\ c.node[m].enqueued = s.node[m].enqueued
           /\ m \notin Dependents(n) => c.node[m].pending = s.node[m].pending
           /\ m \in Dependents(n) /\ s.node[m].status = "queued" /\ s.node[m].pending > 0 =>
                c.node[m].pending = s.node[m].pending - 1
           /\ ~(s.node[m].status = "queued" /\ s.node[m].pending > 0) =>
                c.node[m].pending = s.node[m].pending
  BY CountIs
<1> HIDE DEF S, c
<1>4. Grows(c, Start(c, S), {})
  BY <1>1, <1>2, StartGrows
<1> QED
  BY <1>1, <1>2, <1>3, <1>4 DEF Grows

LEMMA ReportGrows ==
  ASSUME wf \in Workflows, Unnested, NEW s, Shaped(s), NEW n \in Nodes, NEW st \in Good \cup {"failed"}
  PROVE  Grows(s, AfterReport(s, n, st), {})
PROOF
<1> DEFINE x    == Reported(s, n, st)
           own  == Set(s, n, x)
           next == IF st \in Good /\ ~Hosting(s, n) /\ n \notin s.adopted THEN Release(own, n) ELSE own
           t    == AfterReport(s, n, st)
           h    == HostOf(n)
           y    == [status |-> st, pending |-> 0, enqueued |-> FALSE, blocked |-> FALSE]
           done == Set(next, h, y)
           last == IF st \in Good THEN Release(done, h) ELSE done
<1>1. x \in NodeStates(n)
  BY Reporting
<1>2. PICK z \in NodeStates(n) : z = x
  BY <1>1
<1> HIDE DEF x
<1>3. Shaped(own) /\ own.ready = s.ready /\ own.frames = s.frames
  <2> DEFINE u == Set(s, n, z)
  <2>1. Shaped(u) /\ u.ready = s.ready /\ u.frames = s.frames
    BY SetOne
  <2>2. u = own
    BY <1>2
  <2> HIDE DEF u, own
  <2> QED
    BY <2>1, <2>2
<1> HIDE DEF own
<1>4. Grows(own, own, {})
  BY DEF Grows
<1>5. Grows(own, next, {}) /\ Shaped(next)
  <2>1. Grows(own, Release(own, n), {}) /\ Shaped(Release(own, n))
    BY <1>3, ReleaseGrows, Releasing
  <2> QED
    BY <2>1, <1>3, <1>4
<1> HIDE DEF next
<1>6. ~EndsHost(s, n, st) => t = next
  BY Zenon DEF AfterReport, next, own, x
<1>7. EndsHost(s, n, st) => t = last
  BY Zenon DEF AfterReport, EndHost, next, own, x
<1> HIDE DEF t
<1>8. CASE ~EndsHost(s, n, st)
  BY <1>3, <1>5, <1>6, <1>8 DEF Grows, t
<1>9. CASE EndsHost(s, n, st)
  <2>1. h \in Nodes
    BY <1>9, Flow DEF EndsHost, Chained
  <2>2. y \in NodeStates(h)
    <3>1. Cardinality(DepsOf(h)) \in Nat
      BY <2>1, Waits_
    <3>2. 0 \in 0..Cardinality(DepsOf(h))
      BY <3>1
    <3> QED
      BY <3>2 DEF NodeStates, Good, Final
  <2>3. PICK z1 \in NodeStates(h) : z1 = y
    BY <2>2
  <2> HIDE DEF y
  <2>4. Shaped(done) /\ done.ready = next.ready /\ done.frames = next.frames
    <3> DEFINE u == Set(next, h, z1)
    <3>1. Shaped(u) /\ u.ready = next.ready /\ u.frames = next.frames
      BY <1>5, <2>1, SetOne
    <3>2. u = done
      BY <2>3
    <3> HIDE DEF u, done
    <3> QED
      BY <3>1, <3>2
  <2> HIDE DEF done
  <2>5. Grows(done, last, {})
    <3>1. Grows(done, Release(done, h), {})
      BY <2>4, ReleaseGrows
    <3>2. Grows(done, done, {})
      BY DEF Grows
    <3> QED
      BY <3>1, <3>2
  <2> HIDE DEF last
  <2> QED
    BY <2>4, <2>5, <1>3, <1>5, <1>7, <1>9 DEF Grows, t
<1> QED
  BY <1>8, <1>9

\* A frame that is closed is the only one to go.
LEMMA PopGrows ==
  ASSUME NEW s, Shaped(s), NEW g
  PROVE  \A c \in ToSet(s.frames) : c # g => c \in ToSet(Popped(s, g).frames)
PROOF
<1> DEFINE t == Popped(s, g)
           p == s.frames
           k == CHOOSE i \in DOMAIN p : p[i] = g
           q == RemoveAt(p, k)
<1>1. p \in Seq(wf.containers)
  BY DEF Shaped
<1>2. CASE g \notin ToSet(p)
  <2>1. t = [s EXCEPT !.frames = p]
    BY <1>2, Zenon DEF Popped
  <2>2. t.frames = p
    BY <2>1 DEF Shaped
  <2> QED
    BY <2>2
<1>3. CASE g \in ToSet(p)
  <2>1. k \in DOMAIN p /\ p[k] = g
    BY <1>3 DEF ToSet
  <2>2. t.frames = q
    <3>1. t = [s EXCEPT !.frames = q]
      BY <1>3, Zenon DEF Popped
    <3> HIDE DEF q
    <3> QED
      BY <3>1 DEF Shaped
  <2> HIDE DEF k, p, t
  <2>3. /\ Len(p) \in Nat /\ DOMAIN p = 1..Len(p) /\ k \in 1..Len(p)
        /\ DOMAIN q = 1..(Len(p) - 1)
        /\ \A i \in 1..(Len(p) - 1) : q[i] = IF i < k THEN p[i] ELSE p[i + 1]
    <3>1. Len(p) \in Nat /\ DOMAIN p = 1..Len(p) /\ k \in 1..Len(p)
      BY <1>1, <2>1
    <3> QED
      BY <3>1, <1>1, RemovedIs
  <2> HIDE DEF q
  <2>4. ASSUME NEW j \in DOMAIN p, p[j] # g
        PROVE  \E i \in DOMAIN q : q[i] = p[j]
    <3>1. j \in Nat /\ k \in Nat /\ j # k
      BY <2>1, <2>3, <2>4
    <3>2. CASE j < k
      BY <3>1, <3>2, <2>3
    <3>3. CASE j > k
      <4>1. j - 1 \in DOMAIN q /\ q[j - 1] = p[j]
        BY <3>1, <3>3, <2>3
      <4> QED
        BY <4>1
    <3> QED
      BY <3>1, <3>2, <3>3
  <2>5. \A c \in ToSet(p) : c # g => c \in ToSet(q)
    BY <2>4 DEF ToSet
  <2> QED
    BY <2>2, <2>5 DEF t, p
<1> QED
  BY <1>2, <1>3

LEMMA CloseGrows ==
  ASSUME wf \in Workflows, Unnested, NEW s, Shaped(s), NEW n \in Nodes,
         NEW t, t = CloseAfter(s, n), ~RunFails(t), NEW C, C = ClosedWith(s, n)
  PROVE  Grows(s, t, C)
PROOF
<1> DEFINE g == wf.graph[n]
           put   == Set(s, g, ContainerEnd(s, g))
           ended == Popped(put, g)
           next  == CountedDown(ended, g)
           due   == {u \in Dependents(g) : Due(next.node[u]) /\ ~IsHost(u)}
           more  == Enqueue(next, due, None)
<1>1. CASE ~Closes(s, n)
  <2>1. t = s
    BY <1>1, Zenon DEF CloseAfter
  <2> QED
    BY <2>1 DEF Grows
<1>2. CASE Closes(s, n)
  <2>1. t = Close(s, g) /\ g # Root
    BY <1>2, Zenon DEF CloseAfter, Closes
  <2>2. g \in wf.containers
    BY <2>1, Flow
  <2>3. g \in Nodes /\ wf.graph[g] = Root
    BY <2>2, Apart
  <2>4. Active(s, wf.graph[g])
    BY <2>3 DEF Active
  <2>5. C = {g}
    BY <2>4, <1>2, Zenon DEF ClosedWith
  <2>6. ~FrameFailed(s, g)
    <3> SUFFICES ASSUME FrameFailed(s, g) PROVE FALSE
      OBVIOUS
    <3>1. t.node[g].status = "failed"
      BY <2>1, <2>2, <2>4, Closing
    <3> QED
      BY <3>1, <2>3 DEF RunFails, TopLevel, Graph
  <2>7. t = IF IsHost(g) THEN ended ELSE more
    BY <2>1, <2>4, <2>6, Zenon DEF Close
  <2> HIDE DEF g
  <2>8. ContainerEnd(s, g) \in NodeStates(g)
    BY <2>3, Ending
  <2>9. Shaped(put) /\ put.ready = s.ready /\ put.frames = s.frames
    BY <2>3, <2>8, SetOne
  <2> HIDE DEF put
  <2>10. Shaped(ended) /\ ended.ready = put.ready /\ \A c \in ToSet(put.frames) : c # g => c \in ToSet(ended.frames)
    BY <2>9, Popping, PopGrows
  <2> HIDE DEF ended
  <2>11. Shaped(next) /\ next.frames = ended.frames
    BY <2>10, Counting
  <2>12. next.ready = ended.ready
    BY <2>10, CountIs
  <2>13. due \subseteq Nodes /\ None \in Calls \cup {None}
    BY DEF Dependents
  <2> HIDE DEF next, due
  <2>14. more.frames = next.frames
    BY <2>11, <2>13, Enqueues
  <2>15. next.ready \subseteq more.ready
    BY <2>11, <2>13, EnqueuesReady
  <2> HIDE DEF more
  <2> QED
    BY <2>5, <2>7, <2>9, <2>10, <2>11, <2>12, <2>14, <2>15 DEF Grows
<1> QED
  BY <1>1, <1>2

---------------------------------------------------------------------------
(* Who waits is remembered. *)

\* Something is done about n.
Attended(s, X, n) ==
  (\E q \in s.ready : q.node = n) \/ n \in ToSet(s.frames) \/ \E x \in X : x.node = n

Waiters(s, X, N, P) ==
  \A e \in X : e.waits => \/ Call(e) \in N
                          \/ \E p \in P : p.req = Call(e) /\ Attended(s, X, p.target)

WaitersNow == Waiters(Graphs, execs, nexts, pendingNext)

\* Anything but a success is the fault it is counted as.
Faulted(report, F) == report \in {"skipped", "failed", "interrupted", "error"} => report \in F

\* The inductive form of WaiterRemembered.
WaiterInv ==
  /\ \A e \in execs : Faulted(e.report, faults)
  /\ Live /\ Without({"interrupted", "error"}) => WaitersNow

\* Those of R are answered, for others what they wait for is still attended.
LEMMA WaitersOn ==
  ASSUME NEW s, NEW t, NEW X, NEW N, NEW P, NEW Z, NEW M, NEW Q, NEW R, Waiters(s, X, N, P),
         \A z \in Z : z.waits => Call(z) \in M \/ (z \in X /\ Call(z) \notin R),
         \A r \in N : r \notin R => r \in M,
         \A p \in P : p.req \notin R /\ Attended(s, X, p.target) => p \in Q /\ Attended(t, Z, p.target)
  PROVE  Waiters(t, Z, M, Q)
PROOF
  BY DEF Waiters

LEMMA GrowsAttended ==
  ASSUME NEW s, NEW t, NEW C, Grows(s, t, C), NEW X, NEW n, Attended(s, X, n), n \notin C
  PROVE  Attended(t, X, n)
PROOF
  BY DEF Grows, Attended

LEMMA WaitersNext ==
  ASSUME NEW t, Graphs' = t, Waiters(t, execs', nexts', pendingNext')
  PROVE  WaitersNow'
PROOF
<1>1. (\A e \in execs : e.waits => \/ Call(e) \in nexts
                                   \/ \E p \in pendingNext : p.req = Call(e) /\ Attended(Graphs, execs, p.target))'
  BY DEF Waiters, Attended, Call
<1> QED
  BY <1>1 DEF WaitersNow, Waiters

\* A stage that answers nobody, and leaves executions as they are.
LEMMA WaitersGrow ==
  ASSUME ShapeInv, WaitersNow, wf' = wf, NEW t, Shaped(t), Install(t), Grows(Graphs, t, {}),
         UNCHANGED <<execs, nexts, pendingNext>>
  PROVE  WaitersNow'
PROOF
<1>1. Graphs' = t
  BY Installed
<1>2. ASSUME NEW n, Attended(Graphs, execs, n) PROVE Attended(t, execs, n)
  BY <1>2, GrowsAttended
<1> DEFINE R == {}
<1>3. /\ \A z \in execs : z.waits => Call(z) \in nexts \/ (z \in execs /\ Call(z) \notin R)
      /\ \A r \in nexts : r \notin R => r \in nexts
      /\ \A p \in pendingNext : p.req \notin R /\ Attended(Graphs, execs, p.target) =>
           p \in pendingNext /\ Attended(t, execs, p.target)
  BY <1>2
<1> HIDE DEF R
<1>4. Waiters(t, execs, nexts, pendingNext)
  BY <1>3, WaitersOn DEF WaitersNow
<1> QED
  BY <1>1, <1>4, WaitersNext

LEMMA WaitCollect ==
  ASSUME Unnested, ShapeInv, WaitersNow, CollectReady, Live'
  PROVE  WaitersNow'
PROOF
<1> DEFINE g == IF frames = <<>> THEN Root ELSE Last(frames)
           S == {n \in Graph(g) : Due(Graphs.node[n]) /\ ~IsHost(n)}
           t == Start(Graphs, S)
<1>1. /\ wf' = wf /\ UNCHANGED <<execs, nexts, pendingNext, runStatus>>
      /\ IF Live THEN Install(CollectFrom(Graphs, g)) ELSE UNCHANGED graphVars
  BY DEF CollectReady
<1>2. Live
  BY <1>1 DEF Live
<1>3. wf \in Workflows /\ Shaped(Graphs)
  BY TypedNow
<1>4. CollectFrom(Graphs, g) = t /\ S \subseteq Nodes
  BY Zenon DEF CollectFrom, Graph
<1>5. Install(t)
  BY <1>1, <1>2, <1>4
<1> HIDE DEF S
<1>6. Grows(Graphs, t, {}) /\ Shaped(t)
  BY <1>3, <1>4, StartGrows, Starting
<1> HIDE DEF t
<1> QED
  BY <1>1, <1>5, <1>6, WaitersGrow

\* Executions that change, and what nothing waits for.
LEMMA WaitQuiet ==
  ASSUME WaitersNow, UNCHANGED <<graphVars, pendingNext>>, NEW R,
         \A z \in execs' : z.waits => Call(z) \in nexts' \/ (z \in execs /\ Call(z) \notin R),
         \A r \in nexts : r \notin R => r \in nexts',
         \A y \in execs : \E z \in execs' : z.node = y.node
  PROVE  WaitersNow'
PROOF
<1>1. Graphs' = Graphs
  BY DEF Graphs, graphVars
<1>2. \A n : Attended(Graphs, execs, n) => Attended(Graphs, execs', n)
  BY DEF Attended
<1>3. \A p \in pendingNext : p.req \notin R /\ Attended(Graphs, execs, p.target) =>
        p \in pendingNext' /\ Attended(Graphs, execs', p.target)
  BY <1>2
<1>4. Waiters(Graphs, execs', nexts', pendingNext')
  BY <1>3, WaitersOn DEF WaitersNow
<1> QED
  BY <1>1, <1>4, WaitersNext

LEMMA WaitWorker ==
  ASSUME ShapeInv, WaitersNow, NEW e \in execs,
         CallsNext(e) \/ GivesUp(e) \/ \E st : Reports(e, st)
  PROVE  WaitersNow'
PROOF
<1>1. e \in Execs
  BY DEF ShapeInv
<1>2. UNCHANGED <<graphVars, pendingNext>>
  BY DEF CallsNext, GivesUp, Reports, WorkerOnly
<1> DEFINE R == {}
<1>3. \A r \in nexts : r \notin R => r \in nexts'
  BY DEF CallsNext, GivesUp, Reports
<1>4. /\ \A z \in execs' : z.waits => Call(z) \in nexts' \/ (z \in execs /\ Call(z) \notin R)
      /\ \A y \in execs : \E z \in execs' : z.node = y.node
  <2>1. CASE CallsNext(e)
    <3> DEFINE x == [e EXCEPT !.calls = @ + 1, !.waits = TRUE]
    <3>1. execs' = (execs \ {e}) \cup {x} /\ nexts' = nexts \cup {Call(x)}
      BY <2>1 DEF CallsNext, Becomes
    <3>2. x.node = e.node
      BY <1>1 DEF Execs
    <3> HIDE DEF x
    <3> QED
      BY <3>1, <3>2
  <2>2. CASE GivesUp(e)
    <3> DEFINE x == [e EXCEPT !.waits = FALSE]
    <3>1. execs' = (execs \ {e}) \cup {x}
      BY <2>2 DEF GivesUp, Becomes
    <3>2. x.node = e.node /\ x.waits = FALSE
      BY <1>1 DEF Execs
    <3> HIDE DEF x
    <3> QED
      BY <3>1, <3>2
  <2>3. ASSUME NEW st, Reports(e, st)
        PROVE  /\ \A z \in execs' : z.waits => Call(z) \in nexts' \/ (z \in execs /\ Call(z) \notin R)
               /\ \A y \in execs : \E z \in execs' : z.node = y.node
    <3> DEFINE x == [e EXCEPT !.report = st]
    <3>1. execs' = (execs \ {e}) \cup {x} /\ ~e.waits
      BY <2>3 DEF Reports, Becomes, Busy
    <3>2. x.node = e.node /\ x.waits = e.waits
      BY <1>1 DEF Execs
    <3> HIDE DEF x
    <3> QED
      BY <3>1, <3>2
  <2> QED
    BY <2>1, <2>2, <2>3
<1> HIDE DEF R
<1> QED
  BY <1>2, <1>3, <1>4, WaitQuiet

LEMMA WaitFeedback ==
  ASSUME ShapeInv, WaitersNow, NEW n \in Nodes, ApplyFeedback(n)
  PROVE  WaitersNow'
PROOF
<1> DEFINE t == Found(Graphs, n)
<1>1. /\ Install(t) /\ wf' = wf /\ UNCHANGED <<execs, nexts, pendingNext>>
  BY DEF ApplyFeedback
<1>2. Shaped(t) /\ t.frames = Graphs.frames /\ t.ready = Graphs.ready
  <2>1. wf \in Workflows /\ Shaped(Graphs)
    BY TypedNow
  <2> QED
    BY <2>1, Finding
<1> HIDE DEF t
<1>3. Grows(Graphs, t, {})
  BY <1>2 DEF Grows
<1> QED
  BY <1>1, <1>2, <1>3, WaitersGrow

\* Answers to R, and nothing else.
LEMMA WaitAnswers ==
  ASSUME ShapeInv, WaitersNow, UNCHANGED graphVars, NEW R, execs' = Answer(execs, R),
         \A r \in nexts : r \notin R => r \in nexts',
         \A p \in pendingNext : p.req \notin R => p \in pendingNext'
  PROVE  WaitersNow'
PROOF
<1>1. Graphs' = Graphs
  BY DEF Graphs, graphVars
<1>2. execs \subseteq Execs
  BY DEF ShapeInv
<1>3. /\ \A z \in execs' : \E y \in execs : /\ y.node = z.node /\ y.for = z.for /\ y.report = z.report
                                      /\ y.no = z.no /\ (z.waits => y = z /\ Call(y) \notin R)
      /\ \A y \in execs : \E z \in execs' : z.node = y.node /\ z.no = y.no /\ z.report = y.report
  BY <1>2, AnswerIs
<1>4. \A n : Attended(Graphs, execs, n) => Attended(Graphs, execs', n)
  BY <1>3 DEF Attended
<1>6. \A p \in pendingNext : p.req \notin R /\ Attended(Graphs, execs, p.target) =>
        p \in pendingNext' /\ Attended(Graphs, execs', p.target)
  BY <1>4
<1>7. Waiters(Graphs, execs, nexts, pendingNext) /\ \A r \in nexts : r \notin R => r \in nexts'
  BY DEF WaitersNow
<1>8. ASSUME NEW z \in execs', z.waits
      PROVE  \/ Call(z) \in nexts'
             \/ \E p \in pendingNext' : p.req = Call(z) /\ Attended(Graphs, execs', p.target)
  <2>1. z \in execs /\ Call(z) \notin R
    BY <1>3, <1>8
  <2>2. Call(z) \in nexts \/ \E p \in pendingNext : p.req = Call(z) /\ Attended(Graphs, execs, p.target)
    BY <2>1, <1>7, <1>8 DEF Waiters
  <2> QED
    BY <2>1, <2>2, <1>6, <1>7
<1>9. Waiters(Graphs, execs', nexts', pendingNext')
  BY <1>8 DEF Waiters
<1> QED
  BY <1>1, <1>9, WaitersNext

LEMMA WaitRefuse ==
  ASSUME ShapeInv, WaitersNow, NEW r, RefuseNext(r)
  PROVE  WaitersNow'
PROOF
<1> DEFINE R == {r}
<1>1. /\ execs' = Answer(execs, R) /\ UNCHANGED graphVars
      /\ \A c \in nexts : c \notin R => c \in nexts'
      /\ \A p \in pendingNext : p.req \notin R => p \in pendingNext'
  BY DEF RefuseNext, TakesNext
<1> HIDE DEF R
<1> QED
  BY <1>1, WaitAnswers

LEMMA WaitExpire ==
  ASSUME ShapeInv, WaitersNow, NEW p \in pendingNext, ExpireNext(p)
  PROVE  WaitersNow'
PROOF
<1> DEFINE R == {p.req}
<1>1. \A c \in pendingNext : c.req \notin R => c \in pendingNext'
  BY DEF ExpireNext
<1>2. /\ execs' = Answer(execs, R) /\ UNCHANGED graphVars
      /\ \A c \in nexts : c \notin R => c \in nexts'
  BY DEF ExpireNext
<1> HIDE DEF R
<1> QED
  BY <1>1, <1>2, WaitAnswers

LEMMA WaitSent ==
  ASSUME ShapeInv, WaitersNow, NEW q, Dispatch(q) \/ Refused(q)
  PROVE  WaitersNow'
PROOF
<1> DEFINE n == q.node
           g == [Graphs EXCEPT !.ready = @ \ {q}]
           s == Found(g, n)
           x == [s.node[n] EXCEPT !.status = "running", !.enqueued = FALSE]
           t == Set(s, n, x)
           y == [node |-> q.node, no |-> dispatched[q.node] + 1, for |-> q.for,
                 calls |-> 0, waits |-> FALSE, report |-> "none"]
<1>1. /\ q \in ready /\ Install(t) /\ UNCHANGED <<wf, nexts, pendingNext>>
  BY DEF Dispatch, Refused, Sent, InstallAndRefresh
<1>2. /\ wf \in Workflows /\ Shaped(Graphs)
  BY TypedNow
<1>3. /\ execs \subseteq execs' /\ (\E z \in execs' : z.node = n) /\ \A z \in execs' : z.waits => z \in execs
  <2>1. CASE Dispatch(q)
    <3>1. execs' = execs \cup {y}
      BY <2>1 DEF Dispatch
    <3>2. y.node = n /\ ~y.waits
      OBVIOUS
    <3> HIDE DEF y
    <3> QED
      BY <3>1, <3>2
  <2>2. CASE Refused(q)
    BY <2>2 DEF Refused
  <2> QED
    BY <2>1, <2>2
<1>4. /\ g.node = Graphs.node /\ g.frames = Graphs.frames /\ g.adopted = Graphs.adopted
      /\ g.ready = Graphs.ready \ {q} /\ Shaped(g)
  <2>1. g = [node |-> node, frames |-> frames, adopted |-> adopted, ready |-> ready \ {q}]
    BY DEF Graphs
  <2> HIDE DEF g
  <2>2. /\ g.node = Graphs.node /\ g.frames = Graphs.frames /\ g.adopted = Graphs.adopted
        /\ g.ready = Graphs.ready \ {q}
    BY <2>1, <1>2, Now
  <2>3. g = [node |-> g.node, frames |-> g.frames, adopted |-> g.adopted, ready |-> g.ready]
    BY <2>1
  <2> QED
    BY <2>2, <2>3, <1>2 DEF Shaped
<1> HIDE DEF g
<1>5. q \in Graphs.ready /\ n \in Nodes
  BY <1>1, <1>2, Now DEF Shaped
<1>6. Shaped(s) /\ s.frames = g.frames /\ s.ready = g.ready
  BY <1>2, <1>4, <1>5, Finding
<1>7. x \in NodeStates(n)
  <2>1. s.node[n] \in NodeStates(n)
    BY <1>5, <1>6 DEF Shaped
  <2> HIDE DEF s
  <2> QED
    BY <2>1 DEF NodeStates
<1>8. PICK w \in NodeStates(n) : w = x
  BY <1>7
<1> HIDE DEF x, s
<1>9. Shaped(t) /\ t.frames = s.frames /\ t.ready = s.ready
  <2> DEFINE u == Set(s, n, w)
  <2>1. Shaped(u) /\ u.frames = s.frames /\ u.ready = s.ready
    BY <1>5, <1>6, SetOne
  <2>2. u = t
    BY <1>8
  <2> HIDE DEF u, t
  <2> QED
    BY <2>1, <2>2
<1> HIDE DEF t
<1>10. ASSUME NEW m, Attended(Graphs, execs, m)
       PROVE  Attended(t, execs', m)
  <2>1. CASE m = n
    BY <2>1, <1>3 DEF Attended
  <2>2. CASE m # n
    BY <2>2, <1>3, <1>4, <1>6, <1>9, <1>10 DEF Attended
  <2> QED
    BY <2>1, <2>2
<1> HIDE DEF n
<1> DEFINE R == {}
<1>11. /\ \A z \in execs' : z.waits => Call(z) \in nexts' \/ (z \in execs /\ Call(z) \notin R)
       /\ \A r \in nexts : r \notin R => r \in nexts'
       /\ \A p \in pendingNext : p.req \notin R /\ Attended(Graphs, execs, p.target) =>
            p \in pendingNext' /\ Attended(t, execs', p.target)
  BY <1>1, <1>3, <1>10
<1> HIDE DEF R
<1>12. Waiters(t, execs', nexts', pendingNext')
  BY <1>11, WaitersOn DEF WaitersNow
<1>13. Graphs' = t
  BY <1>1, <1>9, Installed
<1> QED
  BY <1>12, <1>13, WaitersNext

LEMMA WaitNext ==
  ASSUME Unnested, ShapeInv, WaitersNow, NEW r, HandleNext(r)
  PROVE  WaitersNow'
PROOF
<1> DEFINE t == NextTarget(r.node)
           x == Requeued(node[t])
           q == Set(Graphs, t, x)
           s == IF IsContainer(t) THEN Open(q, {t}) ELSE Enqueue(q, {t}, r)
           new == [req |-> r, target |-> t]
<1>1. /\ r \in nexts /\ nexts' = nexts \ {r} /\ wf' = wf
      /\ Install(s) /\ pendingNext' = pendingNext \cup {new}
      /\ execs' = Answer(execs, {r}) \/ execs' = execs
  BY DEF HandleNext, TakesNext
<1>2. /\ wf \in Workflows /\ Shaped(Graphs) /\ execs \subseteq Execs
  BY TypedNow
<1>3. r \in Calls /\ r.node \in Nodes /\ IsMiddleware(r.node)
  BY <1>1 DEF ShapeInv, Calls
<1>4. t \in Nodes
  BY <1>2, <1>3, Following
<1> HIDE DEF t
<1>5. x \in NodeStates(t)
  <2>1. node[t] \in NodeStates(t)
    BY <1>4 DEF ShapeInv
  <2>2. x = [node[t] EXCEPT !.status = IF @ \in Final \cup {"running"} THEN "queued" ELSE @,
                            !.enqueued = FALSE, !.blocked = FALSE]
    BY Zenon DEF Requeued
  <2> HIDE DEF x
  <2> QED
    BY <2>1, <2>2 DEF NodeStates
<1>6. PICK z \in NodeStates(t) : z = x
  BY <1>5
<1> HIDE DEF x
<1>7. Shaped(q) /\ q.frames = Graphs.frames /\ q.ready = Graphs.ready
  <2> DEFINE u == Set(Graphs, t, z)
  <2>1. Shaped(u) /\ u.frames = Graphs.frames /\ u.ready = Graphs.ready
    BY <1>2, <1>4, SetOne
  <2>2. u = q
    BY <1>6
  <2> HIDE DEF u, q
  <2> QED
    BY <2>1, <2>2
<1> HIDE DEF q
<1>8. PICK S : S = {t}
  OBVIOUS
<1>9. Shaped(s) /\ Grows(q, s, {}) /\ \A X : Attended(s, X, t)
  <2>1. CASE IsContainer(t)
    <3> DEFINE v == Open(q, S)
    <3>1. S \subseteq wf.containers
      BY <2>1, <1>8 DEF IsContainer
    <3>2. Shaped(v) /\ ToSet(q.frames) \subseteq ToSet(v.frames)
      BY <3>1, <1>2, <1>7, Opening
    <3>3. q.ready \subseteq v.ready
      BY <3>1, <1>2, <1>7, OpensReady
    <3>4. t \in ToSet(v.frames)
      BY <3>1, <1>2, <1>7, <1>8, OpensFrames
    <3>5. v = s
      BY <2>1, <1>8
    <3> HIDE DEF v, s
    <3> QED
      BY <3>2, <3>3, <3>4, <3>5 DEF Grows, Attended
  <2>2. CASE ~IsContainer(t)
    <3> DEFINE v == Enqueue(q, S, r)
    <3>1. S \subseteq Nodes /\ r \in Calls \cup {None}
      BY <1>3, <1>4, <1>8
    <3>2. Shaped(v) /\ v.frames = q.frames
      BY <3>1, <1>7, Enqueues
    <3>3. q.ready \subseteq v.ready
      BY <3>1, <1>7, EnqueuesReady
    <3>4. Request(t, r) \in v.ready
      BY <3>1, <1>7, <1>8, EnqueuedReady
    <3>5. v = s
      BY <2>2, <1>8
    <3> HIDE DEF v, s
    <3>6. Request(t, r).node = t
      BY DEF Request
    <3> QED
      BY <3>2, <3>3, <3>4, <3>5, <3>6 DEF Grows, Attended
  <2> QED
    BY <2>1, <2>2
<1> HIDE DEF s
<1>10. Grows(Graphs, s, {})
  BY <1>7, <1>9 DEF Grows
<1>11. /\ \A e \in execs' : e.waits => e \in execs
       /\ \A y \in execs : \E e \in execs' : e.node = y.node
  <2>1. CASE execs' = execs
    BY <2>1
  <2>2. CASE execs' = Answer(execs, {r})
    <3> DEFINE R == {r}
    <3> HIDE DEF R
    <3>1. execs' = Answer(execs, R)
      BY <2>2 DEF R
    <3>2. /\ \A e \in execs' : \E y \in execs : /\ y.node = e.node /\ y.for = e.for /\ y.report = e.report
                                          /\ y.no = e.no /\ (e.waits => y = e /\ Call(y) \notin R)
          /\ \A y \in execs : \E e \in execs' : e.node = y.node /\ e.no = y.no /\ e.report = y.report
      BY <3>1, <1>2, AnswerIs
    <3> QED
      BY <3>2
  <2> QED
    BY <2>1, <2>2, <1>1
<1>12. ASSUME NEW n, Attended(Graphs, execs, n)
       PROVE  Attended(s, execs', n)
  <2>1. Attended(s, execs, n)
    BY <1>10, <1>12, GrowsAttended
  <2> QED
    BY <2>1, <1>11 DEF Attended
<1>13. ASSUME NEW e \in execs', e.waits
       PROVE  \/ Call(e) \in nexts'
              \/ \E p \in pendingNext' : p.req = Call(e) /\ Attended(s, execs', p.target)
  <2>1. e \in execs
    BY <1>11, <1>13
  <2>2. CASE Call(e) = r
    <3>1. new \in pendingNext' /\ new.req = r /\ new.target = t
      BY <1>1
    <3> QED
      BY <3>1, <2>2, <1>9
  <2>3. CASE Call(e) # r /\ Call(e) \in nexts
    BY <2>3, <1>1
  <2>4. CASE Call(e) \notin nexts
    <3>1. PICK p \in pendingNext : p.req = Call(e) /\ Attended(Graphs, execs, p.target)
      BY <2>1, <2>4, <1>13 DEF WaitersNow, Waiters
    <3> QED
      BY <3>1, <1>1, <1>12
  <2> QED
    BY <2>2, <2>3, <2>4
<1>14. Waiters(s, execs', nexts', pendingNext')
  BY <1>13 DEF Waiters
<1>15. Graphs' = s
  BY <1>1, <1>9, Installed
<1> QED
  BY <1>14, <1>15, WaitersNext

LEMMA WaitResult ==
  ASSUME Unnested, ShapeInv, WaitersNow, NEW e \in execs, HandleResult(e), Live'
  PROVE  WaitersNow'
PROOF
<1> DEFINE n == e.node
           s0 == Found(Graphs, n)
           s == AfterReport(s0, n, e.report)
           t == CloseAfter(s, n)
           over == AskedFor({n} \cup ClosedWith(s, n))
<1>1. /\ UNCHANGED <<wf, nexts>> /\ e.report \in Good \cup {"failed"}
      /\ IF ~Live
         THEN execs' = execs \ {e} /\ UNCHANGED <<graphVars, runStatus, pendingNext>>
         ELSE /\ InstallAndRefresh(t)
              /\ pendingNext' = pendingNext \ over
              /\ execs' = Answer(execs \ {e}, Reqs(over))
  BY DEF HandleResult, Handled
<1>2. Live
  BY <1>1 DEF Live
<1>3. /\ wf \in Workflows /\ Shaped(Graphs) /\ execs \subseteq Execs /\ n \in Nodes
  BY TypedNow DEF ShapeInv, Execs
<1>4. Shaped(s0) /\ s0.frames = Graphs.frames /\ s0.ready = Graphs.ready
  BY <1>3, Finding
<1> HIDE DEF s0
<1>5. Grows(s0, s, {}) /\ Shaped(s)
  BY <1>1, <1>3, <1>4, ReportGrows, ReportDone
<1>6. ~RunFails(t) /\ Install(t)
  <2> HIDE DEF t
  <2> QED
    BY <1>1, <1>2, Fails
<1>7. Shaped(t)
  <2>1. CASE Closes(s, n)
    <3>1. t = Close(s, wf.graph[n]) /\ wf.graph[n] \in wf.containers
      BY <2>1, <1>3, Flow, Zenon DEF CloseAfter, Closes
    <3> HIDE DEF s
    <3> QED
      BY <3>1, <1>3, <1>5, Closing
  <2>2. CASE ~Closes(s, n)
    <3>1. t = s
      BY <2>2, Zenon DEF CloseAfter
    <3> HIDE DEF s, t
    <3> QED
      BY <3>1, <1>5
  <2> QED
    BY <2>1, <2>2
<1>8. PICK C : C = ClosedWith(s, n)
  OBVIOUS
<1>9. over = {p \in pendingNext : p.target \in {n} \cup C}
  BY <1>8, Zenon DEF AskedFor
<1> HIDE DEF s
<1>10. Grows(s, t, C)
  BY <1>3, <1>5, <1>6, <1>8, CloseGrows
<1> HIDE DEF t, over
<1>11. Grows(Graphs, t, C)
  BY <1>4, <1>5, <1>10 DEF Grows
<1>12. PICK R, Y : R = Reqs(over) /\ Y = execs \ {e}
  OBVIOUS
<1>13. execs' = Answer(Y, R) /\ Y \subseteq Execs /\ pendingNext' = pendingNext \ over /\ nexts' = nexts
  BY <1>1, <1>2, <1>3, <1>12
<1>14. /\ \A z \in execs' : \E y \in Y : /\ y.node = z.node /\ y.for = z.for /\ y.report = z.report
                                      /\ y.no = z.no /\ (z.waits => y = z /\ Call(y) \notin R)
       /\ \A y \in Y : \E z \in execs' : z.node = y.node /\ z.no = y.no /\ z.report = y.report
  BY <1>13, AnswerIs
<1>15. ASSUME NEW m, Attended(Graphs, execs, m), m # n, m \notin C
       PROVE  Attended(t, execs', m)
  <2>1. Attended(t, execs, m)
    BY <1>11, <1>15, GrowsAttended
  <2> QED
    BY <2>1, <1>12, <1>14, <1>15 DEF Attended
<1> HIDE DEF n
<1>16. \A p \in pendingNext : p.req \notin R => p \notin over
  BY <1>12 DEF Reqs
<1>17. \A p \in pendingNext : p.req \notin R /\ Attended(Graphs, execs, p.target) =>
         p \in pendingNext' /\ Attended(t, execs', p.target)
  BY <1>9, <1>13, <1>15, <1>16
<1>18. /\ \A z \in execs' : z.waits => Call(z) \in nexts' \/ (z \in execs /\ Call(z) \notin R)
       /\ \A r \in nexts : r \notin R => r \in nexts'
  BY <1>12, <1>13, <1>14
<1>19. Waiters(t, execs', nexts', pendingNext')
  BY <1>17, <1>18, WaitersOn DEF WaitersNow
<1>20. Graphs' = t
  BY <1>1, <1>6, <1>7, Installed
<1> QED
  BY <1>19, <1>20, WaitersNext

\* What is no success is one of the faults.
LEMMA ReportsFault ==
  ASSUME ShapeInv, [Next]_vars, \A e \in execs : Faulted(e.report, faults)
  PROVE  \A e \in execs' : Faulted(e.report, faults')
PROOF
<1>1. faults \subseteq faults'
  BY FaultsGrow
<1>2. execs \subseteq Execs
  BY DEF ShapeInv
<1> DEFINE Old == \A z \in execs' : \E y \in execs : y.report = z.report
           New == \A e \in execs' : Faulted(e.report, faults')
<1>0. \A e \in execs : Faulted(e.report, faults')
  BY <1>1 DEF Faulted
<1>3. Old => New
  BY <1>0
<1>4. ASSUME NEW R, NEW Y, Y \subseteq execs, execs' = Answer(Y, R) PROVE Old
  <2>1. \A z \in execs' : \E y \in Y : /\ y.node = z.node /\ y.for = z.for /\ y.report = z.report
                                   /\ y.no = z.no /\ (z.waits => y = z /\ Call(y) \notin R)
    BY <1>2, <1>4, AnswerIs
  <2> QED
    BY <2>1, <1>4
<1>5. execs' \subseteq execs => Old
  OBVIOUS
<1>6. CASE UNCHANGED vars
  <2>1. execs' = execs
    BY <1>6 DEF vars
  <2> QED
    BY <2>1, <1>3
<1>7. CASE CollectReady \/ (\E q \in ready : DropRequest(q) \/ Refused(q)) \/ (\E f \in late : LateFeedback(f))
           \/ (\E n \in blank : RejectBlank(n))
  <2>1. execs' = execs
    BY <1>7 DEF CollectReady, DropRequest, Refused, LateFeedback, ApplyFeedback, RejectBlank
  <2> QED
    BY <2>1, <1>3
<1>8. CASE CancelRun
  <2>1. Old
    BY <1>4, <1>8 DEF CancelRun
  <2> QED
    BY <2>1, <1>3
<1>9. ASSUME NEW q \in ready, Dispatch(q)
      PROVE  New
  <2> DEFINE y == [node |-> q.node, no |-> dispatched[q.node] + 1, for |-> q.for,
                   calls |-> 0, waits |-> FALSE, report |-> "none"]
  <2>1. execs' = execs \cup {y}
    BY <1>9 DEF Dispatch
  <2>2. y.report = "none"
    OBVIOUS
  <2> HIDE DEF y
  <2> QED
    BY <2>1, <2>2, <1>0 DEF Faulted
<1>10. ASSUME NEW e \in execs, CallsNext(e) \/ GivesUp(e)
       PROVE  New
  <2>1. PICK x : x.report = e.report /\ execs' = (execs \ {e}) \cup {x}
    <3>1. CASE CallsNext(e)
      <4> DEFINE v == [e EXCEPT !.calls = @ + 1, !.waits = TRUE]
      <4>1. execs' = (execs \ {e}) \cup {v}
        BY <3>1 DEF CallsNext, Becomes
      <4>2. v.report = e.report
        BY <1>2 DEF Execs
      <4> HIDE DEF v
      <4> QED
        BY <4>1, <4>2
    <3>2. CASE GivesUp(e)
      <4> DEFINE v == [e EXCEPT !.waits = FALSE]
      <4>1. execs' = (execs \ {e}) \cup {v}
        BY <3>2 DEF GivesUp, Becomes
      <4>2. v.report = e.report
        BY <1>2 DEF Execs
      <4> HIDE DEF v
      <4> QED
        BY <4>1, <4>2
    <3> QED
      BY <3>1, <3>2, <1>10
  <2> QED
    BY <2>1, <1>0
<1>11. ASSUME NEW e \in execs, Feedback(e) \/ LeavesFeedback(e)
       PROVE  execs' = execs
  BY <1>11 DEF Feedback, LeavesFeedback, ApplyFeedback
<1>12. ASSUME NEW e \in execs, NEW st \in Good \cup {"failed", "interrupted", "error"}, Reports(e, st)
       PROVE  New
  <2> DEFINE v == [e EXCEPT !.report = st]
  <2>1. execs' = (execs \ {e}) \cup {v}
    BY <1>12 DEF Reports, Becomes
  <2>2. v.report = st
    BY <1>2 DEF Execs
  <2> HIDE DEF v
  <2>3. Faulted(st, faults')
    BY <1>12 DEF Reports, Fault, Faulted
  <2> QED
    BY <2>1, <2>2, <2>3, <1>0
<1>13. ASSUME NEW e \in execs, HandleResult(e) \/ HandleInterrupted(e) \/ HandleError(e)
       PROVE  Old
  <2> DEFINE Y == execs \ {e}
  <2>1. CASE HandleInterrupted(e) \/ HandleError(e)
    BY <2>1 DEF HandleInterrupted, HandleError
  <2>2. CASE HandleResult(e)
    <3>1. execs' = Y \/ \E R : execs' = Answer(Y, R)
      BY <2>2 DEF HandleResult
    <3>2. Y \subseteq execs
      OBVIOUS
    <3> HIDE DEF Y
    <3> QED
      BY <3>1, <3>2, <1>4
  <2> QED
    BY <2>1, <2>2, <1>13
<1>14. ASSUME NEW r \in nexts, RefuseNext(r) \/ HandleNext(r)
       PROVE  Old
  <2>1. execs' = execs \/ \E R : execs' = Answer(execs, R)
    BY <1>14 DEF RefuseNext, HandleNext
  <2> QED
    BY <2>1, <1>4
<1>15. ASSUME NEW p \in pendingNext, ExpireNext(p)
       PROVE  Old
  BY <1>4, <1>15 DEF ExpireNext
<1> HIDE DEF Old
<1>16. CASE Next
  <2>1. CASE \E e \in execs :
               \/ CallsNext(e) \/ GivesUp(e)
               \/ \E st \in Good \cup {"failed", "interrupted", "error"} : Reports(e, st)
               \/ HandleResult(e) \/ HandleInterrupted(e) \/ HandleError(e)
               \/ Feedback(e) \/ LeavesFeedback(e)
    BY <2>1, <1>3, <1>5, <1>10, <1>11, <1>12, <1>13
  <2> QED
    BY <2>1, <1>3, <1>7, <1>8, <1>9, <1>14, <1>15, <1>16, Zenon DEF Next
<1> QED
  BY <1>6, <1>16

LEMMA WaitStep ==
  ASSUME Unnested, ShapeInv, WaiterInv, [Next]_vars
  PROVE  WaiterInv'
PROOF
<1>1. \A e \in execs' : Faulted(e.report, faults')
  BY ReportsFault DEF WaiterInv
<1> SUFFICES ASSUME Live', Without({"interrupted", "error"})' PROVE WaitersNow'
  BY <1>1 DEF WaiterInv
<1>2. Live /\ faults \subseteq faults'
  BY LiveBefore, FaultsGrow
<1>3. Without({"interrupted", "error"})
  BY <1>2 DEF Without
<1>4. WaitersNow /\ "interrupted" \notin faults /\ "error" \notin faults
  BY <1>2, <1>3 DEF WaiterInv, Without
<1>5. CASE UNCHANGED vars
  <2>1. Graphs' = Graphs /\ UNCHANGED <<execs, nexts, pendingNext>>
    BY <1>5 DEF vars, Graphs, graphVars
  <2> QED
    BY <2>1, <1>4, WaitersNext DEF WaitersNow
<1>6. CASE CollectReady
  BY <1>4, <1>6, WaitCollect
<1>7. CASE CancelRun
  BY <1>7 DEF CancelRun, Live, Final
<1>8. CASE \E q \in ready : DropRequest(q)
  BY <1>2, <1>8 DEF DropRequest
<1>9. CASE \E q \in ready : Dispatch(q) \/ Refused(q)
  BY <1>4, <1>9, WaitSent
<1>10. ASSUME NEW e \in execs, CallsNext(e) \/ GivesUp(e) \/ \E st : Reports(e, st)
       PROVE  WaitersNow'
  BY <1>4, <1>10, WaitWorker
<1>11. ASSUME NEW e \in execs, Feedback(e)
       PROVE  WaitersNow'
  <2>1. e.node \in Nodes /\ ApplyFeedback(e.node)
    BY <1>11 DEF Feedback, ShapeInv, Execs
  <2> QED
    BY <2>1, <1>4, WaitFeedback
<1>12. ASSUME NEW e \in execs, LeavesFeedback(e)
       PROVE  WaitersNow'
  <2>1. Graphs' = Graphs /\ UNCHANGED <<execs, nexts, pendingNext>>
    BY <1>12 DEF LeavesFeedback, Graphs, graphVars
  <2> QED
    BY <2>1, <1>4, WaitersNext DEF WaitersNow
<1>13. ASSUME NEW e \in execs, HandleResult(e)
       PROVE  WaitersNow'
  BY <1>4, <1>13, WaitResult
<1>14. ASSUME NEW e \in execs, HandleInterrupted(e)
       PROVE  FALSE
  BY <1>4, <1>14 DEF HandleInterrupted, Handled, ShapeInv, CollectsInTime
<1>15. ASSUME NEW e \in execs, HandleError(e)
       PROVE  FALSE
  BY <1>4, <1>15 DEF HandleError, Handled, WaiterInv, Faulted
<1>16. ASSUME NEW f \in late, LateFeedback(f)
       PROVE  WaitersNow'
  <2>1. f.node \in Nodes /\ ApplyFeedback(f.node)
    BY <1>16 DEF LateFeedback, ShapeInv
  <2> QED
    BY <2>1, <1>4, WaitFeedback
<1>17. ASSUME NEW r \in nexts, RefuseNext(r) \/ HandleNext(r)
       PROVE  WaitersNow'
  BY <1>4, <1>17, WaitRefuse, WaitNext
<1>18. ASSUME NEW p \in pendingNext, ExpireNext(p)
       PROVE  WaitersNow'
  BY <1>4, <1>18, WaitExpire
<1>19. ~\E n \in blank : RejectBlank(n)
  BY Rejecting
<1> QED
  BY <1>5, <1>6, <1>7, <1>8, <1>9, <1>10, <1>11, <1>12, <1>13, <1>14, <1>15, <1>16, <1>17, <1>18, <1>19,
     Zenon DEF Next

---------------------------------------------------------------------------
(* Frames last until all in them has ended. *)

\* The inductive part of StackCoherent: nothing shadows a node, and something
\* in each frame has still to end.
FrameInv ==
  Live /\ Without({"timeout", "late_feedback"}) =>
    /\ adopted = {} /\ late = {}
    /\ \A c \in ToSet(frames) : \E n \in Graph(c) : node[n].status \notin Final

LEMMA LateStays ==
  ASSUME ShapeInv, [Next]_vars, "late_feedback" \notin faults'
  PROVE  late' \subseteq late /\ wf' = wf
PROOF
<1>1. CASE UNCHANGED vars
  BY <1>1 DEF vars
<1>2. CASE CollectReady \/ CancelRun
  BY <1>2 DEF CollectReady, CancelRun
<1>3. CASE \E q \in ready : DropRequest(q) \/ Dispatch(q) \/ Refused(q)
  BY <1>3 DEF DropRequest, Dispatch, Refused, Sent
<1>4. ASSUME NEW e \in execs, CallsNext(e) \/ GivesUp(e) \/ Feedback(e) \/ LeavesFeedback(e)
      PROVE  late' \subseteq late /\ wf' = wf
  <2>1. ~LeavesFeedback(e)
    BY DEF LeavesFeedback, Fault
  <2> QED
    BY <2>1, <1>4 DEF CallsNext, GivesUp, Feedback, ApplyFeedback, WorkerOnly
<1>5. ASSUME NEW e \in execs, NEW st \in Good \cup {"failed", "interrupted", "error"}, Reports(e, st)
      PROVE  late' \subseteq late /\ wf' = wf
  BY <1>5 DEF Reports, WorkerOnly
<1>6. ASSUME NEW e \in execs, HandleResult(e) \/ HandleInterrupted(e) \/ HandleError(e)
      PROVE  late' \subseteq late /\ wf' = wf
  BY <1>6 DEF HandleResult, HandleInterrupted, HandleError, Handled
<1>7. CASE \E f \in late : LateFeedback(f)
  BY <1>7 DEF LateFeedback, ApplyFeedback
<1>8. CASE \E r \in nexts : RefuseNext(r) \/ HandleNext(r)
  BY <1>8 DEF RefuseNext, HandleNext, TakesNext
<1>9. CASE \E p \in pendingNext : ExpireNext(p)
  BY <1>9 DEF ExpireNext
<1>10. CASE \E n \in blank : RejectBlank(n)
  BY <1>10 DEF RejectBlank
<1> QED
  BY <1>1, <1>2, <1>3, <1>4, <1>5, <1>6, <1>7, <1>8, <1>9, <1>10, Zenon DEF Next

LEMMA FrameStep ==
  ASSUME Unnested, FramesStart, ShapeInv, ShapeInv', ChainInv, FrameInv, [Next]_vars
  PROVE  FrameInv'
PROOF
<1> SUFFICES ASSUME Live', Without({"timeout", "late_feedback"})'
             PROVE  (/\ adopted = {} /\ late = {}
                     /\ \A c \in ToSet(frames) : \E n \in Graph(c) : node[n].status \notin Final)'
  BY DEF FrameInv
<1>1. Without({"timeout"})' /\ "late_feedback" \notin faults'
  BY DEF Without
<1>2. Live /\ ToldNow /\ Carries
  BY <1>1, ChainStep
<1>3. faults \subseteq faults'
  BY FaultsGrow
<1>4. Without({"timeout", "late_feedback"})
  BY <1>3 DEF Without
<1>5. adopted = {} /\ late = {} /\ \A c \in ToSet(frames) : \E n \in Graph(c) : node[n].status \notin Final
  BY <1>2, <1>4 DEF FrameInv
<1>6. late' = {} /\ wf' = wf
  BY <1>1, <1>5, LateStays
<1>7. adopted' = {} /\ Lasting(Graphs, Graphs')
  BY <1>2, <1>5 DEF Carries
<1>8. PICK s, t : s = Graphs /\ t = Graphs'
  OBVIOUS
<1>9. wf \in Workflows /\ s.frames = frames /\ s.node = node
  BY <1>8, TypedNow, Now
<1>10. t.frames = frames' /\ t.node = node'
  BY <1>8 DEF Graphs
<1>11. PICK D : /\ Statuses(s, t, D)
                /\ \A c \in ToSet(t.frames) : D \cap Graph(c) # {} =>
                     \E n \in Graph(c) : t.node[n].status \notin Final
  BY <1>7, <1>8 DEF Lasting
<1>12. frames' \in Seq(wf.containers)
  BY <1>6 DEF ShapeInv
<1>13. ASSUME NEW c \in ToSet(frames')
       PROVE  \E n \in Graph(c) : node'[n].status \notin Final
  <2>1. c \in wf.containers
    BY <1>12 DEF ToSet
  <2>2. CASE D \cap Graph(c) # {}
    BY <2>2, <1>10, <1>11
  <2>3. CASE D \cap Graph(c) = {} /\ c \in ToSet(frames)
    <3>1. PICK n \in Graph(c) : node[n].status \notin Final
      BY <2>3, <1>5
    <3>2. n \in Nodes \ D /\ Held(s, n) /\ Held(t, n)
      BY <2>3, <1>9, <1>10 DEF Graph, Held, Active
    <3>3. t.node[n].status = s.node[n].status \/ t.node[n].status = "running"
      BY <3>2, <1>11 DEF Statuses
    <3> QED
      BY <3>1, <3>3, <1>9, <1>10 DEF Final
  <2>4. CASE D \cap Graph(c) = {} /\ c \notin ToSet(frames)
    <3>1. PICK n \in Nodes : wf.graph[n] = c
      BY <2>1, <1>9 DEF FramesStart, Nodes
    <3>2. c # Root
      BY <2>1, <1>9, Apart
    <3>3. n \in Nodes \ D /\ ~Held(s, n) /\ Held(t, n) /\ n \in Graph(c)
      BY <2>4, <3>1, <3>2, <1>9, <1>10 DEF Graph, Held, Active
    <3>4. t.node[n].status \in {"queued", "running"}
      BY <3>3, <1>11 DEF Statuses
    <3> QED
      BY <3>3, <3>4, <1>10 DEF Final
  <2> QED
    BY <2>2, <2>3, <2>4
<1>14. \A g : Graph(g)' = Graph(g)
  BY <1>6, Rigid
<1> QED
  BY <1>6, <1>7, <1>13, <1>14

\* Without late feedback and timeouts no node is adopted, and each frame lasts.
LEMMA FramesLast ==
  ASSUME Unnested, FramesStart
  PROVE  Spec => []FrameInv
PROOF
<1>1. Init => FrameInv
  <2> SUFFICES ASSUME Init PROVE FrameInv
    OBVIOUS
  <2>1. frames = <<>> /\ adopted = {} /\ late = {}
    BY DEF Init
  <2>2. ToSet(frames) = {}
    BY <2>1 DEF ToSet
  <2> QED
    BY <2>1, <2>2 DEF FrameInv
<1>2. ShapeInv /\ ShapeInv' /\ ChainInv /\ FrameInv /\ [Next]_vars => FrameInv'
  BY FrameStep
<1> QED
  BY <1>1, <1>2, ShapeKept, ChainsTold, PTL DEF Spec

\* The stack of frames is coherent in every reachable state: each frame is there
\* once, above the one its container is in, the container runs, something in it
\* has still to end, and no failure is left behind (frames.py).
THEOREM FramesStayCoherent ==
  ASSUME Unnested, FramesStart
  PROVE  Spec => []FramesCoherent
PROOF
<1>1. ShapeInv /\ ChainInv /\ FrameInv /\ FailureSurfaces => FramesCoherent
  <2> SUFFICES ASSUME ShapeInv, ChainInv, FrameInv, FailureSurfaces,
                      Live, Without({"timeout", "late_feedback"}), NEW i \in DOMAIN frames
               PROVE  /\ \A j \in DOMAIN frames : frames[j] = frames[i] => j = i
                      /\ wf.graph[frames[i]] = Root
                      /\ node[frames[i]].status = "running"
                      /\ ~FrameOver(Graphs, frames[i])
    BY Zenon DEF FramesCoherent, StackCoherent
  <2>1. wf \in Workflows /\ Graphs.frames = frames /\ Graphs.node = node /\ frames \in Seq(wf.containers)
    BY TypedNow, Now DEF ShapeInv
  <2>2. ToldNow
    BY DEF ChainInv, Without
  <2>3. FramesTold(Graphs)
    BY <2>2 DEF ToldNow, Told, Claimed
  <2>4. PICK c : c = frames[i]
    OBVIOUS
  <2>5. c \in ToSet(frames) /\ c \in wf.containers
    BY <2>1, <2>4 DEF ToSet
  <2>6. wf.graph[c] = Root
    BY <2>1, <2>5, Apart
  <2>7. node[c].status = "running" /\ \A j \in DOMAIN frames : frames[j] = frames[i] => j = i
    BY <2>1, <2>3, <2>5 DEF FramesTold
  <2>8. ~FrameFailed(Graphs, c)
    <3> SUFFICES ASSUME NEW n \in Graph(c), node[n].status = "failed" PROVE FALSE
      BY <2>1 DEF FrameFailed
    <3>1. n \in Nodes /\ Present(Graphs, n)
      BY <2>1, <2>5 DEF Graph, Present, Active
    <3> QED
      BY <3>1 DEF FailureSurfaces
  <2>9. \E n \in Graph(c) : node[n].status \notin Final
    BY <2>5 DEF FrameInv
  <2>10. ~FrameOver(Graphs, c)
    BY <2>1, <2>8, <2>9 DEF FrameOver
  <2> QED
    BY <2>4, <2>6, <2>7, <2>10
<1> QED
  BY <1>1, ShapeKept, ChainsTold, FramesLast, FailuresSurface, PTL DEF Spec

---------------------------------------------------------------------------
(* Chains are coherent. *)

\* A host, or a middleware inside a chain, is on its way or running only while
\* the one before it waits.
LEMMA InsideIs ==
  ASSUME ShapeInv, Unnested, ToldNow, NEW n \in Nodes, Started(n), Within(n)
  PROVE  \E e \in execs : e.node = CallerOf(n) /\ e.waits
PROOF
<1>1. /\ wf \in Workflows /\ Shaped(Graphs) /\ Graphs.frames = frames /\ Graphs.ready = ready
  BY TypedNow, Now
<1>2. Told(Graphs, execs, nexts, pendingNext) /\ Claimed(Graphs, execs)
  BY DEF ToldNow, Told
<1>4. Held(Graphs, n) /\ Astir(Graphs.node[n])
  <2>1. CASE \E q \in ready : q.node = n
    BY <2>1, <1>1, <1>2 DEF Claimed, ReadyTold, Astir
  <2>2. CASE \E e \in execs : e.node = n
    BY <2>2, <1>2 DEF Claimed, ExecsTold, Astir
  <2>3. CASE n \in ToSet(frames)
    <3>1. n \in wf.containers
      BY <2>3, <1>1 DEF Shaped, ToSet
    <3>2. wf.graph[n] = Root
      BY <3>1, <1>1, Apart
    <3> QED
      BY <2>3, <3>2, <1>1, <1>2 DEF Claimed, FramesTold, Astir, Held, Active
  <2> QED
    BY <2>1, <2>2, <2>3 DEF Started, Runs
<1>5. CallerOf(n) \in Callers(n)
  BY <1>1, Called
<1> QED
  BY <1>2, <1>4, <1>5 DEF Told

\* Chains and their pending next requests agree in every reachable state: the
\* inner part moves only for a middleware that waits, whoever waits is
\* remembered, and is answered by the execution it asked for (next.py,
\* pending.py).  Late feedback can have a node of a frame requested with nobody in
\* next(), a request that fails the run; without late feedback none is made, for
\* no node is adopted (feedback.py, models.py, dispatch.py).
THEOREM ChainsStayCoherent ==
  ASSUME Unnested, FramesStart
  PROVE  Spec => []ChainsCoherent
PROOF
<1>1. Init => WaiterInv
  BY DEF Init, WaiterInv, WaitersNow, Waiters
<1>2. ShapeInv /\ WaiterInv /\ [Next]_vars => WaiterInv'
  BY WaitStep
<1>3. ShapeInv /\ ChainInv /\ WaiterInv /\ FrameInv => ChainsCoherent
  <2> SUFFICES ASSUME ShapeInv, ChainInv, WaiterInv, FrameInv PROVE ChainsCoherent
    OBVIOUS
  <2>1. Live /\ Without({"timeout"}) => ToldNow
    BY DEF ChainInv
  <2>2. InsideNext
    <3>1. ASSUME Live, Without({"timeout"}), NEW n \in Nodes, Started(n), Within(n)
          PROVE  \E e \in execs : e.node = CallerOf(n) /\ e.waits
      BY <2>1, <3>1, InsideIs
    <3>2. ASSUME Live, Without({"timeout"}), Without({"late_feedback"})
          PROVE  blank = {}
      <4>1. Without({"timeout", "late_feedback"})
        BY <3>2 DEF Without
      <4> QED
        BY <4>1, <3>2 DEF FrameInv, ShapeInv
    <3> QED
      BY <3>1, <3>2 DEF InsideNext, Within
  <2>3. WaiterRemembered
    <3>1. Live /\ Without({"interrupted", "error"}) => WaitersNow
      BY DEF WaiterInv
    <3>2. Graphs.frames = frames /\ Graphs.ready = ready
      BY Now
    <3>3. \A n : Attended(Graphs, execs, n) => Started(n) \/ \E x \in execs : x.node = n
      BY <3>2 DEF Attended, Started, Runs
    <3> QED
      BY <3>1, <3>3 DEF WaitersNow, Waiters, WaiterRemembered
  <2>4. AnswerIsOwn
    BY <2>1 DEF ToldNow, Told, AnswerIsOwn
  <2> QED
    BY <2>2, <2>3, <2>4 DEF ChainsCoherent
<1> QED
  BY <1>1, <1>2, <1>3, ShapeKept, ChainsTold, FramesLast, PTL DEF Spec

---------------------------------------------------------------------------
(* Nothing runs before what it depends on. *)

\* What n depends on and has not ended well.
Undone(s, n) == {d \in DepsOf(n) : s.node[d].status \notin Good}

\* A node that is on its way, running, or has ended well.
Goes(x) == x.enqueued = TRUE \/ x.status \in {"running"} \cup Good

\* No counter is below the number of dependencies undone, and what goes has none.
Counts(s, n) == /\ Cardinality(Undone(s, n)) <= s.node[n].pending
                /\ Goes(s.node[n]) => Undone(s, n) = {}

\* A host ends well with its outermost middleware.
HostsEnd(s) ==
  \A n \in Nodes : Held(s, n) /\ IsHost(n) /\ n \notin s.adopted /\ s.node[n].status \in Good =>
    s.node[wf.chain[n][1]].status \in Good

Ordered(s) == (\A n \in Nodes : Held(s, n) => Counts(s, n)) /\ HostsEnd(s)

\* As much has ended well before and after.
Level(s, t) ==
  \A n \in Nodes : Held(s, n) => Held(t, n) /\ (t.node[n].status \in Good <=> s.node[n].status \in Good)

\* Who depends on n is in its graph, and no dependency is a middleware.
LEMMA DepsAre ==
  ASSUME wf \in Workflows, NEW n \in Nodes
  PROVE  /\ IsFiniteSet(DepsOf(n)) /\ Cardinality(DepsOf(n)) \in Nat
         /\ \A d \in DepsOf(n) : d \in Nodes /\ wf.graph[d] = wf.graph[n] /\ n \in Dependents(d)
PROOF
<1>1. DepsOf(n) \subseteq Nodes /\ Cardinality(DepsOf(n)) \in Nat
  BY Waits_
<1>2. IsFiniteSet(DepsOf(n))
  BY <1>1, Flow, FS_Subset
<1>3. ASSUME NEW d \in DepsOf(n)
      PROVE  d \in Nodes /\ wf.graph[d] = wf.graph[n] /\ n \in Dependents(d)
  <2>1. d \in Nodes /\ n \in Dependents(d)
    BY <1>1 DEF Dependents
  <2> QED
    BY <2>1, Neighbours
<1> QED
  BY <1>1, <1>2, <1>3

LEMMA UndoneIs ==
  ASSUME wf \in Workflows, NEW n \in Nodes, NEW s
  PROVE  /\ IsFiniteSet(Undone(s, n)) /\ Cardinality(Undone(s, n)) \in Nat
         /\ Cardinality(Undone(s, n)) <= Cardinality(DepsOf(n))
         /\ (Cardinality(Undone(s, n)) = 0 <=> Undone(s, n) = {})
         /\ (Cardinality(DepsOf(n)) = 0 => Undone(s, n) = {})
PROOF
<1>1. IsFiniteSet(DepsOf(n)) /\ Cardinality(DepsOf(n)) \in Nat
  BY DepsAre
<1>2. Undone(s, n) \subseteq DepsOf(n)
  BY DEF Undone
<1>3. IsFiniteSet(Undone(s, n)) /\ Cardinality(Undone(s, n)) <= Cardinality(DepsOf(n))
  BY <1>1, <1>2, FS_Subset
<1>4. Cardinality(Undone(s, n)) \in Nat
  BY <1>3, FS_CardinalityType
<1>5. Cardinality(Undone(s, n)) = 0 <=> Undone(s, n) = {}
  BY <1>3, FS_EmptySet
<1>6. Cardinality(DepsOf(n)) = 0 => Undone(s, n) = {}
  BY <1>1, <1>2, FS_EmptySet
<1> QED
  BY <1>3, <1>4, <1>5, <1>6

LEMMA UndoneSame ==
  ASSUME wf \in Workflows, NEW n \in Nodes, NEW s, NEW t, Held(s, n), Level(s, t)
  PROVE  Undone(t, n) = Undone(s, n)
PROOF
<1>1. \A d \in DepsOf(n) : d \in Nodes /\ wf.graph[d] = wf.graph[n]
  BY DepsAre
<1>2. \A d \in DepsOf(n) : Held(s, d)
  BY <1>1 DEF Held
<1>3. \A d \in DepsOf(n) : t.node[d].status \in Good <=> s.node[d].status \in Good
  BY <1>1, <1>2 DEF Level
<1> QED
  BY <1>3 DEF Undone

\* Nothing undone without counters.
LEMMA NoneUndone ==
  ASSUME wf \in Workflows, NEW n \in Nodes, NEW s, Held(s, n), Ordered(s), s.node[n].pending = 0
  PROVE  Undone(s, n) = {}
PROOF
<1>1. Cardinality(Undone(s, n)) <= 0 /\ Cardinality(Undone(s, n)) \in Nat
  BY UndoneIs DEF Ordered, Counts
<1> QED
  BY <1>1, UndoneIs

\* A node that keeps its counter, and starts only when nothing is left to count.
Steady(s, t, n) ==
  \/ Held(s, n) /\ t.node[n].pending = s.node[n].pending
     /\ (Goes(t.node[n]) => Goes(s.node[n]) \/ s.node[n].pending = 0)
  \/ ~Held(s, n) /\ t.node[n].status = "queued" /\ t.node[n].pending = Cardinality(DepsOf(n))
     /\ (t.node[n].enqueued = TRUE => t.node[n].pending = 0)

\* A stage that ends nothing and counts nothing keeps the order.
LEMMA OrderedOn ==
  ASSUME wf \in Workflows, NEW s, NEW t, Ordered(s), Level(s, t), s.adopted \subseteq t.adopted,
         \A n \in Nodes : Held(t, n) => Steady(s, t, n)
  PROVE  Ordered(t)
PROOF
<1>1. ASSUME NEW n \in Nodes, Held(t, n)
      PROVE  Counts(t, n)
  <2>1. CASE Held(s, n)
    <3>1. Undone(t, n) = Undone(s, n)
      BY <2>1, UndoneSame
    <3>2. Counts(s, n)
      BY <2>1 DEF Ordered
    <3>3. t.node[n].pending = s.node[n].pending /\ (Goes(t.node[n]) => Goes(s.node[n]) \/ s.node[n].pending = 0)
      BY <1>1, <2>1 DEF Steady
    <3>4. s.node[n].pending = 0 => Undone(s, n) = {}
      BY <2>1, NoneUndone
    <3> QED
      BY <3>1, <3>2, <3>3, <3>4 DEF Counts
  <2>2. CASE ~Held(s, n)
    <3>1. /\ t.node[n].status = "queued" /\ t.node[n].pending = Cardinality(DepsOf(n))
          /\ (t.node[n].enqueued = TRUE => t.node[n].pending = 0)
      BY <1>1, <2>2 DEF Steady
    <3>2. Cardinality(Undone(t, n)) <= Cardinality(DepsOf(n)) /\ (Cardinality(DepsOf(n)) = 0 => Undone(t, n) = {})
      BY UndoneIs
    <3>3. Goes(t.node[n]) => t.node[n].enqueued = TRUE
      BY <3>1 DEF Goes, Good
    <3> QED
      BY <3>1, <3>2, <3>3 DEF Counts
  <2> QED
    BY <2>1, <2>2
<1>2. ASSUME NEW n \in Nodes, Held(t, n), IsHost(n), n \notin t.adopted, t.node[n].status \in Good
      PROVE  t.node[wf.chain[n][1]].status \in Good
  <2>1. Held(s, n) /\ s.node[n].status \in Good
    BY <1>2 DEF Steady, Level, Good
  <2>2. s.node[wf.chain[n][1]].status \in Good
    BY <1>2, <2>1 DEF Ordered, HostsEnd
  <2>3. wf.chain[n][1] \in Nodes /\ wf.graph[wf.chain[n][1]] = wf.graph[n]
    BY <1>2, Members
  <2>4. Held(s, wf.chain[n][1])
    BY <2>1, <2>3 DEF Held
  <2> QED
    BY <2>2, <2>3, <2>4 DEF Level
<1> QED
  BY <1>1, <1>2 DEF Ordered, HostsEnd

LEMMA EnqueueOrdered ==
  ASSUME wf \in Workflows, NEW s, Shaped(s), NEW S, S \subseteq Nodes, NEW r \in Calls \cup {None},
         Ordered(s), \A n \in S : s.node[n].pending = 0
  PROVE  Ordered(Enqueue(s, S, r)) /\ Level(s, Enqueue(s, S, r))
PROOF
<1> DEFINE t == Enqueue(s, S, r)
<1>1. /\ t.ready = s.ready \cup {Request(n, r) : n \in S}
      /\ \A m \in Nodes :
           /\ t.node[m].status = s.node[m].status /\ t.node[m].pending = s.node[m].pending
           /\ t.node[m].blocked = s.node[m].blocked
           /\ m \notin S => t.node[m].enqueued = s.node[m].enqueued
           /\ m \in S => t.node[m].enqueued = TRUE
  BY EnqueueIs
<1>2. t.adopted = s.adopted /\ \A g : Active(t, g) = Active(s, g)
  BY Enqueues
<1> HIDE DEF t
<1>3. \A n : Held(t, n) = Held(s, n)
  BY <1>2, Stages_, Zenon
<1>4. Level(s, t)
  BY <1>1, <1>3 DEF Level
<1>5. \A n \in Nodes : Held(t, n) => Steady(s, t, n)
  BY <1>1, <1>3 DEF Steady, Goes
<1>6. s.adopted \subseteq t.adopted
  BY <1>2
<1>7. Ordered(t)
  BY <1>4, <1>5, <1>6, OrderedOn
<1> QED
  BY <1>4, <1>7 DEF t

LEMMA OpenOrdered ==
  ASSUME wf \in Workflows, Unnested, NEW s, Shaped(s), NEW C, C \subseteq wf.containers,
         FramesTold(s), Ordered(s), \A c \in C : Loose(s.node[c]) /\ s.node[c].pending = 0
  PROVE  Ordered(Open(s, C)) /\ Level(s, Open(s, C))
PROOF
<1> DEFINE t == Open(s, C)
<1>0. /\ \E o \in Seq(wf.containers) :
           /\ ToSet(o) = C /\ \A i, j \in DOMAIN o : o[i] = o[j] => i = j
           /\ t.frames = s.frames \o o
      /\ t.ready = s.ready \cup {Request(n, None) : n \in News(C)}
      /\ \A m \in Nodes :
           /\ m \in C => /\ t.node[m].status = "running" /\ t.node[m].enqueued = TRUE
                         /\ t.node[m].blocked = s.node[m].blocked
                         /\ t.node[m].pending = s.node[m].pending
           /\ wf.graph[m] \in C => /\ t.node[m].status = "queued"
                                   /\ t.node[m].blocked = NewNode(m).blocked
                                   /\ t.node[m].pending = Cardinality(DepsOf(m))
                                   /\ m \in News(C) => t.node[m].enqueued = TRUE
                                   /\ m \notin News(C) => t.node[m].enqueued = FALSE
           /\ m \notin C /\ wf.graph[m] \notin C =>
                /\ t.node[m].status = s.node[m].status /\ t.node[m].blocked = s.node[m].blocked
                /\ t.node[m].pending = s.node[m].pending
                /\ t.node[m].enqueued = s.node[m].enqueued
  BY OpenIs
<1>1. t.adopted = s.adopted
  BY Opening
<1> HIDE DEF t
<1>2. PICK o \in Seq(wf.containers) :
        /\ ToSet(o) = C /\ \A i, j \in DOMAIN o : o[i] = o[j] => i = j
        /\ t.frames = s.frames \o o
  BY <1>0, Zenon
<1>3. \A m \in Nodes :
        /\ m \in C => /\ t.node[m].status = "running" /\ t.node[m].enqueued = TRUE
                      /\ t.node[m].blocked = s.node[m].blocked
                      /\ t.node[m].pending = s.node[m].pending
        /\ wf.graph[m] \in C => /\ t.node[m].status = "queued"
                                /\ t.node[m].blocked = NewNode(m).blocked
                                /\ t.node[m].pending = Cardinality(DepsOf(m))
                                /\ m \in News(C) => t.node[m].enqueued = TRUE
                                /\ m \notin News(C) => t.node[m].enqueued = FALSE
        /\ m \notin C /\ wf.graph[m] \notin C =>
             /\ t.node[m].status = s.node[m].status /\ t.node[m].blocked = s.node[m].blocked
             /\ t.node[m].pending = s.node[m].pending
             /\ t.node[m].enqueued = s.node[m].enqueued
  BY <1>0, Zenon
<1>4. s.frames \in Seq(wf.containers) /\ ToSet(t.frames) = ToSet(s.frames) \cup C
  BY <1>2, Grown DEF Shaped
<1>5. \A c \in C : c \notin ToSet(s.frames)
  BY DEF FramesTold, Loose
<1>6. \A n : Held(t, n) <=> Held(s, n) \/ wf.graph[n] \in C
  BY <1>4 DEF Held, Active
<1>7. \A n : Held(s, n) => wf.graph[n] \notin C
  BY <1>5, Apart DEF Held, Active
<1>8. \A n \in Nodes : wf.graph[n] \in C => n \notin C
  BY Apart
<1>9. ASSUME NEW n \in News(C)
      PROVE  Cardinality(DepsOf(n)) = 0
  <2>1. PICK c \in C : n \in Starts(c)
    BY Zenon DEF News
  <2>2. NewNode(n).pending = 0
    BY <2>1 DEF Starts, Due
  <2> QED
    BY <2>2 DEF NewNode
<1>10. Level(s, t)
  <2> SUFFICES ASSUME NEW n \in Nodes, Held(s, n)
               PROVE  Held(t, n) /\ (t.node[n].status \in Good <=> s.node[n].status \in Good)
    BY DEF Level
  <2>1. CASE n \in C
    BY <2>1, <1>3, <1>6 DEF Loose, Good
  <2>2. CASE n \notin C
    BY <2>2, <1>3, <1>6, <1>7
  <2> QED
    BY <2>1, <2>2
<1>11. ASSUME NEW n \in Nodes, Held(t, n)
       PROVE  Steady(s, t, n)
  <2>1. CASE n \in C
    <3>1. Held(s, n)
      BY <2>1, <1>6, <1>8, <1>11
    <3> QED
      BY <2>1, <3>1, <1>3 DEF Steady
  <2>2. CASE wf.graph[n] \in C
    <3>1. ~Held(s, n)
      BY <2>2, <1>7
    <3>2. t.node[n].enqueued = TRUE => n \in News(C)
      BY <2>2, <1>3
    <3> QED
      BY <2>2, <3>1, <3>2, <1>3, <1>9 DEF Steady
  <2>3. CASE n \notin C /\ wf.graph[n] \notin C
    <3>1. Held(s, n)
      BY <2>3, <1>6, <1>11
    <3> QED
      BY <2>3, <3>1, <1>3 DEF Steady, Goes
  <2> QED
    BY <2>1, <2>2, <2>3
<1>12. s.adopted \subseteq t.adopted
  BY <1>1
<1>13. Ordered(t)
  BY <1>10, <1>11, <1>12, OrderedOn
<1> QED
  BY <1>10, <1>13 DEF t

LEMMA LevelTwice ==
  ASSUME NEW s, NEW t, NEW u, Level(s, t), Level(t, u)
  PROVE  Level(s, u)
PROOF
  BY DEF Level

LEMMA StartOrdered ==
  ASSUME wf \in Workflows, Unnested, NEW s, Shaped(s), NEW S, S \subseteq Nodes,
         NEW X, Claimed(s, X), \A e \in X : e.node \in Nodes, Ordered(s),
         \A n \in S : Held(s, n) /\ Loose(s.node[n]) /\ s.node[n].pending = 0
  PROVE  Ordered(Start(s, S)) /\ Level(s, Start(s, S))
PROOF
<1> DEFINE C == S \cap wf.containers
           t == Open(s, C)
           R == S \ wf.containers
           u == Enqueue(t, R, None)
<1>1. C \subseteq wf.containers /\ R \subseteq Nodes /\ \A n \in C : Loose(s.node[n]) /\ s.node[n].pending = 0
  OBVIOUS
<1>2. Start(s, S) = u
  BY Zenon DEF Start
<1>3. \A n \in R : n \in Nodes /\ n \notin C /\ Held(s, n) /\ s.node[n].pending = 0
  OBVIOUS
<1> HIDE DEF C, R
<1>4. /\ Claimed(t, X) /\ Onward(s, t, {}) /\ s.ready \subseteq t.ready
      /\ \A n : Held(s, n) => Held(t, n)
      /\ \A n \in Nodes : Held(s, n) /\ n \notin C => t.node[n].status = s.node[n].status
           /\ t.node[n].blocked = s.node[n].blocked /\ t.node[n].enqueued = s.node[n].enqueued
           /\ t.node[n].pending = s.node[n].pending
  BY <1>1, OpenClaims
<1>5. Shaped(t)
  BY <1>1, Opening
<1>6. Ordered(t) /\ Level(s, t)
  BY <1>1, OpenOrdered DEF Claimed
<1> HIDE DEF t
<1>7. \A n \in R : t.node[n].pending = 0
  BY <1>3, <1>4
<1>8. None \in Calls \cup {None}
  OBVIOUS
<1>9. Ordered(u) /\ Level(t, u)
  BY <1>1, <1>5, <1>6, <1>7, <1>8, EnqueueOrdered
<1> HIDE DEF u
<1> QED
  BY <1>2, <1>6, <1>9, LevelTwice

\* A dependent of n that waits counts more than what is undone.
Spare(s, n) ==
  \A u \in Dependents(n) : Held(s, u) /\ s.node[u].status = "queued" /\ s.node[u].pending > 0 =>
    Cardinality(Undone(s, u)) < s.node[u].pending

LEMMA CountOrdered ==
  ASSUME wf \in Workflows, NEW s, Shaped(s), NEW n, Ordered(s), Spare(s, n)
  PROVE  Ordered(CountedDown(s, n)) /\ Level(s, CountedDown(s, n))
PROOF
<1> DEFINE t == CountedDown(s, n)
<1>1. /\ t.ready = s.ready
      /\ \A m \in Nodes :
           /\ t.node[m].status = s.node[m].status /\ t.node[m].blocked = s.node[m].blocked
           /\ t.node[m].enqueued = s.node[m].enqueued
           /\ m \notin Dependents(n) => t.node[m].pending = s.node[m].pending
           /\ m \in Dependents(n) /\ s.node[m].status = "queued" /\ s.node[m].pending > 0 =>
                t.node[m].pending = s.node[m].pending - 1
           /\ ~(s.node[m].status = "queued" /\ s.node[m].pending > 0) =>
                t.node[m].pending = s.node[m].pending
  BY CountIs
<1>2. t.frames = s.frames /\ t.adopted = s.adopted
  BY Counting
<1> HIDE DEF t
<1>3. \A m : Held(t, m) = Held(s, m)
  BY <1>2, Zenon DEF Held, Active
<1>4. Level(s, t)
  BY <1>1, <1>3 DEF Level
<1>5. ASSUME NEW m \in Nodes, Held(t, m)
      PROVE  Counts(t, m)
  <2>1. Held(s, m) /\ Counts(s, m) /\ Undone(t, m) = Undone(s, m)
    BY <1>3, <1>4, <1>5, UndoneSame DEF Ordered
  <2>2. Goes(t.node[m]) => Goes(s.node[m])
    BY <1>1 DEF Goes
  <2>3. Cardinality(Undone(s, m)) \in Nat
    BY UndoneIs
  <2>4. s.node[m].pending \in Int
    <3>1. s.node[m] \in NodeStates(m) /\ Cardinality(DepsOf(m)) \in Nat
      BY DepsAre DEF Shaped
    <3> QED
      BY <3>1 DEF NodeStates
  <2>5. Cardinality(Undone(s, m)) <= t.node[m].pending
    <3>1. CASE m \in Dependents(n) /\ s.node[m].status = "queued" /\ s.node[m].pending > 0
      <4>1. Cardinality(Undone(s, m)) < s.node[m].pending
        BY <3>1, <2>1 DEF Spare
      <4>2. t.node[m].pending = s.node[m].pending - 1
        BY <3>1, <1>1
      <4> QED
        BY <4>1, <4>2, <2>3, <2>4
    <3>2. CASE ~(m \in Dependents(n) /\ s.node[m].status = "queued" /\ s.node[m].pending > 0)
      BY <3>2, <1>1, <2>1 DEF Counts
    <3> QED
      BY <3>1, <3>2
  <2> QED
    BY <2>1, <2>2, <2>5 DEF Counts
<1>6. ASSUME NEW m \in Nodes, Held(t, m), IsHost(m), m \notin t.adopted, t.node[m].status \in Good
      PROVE  t.node[wf.chain[m][1]].status \in Good
  <2>1. wf.chain[m][1] \in Nodes
    BY <1>6, Members
  <2> QED
    BY <2>1, <1>1, <1>2, <1>3, <1>6 DEF Ordered, HostsEnd
<1>7. Ordered(t)
  BY <1>5, <1>6 DEF Ordered, HostsEnd
<1> QED
  BY <1>4, <1>7 DEF t

LEMMA ReleaseOrdered ==
  ASSUME wf \in Workflows, Unnested, NEW s, Shaped(s), NEW n \in Nodes, Held(s, n),
         NEW X, Claimed(s, X), \A e \in X : e.node \in Nodes, Ordered(s), Spare(s, n)
  PROVE  Ordered(Release(s, n)) /\ Level(s, Release(s, n))
PROOF
<1> DEFINE c == CountedDown(s, n)
           S == {u \in Dependents(n) : Due(c.node[u])}
<1>1. Release(s, n) = Start(c, S)
  BY Zenon DEF Release
<1>2. Advances(s, c, X, {}) /\ Shaped(c) /\ Ordered(c) /\ Level(s, c)
  BY CountClaims, Counting, CountOrdered
<1> HIDE DEF c
<1>3. \A u \in Nodes : c.node[u].enqueued \in BOOLEAN /\ c.node[u].blocked \in BOOLEAN
  BY <1>2 DEF Shaped, NodeStates
<1>4. ASSUME NEW u \in S
      PROVE  u \in Nodes /\ Held(c, u) /\ Loose(c.node[u]) /\ c.node[u].pending = 0
  <2>1. u \in Dependents(n) /\ Due(c.node[u])
    OBVIOUS
  <2>2. u \in Nodes /\ wf.graph[u] = wf.graph[n]
    BY <2>1, Neighbours
  <2>3. Held(s, u)
    BY <2>2 DEF Held
  <2> QED
    BY <2>1, <2>2, <2>3, <1>2 DEF Advances, Due, Loose
<1> HIDE DEF S
<1>5. S \subseteq Nodes /\ Claimed(c, X)
  BY <1>2, <1>4 DEF Advances
<1>6. Ordered(Start(c, S)) /\ Level(c, Start(c, S))
  BY <1>2, <1>4, <1>5, StartOrdered
<1> QED
  BY <1>1, <1>2, <1>6, LevelTwice

LEMMA CollectOrdered ==
  ASSUME wf \in Workflows, Unnested, NEW s, Shaped(s), NEW g, Active(s, g),
         NEW X, Claimed(s, X), \A e \in X : e.node \in Nodes, Ordered(s)
  PROVE  Ordered(CollectFrom(s, g))
PROOF
<1> DEFINE S == {n \in Graph(g) : Due(s.node[n]) /\ ~IsHost(n)}
<1>1. CollectFrom(s, g) = Start(s, S)
  BY Zenon DEF CollectFrom
<1>2. ASSUME NEW n \in S
      PROVE  n \in Nodes /\ Held(s, n) /\ Loose(s.node[n]) /\ s.node[n].pending = 0
  BY DEF Graph, Held, Due, Loose
<1>3. S \subseteq Nodes
  BY <1>2
<1> HIDE DEF S
<1>4. Ordered(Start(s, S))
  BY <1>2, <1>3, StartOrdered
<1> QED
  BY <1>1, <1>4

LEMMA UndoneLess ==
  ASSUME wf \in Workflows, NEW n \in Nodes, NEW s, NEW t, Undone(t, n) \subseteq Undone(s, n)
  PROVE  /\ Cardinality(Undone(t, n)) <= Cardinality(Undone(s, n))
         /\ Undone(s, n) = {} => Undone(t, n) = {}
         /\ Undone(t, n) # Undone(s, n) => Cardinality(Undone(t, n)) < Cardinality(Undone(s, n))
PROOF
<1>1. PICK S, T : S = Undone(s, n) /\ T = Undone(t, n)
  OBVIOUS
<1>2. IsFiniteSet(S) /\ Cardinality(S) \in Nat /\ Cardinality(T) \in Nat
  BY <1>1, UndoneIs
<1>3. T \in SUBSET S
  BY <1>1
<1>4. Cardinality(T) <= Cardinality(S) /\ (Cardinality(S) = Cardinality(T) => S = T)
  BY <1>2, <1>3, FS_Subset
<1> QED
  BY <1>1, <1>2, <1>3, <1>4

\* A node whose dependencies are done ends, or starts over when none depends on it.
LEMMA SetOrdered ==
  ASSUME wf \in Workflows, NEW s, Shaped(s), NEW n \in Nodes, NEW x \in NodeStates(n), Ordered(s),
         Held(s, n), Undone(s, n) = {},
         s.node[n].status \in Good => x.status \in Good \/ (Dependents(n) = {} /\ ~Outermost(n)),
         IsHost(n) /\ n \notin s.adopted /\ x.status \in Good => s.node[wf.chain[n][1]].status \in Good
  PROVE  /\ Ordered(Set(s, n, x))
         /\ s.node[n].status \notin Good /\ x.status \in Good => Spare(Set(s, n, x), n)
PROOF
<1> DEFINE t == Set(s, n, x)
<1>1. /\ Shaped(t) /\ t.node[n] = x /\ \A m \in Nodes : m # n => t.node[m] = s.node[m]
      /\ t.frames = s.frames /\ t.adopted = s.adopted
  <2>1. /\ Shaped(t) /\ t.node[n] = x /\ \A m \in Nodes \ {n} : t.node[m] = s.node[m]
        /\ t.frames = s.frames /\ t.adopted = s.adopted
    BY SetOne
  <2> HIDE DEF t
  <2> QED
    BY <2>1
<1> HIDE DEF t
<1>2. \A m : Held(t, m) = Held(s, m)
  BY <1>1, Zenon DEF Held, Active
<1>3. ASSUME NEW m \in Nodes
      PROVE  Undone(t, m) \subseteq Undone(s, m)
  <2> SUFFICES ASSUME NEW d \in DepsOf(m), t.node[d].status \notin Good
               PROVE  s.node[d].status \notin Good
    BY DEF Undone
  <2>1. d \in Nodes /\ m \in Dependents(d)
    BY DepsAre
  <2>2. CASE d = n
    BY <2>1, <2>2, <1>1
  <2>3. CASE d # n
    BY <2>1, <2>3, <1>1
  <2> QED
    BY <2>2, <2>3
<1>4. ASSUME NEW m \in Nodes, Held(t, m)
      PROVE  Counts(t, m)
  <2>1. /\ Cardinality(Undone(t, m)) <= Cardinality(Undone(s, m))
        /\ Undone(s, m) = {} => Undone(t, m) = {}
    BY <1>3, UndoneLess
  <2>2. Counts(s, m)
    BY <1>2, <1>4 DEF Ordered
  <2>3. CASE m = n
    <3>1. Undone(t, m) = {}
      BY <2>1, <2>3
    <3>2. Cardinality(Undone(t, m)) = 0
      BY <3>1, UndoneIs
    <3>3. x.pending >= 0
      BY DepsAre DEF NodeStates
    <3> QED
      BY <2>3, <3>1, <3>2, <3>3, <1>1 DEF Counts
  <2>4. CASE m # n
    <3>1. t.node[m] = s.node[m]
      BY <2>4, <1>1
    <3>2. Cardinality(Undone(t, m)) \in Nat /\ Cardinality(Undone(s, m)) \in Nat
      BY UndoneIs
    <3>3. s.node[m].pending \in Int
      <4>1. s.node[m] \in NodeStates(m) /\ Cardinality(DepsOf(m)) \in Nat
        BY DepsAre DEF Shaped
      <4> QED
        BY <4>1 DEF NodeStates
    <3> QED
      BY <2>1, <2>2, <3>1, <3>2, <3>3 DEF Counts
  <2> QED
    BY <2>3, <2>4
<1>5. ASSUME NEW m \in Nodes, Held(t, m), IsHost(m), m \notin t.adopted, t.node[m].status \in Good
      PROVE  t.node[wf.chain[m][1]].status \in Good
  <2>1. PICK l : l = wf.chain[m][1]
    OBVIOUS
  <2>2. /\ l \in Nodes /\ l # m /\ IsMiddleware(l) /\ ChainIndex(l) = 1
    BY <2>1, <1>5, Members
  <2>3. Outermost(l)
    BY <2>2 DEF Outermost
  <2>4. s.node[l].status \in Good
    <3>1. CASE m = n
      BY <3>1, <2>1, <1>1, <1>5
    <3>2. CASE m # n
      BY <3>2, <2>1, <1>1, <1>2, <1>5 DEF Ordered, HostsEnd
    <3> QED
      BY <3>1, <3>2
  <2>5. t.node[l].status \in Good
    BY <2>2, <2>3, <2>4, <1>1
  <2> QED
    BY <2>1, <2>5
<1>6. Ordered(t)
  BY <1>4, <1>5 DEF Ordered, HostsEnd
<1>7. ASSUME s.node[n].status \notin Good, x.status \in Good
      PROVE  Spare(t, n)
  <2> SUFFICES ASSUME NEW u \in Dependents(n), Held(t, u)
               PROVE  Cardinality(Undone(t, u)) < t.node[u].pending
    BY DEF Spare
  <2>1. u \in Nodes /\ n \in DepsOf(u)
    BY DEF Dependents
  <2>2. n \in Undone(s, u) /\ n \notin Undone(t, u)
    BY <2>1, <1>1, <1>7 DEF Undone
  <2>3. u # n
    BY <2>2
  <2>4. Cardinality(Undone(t, u)) < Cardinality(Undone(s, u))
    BY <2>1, <2>2, <1>3, UndoneLess
  <2>5. Cardinality(Undone(s, u)) <= s.node[u].pending /\ t.node[u] = s.node[u]
    BY <2>1, <2>3, <1>1, <1>2 DEF Ordered, Counts
  <2>6. Cardinality(Undone(t, u)) \in Nat /\ Cardinality(Undone(s, u)) \in Nat
    BY <2>1, UndoneIs
  <2>7. s.node[u].pending \in Int
    <3>1. s.node[u] \in NodeStates(u) /\ Cardinality(DepsOf(u)) \in Nat
      BY <2>1, DepsAre DEF Shaped
    <3> QED
      BY <3>1 DEF NodeStates
  <2> QED
    BY <2>4, <2>5, <2>6, <2>7
<1> QED
  BY <1>6, <1>7 DEF t

\* A result that is no skip ends a node before those that depend on it, and its
\* host after the outermost middleware.
LEMMA ReportOrdered ==
  ASSUME wf \in Workflows, Unnested, EdgesOfHosts, NEW s, Shaped(s), NEW n \in Nodes, Held(s, n),
         NEW st \in Good \cup {"failed"}, st # "skipped", st \in Good \/ Hosting(s, n),
         NEW X, Claimed(s, X), \A e \in X : e.node \in Nodes /\ e.node # n,
         n \notin ToSet(s.frames), \A q \in s.ready : q.node # n,
         IsMiddleware(n) => ~Astir(s.node[HostOf(n)]),
         s.node[n].status = "running", Ordered(s)
  PROVE  Ordered(AfterReport(s, n, st))
PROOF
<1> DEFINE x    == Reported(s, n, st)
           own  == Set(s, n, x)
           next == IF st \in Good /\ ~Hosting(s, n) /\ n \notin s.adopted THEN Release(own, n) ELSE own
           t    == AfterReport(s, n, st)
           h    == HostOf(n)
           y    == [status |-> st, pending |-> 0, enqueued |-> FALSE, blocked |-> FALSE]
           done == Set(next, h, y)
           last == IF st \in Good THEN Release(done, h) ELSE done
<1>1. x \in NodeStates(n)
  BY Reporting
<1>2. /\ ~Astir(x) /\ (~Hosting(s, n) => x.status \in Good) /\ (Hosting(s, n) => x.status \notin Good)
  <2>1. CASE Hosting(s, n)
    <3>1. x = [status |-> IF st = "skipped" THEN st ELSE "queued",
               pending |-> 0, enqueued |-> FALSE, blocked |-> TRUE]
      BY <2>1, Zenon DEF Reported
    <3> QED
      BY <3>1, <2>1 DEF Astir, Good
  <2>2. CASE ~Hosting(s, n) /\ Chained(s, n)
    <3>1. x = [status |-> st, pending |-> IF st \in Good THEN 0 ELSE s.node[n].pending,
               enqueued |-> FALSE, blocked |-> st \notin Good]
      BY <2>2, Zenon DEF Reported
    <3> QED
      BY <3>1, <2>2 DEF Astir, Good
  <2>3. CASE ~Hosting(s, n) /\ ~Chained(s, n)
    <3>1. x = [s.node[n] EXCEPT !.status = st, !.enqueued = FALSE]
      BY <2>3, Zenon DEF Reported
    <3>2. s.node[n] \in NodeStates(n)
      BY DEF Shaped
    <3>3. x.status = st
      BY <3>1, <3>2 DEF NodeStates
    <3> QED
      BY <3>3, <2>3 DEF Astir, Good
  <2> QED
    BY <2>1, <2>2, <2>3
<1> HIDE DEF x
<1>3. Undone(s, n) = {}
  BY DEF Ordered, Counts, Goes
<1>4. /\ Claimed(own, X) /\ own.node[n] = x /\ Shaped(own) /\ own.adopted = s.adopted
      /\ (\A m \in Nodes : m # n => own.node[m] = s.node[m]) /\ \A m : Held(own, m) = Held(s, m)
  <2>1. PICK z \in NodeStates(n) : z = x
    BY <1>1
  <2> DEFINE u == Set(s, n, z)
  <2> HIDE DEF own, next, t, h, y, done, last
  <2>2. /\ Claimed(u, X) /\ u.node[n] = z /\ \A m \in Nodes : m # n => u.node[m] = s.node[m]
        /\ Shaped(u) /\ u.frames = s.frames /\ u.ready = s.ready /\ u.adopted = s.adopted
        /\ \A m : Held(u, m) = Held(s, m)
    BY SetUnclaimed
  <2>3. own = u
    BY <2>1 DEF own
  <2> QED
    BY <2>1, <2>2, <2>3
<1>5. Ordered(own) /\ (x.status \in Good => Spare(own, n))
  <2>1. PICK z \in NodeStates(n) : z = x
    BY <1>1
  <2>2. s.node[n].status \notin Good
    BY DEF Good
  <2>3. IsHost(n) /\ n \notin s.adopted => z.status \notin Good
    BY <2>1, <1>2 DEF Hosting
  <2> DEFINE u == Set(s, n, z)
  <2> HIDE DEF own, next, t, h, y, done, last
  <2>4. Ordered(u) /\ (s.node[n].status \notin Good /\ z.status \in Good => Spare(u, n))
    BY <2>2, <2>3, <1>3, SetOrdered
  <2>5. own = u
    BY <2>1 DEF own
  <2> QED
    BY <2>1, <2>2, <2>4, <2>5
<1> HIDE DEF own
<1>6. Ordered(next) /\ Level(own, next) /\ Advances(own, next, X, {}) /\ Shaped(next)
  <2>1. CASE next = own
    <3>1. Level(own, own)
      BY DEF Level
    <3> QED
      BY <2>1, <3>1, <1>4, <1>5, AdvancesNot
  <2>2. CASE next = Release(own, n) /\ ~Hosting(s, n)
    <3>1. Held(own, n) /\ Spare(own, n)
      BY <2>2, <1>2, <1>4, <1>5
    <3>2. \A e \in X : e.node \in Nodes
      OBVIOUS
    <3>3. Advances(own, Release(own, n), X, {}) /\ Shaped(Release(own, n))
      BY <3>1, <3>2, <1>4, ReleaseClaims, Releasing
    <3>4. Ordered(Release(own, n)) /\ Level(own, Release(own, n))
      BY <3>1, <3>2, <1>4, <1>5, ReleaseOrdered
    <3> QED
      BY <2>2, <3>3, <3>4
  <2> QED
    BY <2>1, <2>2
<1> HIDE DEF next
<1>7. ~EndsHost(s, n, st) => t = next
  BY Zenon DEF AfterReport, next, own, x
<1>8. EndsHost(s, n, st) => t = last
  BY Zenon DEF AfterReport, EndHost, next, own, x
<1> HIDE DEF t, done
<1>9. CASE ~EndsHost(s, n, st)
  BY <1>6, <1>7, <1>9 DEF t
<1>10. CASE EndsHost(s, n, st)
  <2>1. /\ IsMiddleware(n) /\ Outermost(n) /\ ~Hosting(s, n) /\ s.node[h].status \notin Final
    <3>1. IsMiddleware(n) /\ Outermost(n) /\ s.node[h].status \notin Final
      BY <1>10 DEF EndsHost, Chained
    <3>2. ~IsHost(n)
      BY <3>1, Place
    <3> QED
      BY <3>1, <3>2 DEF Hosting
  <2>2. /\ h \in Nodes /\ IsHost(h) /\ wf.graph[h] = wf.graph[n] /\ h # n
        /\ wf.chain[h][1] = n
    <3>1. h \in Nodes /\ IsHost(h) /\ wf.graph[h] = wf.graph[n] /\ wf.chain[h][ChainIndex(n)] = n /\ ~IsHost(n)
      BY <2>1, Place
    <3> QED
      BY <3>1, <2>1 DEF Outermost
  <2>3. st \in Good
    BY <2>1
  <2>4. Held(own, h) /\ Held(own, n) /\ Held(next, h) /\ Held(next, n)
    BY <2>2, <1>4, <1>6 DEF Held, Level
  <2>5. next.node[n].status \in Good
    BY <2>1, <2>4, <1>2, <1>4, <1>6 DEF Level
  <2>6. next.node[h].status \notin Good
    BY <2>1, <2>2, <2>4, <1>4, <1>6 DEF Level, Good, Final
  <2>7. Undone(next, h) = {}
    <3> SUFFICES ASSUME NEW d \in DepsOf(h) PROVE next.node[d].status \in Good
      BY DEF Undone
    <3>1. ~IsMiddleware(h)
      BY <2>2, Members
    <3>2. d \in wf.deps[h]
      BY <3>1 DEF DepsOf, Outermost
    <3>3. ~IsMiddleware(d)
      BY <2>2, <3>2 DEF EdgesOfHosts, IsMiddleware, Nodes
    <3>4. d \in Nodes /\ wf.graph[d] = wf.graph[h]
      BY <2>2, DepsAre
    <3>5. d \in DepsOf(n) /\ d # n
      BY <2>1, <3>2, <3>3 DEF DepsOf
    <3>6. s.node[d].status \in Good
      BY <3>5, <1>3 DEF Undone
    <3>7. Held(own, d)
      BY <2>4, <3>4 DEF Held
    <3> QED
      BY <3>4, <3>5, <3>6, <3>7, <1>4, <1>6 DEF Level
  <2>8. ~Astir(s.node[h]) /\ ~Astir(next.node[h])
    <3>1. Within(h)
      BY <2>2 DEF Within
    <3>2. ~Astir(own.node[h])
      BY <2>1, <2>2, <1>4
    <3> QED
      BY <2>1, <2>2, <2>4, <3>1, <3>2, <1>6 DEF Advances, Onward
  <2>9. h \notin ToSet(next.frames) /\ (\A e \in X : e.node # h) /\ \A q \in next.ready : q.node # h
    BY <2>2, <2>8, <1>6, AtRest DEF Advances
  <2>10. y \in NodeStates(h) /\ y.status \in Good
    <3>1. Cardinality(DepsOf(h)) \in Nat
      BY <2>2, Waits_
    <3>2. 0 \in 0..Cardinality(DepsOf(h))
      BY <3>1
    <3> QED
      BY <3>2, <2>3 DEF NodeStates, Good, Final
  <2> HIDE DEF y
  <2>18. PICK k \in Nodes : k = h
    BY <2>2
  <2>19. PICK z \in NodeStates(k) : z = y
    BY <2>10, <2>18
  <2>11. z \in NodeStates(k) /\ k = h /\ z = y
    BY <2>18, <2>19
  <2> DEFINE u == Set(next, k, z)
  <2>12. done = u
    BY <2>11 DEF done
  <2>13. Claimed(u, X) /\ Shaped(u) /\ \A m : Held(u, m) = Held(next, m)
    <3>1. \A e \in X : e.node \in Nodes /\ e.node # k
      BY <2>9, <2>11
    <3>2. k \notin ToSet(next.frames) /\ \A q \in next.ready : q.node # k
      BY <2>9, <2>11
    <3>3. Claimed(next, X) /\ Shaped(next)
      BY <1>6 DEF Advances
    <3>4. /\ Claimed(u, X) /\ u.node[k] = z /\ \A m \in Nodes : m # k => u.node[m] = next.node[m]
          /\ Shaped(u) /\ u.frames = next.frames /\ u.ready = next.ready /\ u.adopted = next.adopted
          /\ \A m : Held(u, m) = Held(next, m)
      BY <3>1, <3>2, <3>3, SetUnclaimed
    <3> QED
      BY <3>4
  <2>14. Ordered(u) /\ Spare(u, k)
    <3>1. Held(next, k) /\ Undone(next, k) = {} /\ next.node[k].status \notin Good /\ z.status \in Good
      BY <2>4, <2>6, <2>7, <2>10, <2>11
    <3>2. next.node[wf.chain[k][1]].status \in Good
      BY <2>2, <2>5, <2>11
    <3> HIDE DEF u
    <3>3. /\ Ordered(Set(next, k, z))
          /\ next.node[k].status \notin Good /\ z.status \in Good => Spare(Set(next, k, z), k)
      BY <3>1, <3>2, <1>6, SetOrdered
    <3> QED
      BY <3>1, <3>3 DEF u
  <2> HIDE DEF u
  <2>15. Held(u, k) /\ \A e \in X : e.node \in Nodes
    BY <2>4, <2>11, <2>13
  <2>16. Ordered(Release(u, k))
    BY <2>13, <2>14, <2>15, ReleaseOrdered
  <2>17. t = Release(u, k)
    BY <2>3, <2>11, <2>12, <1>8, <1>10
  <2> QED
    BY <2>16, <2>17 DEF t
<1> QED
  BY <1>9, <1>10

\* A frame that is over ends its container in order.
LEMMA PopOrdered ==
  ASSUME wf \in Workflows, NEW c, NEW u, u.node = c.node, u.adopted = c.adopted,
         \A n \in Nodes : Held(u, n) => Held(c, n), Ordered(c)
  PROVE  Ordered(u) /\ \A g : Spare(c, g) => Spare(u, g)
PROOF
<1>1. \A n : Undone(u, n) = Undone(c, n)
  BY DEF Undone
<1>2. ASSUME NEW n \in Nodes, Held(u, n)
      PROVE  Counts(u, n)
  <2>1. Counts(c, n)
    BY <1>2 DEF Ordered
  <2> QED
    BY <2>1, <1>1 DEF Counts
<1>3. HostsEnd(u)
  BY DEF Ordered, HostsEnd
<1>4. ASSUME NEW g, Spare(c, g), NEW m \in Dependents(g), Held(u, m),
             u.node[m].status = "queued", u.node[m].pending > 0
      PROVE  Cardinality(Undone(u, m)) < u.node[m].pending
  <2>1. m \in Nodes
    BY DEF Dependents
  <2>2. Held(c, m) /\ c.node[m].status = "queued" /\ c.node[m].pending > 0
    BY <2>1, <1>4
  <2>3. Cardinality(Undone(c, m)) < c.node[m].pending
    BY <2>2, <1>4 DEF Spare
  <2> QED
    BY <2>3, <1>1
<1>5. \A g : Spare(c, g) => Spare(u, g)
  BY <1>4 DEF Spare
<1> QED
  BY <1>2, <1>3, <1>5 DEF Ordered

LEMMA CloseOrdered ==
  ASSUME wf \in Workflows, Unnested, NEW s, Shaped(s), NEW g \in wf.containers, g \in ToSet(s.frames),
         NEW X, Claimed(s, X), \A e \in X : e.node \in Nodes,
         ~FrameFailed(s, g), Ordered(s)
  PROVE  Ordered(Close(s, g))
PROOF
<1> DEFINE x == ContainerEnd(s, g)
           c == Set(s, g, x)
           u == Popped(c, g)
           v == CountedDown(u, g)
           S == {m \in Dependents(g) : Due(v.node[m]) /\ ~IsHost(m)}
           w == Enqueue(v, S, None)
           t == Close(s, g)
<1>1. g \in Nodes /\ wf.graph[g] = Root /\ g # Root /\ Held(s, g)
  BY Apart DEF Held, Active
<1>2. x \in NodeStates(g)
  BY <1>1, Ending
<1>3. x.status = (IF IsHost(g) THEN "queued" ELSE "succeeded")
  <2>1. CASE IsHost(g)
    <3>1. x = [status |-> "queued", pending |-> 0, enqueued |-> FALSE, blocked |-> TRUE]
      BY <2>1, Zenon DEF ContainerEnd
    <3> QED
      BY <3>1, <2>1
  <2>2. CASE ~IsHost(g)
    <3>1. x = [s.node[g] EXCEPT !.status = "succeeded", !.enqueued = FALSE]
      BY <2>2, Zenon DEF ContainerEnd
    <3>2. s.node[g] \in NodeStates(g)
      BY <1>1 DEF Shaped
    <3>3. x.status = "succeeded"
      BY <3>1, <3>2 DEF NodeStates
    <3> QED
      BY <3>3, <2>2
  <2> QED
    BY <2>1, <2>2
<1>4. Active(s, wf.graph[g])
  BY <1>1 DEF Active
<1>5. t = IF IsHost(g) THEN u ELSE w
  BY <1>4, Zenon DEF Close
<1> HIDE DEF x, t
<1>6. s.node[g].status = "running"
  BY DEF Claimed, FramesTold
<1>7. Undone(s, g) = {}
  BY <1>1, <1>6 DEF Ordered, Counts, Goes
<1>8. /\ Shaped(c) /\ c.frames = s.frames /\ c.adopted = s.adopted /\ Ordered(c)
      /\ ~IsHost(g) => Spare(c, g)
  <2>1. PICK z \in NodeStates(g) : z = x
    BY <1>2
  <2>2. /\ s.node[g].status \notin Good
        /\ IsHost(g) /\ g \notin s.adopted /\ z.status \in Good => s.node[wf.chain[g][1]].status \in Good
    BY <2>1, <1>3, <1>6 DEF Good
  <2> DEFINE d == Set(s, g, z)
  <2> HIDE DEF c, u, v, S, w
  <2>3. /\ Ordered(d)
        /\ s.node[g].status \notin Good /\ z.status \in Good => Spare(d, g)
    BY <2>2, <1>1, <1>7, SetOrdered
  <2>4. /\ Shaped(d) /\ d.node[g] = z /\ \A m \in Nodes \ {g} : d.node[m] = s.node[m]
        /\ d.frames = s.frames /\ d.ready = s.ready
    BY <1>1, SetOne
  <2>5. d.adopted = s.adopted
    BY DEF Set, Update
  <2>6. c = d
    BY <2>1 DEF c
  <2> HIDE DEF d
  <2>7. ~IsHost(g) => z.status \in Good
    BY <2>1, <1>3 DEF Good
  <2> QED
    BY <2>2, <2>3, <2>4, <2>5, <2>6, <2>7
<1> HIDE DEF c
<1>9. Shaped(u) /\ u.node = c.node /\ u.ready = c.ready
  BY <1>8, Popping
<1>10. u.adopted = c.adopted
  BY DEF Popped
<1>11. ToSet(u.frames) = ToSet(s.frames) \ {g}
  <2>1. /\ g \in ToSet(c.frames)
        /\ \A i, j \in DOMAIN c.frames : c.frames[i] = c.frames[j] => i = j
    BY <1>8 DEF Claimed, FramesTold
  <2>2. /\ ToSet(u.frames) = ToSet(c.frames) \ {g}
        /\ \A i, j \in DOMAIN u.frames : u.frames[i] = u.frames[j] => i = j
    BY <2>1, <1>8, PopIs
  <2> QED
    BY <2>2, <1>8
<1> HIDE DEF u
<1>12. \A n \in Nodes : Held(u, n) => Held(c, n)
  BY <1>8, <1>11 DEF Held, Active
<1>13. Ordered(u) /\ (~IsHost(g) => Spare(u, g))
  BY <1>8, <1>9, <1>10, <1>12, PopOrdered
<1>14. CASE IsHost(g)
  BY <1>14, <1>5, <1>13 DEF t
<1>15. CASE ~IsHost(g)
  <2>1. Ordered(v)
    BY <1>9, <1>13, <1>15, CountOrdered
  <2>2. Shaped(v)
    BY <1>9, Counting
  <2> HIDE DEF v
  <2>3. S \subseteq Nodes /\ \A n \in S : v.node[n].pending = 0
    BY DEF Dependents, Due
  <2> HIDE DEF S
  <2>4. Ordered(w)
    BY <2>1, <2>2, <2>3, EnqueueOrdered
  <2> QED
    BY <2>4, <1>5, <1>15 DEF t
<1> QED
  BY <1>14, <1>15

LEMMA CloseStageOrdered ==
  ASSUME wf \in Workflows, Unnested, NEW s, Shaped(s), NEW n \in Nodes, Held(s, n),
         NEW X, Claimed(s, X), \A e \in X : e.node \in Nodes, Ordered(s),
         ~RunFails(CloseAfter(s, n))
  PROVE  Ordered(CloseAfter(s, n))
PROOF
<1> DEFINE g == wf.graph[n]
           t == CloseAfter(s, n)
<1>1. CASE ~Closes(s, n)
  <2>1. t = s
    BY <1>1, Zenon DEF CloseAfter
  <2> QED
    BY <2>1
<1>2. CASE Closes(s, n)
  <2>1. t = Close(s, g) /\ g # Root
    BY <1>2, Zenon DEF CloseAfter, Closes
  <2>2. g \in wf.containers /\ g \in ToSet(s.frames)
    BY <2>1, Flow DEF Held, Active
  <2>3. g \in Nodes /\ wf.graph[g] = Root
    BY <2>2, Apart
  <2>4. Active(s, wf.graph[g])
    BY <2>3 DEF Active
  <2>6. ~FrameFailed(s, g)
    <3> SUFFICES ASSUME FrameFailed(s, g) PROVE FALSE
      OBVIOUS
    <3>1. t.node[g].status = "failed"
      BY <2>1, <2>2, <2>4, Closing
    <3> QED
      BY <3>1, <2>3 DEF RunFails, TopLevel, Graph
  <2> HIDE DEF g, t
  <2>8. Ordered(Close(s, g))
    BY <2>2, <2>6, CloseOrdered
  <2> QED
    BY <2>1, <2>8 DEF t
<1> QED
  BY <1>1, <1>2

\* The order, of the run as it is.
OrderNow == Ordered(Graphs)

\* A stage that becomes the graphs of the run.
LEMMA OrderedNext ==
  ASSUME wf' = wf, NEW t, Graphs' = t, Ordered(t)
  PROVE  OrderNow'
PROOF
<1>1. Nodes' = Nodes /\ \A n : IsMiddleware(n)' = IsMiddleware(n)
  BY Rigid
<1>2. \A n : IsHost(n)' = IsHost(n) /\ HostOf(n)' = HostOf(n)
  BY DEF IsHost, HostOf
<1>3. \A n : ChainIndex(n)' = ChainIndex(n)
  BY Zenon DEF ChainIndex, HostOf
<1>4. \A n : Outermost(n)' = Outermost(n)
  BY <1>1, <1>3, Zenon DEF Outermost
<1>5. \A n : DepsOf(n)' = DepsOf(n)
  BY <1>2, <1>4 DEF DepsOf
<1>6. \A n : Held(Graphs, n)' = Held(t, n)
  BY Zenon DEF Held, Active
<1>7. \A n : Undone(Graphs, n)' = Undone(t, n)
  BY <1>5 DEF Undone
<1>8. (\A n \in Nodes : Held(Graphs, n) => Counts(Graphs, n))'
  BY <1>1, <1>6, <1>7 DEF Ordered, Counts, Goes
<1>9. HostsEnd(Graphs)'
  BY <1>1, <1>2, <1>6 DEF Ordered, HostsEnd
<1> QED
  BY <1>8, <1>9 DEF OrderNow, Ordered

LEMMA OrdersInstall ==
  ASSUME wf' = wf, NEW t, Shaped(t), Install(t), Ordered(t)
  PROVE  OrderNow'
PROOF
<1>1. Graphs' = t
  BY Installed
<1> QED
  BY <1>1, OrderedNext

LEMMA OrdersSame ==
  ASSUME wf' = wf, UNCHANGED graphVars, OrderNow
  PROVE  OrderNow'
PROOF
<1>1. Graphs' = Graphs
  BY DEF Graphs, graphVars
<1>2. PICK t : t = Graphs
  OBVIOUS
<1>3. Graphs' = t /\ Ordered(t)
  BY <1>1, <1>2 DEF OrderNow
<1> QED
  BY <1>3, OrderedNext

LEMMA OrdersCollect ==
  ASSUME Unnested, ShapeInv, ToldNow, OrderNow, CollectReady, Live'
  PROVE  OrderNow'
PROOF
<1> DEFINE g == IF frames = <<>> THEN Root ELSE Last(frames)
           s == CollectFrom(Graphs, g)
<1>1. /\ wf' = wf /\ UNCHANGED runStatus
      /\ IF Live THEN Install(s) ELSE UNCHANGED graphVars
  BY DEF CollectReady
<1>2. Live
  BY <1>1 DEF Live
<1>3. /\ wf \in Workflows /\ Shaped(Graphs) /\ Typed(execs, nexts, pendingNext)
  BY TypedNow
<1>4. Active(Graphs, g)
  <2>1. CASE frames = <<>>
    BY <2>1 DEF Active
  <2>2. CASE frames # <<>>
    <3>1. frames \in Seq(wf.containers) /\ Graphs.frames = frames
      BY Now DEF ShapeInv
    <3>2. Len(frames) \in DOMAIN frames
      BY <2>2, <3>1
    <3>3. g = frames[Len(frames)]
      BY <2>2 DEF Last
    <3> QED
      BY <3>1, <3>2, <3>3 DEF Active, ToSet
  <2> QED
    BY <2>1, <2>2
<1> HIDE DEF g
<1>5. Claimed(Graphs, execs) /\ \A e \in execs : e.node \in Nodes
  BY <1>3 DEF ToldNow, Told, Typed
<1>6. Ordered(s)
  BY <1>3, <1>4, <1>5, CollectOrdered DEF OrderNow
<1>7. Shaped(s)
  BY <1>3, Collecting
<1> HIDE DEF s
<1> QED
  BY <1>1, <1>2, <1>6, <1>7, OrdersInstall

LEMMA OrdersFeedback ==
  ASSUME ShapeInv, OrderNow, NEW n \in Nodes, ApplyFeedback(n)
  PROVE  OrderNow'
PROOF
<1> DEFINE t == Found(Graphs, n)
<1>1. wf' = wf /\ Install(t)
  BY DEF ApplyFeedback
<1>2. wf \in Workflows /\ Shaped(Graphs)
  BY TypedNow
<1>4. /\ Shaped(t) /\ t.frames = Graphs.frames /\ t.ready = Graphs.ready
      /\ \A m \in Nodes : Present(Graphs, m) => t.node[m] = Graphs.node[m]
  BY <1>2, Finding
<1>5. Graphs.adopted \subseteq t.adopted
  <2> DEFINE u == Set(Graphs, n, [status |-> "queued", pending |-> 0, enqueued |-> FALSE, blocked |-> FALSE])
  <2>1. u.adopted = Graphs.adopted
    BY DEF Set, Update
  <2>2. t = Graphs \/ t = [u EXCEPT !.adopted = @ \cup {n}]
    BY Zenon DEF Found
  <2>3. u \in [node : {u.node}, frames : {u.frames}, adopted : {u.adopted}, ready : {u.ready}]
    BY DEF Set, Update, Graphs
  <2> HIDE DEF u, t
  <2> QED
    BY <2>1, <2>2, <2>3
<1> HIDE DEF t
<1>6. \A m : Held(t, m) = Held(Graphs, m)
  BY <1>4, Zenon DEF Held, Active
<1>7. \A m \in Nodes : Held(Graphs, m) => t.node[m] = Graphs.node[m]
  BY <1>4 DEF Held, Present
<1>8. Level(Graphs, t) /\ \A m \in Nodes : Held(t, m) => Steady(Graphs, t, m)
  BY <1>6, <1>7 DEF Level, Steady
<1>9. Ordered(t)
  BY <1>2, <1>5, <1>8, OrderedOn DEF OrderNow
<1> QED
  BY <1>1, <1>4, <1>9, OrdersInstall

LEMMA OrdersDispatch ==
  ASSUME ShapeInv, ToldNow, OrderNow, NEW q, Dispatch(q)
  PROVE  OrderNow'
PROOF
<1> DEFINE n == q.node
           g == [Graphs EXCEPT !.ready = @ \ {q}]
           s == Found(g, n)
           x == [s.node[n] EXCEPT !.status = "running", !.enqueued = FALSE]
           t == Set(s, n, x)
<1>1. q \in ready /\ InstallAndRefresh(t) /\ wf' = wf
  BY DEF Dispatch, Sent
<1>2. wf \in Workflows /\ Shaped(Graphs)
  BY TypedNow
<1>3. Claimed(Graphs, execs)
  BY DEF ToldNow, Told
<1>4. /\ g.node = Graphs.node /\ g.frames = Graphs.frames /\ g.adopted = Graphs.adopted
      /\ g.ready = Graphs.ready \ {q} /\ Shaped(g)
  <2>1. g = [node |-> node, frames |-> frames, adopted |-> adopted, ready |-> ready \ {q}]
    BY DEF Graphs
  <2> HIDE DEF g
  <2>2. /\ g.node = Graphs.node /\ g.frames = Graphs.frames /\ g.adopted = Graphs.adopted
        /\ g.ready = Graphs.ready \ {q}
    BY <2>1, Now
  <2>3. g = [node |-> g.node, frames |-> g.frames, adopted |-> g.adopted, ready |-> g.ready]
    BY <2>1
  <2> QED
    BY <2>2, <2>3, <1>2 DEF Shaped
<1> HIDE DEF g
<1>5. q \in Graphs.ready /\ n \in Nodes
  BY <1>1, <1>2, Now DEF Shaped
<1>6. /\ Held(Graphs, n) /\ Graphs.node[n].status = "queued" /\ Graphs.node[n].enqueued = TRUE
  BY <1>3, <1>5 DEF Claimed, ReadyTold
<1>7. Present(g, n) /\ Held(g, n)
  BY <1>4, <1>6 DEF Present, Held, Active
<1>8. s = g
  BY <1>7, Zenon DEF Found
<1>9. x \in NodeStates(n) /\ x.status = "running"
  <2>1. s.node[n] \in NodeStates(n)
    BY <1>4, <1>5, <1>8 DEF Shaped
  <2> HIDE DEF s
  <2> QED
    BY <2>1 DEF NodeStates
<1>10. PICK z \in NodeStates(n) : z = x
  BY <1>9
<1> HIDE DEF x, s
<1>11. \A m \in Nodes : Held(g, m) => Held(Graphs, m)
  BY <1>4 DEF Held, Active
<1>12. Ordered(g)
  BY <1>2, <1>4, <1>11, PopOrdered DEF OrderNow
<1>13. Undone(g, n) = {}
  BY <1>4, <1>5, <1>6, <1>7, <1>12 DEF Ordered, Counts, Goes
<1>14. z.status \notin Good /\ g.node[n].status \notin Good
  BY <1>4, <1>6, <1>9, <1>10 DEF Good
<1> DEFINE u == Set(g, n, z)
<1>15. u = t
  BY <1>8, <1>10
<1> HIDE DEF t, n
<1>16. Ordered(u)
  BY <1>2, <1>4, <1>5, <1>7, <1>12, <1>13, <1>14, SetOrdered
<1>17. Shaped(u)
  BY <1>2, <1>4, <1>5, SetOne
<1> HIDE DEF u
<1>18. Install(u)
  BY <1>1, <1>15 DEF InstallAndRefresh
<1> QED
  BY <1>1, <1>16, <1>17, <1>18, OrdersInstall

LEMMA OrdersInterrupted ==
  ASSUME ShapeInv, ToldNow, OrderNow, NEW e \in execs, HandleInterrupted(e), Live'
  PROVE  OrderNow'
PROOF
<1> DEFINE x == [status |-> "queued", pending |-> 0, enqueued |-> FALSE, blocked |-> FALSE]
           n == e.node
           t == Set(Graphs, n, x)
<1>1. /\ wf' = wf /\ e.report = "interrupted"
      /\ IF ~Live \/ ~Present(Graphs, n)
         THEN UNCHANGED <<graphVars, runStatus, pendingNext>>
         ELSE InstallAndRefresh(t)
  BY DEF HandleInterrupted, Handled
<1>2. /\ wf \in Workflows /\ Shaped(Graphs) /\ execs \subseteq Execs /\ Typed(execs, nexts, pendingNext)
  BY TypedNow
<1>3. ~e.waits
  BY <1>1 DEF ShapeInv
<1>4. Told(Graphs, execs, nexts, pendingNext)
  BY DEF ToldNow
<1>5. n \in Nodes /\ Held(Graphs, n) /\ Graphs.node[n].status = "running"
  BY <1>2, <1>3, <1>4, Reporter
<1>6. CASE ~Live \/ ~Present(Graphs, n)
  BY <1>1, <1>6, OrdersSame
<1>7. CASE InstallAndRefresh(t)
  <2>1. x \in NodeStates(n)
    <3>1. Cardinality(DepsOf(n)) \in Nat
      BY <1>2, <1>5, Waits_
    <3> QED
      BY <3>1 DEF NodeStates, Final
  <2>2. PICK z \in NodeStates(n) : z = x
    BY <2>1
  <2>3. Undone(Graphs, n) = {}
    BY <1>5 DEF OrderNow, Ordered, Counts, Goes
  <2>4. z.status \notin Good /\ Graphs.node[n].status \notin Good
    BY <2>2, <1>5 DEF Good
  <2> DEFINE u == Set(Graphs, n, z)
  <2>5. u = t
    BY <2>2
  <2> HIDE DEF t, n
  <2>6. Ordered(u)
    BY <1>2, <1>5, <2>3, <2>4, SetOrdered DEF OrderNow
  <2>7. Shaped(u)
    BY <1>2, <1>5, SetOne
  <2> HIDE DEF u
  <2>8. Install(u)
    BY <2>5, <1>7 DEF InstallAndRefresh
  <2> QED
    BY <1>1, <2>6, <2>7, <2>8, OrdersInstall
<1> QED
  BY <1>1, <1>6, <1>7

LEMMA ResultOrdered ==
  ASSUME wf \in Workflows, Unnested, EdgesOfHosts, NEW s, Shaped(s), Ordered(s),
         NEW X, NEW N, NEW P, Typed(X, N, P), Told(s, X, N, P), NEW e \in X, ~e.waits,
         NEW st \in Good \cup {"failed"}, st # "skipped",
         NEW a, a = AfterReport(s, e.node, st), NEW t, t = CloseAfter(a, e.node), ~RunFails(t)
  PROVE  Ordered(t)
PROOF
<1> DEFINE n == e.node
           h == HostOf(n)
<1>1. /\ n \in Nodes /\ Held(s, n) /\ s.node[n].status = "running"
      /\ n \notin ToSet(s.frames) /\ (\A q \in s.ready : q.node # n)
      /\ (\A x \in X : x # e => x.node # n)
      /\ (IsMiddleware(n) => ~Astir(s.node[h]))
  BY Reporter
<1> HIDE DEF n
<1>2. /\ Shaped(a) /\ a.adopted = s.adopted /\ ToSet(s.frames) \subseteq ToSet(a.frames)
  BY <1>1, ReportDone DEF n
<1>3. Held(a, n) /\ Present(a, n)
  BY <1>1, <1>2 DEF Held, Present, Active
<1>4. st \in Good \/ Hosting(s, n)
  <2> SUFFICES ASSUME st = "failed", ~Hosting(s, n) PROVE FALSE
    OBVIOUS
  <2>1. a.node[n].status = "failed"
    BY <1>1, ReportFails DEF n
  <2> QED
    BY <2>1, <1>1, <1>2, <1>3, FailedEnds DEF n
<1>5. PICK Y : Y = X \ {e}
  OBVIOUS
<1>6. Claimed(s, Y) /\ \A x \in Y : x.node \in Nodes /\ x.node # n
  BY <1>1, <1>5 DEF Told, Typed, Claimed, ExecsTold
<1>7. PICK D : D = {n, h}
  OBVIOUS
<1>8. Advances(s, a, Y, D) /\ ~Astir(a.node[n])
  <2> DEFINE b == AfterReport(s, n, st)
  <2>1. Advances(s, b, Y, {n, HostOf(n)}) /\ ~Astir(b.node[n])
    BY <1>1, <1>4, <1>6, ReportClaims
  <2>2. a = b
    BY DEF n
  <2> HIDE DEF b
  <2> QED
    BY <2>1, <2>2, <1>7
<1>9. Ordered(a)
  <2>1. Ordered(AfterReport(s, n, st))
    BY <1>1, <1>4, <1>6, ReportOrdered
  <2> QED
    BY <2>1 DEF n
<1>10. Claimed(a, Y) /\ \A x \in Y : x.node \in Nodes
  BY <1>6, <1>8 DEF Advances
<1>11. ~RunFails(CloseAfter(a, n))
  BY DEF n
<1>12. Ordered(CloseAfter(a, n))
  BY <1>1, <1>2, <1>3, <1>9, <1>10, <1>11, CloseStageOrdered
<1> QED
  BY <1>12 DEF n

LEMMA OrdersResult ==
  ASSUME Unnested, EdgesOfHosts, ShapeInv, ToldNow, OrderNow,
         NEW e \in execs, HandleResult(e), Live', e.report # "skipped"
  PROVE  OrderNow'
PROOF
<1> DEFINE s0 == Found(Graphs, e.node)
           s == AfterReport(s0, e.node, e.report)
           t == CloseAfter(s, e.node)
<1>1. /\ UNCHANGED wf /\ e.report \in Good \cup {"failed"}
      /\ IF ~Live THEN UNCHANGED <<graphVars, runStatus>> ELSE InstallAndRefresh(t)
  BY DEF HandleResult, Handled
<1>2. Live
  BY <1>1 DEF Live
<1>3. /\ wf \in Workflows /\ Shaped(Graphs) /\ execs \subseteq Execs /\ Typed(execs, nexts, pendingNext)
  BY TypedNow
<1>4. ~e.waits
  BY <1>1 DEF ShapeInv, Good
<1>5. e.node \in Nodes /\ Held(Graphs, e.node)
  BY <1>3, <1>4, Reporter DEF ToldNow
<1>6. s0 = Graphs
  BY <1>5, Zenon DEF Found, Present, Held
<1>7. ~RunFails(t) /\ Install(t)
  <2> HIDE DEF t
  <2> QED
    BY <1>1, <1>2, Fails
<1>9. Shaped(s) /\ s.adopted = Graphs.adopted
  BY <1>1, <1>3, <1>5, <1>6, ReportDone
<1>10. Shaped(t)
  <2>1. CASE Closes(s, e.node)
    <3>1. t = Close(s, wf.graph[e.node]) /\ wf.graph[e.node] \in wf.containers
      BY <2>1, <1>3, <1>5, Flow, Zenon DEF CloseAfter, Closes
    <3> HIDE DEF s
    <3> QED
      BY <3>1, <1>3, <1>9, Closing, Now
  <2>2. CASE ~Closes(s, e.node)
    <3>1. t = s
      BY <2>2, Zenon DEF CloseAfter
    <3> HIDE DEF s, t
    <3> QED
      BY <3>1, <1>9, Now
  <2> QED
    BY <2>1, <2>2
<1>11. PICK g : g = Graphs
  OBVIOUS
<1>12. Told(g, execs, nexts, pendingNext) /\ Shaped(g) /\ Ordered(g)
       /\ s = AfterReport(g, e.node, e.report) /\ t = CloseAfter(s, e.node)
  BY <1>3, <1>6, <1>11 DEF ToldNow, OrderNow
<1> HIDE DEF s0, s, t
<1>13. Ordered(t)
  BY <1>1, <1>3, <1>4, <1>7, <1>12, ResultOrdered
<1> QED
  BY <1>1, <1>7, <1>10, <1>13, OrdersInstall

LEMMA OrdersError ==
  ASSUME Unnested, ShapeInv, OrderNow, NEW e \in execs, HandleError(e), Live'
  PROVE  OrderNow'
PROOF
<1>1. UNCHANGED <<wf, graphVars>>
  BY ErrorQuiet
<1> QED
  BY <1>1, OrdersSame

\* Nobody depends on a middleware by an edge.
LEMMA InsideAlone ==
  ASSUME wf \in Workflows, EdgesOfHosts, NEW t \in Nodes, IsMiddleware(t)
  PROVE  Dependents(t) = {}
PROOF
<1> SUFFICES ASSUME NEW u \in Nodes, t \in DepsOf(u) PROVE FALSE
  BY DEF Dependents
<1>1. t \in wf.deps[u] \/ (IsMiddleware(u) /\ t \in wf.deps[HostOf(u)])
  BY DEF DepsOf, Outermost
<1>2. IsMiddleware(u) => HostOf(u) \in Nodes
  BY Place
<1> QED
  BY <1>1, <1>2 DEF EdgesOfHosts, IsMiddleware, Nodes

LEMMA OrdersNextCall ==
  ASSUME Unnested, EdgesOfHosts, ShapeInv, ToldNow, OrderNow, NEW r, HandleNext(r)
  PROVE  OrderNow'
PROOF
<1> DEFINE t == NextTarget(r.node)
           x == Requeued(node[t])
           q == Set(Graphs, t, x)
           s == IF IsContainer(t) THEN Open(q, {t}) ELSE Enqueue(q, {t}, r)
<1>1. /\ r \in nexts /\ wf' = wf /\ Install(s)
      /\ node[t].pending = 0 /\ (t = HostOf(r.node) => t \notin adopted)
  BY DEF HandleNext, TakesNext, NextReady
<1>2. /\ wf \in Workflows /\ Shaped(Graphs) /\ execs \subseteq Execs /\ Typed(execs, nexts, pendingNext)
  BY TypedNow
<1>3. Told(Graphs, execs, nexts, pendingNext) /\ Claimed(Graphs, execs)
  BY DEF ToldNow, Told
<1>4. Held(Graphs, t) /\ t \in Nodes /\ ~Astir(Graphs.node[t])
  BY <1>1, <1>2, <1>3, ToldIs
<1>5. r.node \in Nodes /\ IsMiddleware(r.node) /\ r \in Calls
  BY <1>1, <1>2 DEF Typed, ShapeInv
<1>6. /\ t \in Nodes /\ Within(t) /\ wf.graph[t] = wf.graph[r.node] /\ t # r.node
      /\ Callers(t) = Callers(r.node) \cup {r.node}
      /\ t = HostOf(r.node) \/ (IsMiddleware(t) /\ ~Outermost(t) /\ HostOf(t) = HostOf(r.node) /\ ChainIndex(t) = ChainIndex(r.node) + 1)
  BY <1>2, <1>5, Following
<1>7. t \notin ToSet(Graphs.frames) /\ (\A e \in execs : e.node # t) /\ \A p \in Graphs.ready : p.node # t
  BY <1>2, <1>3, <1>4, AtRest
<1>8. \A l \in Callers(t) : \E y \in execs : y.node = l /\ y.waits
  BY <1>1, <1>2, <1>3, CallersWait
<1> HIDE DEF t
<1>9. /\ x \in NodeStates(t) /\ Loose(x) /\ x.pending = 0
  <2>1. node[t] \in NodeStates(t)
    BY <1>4 DEF ShapeInv
  <2>2. x = [node[t] EXCEPT !.status = IF @ \in Final \cup {"running"} THEN "queued" ELSE @,
                            !.enqueued = FALSE, !.blocked = FALSE]
    BY Zenon DEF Requeued
  <2> HIDE DEF x
  <2>3. x.status = "queued" /\ x.enqueued = FALSE /\ x.blocked = FALSE /\ x \in NodeStates(t)
    BY <2>1, <2>2 DEF NodeStates
  <2>4. x.pending = node[t].pending
    BY <2>1, <2>2 DEF NodeStates
  <2> QED
    BY <2>3, <2>4, <1>1 DEF Loose
<1>10. PICK z \in NodeStates(t) : z = x
  BY <1>9
<1>11. Ordered(Graphs) /\ Graphs.node[t].pending = 0
  BY <1>1, Now DEF OrderNow
<1>12. Undone(Graphs, t) = {}
  BY <1>2, <1>4, <1>11, NoneUndone
<1>13. z.status = "queued"
  BY <1>9, <1>10 DEF Loose
<1>14. Graphs.node[t].status \in Good => Dependents(t) = {} /\ ~Outermost(t)
  <2>1. CASE t = HostOf(r.node)
    <3>1. IsHost(t) /\ t \notin Graphs.adopted
      BY <2>1, <1>1, <1>2, <1>5, Place, Now
    <3>2. wf.chain[t][1] \in Callers(t)
      BY <3>1, <1>2, <1>6, Called
    <3>3. \E y \in execs : y.node = wf.chain[t][1]
      BY <3>2, <1>8
    <3>4. Graphs.node[wf.chain[t][1]].status = "running"
      BY <3>3, <1>3 DEF Claimed, ExecsTold
    <3>5. Graphs.node[wf.chain[t][1]].status \notin Good
      BY <3>4 DEF Good
    <3> QED
      BY <3>1, <3>5, <1>4, <1>11 DEF Ordered, HostsEnd
  <2>2. CASE IsMiddleware(t) /\ ~Outermost(t)
    BY <2>2, <1>2, <1>4, InsideAlone
  <2> QED
    BY <2>1, <2>2, <1>6
<1>15. Ordered(q)
  <2>1. z.status \notin Good
    BY <1>13 DEF Good
  <2> DEFINE u == Set(Graphs, t, z)
  <2>2. /\ Ordered(u)
        /\ Graphs.node[t].status \notin Good /\ z.status \in Good => Spare(u, t)
    BY <2>1, <1>2, <1>4, <1>11, <1>12, <1>14, SetOrdered
  <2>3. u = q
    BY <1>10
  <2> HIDE DEF u, q
  <2> QED
    BY <2>2, <2>3
<1>16. \A e \in execs : e.node \in Nodes /\ e.node # t
  BY <1>2, <1>7 DEF Typed
<1>17. Claimed(q, execs) /\ q.node[t] = z /\ Shaped(q)
  <2> DEFINE u == Set(Graphs, t, z)
  <2>1. /\ Claimed(u, execs) /\ u.node[t] = z /\ \A m \in Nodes : m # t => u.node[m] = Graphs.node[m]
        /\ Shaped(u) /\ u.frames = Graphs.frames /\ u.ready = Graphs.ready /\ u.adopted = Graphs.adopted
        /\ \A m : Held(u, m) = Held(Graphs, m)
    BY <1>2, <1>3, <1>4, <1>7, <1>16, SetUnclaimed
  <2>2. u = q
    BY <1>10
  <2> HIDE DEF u, q
  <2> QED
    BY <2>1, <2>2
<1>18. Loose(q.node[t]) /\ q.node[t].pending = 0
  BY <1>9, <1>10, <1>17
<1> HIDE DEF q, x
<1>19. PICK S : S = {t}
  OBVIOUS
<1>20. S \subseteq Nodes /\ r \in Calls \cup {None} /\ \A n \in S : Loose(q.node[n]) /\ q.node[n].pending = 0
  BY <1>4, <1>5, <1>18, <1>19
<1>21. CASE IsContainer(t)
  <2>1. S \subseteq wf.containers
    BY <1>19, <1>21 DEF IsContainer
  <2> DEFINE v == Open(q, S)
  <2>2. v = s
    BY <1>19, <1>21
  <2> HIDE DEF s, v
  <2>3. Ordered(Open(q, S)) /\ Level(q, Open(q, S))
    BY <2>1, <1>2, <1>15, <1>17, <1>20, OpenOrdered DEF Claimed
  <2>4. Shaped(v)
    <3> USE DEF v
    <3> QED
      BY <2>1, <1>2, <1>17, Opening
  <2>5. Ordered(v)
    BY <2>3 DEF v
  <2> QED
    BY <2>2, <2>4, <2>5, <1>1, OrdersInstall
<1>22. CASE ~IsContainer(t)
  <2> DEFINE v == Enqueue(q, S, r)
  <2>2. v = s
    BY <1>19, <1>22
  <2> HIDE DEF s, v
  <2>3. Ordered(Enqueue(q, S, r)) /\ Level(q, Enqueue(q, S, r))
    BY <1>2, <1>15, <1>17, <1>20, EnqueueOrdered
  <2>4. Shaped(v)
    <3> USE DEF v
    <3> QED
      BY <1>17, <1>20, Enqueues
  <2>5. Ordered(v)
    BY <2>3 DEF v
  <2> QED
    BY <2>2, <2>4, <2>5, <1>1, OrdersInstall
<1> QED
  BY <1>21, <1>22

LEMMA OrderedFirst ==
  ASSUME Init
  PROVE  OrderNow
PROOF
<1>1. wf \in Workflows /\ \A n \in Nodes : Graphs.node[n] = NewNode(n)
  <2>1. Graphs.node = node
    BY DEF Graphs
  <2>2. wf \in Workflows /\ node = [n \in Nodes |-> NewNode(n)]
    BY Zenon DEF Init
  <2> QED
    BY <2>1, <2>2
<1>3. \A n \in Nodes : /\ Graphs.node[n].status = "queued" /\ Graphs.node[n].enqueued = FALSE
                       /\ Graphs.node[n].pending = Cardinality(DepsOf(n))
  <2> DEFINE b(n) == IsHost(n) \/ (IsMiddleware(n) /\ ~Outermost(n))
  <2>1. \A n : NewNode(n) = [status |-> "queued", pending |-> Cardinality(DepsOf(n)), enqueued |-> FALSE,
                             blocked |-> b(n)]
    BY Zenon DEF NewNode
  <2> HIDE DEF b
  <2> QED
    BY <2>1, <1>1
<1>2. ASSUME NEW n \in Nodes PROVE Counts(Graphs, n)
  <2>2. Cardinality(Undone(Graphs, n)) <= Cardinality(DepsOf(n))
    BY <1>1, UndoneIs
  <2> QED
    BY <2>2, <1>3 DEF Counts, Goes, Good
<1>4. HostsEnd(Graphs)
  BY <1>3 DEF HostsEnd, Good
<1> QED
  BY <1>2, <1>4 DEF OrderNow, Ordered

LEMMA OrderStep ==
  ASSUME Unnested, EdgesOfHosts, ShapeInv, ToldNow, OrderNow, [Next]_vars, Live',
         Without({"timeout", "skipped"})', \A e \in execs : Faulted(e.report, faults), faults \subseteq faults'
  PROVE  OrderNow'
PROOF
<1>1. CASE UNCHANGED vars
  <2>1. wf' = wf /\ UNCHANGED graphVars
    BY <1>1 DEF vars, graphVars
  <2> QED
    BY <2>1, OrdersSame
<1>2. CASE CollectReady
  BY <1>2, OrdersCollect
<1>3. CASE CancelRun
  BY <1>3 DEF CancelRun, Live, Final
<1>4. CASE \E q \in ready : DropRequest(q)
  BY <1>4 DEF DropRequest, Live
<1>5. CASE \E q \in ready : Dispatch(q) \/ Refused(q)
  BY <1>5, OrdersDispatch, CarriesRefused
<1>6. ASSUME NEW e \in execs, CallsNext(e) \/ GivesUp(e) \/ LeavesFeedback(e)
      PROVE  OrderNow'
  <2>1. wf' = wf /\ UNCHANGED graphVars
    BY <1>6 DEF CallsNext, GivesUp, LeavesFeedback, WorkerOnly
  <2> QED
    BY <2>1, OrdersSame
<1>7. ASSUME NEW e \in execs, NEW st \in Good \cup {"failed", "interrupted", "error"}, Reports(e, st)
      PROVE  OrderNow'
  <2>1. wf' = wf /\ UNCHANGED graphVars
    BY <1>7 DEF Reports, WorkerOnly
  <2> QED
    BY <2>1, OrdersSame
<1>8. ASSUME NEW e \in execs, Feedback(e)
      PROVE  OrderNow'
  BY <1>8, OrdersFeedback DEF Feedback, ShapeInv, Execs
<1>9. ASSUME NEW e \in execs, HandleResult(e) \/ HandleInterrupted(e) \/ HandleError(e)
      PROVE  OrderNow'
  <2>1. "skipped" \notin faults
    BY DEF Without
  <2>2. e.report # "skipped"
    BY <2>1 DEF Faulted
  <2> QED
    BY <2>2, <1>9, OrdersResult, OrdersInterrupted, OrdersError
<1>10. CASE \E f \in late : LateFeedback(f)
  BY <1>10, OrdersFeedback DEF LateFeedback, ShapeInv
<1>11. CASE \E r \in nexts : RefuseNext(r)
  <2>1. wf' = wf /\ UNCHANGED graphVars
    BY <1>11 DEF RefuseNext, TakesNext
  <2> QED
    BY <2>1, OrdersSame
<1>12. CASE \E r \in nexts : HandleNext(r)
  BY <1>12, OrdersNextCall
<1>13. CASE \E p \in pendingNext : ExpireNext(p)
  <2>1. wf' = wf /\ UNCHANGED graphVars
    BY <1>13 DEF ExpireNext
  <2> QED
    BY <2>1, OrdersSame
<1>14. ~\E n \in blank : RejectBlank(n)
  BY Rejecting
<1> QED
  BY <1>1, <1>2, <1>3, <1>4, <1>5, <1>6, <1>7, <1>8, <1>9, <1>10, <1>11, <1>12, <1>13, <1>14, Zenon DEF Next

\* The inductive invariant of DependentsWait.
DepInv == Live /\ Without({"timeout", "skipped"}) => OrderNow

LEMMA DepStep ==
  ASSUME Unnested, FramesStart, EdgesOfHosts, ShapeInv, ChainInv, WaiterInv, DepInv, [Next]_vars
  PROVE  DepInv'
PROOF
<1> SUFFICES ASSUME Live', Without({"timeout", "skipped"})' PROVE OrderNow'
  BY DEF DepInv
<1>1. Without({"timeout"})'
  BY DEF Without
<1>2. Live /\ ToldNow
  BY <1>1, ChainStep
<1>3. faults \subseteq faults'
  BY FaultsGrow
<1>4. Without({"timeout", "skipped"})
  BY <1>3 DEF Without
<1>5. OrderNow
  BY <1>2, <1>4 DEF DepInv
<1>6. \A e \in execs : Faulted(e.report, faults)
  BY DEF WaiterInv
<1> QED
  BY <1>2, <1>3, <1>5, <1>6, OrderStep

\* What is started has all it depends on.
LEMMA DependentsAre ==
  ASSUME Unnested, EdgesOfHosts, ShapeInv, ToldNow, OrderNow, NEW n \in Nodes, Started(n), NEW d \in Upstream(n)
  PROVE  node[d].status \in Good
PROOF
<1>1. /\ wf \in Workflows /\ Shaped(Graphs) /\ Typed(execs, nexts, pendingNext)
      /\ Graphs.node = node /\ Graphs.ready = ready /\ Graphs.frames = frames
  BY TypedNow, Now
<1>2. Claimed(Graphs, execs)
  BY DEF ToldNow, Told
<1>3. Held(Graphs, n) /\ Astir(node[n]) /\ Goes(node[n])
  <2>1. CASE \E q \in ready : q.node = n
    BY <2>1, <1>1, <1>2 DEF Claimed, ReadyTold, Astir, Goes
  <2>2. CASE \E e \in execs : e.node = n
    BY <2>2, <1>1, <1>2 DEF Claimed, ExecsTold, Astir, Goes
  <2>3. CASE n \in ToSet(frames)
    <3>1. n \in wf.containers
      BY <2>3, <1>1 DEF Shaped, ToSet
    <3>2. Held(Graphs, n)
      BY <3>1, <1>1, Apart DEF Held, Active
    <3> QED
      BY <2>3, <3>2, <1>1, <1>2 DEF Claimed, FramesTold, Astir, Goes
  <2> QED
    BY <2>1, <2>2, <2>3 DEF Started, Runs
<1>4. ASSUME NEW m \in Nodes, Held(Graphs, m), Goes(node[m]), d \in DepsOf(m)
      PROVE  node[d].status \in Good
  <2>1. Undone(Graphs, m) = {}
    BY <1>1, <1>4 DEF OrderNow, Ordered, Counts
  <2> QED
    BY <2>1, <1>1, <1>4 DEF Undone
<1>5. CASE d \in wf.deps[n]
  BY <1>3, <1>4, <1>5 DEF DepsOf
<1>6. CASE IsMiddleware(n) /\ d \in wf.deps[HostOf(n)]
  <2>1. HostOf(n) \in Nodes /\ IsHost(HostOf(n)) /\ ~IsHost(n)
    BY <1>1, <1>6, Place
  <2>2. ~IsMiddleware(d)
    BY <2>1, <1>1, <1>6 DEF EdgesOfHosts, IsMiddleware, Nodes
  <2>3. CASE Outermost(n)
    <3>1. d \in DepsOf(n)
      BY <2>2, <2>3, <1>6 DEF DepsOf
    <3> QED
      BY <3>1, <1>3, <1>4
  <2>4. CASE ~Outermost(n)
    <3>1. Within(n)
      BY <2>4, <1>6 DEF Within
    <3>2. PICK m : m = wf.chain[HostOf(n)][1]
      OBVIOUS
    <3>3. m \in Callers(n)
      BY <3>1, <3>2, <1>1, <1>6, Called
    <3>4. \E e \in execs : e.node = m /\ e.waits
      BY <3>1, <3>3, <1>1, <1>3 DEF ToldNow, Told
    <3>5. m \in Nodes /\ IsMiddleware(m) /\ HostOf(m) = HostOf(n) /\ ChainIndex(m) = 1
      <4>1. Len(wf.chain[HostOf(n)]) \in Nat \ {0}
        BY <2>1, <1>1, Members
      <4>2. 1 \in 1..Len(wf.chain[HostOf(n)])
        BY <4>1
      <4> QED
        BY <4>2, <2>1, <3>2, <1>1, Members
    <3>6. Held(Graphs, m) /\ Goes(node[m])
      BY <3>4, <1>1, <1>2 DEF Claimed, ExecsTold, Goes
    <3>7. d \in DepsOf(m)
      BY <2>2, <3>5, <1>6 DEF DepsOf, Outermost
    <3> QED
      BY <3>5, <3>6, <3>7, <1>4
  <2> QED
    BY <2>3, <2>4
<1> QED
  BY <1>5, <1>6 DEF Upstream

\* While the run is live nothing is dispatched, and no frame is opened, before
\* all it depends on ended well, and a whole chain waits for what its host
\* depends on (release_dependents, collect_ready_nodes, handle_next_request).
THEOREM DependentsAlwaysWait ==
  ASSUME Unnested, FramesStart, EdgesOfHosts
  PROVE  Spec => []DependentsWait
PROOF
<1>1. Init => WaiterInv /\ DepInv
  BY OrderedFirst DEF Init, WaiterInv, WaitersNow, Waiters, DepInv
<1>2. ShapeInv /\ WaiterInv /\ [Next]_vars => WaiterInv'
  BY WaitStep
<1>3. ShapeInv /\ ChainInv /\ WaiterInv /\ DepInv /\ [Next]_vars => DepInv'
  BY DepStep
<1>4. ShapeInv /\ ChainInv /\ DepInv => DependentsWait
  <2> SUFFICES ASSUME ShapeInv, ChainInv, DepInv, Live, Without({"timeout", "skipped"}),
                      NEW n \in Nodes, Started(n), NEW d \in Upstream(n)
               PROVE  node[d].status \in Good
    BY DEF DependentsWait
  <2>1. ToldNow /\ OrderNow
    BY DEF ChainInv, DepInv, Without
  <2> QED
    BY <2>1, DependentsAre
<1> QED
  BY <1>1, <1>2, <1>3, <1>4, ShapeKept, ChainsTold, PTL DEF Spec
=============================================================================
