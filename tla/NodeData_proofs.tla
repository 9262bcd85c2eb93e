---------------------------- MODULE NodeData_proofs ---------------------------
(* Theorems about the data of a run.  Its control is WorkflowEngine's, with  *)
(* all that is proved of it; the proofs add what each stage of a handler     *)
(* does to the parameters and results of the nodes.                          *)
EXTENDS NodeData, WorkflowEngine_proofs

\* The data of a run goes along with its control and never changes it: what is
\* proved of the control holds with the data.
THEOREM DataKeepsControl == DSpec => Spec
PROOF
<1>1. DInit => Init
  BY DEF DInit
<1>2. [DNext]_dvars => [Next]_vars
  <2>1. DNext => Next
    BY Zenon DEF DNext, Next, HandleResultData
  <2>2. UNCHANGED dvars => UNCHANGED vars
    BY DEF dvars
  <2> QED
    BY <2>1, <2>2
<1> QED
  BY <1>1, <1>2, PTL DEF DSpec, Spec

---------------------------------------------------------------------------
(* What a dispatch carries is what those it waits for ended with. *)

\* The node whose end lets e give what it gives, and whether its target waits
\* for that node.
Anchor(e) == IF e.out = None /\ e.scope # None THEN e.scope ELSE e.from
Awaited(e) == e.scope \in {None} \cup Upstream(TargetOf(e))

\* What e gives, from parameters P and results R, and what it could ever give.
Given(e, P, R) == IF e.key \in DOMAIN Read(e, P, R) THEN Read(e, P, R)[e.key] ELSE <<TargetOf(e)>>
Offers(e) == e.key \in (IF e.root = "parameters" THEN wf.slots[SourceOf(e)] ELSE wf.outs[SourceOf(e)])

\* A node that has ended well, or that rests in its chain.
Firm(s, n) == s.node[n].status \in Good \/ (Within(n) /\ ~Astir(s.node[n]))

\* Whether what the source of e has was given on as it is.
GivenOn(s, e) ==
  LET n == SourceOf(e)
  IN  IF IsHost(n) \/ (e.root = "parameters" /\ Offers(e)) THEN s.node[n].status \in Good ELSE Firm(s, n) \/ ~Offers(e)

Filed(P, R) ==
  /\ DOMAIN P = Nodes /\ \A n \in Nodes : DOMAIN P[n] = wf.slots[n]
  /\ DOMAIN R = Nodes /\ \A n \in Nodes : ~IsHost(n) => DOMAIN R[n] \subseteq wf.outs[n]

Fresh(s, R, no) ==
  \A n \in Nodes : Held(s, n) /\ Firm(s, n) =>
    \A k \in wf.outs[n] \cap DOMAIN R[n] : R[n][k] = <<n, no[n]>>

Delivered(s, P, R) ==
  \A e \in Bindings : Held(s, SourceOf(e)) /\ Awaited(e) =>
    /\ GivenOn(s, e) => P[TargetOf(e)][e.slot] = Given(e, P, R)
    /\ IsHost(SourceOf(e)) /\ ~GivenOn(s, e) => P[TargetOf(e)][e.slot] = <<TargetOf(e)>>

Numbered(X, no) == \A x \in X : x.no = no[x.node]

Loaded(P, K) ==
  \A x \in DOMAIN K : \A e \in Bindings : TargetOf(e) = x.node /\ Awaited(e) => K[x][e.slot] = P[x.node][e.slot]

\* The inductive invariant of DataCoherent.
DataNow ==
  /\ Filed(params, result) /\ Fresh(Graphs, result, dispatched) /\ Delivered(Graphs, params, result)
  /\ Numbered(execs, dispatched) /\ Loaded(params, carried)
  /\ DOMAIN carried = ready \cup {At(e) : e \in {x \in execs : x.report = "none"}}

Kinds == {"timeout", "skipped", "late_feedback"}
DataInv == Live /\ Without(Kinds) => DataNow

---------------------------------------------------------------------------
(* Between two stages of a handler no node but those of D comes to rest, and *)
(* what a new frame holds has not ended.                                     *)

Solid(s, t, D) ==
  \A m \in Nodes : Held(t, m) /\ m \notin D =>
    \/ /\ Held(s, m) /\ t.node[m].blocked = s.node[m].blocked
       /\ \/ t.node[m].status = s.node[m].status
          \/ s.node[m].status = "queued" /\ ~s.node[m].blocked /\ t.node[m].status = "running"
    \/ ~Held(s, m) /\ t.node[m].status \notin Good

LEMMA SolidTwice ==
  ASSUME NEW s, NEW t, NEW u, NEW D, NEW E, Solid(s, t, D), Solid(t, u, E),
         \A m \in Nodes : Held(s, m) /\ Held(u, m) => Held(t, m)
  PROVE  Solid(s, u, D \cup E)
PROOF
<1> SUFFICES ASSUME NEW m \in Nodes, Held(u, m), m \notin D, m \notin E
             PROVE  \/ /\ Held(s, m) /\ u.node[m].blocked = s.node[m].blocked
                       /\ \/ u.node[m].status = s.node[m].status
                          \/ s.node[m].status = "queued" /\ ~s.node[m].blocked /\ u.node[m].status = "running"
                    \/ ~Held(s, m) /\ u.node[m].status \notin Good
  BY DEF Solid
<1>1. \/ /\ Held(t, m) /\ u.node[m].blocked = t.node[m].blocked
         /\ \/ u.node[m].status = t.node[m].status
            \/ t.node[m].status = "queued" /\ ~t.node[m].blocked /\ u.node[m].status = "running"
      \/ ~Held(t, m) /\ u.node[m].status \notin Good
  BY DEF Solid
<1>2. Held(t, m) =>
      \/ /\ Held(s, m) /\ t.node[m].blocked = s.node[m].blocked
         /\ \/ t.node[m].status = s.node[m].status
            \/ s.node[m].status = "queued" /\ ~s.node[m].blocked /\ t.node[m].status = "running"
      \/ ~Held(s, m) /\ t.node[m].status \notin Good
  BY DEF Solid
<1> QED
  BY <1>1, <1>2 DEF Good

LEMMA EnqueueSolid ==
  ASSUME NEW s, Shaped(s), NEW S, S \subseteq Nodes, NEW r \in Calls \cup {None}
  PROVE  Solid(s, Enqueue(s, S, r), {})
PROOF
<1> DEFINE t == Enqueue(s, S, r)
<1>1. /\ t.ready = s.ready \cup {Request(n, r) : n \in S}
      /\ \A m \in Nodes :
           /\ t.node[m].status = s.node[m].status /\ t.node[m].pending = s.node[m].pending
           /\ t.node[m].blocked = s.node[m].blocked
           /\ m \notin S => t.node[m].enqueued = s.node[m].enqueued
           /\ m \in S => t.node[m].enqueued = TRUE
  BY EnqueueIs
<1>0. \A g : Active(t, g) = Active(s, g)
  BY Enqueues
<1> HIDE DEF t
<1>2. \A n : Held(t, n) = Held(s, n)
  BY <1>0, Stages_, Zenon
<1>3. Solid(s, t, {})
  BY <1>1, <1>2 DEF Solid
<1> QED
  BY <1>3 DEF t

LEMMA OpenSolid ==
  ASSUME wf \in Workflows, Unnested, NEW s, Shaped(s), NEW C, C \subseteq wf.containers,
         NEW X, Claimed(s, X), \A c \in C : Loose(s.node[c])
  PROVE  Solid(s, Open(s, C), {})
PROOF
<1> DEFINE t == Open(s, C)
<1>0. /\ \E o \in Seq(wf.containers) :
           /\ ToSet(o) = C /\ \A i, j \in DOMAIN o : o[i] = o[j] => i = j
           /\ t.frames = s.frames \o o
      /\ t.ready = s.ready \cup {Request(n, None) : n \in News(C)}
      /\ \A m \in Nodes :
           /\ m \in C => /\ t.node[m].status = "running" /\ t.node[m].enqueued = TRUE
                         /\ t.node[m].blocked = s.node[m].blocked
                         /\ t.node[m].pending = s.node[m].pending
           /\ wf.graph[m] \in C => /\ t.node[m].status = "queued"
                                   /\ t.node[m].blocked = NewNode(m).blocked
                                   /\ t.node[m].pending = Cardinality(DepsOf(m))
                                   /\ m \in News(C) => t.node[m].enqueued = TRUE
                                   /\ m \notin News(C) => t.node[m].enqueued = FALSE
           /\ m \notin C /\ wf.graph[m] \notin C =>
                /\ t.node[m].status = s.node[m].status /\ t.node[m].blocked = s.node[m].blocked
                /\ t.node[m].pending = s.node[m].pending
                /\ t.node[m].enqueued = s.node[m].enqueued
  BY OpenIs
<1> HIDE DEF t
<1>1. PICK o \in Seq(wf.containers) :
        /\ ToSet(o) = C /\ \A i, j \in DOMAIN o : o[i] = o[j] => i = j
        /\ t.frames = s.frames \o o
  BY <1>0, Zenon
<1>2. \A m \in Nodes :
        /\ m \in C => t.node[m].status = "running" /\ t.node[m].blocked = s.node[m].blocked
        /\ wf.graph[m] \in C => t.node[m].status = "queued"
        /\ m \notin C /\ wf.graph[m] \notin C =>
             t.node[m].status = s.node[m].status /\ t.node[m].blocked = s.node[m].blocked
  BY <1>0
<1>3. ToSet(t.frames) = ToSet(s.frames) \cup C
  BY <1>1, Grown DEF Shaped
<1>4. C \cap ToSet(s.frames) = {} /\ Root \notin C
  BY Apart DEF Claimed, FramesTold, Loose
<1>5. \A m \in Nodes : wf.graph[m] \in C => ~Held(s, m)
  BY <1>4 DEF Held, Active
<1>6. \A m \in Nodes : Held(t, m) /\ wf.graph[m] \notin C => Held(s, m)
  BY <1>3 DEF Held, Active
<1>7. Solid(s, t, {})
  BY <1>2, <1>5, <1>6 DEF Solid, Good, Loose
<1> QED
  BY <1>7 DEF t

LEMMA StartSolid ==
  ASSUME wf \in Workflows, Unnested, NEW s, Shaped(s), NEW S, S \subseteq Nodes,
         NEW X, Claimed(s, X), \A n \in S : Loose(s.node[n])
  PROVE  Solid(s, Start(s, S), {})
PROOF
<1> DEFINE C == S \cap wf.containers
           t == Open(s, C)
           R == S \ wf.containers
           u == Enqueue(t, R, None)
<1>1. C \subseteq wf.containers /\ R \subseteq Nodes /\ \A n \in C : Loose(s.node[n])
  OBVIOUS
<1>2. Start(s, S) = u
  BY Zenon DEF Start
<1> HIDE DEF C, R
<1>3. Solid(s, t, {})
  BY <1>1, OpenSolid
<1>4. Shaped(t) /\ ToSet(s.frames) \subseteq ToSet(t.frames)
  BY <1>1, Opening
<1> HIDE DEF t
<1>5. Solid(t, u, {})
  BY <1>1, <1>4, EnqueueSolid
<1> HIDE DEF u
<1>6. \A m \in Nodes : Held(s, m) => Held(t, m)
  BY <1>4 DEF Held, Active
<1>7. Solid(s, u, {} \cup {})
  BY <1>3, <1>5, <1>6, SolidTwice
<1> QED
  BY <1>2, <1>7

LEMMA CountSolid ==
  ASSUME wf \in Workflows, NEW s, Shaped(s), NEW n
  PROVE  Solid(s, CountedDown(s, n), {})
PROOF
<1> DEFINE t == CountedDown(s, n)
<1>1. \A m \in Nodes : t.node[m].status = s.node[m].status /\ t.node[m].blocked = s.node[m].blocked
  BY CountIs
<1>2. t.frames = s.frames
  BY Counting
<1> HIDE DEF t
<1>3. \A m : Held(t, m) = Held(s, m)
  BY <1>2, Zenon DEF Held, Active
<1>4. Solid(s, t, {})
  BY <1>1, <1>3 DEF Solid
<1> QED
  BY <1>4 DEF t

LEMMA ReleaseSolid ==
  ASSUME wf \in Workflows, Unnested, NEW s, Shaped(s), NEW n \in Nodes,
         NEW X, Claimed(s, X), \A e \in X : e.node \in Nodes
  PROVE  Solid(s, Release(s, n), {})
PROOF
<1> DEFINE c == CountedDown(s, n)
           S == {u \in Dependents(n) : Due(c.node[u])}
<1>1. Release(s, n) = Start(c, S)
  BY Zenon DEF Release
<1>2. Claimed(c, X) /\ Shaped(c) /\ Solid(s, c, {}) /\ \A m : Held(s, m) => Held(c, m)
  BY CountClaims, Counting, CountSolid DEF Advances
<1> HIDE DEF c
<1>3. \A u \in S : u \in Nodes /\ Loose(c.node[u])
  BY Neighbours DEF Due, Loose
<1> HIDE DEF S
<1>4. Solid(c, Start(c, S), {})
  BY <1>2, <1>3, StartSolid
<1>5. Solid(s, Start(c, S), {} \cup {})
  BY <1>2, <1>4, SolidTwice, Zenon
<1> QED
  BY <1>1, <1>5

LEMMA CollectSolid ==
  ASSUME wf \in Workflows, Unnested, NEW s, Shaped(s), NEW g, NEW X, Claimed(s, X)
  PROVE  Solid(s, CollectFrom(s, g), {})
PROOF
<1> DEFINE S == {n \in Graph(g) : Due(s.node[n]) /\ ~IsHost(n)}
<1>1. CollectFrom(s, g) = Start(s, S)
  BY Zenon DEF CollectFrom
<1>2. \A n \in S : n \in Nodes /\ Loose(s.node[n])
  BY DEF Graph, Due, Loose
<1> HIDE DEF S
<1> QED
  BY <1>1, <1>2, StartSolid

LEMMA SetSolid ==
  ASSUME wf \in Workflows, NEW s, Shaped(s), NEW n \in Nodes, NEW x \in NodeStates(n)
  PROVE  Solid(s, Set(s, n, x), {n})
PROOF
<1> DEFINE t == Set(s, n, x)
<1>1. /\ Shaped(t) /\ t.node[n] = x /\ \A m \in Nodes \ {n} : t.node[m] = s.node[m]
      /\ t.frames = s.frames
  BY SetOne
<1> HIDE DEF t
<1>2. \A m : Held(t, m) = Held(s, m)
  BY <1>1, Zenon DEF Held, Active
<1>3. Solid(s, t, {n})
  BY <1>1, <1>2 DEF Solid
<1> QED
  BY <1>3 DEF t

\* The nodes that a report ends: its own, and the host of an outermost middleware.
EndedBy(s, n, st) == {n} \cup {h \in {HostOf(n)} : EndsHost(s, n, st)}

LEMMA ReportSolid ==
  ASSUME wf \in Workflows, Unnested, NEW s, Shaped(s), NEW n \in Nodes, Held(s, n),
         NEW st \in Good \cup {"failed"}, st # "skipped", st \in Good \/ Hosting(s, n), s.adopted = {},
         NEW X, Claimed(s, X), \A e \in X : e.node \in Nodes /\ e.node # n,
         n \notin ToSet(s.frames), \A q \in s.ready : q.node # n,
         IsMiddleware(n) => ~Astir(s.node[HostOf(n)])
  PROVE  LET t == AfterReport(s, n, st)
         IN  /\ Solid(s, t, EndedBy(s, n, st))
             /\ IsHost(n) => t.node[n].status = "queued"
             /\ ~IsHost(n) => st \in Good
             /\ EndsHost(s, n, st) => t.node[HostOf(n)].status \in Good
PROOF
<1> DEFINE x    == Reported(s, n, st)
           own  == Set(s, n, x)
           next == IF st \in Good /\ ~Hosting(s, n) /\ n \notin s.adopted THEN Release(own, n) ELSE own
           t    == AfterReport(s, n, st)
           h    == HostOf(n)
           y    == [status |-> st, pending |-> 0, enqueued |-> FALSE, blocked |-> FALSE]
           done == Set(next, h, y)
           last == Release(done, h)
<1>1. x \in NodeStates(n)
  BY Reporting
<1>2. Hosting(s, n) <=> IsHost(n)
  BY DEF Hosting
<1>3. IsHost(n) => x.status = "queued"
  <2> SUFFICES ASSUME IsHost(n) PROVE x.status = "queued"
    OBVIOUS
  <2>1. x = [status |-> IF st = "skipped" THEN st ELSE "queued",
             pending |-> 0, enqueued |-> FALSE, blocked |-> TRUE]
    BY <1>2, Zenon DEF Reported
  <2> QED
    BY <2>1
<1> HIDE DEF x
<1>4. Claimed(own, X) /\ own.node[n] = x /\ Shaped(own) /\ own.adopted = s.adopted
      /\ \A m : Held(own, m) = Held(s, m)
  <2>1. PICK z \in NodeStates(n) : z = x
    BY <1>1
  <2> DEFINE u == Set(s, n, z)
  <2>2. /\ Claimed(u, X) /\ u.node[n] = z /\ \A m \in Nodes : m # n => u.node[m] = s.node[m]
        /\ Shaped(u) /\ u.frames = s.frames /\ u.ready = s.ready /\ u.adopted = s.adopted
        /\ \A m : Held(u, m) = Held(s, m)
    BY SetUnclaimed
  <2>3. own = u
    BY <2>1
  <2> HIDE DEF u, own
  <2> QED
    BY <2>1, <2>2, <2>3
<1>5. Solid(s, own, {n})
  BY <1>1, SetSolid
<1> HIDE DEF own
<1>6. Claimed(next, X) /\ Shaped(next) /\ Solid(own, next, {}) /\ \A m : Held(own, m) => Held(next, m)
  <2>1. CASE next = own
    BY <2>1, <1>4 DEF Solid
  <2>2. CASE next = Release(own, n)
    <3>1. Held(own, n)
      BY <1>4
    <3>2. Advances(own, Release(own, n), X, {}) /\ Shaped(Release(own, n))
      BY <3>1, <1>4, ReleaseClaims, Releasing
    <3>3. Solid(own, Release(own, n), {})
      BY <1>4, ReleaseSolid
    <3> QED
      BY <2>2, <3>2, <3>3 DEF Advances
  <2> QED
    BY <2>1, <2>2
<1>7. IsHost(n) => next = own
  BY <1>2
<1>8. ~EndsHost(s, n, st) => t = next
  BY Zenon DEF AfterReport, next, own, x
<1>9. EndsHost(s, n, st) => t = IF st \in Good THEN last ELSE done
  BY Zenon DEF AfterReport, EndHost, next, own, x
<1> HIDE DEF next, t, done
<1>10. Solid(s, next, {n})
  <2>1. Solid(s, next, {n} \cup {})
    BY <1>4, <1>5, <1>6, SolidTwice
  <2> QED
    BY <2>1
<1>11. ~IsHost(n) => st \in Good
  BY <1>2
<1>12. CASE ~EndsHost(s, n, st)
  <2>1. EndedBy(s, n, st) = {n}
    BY <1>12 DEF EndedBy
  <2> QED
    BY <2>1, <1>3, <1>4, <1>7, <1>8, <1>10, <1>11, <1>12 DEF t
<1>13. CASE EndsHost(s, n, st)
  <2>1. IsMiddleware(n)
    BY <1>13 DEF EndsHost, Chained
  <2>2. h \in Nodes /\ IsHost(h) /\ wf.graph[h] = wf.graph[n] /\ h # n /\ Within(h) /\ ~IsHost(n)
    BY <2>1, Place DEF Within
  <2>3. st \in Good
    BY <2>2, <1>11
  <2>4. ~Astir(next.node[h])
    <3>1. Held(next, h) /\ Held(s, h)
      BY <2>2, <1>4, <1>6 DEF Held
    <3>2. ~Astir(s.node[h])
      BY <2>1
    <3> QED
      BY <3>1, <3>2, <2>2, <1>10 DEF Solid, Astir
  <2>5. h \notin ToSet(next.frames) /\ (\A e \in X : e.node # h) /\ \A q \in next.ready : q.node # h
    BY <2>2, <2>4, <1>6, AtRest
  <2>6. y \in NodeStates(h)
    <3>1. Cardinality(DepsOf(h)) \in Nat
      BY <2>2, Waits_
    <3>2. 0 \in 0..Cardinality(DepsOf(h))
      BY <3>1
    <3> QED
      BY <3>2, <2>3 DEF NodeStates, Good, Final
  <2>7. y.status \in Good
    BY <2>3
  <2> HIDE DEF y
  <2>8. Claimed(done, X) /\ done.node[h] = y /\ Shaped(done) /\ (\A m : Held(done, m) = Held(next, m))
    <3>1. PICK z \in NodeStates(h) : z = y
      BY <2>6
    <3>2. PICK k \in Nodes : k = h
      BY <2>2
    <3>3. \A e \in X : e.node \in Nodes /\ e.node # k
      BY <2>5, <3>2
    <3>4. z \in NodeStates(k) /\ k \notin ToSet(next.frames) /\ \A q \in next.ready : q.node # k
      BY <2>5, <3>1, <3>2
    <3> DEFINE u == Set(next, k, z)
    <3>5. /\ Claimed(u, X) /\ u.node[k] = z /\ \A m \in Nodes : m # k => u.node[m] = next.node[m]
          /\ Shaped(u) /\ u.frames = next.frames /\ u.ready = next.ready /\ u.adopted = next.adopted
          /\ \A m : Held(u, m) = Held(next, m)
      BY <3>3, <3>4, <1>6, SetUnclaimed
    <3>6. done = u
      BY <3>1, <3>2 DEF done
    <3> HIDE DEF u
    <3> QED
      BY <3>1, <3>2, <3>5, <3>6
  <2>9. Solid(next, done, {h})
    <3>1. PICK k \in Nodes : k = h
      BY <2>2
    <3>2. Solid(next, Set(next, k, y), {k})
      BY <3>1, <2>6, <1>6, SetSolid
    <3> QED
      BY <3>1, <3>2 DEF done
  <2>10. Solid(done, last, {}) /\ \A m : Held(done, m) => Held(last, m)
    <3>1. PICK k \in Nodes : k = h
      BY <2>2
    <3>2. Held(done, k)
      <4>1. Held(next, n)
        BY <1>4, <1>6
      <4> QED
        BY <4>1, <2>2, <2>8, <3>1 DEF Held
    <3>3. Advances(done, Release(done, k), X, {})
      BY <3>2, <2>8, ReleaseClaims
    <3>4. Solid(done, Release(done, k), {})
      BY <2>8, ReleaseSolid
    <3> QED
      BY <3>1, <3>3, <3>4 DEF Advances
  <2>11. t = last
    BY <1>9, <1>13, <2>3
  <2> HIDE DEF last
  <2>12. Solid(s, done, {n} \cup {h})
    BY <1>10, <2>9, <2>8, <1>4, <1>6, SolidTwice
  <2>13. Solid(s, last, ({n} \cup {h}) \cup {})
    BY <2>10, <2>12, <2>8, <1>4, <1>6, SolidTwice
  <2>14. EndedBy(s, n, st) = ({n} \cup {h}) \cup {}
    BY <1>13 DEF EndedBy
  <2>15. last.node[h].status \in Good
    <3>1. Held(last, h) /\ Held(done, h)
      <4>1. Held(next, n)
        BY <1>4, <1>6
      <4> QED
        BY <4>1, <2>2, <2>8, <2>10 DEF Held
    <3> QED
      BY <3>1, <2>2, <2>7, <2>8, <2>10 DEF Solid, Good
  <2> QED
    BY <2>2, <2>3, <2>11, <2>13, <2>14, <2>15 DEF t
<1> QED
  BY <1>12, <1>13

LEMMA CloseSolid ==
  ASSUME wf \in Workflows, Unnested, NEW s, Shaped(s), NEW n \in Nodes, Held(s, n),
         NEW X, Claimed(s, X), \A e \in X : e.node \in Nodes,
         NEW t, t = CloseAfter(s, n), ~RunFails(t), NEW C, C = ClosedWith(s, n)
  PROVE  /\ Solid(s, t, C) /\ \A m \in Nodes : m \notin C => t.node[m].status = s.node[m].status
         /\ \A c \in C : /\ c \in wf.containers /\ wf.graph[n] = c /\ s.node[c].status = "running"
                         /\ IsHost(c) => t.node[c].status = "queued"
PROOF
<1> DEFINE g == wf.graph[n]
<1>1. CASE ~Closes(s, n)
  <2>1. t = s
    BY <1>1, Zenon DEF CloseAfter
  <2>2. C = {}
    BY <1>1, Zenon DEF ClosedWith
  <2> QED
    BY <2>1, <2>2 DEF Solid
<1>2. CASE Closes(s, n)
  <2>1. t = Close(s, g) /\ n \notin s.adopted /\ g # Root /\ FrameOver(s, g)
    BY <1>2, Zenon DEF CloseAfter, Closes
  <2>2. g \in wf.containers /\ g \in ToSet(s.frames)
    BY <2>1, Flow DEF Held, Active
  <2>3. g \in Nodes /\ wf.graph[g] = Root
    BY <2>2, Apart
  <2>4. Active(s, wf.graph[g])
    BY <2>3 DEF Active
  <2>5. C = {g}
    BY <2>4, <1>2, Zenon DEF ClosedWith
  <2>6. ~FrameFailed(s, g)
    <3> SUFFICES ASSUME FrameFailed(s, g) PROVE FALSE
      OBVIOUS
    <3>1. t.node[g].status = "failed"
      BY <2>1, <2>2, <2>4, Closing
    <3> QED
      BY <3>1, <2>3 DEF RunFails, TopLevel, Graph
  <2>7. \A m \in Graph(g) : s.node[m].status \in Final
    BY <2>1, <2>6 DEF FrameOver
  <2> DEFINE u == Close(s, g)
  <2> HIDE DEF g
  <2>8. /\ Claimed(u, X) /\ Onward(s, u, {g}) /\ ~Astir(u.node[g]) /\ s.ready \subseteq u.ready
        /\ ToSet(u.frames) = ToSet(s.frames) \ {g}
        /\ u.node[g].status = (IF IsHost(g) THEN "queued" ELSE "succeeded")
        /\ \A m \in Nodes \ {g} : u.node[m].status = s.node[m].status
        /\ \A m \in Nodes \ {g} : u.node[m].blocked = s.node[m].blocked
    BY <2>2, <2>6, <2>7, CloseClaims
  <2>9. t = u
    BY <2>1
  <2> HIDE DEF u
  <2>10. \A m \in Nodes : Held(u, m) => Held(s, m)
    BY <2>8 DEF Held, Active
  <2>11. Solid(s, u, {g})
    BY <2>8, <2>10 DEF Solid
  <2>12. s.node[g].status = "running"
    BY <2>2 DEF Claimed, FramesTold
  <2> QED
    BY <2>2, <2>5, <2>8, <2>9, <2>11, <2>12 DEF g
<1> QED
  BY <1>1, <1>2

\* What a report changes, with the end of the frame that it may bring about.
LEMMA ResultSolid ==
  ASSUME wf \in Workflows, Unnested, NEW s, Shaped(s), s.adopted = {},
         NEW X, NEW N, NEW P, Typed(X, N, P), Told(s, X, N, P), NEW e \in X, ~e.waits,
         NEW st \in Good \cup {"failed"}, st # "skipped",
         NEW a, a = AfterReport(s, e.node, st), NEW t, t = CloseAfter(a, e.node), ~RunFails(t),
         NEW C, C = ClosedWith(a, e.node)
  PROVE  /\ Solid(s, t, EndedBy(s, e.node, st) \cup C)
         /\ IsHost(e.node) => t.node[e.node].status = "queued"
         /\ ~IsHost(e.node) => st \in Good
         /\ EndsHost(s, e.node, st) => t.node[HostOf(e.node)].status \in Good
         /\ \A c \in C : /\ c \in wf.containers /\ c = wf.graph[e.node] /\ s.node[c].status = "running"
                         /\ Held(s, c) /\ (IsHost(c) => t.node[c].status = "queued")
PROOF
<1> DEFINE n == e.node
           h == HostOf(n)
<1>1. /\ n \in Nodes /\ Held(s, n) /\ s.node[n].status = "running"
      /\ n \notin ToSet(s.frames) /\ (\A q \in s.ready : q.node # n)
      /\ (\A x \in X : x # e => x.node # n)
      /\ (IsMiddleware(n) => ~Astir(s.node[h]))
  BY Reporter
<1> HIDE DEF n
<1>2. /\ Shaped(a) /\ a.adopted = s.adopted /\ ToSet(s.frames) \subseteq ToSet(a.frames)
  BY <1>1, ReportDone DEF n
<1>3. Held(a, n) /\ Present(a, n)
  BY <1>1, <1>2 DEF Held, Present, Active
<1>4. st \in Good \/ Hosting(s, n)
  <2> SUFFICES ASSUME st = "failed", ~Hosting(s, n) PROVE FALSE
    OBVIOUS
  <2>1. a.node[n].status = "failed"
    BY <1>1, ReportFails DEF n
  <2> QED
    BY <2>1, <1>1, <1>2, <1>3, FailedEnds DEF n
<1>5. PICK Y : Y = X \ {e}
  OBVIOUS
<1>6. Claimed(s, Y) /\ \A x \in Y : x.node \in Nodes /\ x.node # n
  BY <1>1, <1>5 DEF Told, Typed, Claimed, ExecsTold
<1>8. Advances(s, a, Y, {n, h})
  <2> DEFINE b == AfterReport(s, n, st)
  <2>1. Advances(s, b, Y, {n, HostOf(n)}) /\ ~Astir(b.node[n])
    BY <1>1, <1>4, <1>6, ReportClaims
  <2>2. a = b
    BY DEF n
  <2> HIDE DEF b
  <2> QED
    BY <2>1, <2>2
<1>9. /\ Solid(s, a, EndedBy(s, n, st))
      /\ IsHost(n) => a.node[n].status = "queued"
      /\ ~IsHost(n) => st \in Good
      /\ EndsHost(s, n, st) => a.node[h].status \in Good
  <2> DEFINE b == AfterReport(s, n, st)
  <2>1. /\ Solid(s, b, EndedBy(s, n, st))
        /\ IsHost(n) => b.node[n].status = "queued"
        /\ ~IsHost(n) => st \in Good
        /\ EndsHost(s, n, st) => b.node[HostOf(n)].status \in Good
    BY <1>1, <1>4, <1>6, ReportSolid
  <2>2. a = b
    BY DEF n
  <2> HIDE DEF b
  <2> QED
    BY <2>1, <2>2
<1>10. Claimed(a, Y) /\ (\A x \in Y : x.node \in Nodes) /\ (\A m : Held(s, m) => Held(a, m))
  BY <1>6, <1>8 DEF Advances
<1>11. t = CloseAfter(a, n) /\ C = ClosedWith(a, n)
  BY DEF n
<1>12. /\ Solid(a, t, C) /\ \A m \in Nodes : m \notin C => t.node[m].status = a.node[m].status
       /\ \A c \in C : /\ c \in wf.containers /\ wf.graph[n] = c /\ a.node[c].status = "running"
                       /\ IsHost(c) => t.node[c].status = "queued"
  BY <1>1, <1>2, <1>3, <1>10, <1>11, CloseSolid
<1>13. Solid(s, t, EndedBy(s, n, st) \cup C)
  BY <1>9, <1>10, <1>12, SolidTwice
<1>14. \A m \in Nodes : wf.graph[m] \in wf.containers /\ Held(s, m) => wf.graph[m] \in ToSet(s.frames)
  BY Apart DEF Held, Active
<1>15. \A c \in C : s.node[c].status = "running" /\ Held(s, c) /\ c # n /\ c # h /\ c \in Nodes
  <2> SUFFICES ASSUME NEW c \in C
               PROVE  s.node[c].status = "running" /\ Held(s, c) /\ c # n /\ (IsMiddleware(n) => c # h) /\ c \in Nodes
                      /\ (~IsMiddleware(n) => c # h)
    OBVIOUS
  <2>1. c \in wf.containers /\ c = wf.graph[n] /\ c \in Nodes /\ wf.graph[c] = Root /\ c # Root
    BY <1>12, Apart
  <2>2. c \in ToSet(s.frames)
    BY <2>1, <1>1, <1>14
  <2>3. s.node[c].status = "running" /\ Held(s, c)
    BY <2>1, <2>2 DEF Told, Claimed, FramesTold, Held, Active
  <2>4. IsMiddleware(n) => wf.graph[h] = wf.graph[n]
    BY <1>1, Place
  <2>5. ~IsMiddleware(n) => h = None
    BY DEF IsMiddleware, HostOf
  <2> QED
    BY <2>1, <2>3, <2>4, <2>5, <1>1, Flow
<1>16. /\ IsHost(n) => t.node[n].status = "queued"
       /\ EndsHost(s, n, st) => t.node[h].status \in Good
  <2>1. EndsHost(s, n, st) => h \in Nodes
    BY <1>1, Place DEF EndsHost, Chained
  <2>2. \A m \in Nodes : m \in {n, h} => t.node[m].status = a.node[m].status
    BY <1>12, <1>15
  <2> QED
    BY <2>1, <2>2, <1>1, <1>9
<1> QED
  BY <1>9, <1>12, <1>13, <1>15, <1>16 DEF n

\* What the hypotheses say of an edge whose ends are in one graph.
LEMMA EdgeIs ==
  ASSUME wf \in Workflows, EdgesCarry, NEW e \in Bindings
  PROVE  /\ e.from \in Nodes /\ e.to \in Nodes /\ SourceOf(e) \in Nodes /\ TargetOf(e) \in Nodes
         /\ wf.graph[SourceOf(e)] = wf.graph[e.from] /\ wf.graph[TargetOf(e)] = wf.graph[e.from]
         /\ e.from \in wf.deps[e.to] /\ e.slot \in wf.slots[TargetOf(e)]
         /\ \A b \in Bindings : TargetOf(b) = TargetOf(e) /\ b.slot = e.slot => b = e
         /\ TargetOf(e) = e.to \/ (IsMiddleware(TargetOf(e)) /\ HostOf(TargetOf(e)) = e.to)
         /\ e.out # None => IsMiddleware(SourceOf(e)) /\ HostOf(SourceOf(e)) = e.from
         /\ e.root = "parameters" =>
              /\ SourceOf(e) \notin wf.containers /\ ~IsMiddleware(SourceOf(e))
              /\ \A b \in Bindings : TargetOf(b) = SourceOf(e) => b.scope \in {None} \cup wf.deps[SourceOf(e)]
PROOF
<1>1. e \in wf.edges /\ {SourceOf(e), TargetOf(e)} \subseteq Graph(wf.graph[e.from])
  BY DEF Bindings, IsBound
<1>2. /\ {e.from, e.to} \subseteq Nodes /\ e.from \in wf.deps[e.to]
      /\ e.out \in {None} \cup ToSet(wf.chain[e.from]) /\ e.in \in {None} \cup ToSet(wf.chain[e.to])
      /\ e.slot \in wf.slots[TargetOf(e)]
      /\ \A b \in wf.edges : TargetOf(b) = TargetOf(e) /\ b.slot = e.slot => b = e
      /\ e.root = "parameters" =>
              /\ SourceOf(e) \in Nodes => SourceOf(e) \notin wf.containers /\ wf.host[SourceOf(e)] = None
              /\ \A b \in wf.edges : TargetOf(b) = SourceOf(e) => b.scope \in {None} \cup wf.deps[SourceOf(e)]
  BY <1>1 DEF EdgesCarry, Nodes
<1>3. SourceOf(e) \in Nodes /\ TargetOf(e) \in Nodes
      /\ wf.graph[SourceOf(e)] = wf.graph[e.from] /\ wf.graph[TargetOf(e)] = wf.graph[e.from]
  BY <1>1 DEF Graph
<1>4. \A n \in Nodes : \A m \in ToSet(wf.chain[n]) : wf.host[m] = n
  BY WorkflowsAssumption DEF WellFormed, Nodes
<1>5. None \notin Nodes
  BY Flow
<1>6. e.out # None => IsMiddleware(SourceOf(e)) /\ HostOf(SourceOf(e)) = e.from
  BY <1>2, <1>4, <1>5 DEF SourceOf, IsMiddleware, HostOf
<1>7. TargetOf(e) = e.to \/ (IsMiddleware(TargetOf(e)) /\ HostOf(TargetOf(e)) = e.to)
  BY <1>2, <1>4, <1>5 DEF TargetOf, IsMiddleware, HostOf
<1>8. \A b \in Bindings : b \in wf.edges
  BY DEF Bindings
<1> QED
  BY <1>2, <1>3, <1>6, <1>7, <1>8 DEF IsMiddleware

LEMMA AnchorIs ==
  ASSUME wf \in Workflows, EdgesCarry, NEW e \in Bindings
  PROVE  /\ Anchor(e) = SourceOf(e) \/ (IsMiddleware(SourceOf(e)) /\ Anchor(e) = HostOf(SourceOf(e)))
         /\ Awaited(e) => Anchor(e) \in Upstream(TargetOf(e))
         /\ Awaited(e) /\ ~IsMiddleware(TargetOf(e)) => Anchor(e) \in wf.deps[TargetOf(e)]
PROOF
<1>1. /\ e.from \in wf.deps[e.to]
      /\ TargetOf(e) = e.to \/ (IsMiddleware(TargetOf(e)) /\ HostOf(TargetOf(e)) = e.to)
      /\ e.out # None => IsMiddleware(SourceOf(e)) /\ HostOf(SourceOf(e)) = e.from
  BY EdgeIs
<1>2. Anchor(e) = SourceOf(e) \/ (IsMiddleware(SourceOf(e)) /\ Anchor(e) = HostOf(SourceOf(e)))
  BY <1>1 DEF Anchor, SourceOf
<1>3. e.from \in Upstream(TargetOf(e))
  BY <1>1 DEF Upstream
<1>4. Awaited(e) => Anchor(e) \in Upstream(TargetOf(e))
  BY <1>3 DEF Awaited, Anchor
<1> QED
  BY <1>2, <1>4 DEF Upstream

\* What a node gives along its edges reaches the slots they enter, and no other.
LEMMA AppliedIs ==
  ASSUME wf \in Workflows, EdgesCarry, NEW P, NEW R, Filed(P, R), NEW n \in Nodes, NEW Q, Q = Applied(P, R, n)
  PROVE  /\ DOMAIN Q = Nodes /\ \A u \in Nodes : DOMAIN Q[u] = wf.slots[u]
         /\ \A e \in Bindings :
              Q[TargetOf(e)][e.slot] = IF SourceOf(e) = n /\ e.key \in DOMAIN Read(e, P, R)
                                       THEN Read(e, P, R)[e.key] ELSE P[TargetOf(e)][e.slot]
         /\ \A u \in Nodes : (\A e \in Bindings : SourceOf(e) = n => TargetOf(e) # u) =>
              \A k \in wf.slots[u] : Q[u][k] = P[u][k]
PROOF
<1> DEFINE G(u) == {e \in BindingsOf(n) : TargetOf(e) = u /\ e.key \in DOMAIN Read(e, P, R)}
           F(u) == [k \in {e.slot : e \in G(u)} |-> LET e == CHOOSE e \in G(u) : e.slot = k IN Read(e, P, R)[e.key]]
<1>1. Q = [u \in Nodes |-> Written(F(u), P[u])]
  BY Zenon DEF Applied
<1>2. \A e \in Bindings : /\ TargetOf(e) \in Nodes /\ e.slot \in wf.slots[TargetOf(e)]
                          /\ \A b \in Bindings : TargetOf(b) = TargetOf(e) /\ b.slot = e.slot => b = e
  BY EdgeIs
<1>3. \A u : \A e : e \in G(u) <=> e \in Bindings /\ SourceOf(e) = n /\ TargetOf(e) = u /\ e.key \in DOMAIN Read(e, P, R)
  BY DEF BindingsOf
<1>4. \A u : \A k \in DOMAIN F(u) : \E e \in G(u) : k = e.slot
  OBVIOUS
<1>5. ASSUME NEW u, NEW e \in G(u)
      PROVE  e.slot \in DOMAIN F(u) /\ F(u)[e.slot] = Read(e, P, R)[e.key]
  <2> DEFINE b == CHOOSE b \in G(u) : b.slot = e.slot
  <2>1. b \in G(u) /\ b.slot = e.slot
    OBVIOUS
  <2>2. e.slot \in DOMAIN F(u) /\ F(u)[e.slot] = Read(b, P, R)[b.key]
    OBVIOUS
  <2> HIDE DEF b, G, F
  <2>3. b = e
    BY <2>1, <1>2, <1>3
  <2> QED
    BY <2>2, <2>3
<1> HIDE DEF G, F
<1>6. ASSUME NEW u \in Nodes
      PROVE  /\ DOMAIN Q[u] = wf.slots[u]
             /\ \A k \in wf.slots[u] : Q[u][k] = IF k \in DOMAIN F(u) THEN F(u)[k] ELSE P[u][k]
  <2>1. Q[u] = [k \in DOMAIN F(u) \cup DOMAIN P[u] |-> IF k \in DOMAIN F(u) THEN F(u)[k] ELSE P[u][k]]
    BY <1>1 DEF Written
  <2>2. DOMAIN P[u] = wf.slots[u]
    BY DEF Filed
  <2>3. DOMAIN F(u) \subseteq wf.slots[u]
    BY <1>2, <1>3, <1>4
  <2> QED
    BY <2>1, <2>2, <2>3
<1>7. DOMAIN Q = Nodes
  BY <1>1
<1>8. ASSUME NEW e \in Bindings
      PROVE  Q[TargetOf(e)][e.slot] = IF SourceOf(e) = n /\ e.key \in DOMAIN Read(e, P, R)
                                      THEN Read(e, P, R)[e.key] ELSE P[TargetOf(e)][e.slot]
  <2>1. Q[TargetOf(e)][e.slot] = IF e.slot \in DOMAIN F(TargetOf(e)) THEN F(TargetOf(e))[e.slot] ELSE P[TargetOf(e)][e.slot]
    BY <1>2, <1>6
  <2>2. CASE e \in G(TargetOf(e))
    BY <2>1, <2>2, <1>3, <1>5
  <2>3. CASE e \notin G(TargetOf(e))
    <3>1. e.slot \notin DOMAIN F(TargetOf(e))
      BY <2>3, <1>2, <1>3, <1>4
    <3> QED
      BY <2>1, <2>3, <3>1, <1>3
  <2> QED
    BY <2>2, <2>3
<1>9. ASSUME NEW u \in Nodes, \A e \in Bindings : SourceOf(e) = n => TargetOf(e) # u, NEW k \in wf.slots[u]
      PROVE  Q[u][k] = P[u][k]
  <2>1. k \notin DOMAIN F(u)
    BY <1>3, <1>4, <1>9
  <2> QED
    BY <2>1, <1>6
<1> QED
  BY <1>6, <1>7, <1>8, <1>9

\* A host shows what its middleware put out beside what it put out itself.
LEMMA ProjectedIs ==
  ASSUME wf \in Workflows, EdgesCarry, NEW R, DOMAIN R = Nodes, NEW m \in Nodes, IsMiddleware(m),
         NEW W, W = Projected(R, m)
  PROVE  /\ DOMAIN W = Nodes /\ \A n \in Nodes : n # HostOf(m) => W[n] = R[n]
         /\ \A k \in wf.outs[HostOf(m)] \cap DOMAIN W[HostOf(m)] :
              k \in DOMAIN R[HostOf(m)] /\ W[HostOf(m)][k] = R[HostOf(m)][k]
PROOF
<1> DEFINE h == HostOf(m)
           f == [k \in wf.ports[m] \cap DOMAIN R[m] |-> R[m][k]]
<1>1. W = [R EXCEPT ![h] = Written(f, R[h])]
  BY Zenon DEF Projected
<1>2. h \in Nodes
  BY Place
<1>3. wf.ports[m] \cap wf.outs[h] = {}
  BY DEF EdgesCarry, IsMiddleware, HostOf, Nodes
<1>4. DOMAIN f \cap wf.outs[h] = {}
  BY <1>3
<1> HIDE DEF f, h
<1>5. W[h] = [k \in DOMAIN f \cup DOMAIN R[h] |-> IF k \in DOMAIN f THEN f[k] ELSE R[h][k]]
  BY <1>1, <1>2 DEF Written
<1>6. \A k \in wf.outs[h] \cap DOMAIN W[h] : k \in DOMAIN R[h] /\ W[h][k] = R[h][k]
  BY <1>4, <1>5
<1>7. DOMAIN W = Nodes /\ \A n \in Nodes : n # h => W[n] = R[n]
  BY <1>1, <1>2
<1> QED
  BY <1>6, <1>7 DEF h

\* Solid, of one node.
LEMMA SolidIs ==
  ASSUME NEW s, NEW t, NEW D, Solid(s, t, D), NEW m \in Nodes, Held(s, m), Held(t, m), m \notin D
  PROVE  /\ t.node[m].status \in Good <=> s.node[m].status \in Good
         /\ Firm(t, m) => Firm(s, m)
PROOF
<1>1. /\ t.node[m].blocked = s.node[m].blocked
      /\ \/ t.node[m].status = s.node[m].status
         \/ s.node[m].status = "queued" /\ ~s.node[m].blocked /\ t.node[m].status = "running"
  BY DEF Solid
<1> QED
  BY <1>1 DEF Firm, Good, Astir

\* What cannot give anything gives what was there.
LEMMA OffersNot ==
  ASSUME NEW P, NEW R, Filed(P, R), NEW e \in Bindings, SourceOf(e) \in Nodes, ~IsHost(SourceOf(e)) \/ e.root = "parameters",
         ~Offers(e)
  PROVE  Given(e, P, R) = <<TargetOf(e)>>
PROOF
<1>1. e.key \notin DOMAIN Read(e, P, R)
  BY DEF Filed, Offers, Read
<1> QED
  BY <1>1 DEF Given

\* A step that gives no node a value, and in which those of D are to run again.
LEMMA FlowsNot ==
  ASSUME wf \in Workflows, EdgesCarry, NEW s, NEW t, NEW D, Solid(s, t, D),
         \A m \in Nodes : Held(t, m) /\ m \in D =>
           Held(s, m) /\ ~Firm(t, m) /\ (IsHost(m) => s.node[m].status \notin Good),
         NEW P, NEW R, NEW Q, NEW W, NEW no, NEW nu,
         Filed(P, R), Filed(Q, W), Fresh(s, R, no), Delivered(s, P, R),
         \A m \in Nodes : Held(t, m) => IF Held(s, m) THEN Q[m] = P[m] ELSE Q[m] = Default(m) /\ W[m] = Empty,
         \A m \in Nodes : Held(t, m) /\ Held(s, m) /\ Firm(t, m) => W[m] = R[m] /\ nu[m] = no[m]
  PROVE  Fresh(t, W, nu) /\ Delivered(t, Q, W)
PROOF
<1>1. ASSUME NEW m \in Nodes, Held(t, m), Held(s, m), Firm(t, m)
      PROVE  m \notin D /\ Firm(s, m) /\ W[m] = R[m] /\ nu[m] = no[m]
             /\ (t.node[m].status \in Good => s.node[m].status \in Good)
  BY <1>1, SolidIs
<1>2. DOMAIN Empty = {}
  BY DEF Empty
<1>3. Fresh(t, W, nu)
  <2> SUFFICES ASSUME NEW n \in Nodes, Held(t, n), Firm(t, n), NEW k \in wf.outs[n] \cap DOMAIN W[n]
               PROVE  W[n][k] = <<n, nu[n]>>
    BY DEF Fresh
  <2>1. Held(s, n)
    BY <1>2
  <2>2. Firm(s, n) /\ W[n] = R[n] /\ nu[n] = no[n]
    BY <2>1, <1>1
  <2> QED
    BY <2>1, <2>2 DEF Fresh
<1>4. Delivered(t, Q, W)
  <2> SUFFICES ASSUME NEW e \in Bindings, Held(t, SourceOf(e)), Awaited(e)
               PROVE  /\ GivenOn(t, e) => Q[TargetOf(e)][e.slot] = Given(e, Q, W)
                      /\ IsHost(SourceOf(e)) /\ ~GivenOn(t, e) => Q[TargetOf(e)][e.slot] = <<TargetOf(e)>>
    BY DEF Delivered
  <2> DEFINE S == SourceOf(e)
             T == TargetOf(e)
  <2>1. S \in Nodes /\ T \in Nodes /\ wf.graph[S] = wf.graph[T] /\ e.slot \in wf.slots[T]
    BY EdgeIs
  <2>2. Held(t, T) /\ (Held(s, T) <=> Held(s, S))
    BY <2>1 DEF Held
  <2>3. CASE ~Held(s, S)
    <3>1. Q[T] = Default(T) /\ Q[S] = Default(S) /\ W[S] = Empty
      BY <2>1, <2>2, <2>3
    <3>2. Q[T][e.slot] = <<T>>
      BY <3>1, <2>1 DEF Default
    <3>3. t.node[S].status \notin Good
      BY <2>1, <2>3 DEF Solid
    <3>4. CASE e.root = "parameters"
      <4>1. ~IsMiddleware(S)
        BY <3>4, EdgeIs
      <4>2. Offers(e) => ~GivenOn(t, e)
        BY <3>3, <3>4 DEF GivenOn
      <4>3. ~Offers(e) => Given(e, Q, W) = <<T>>
        BY <3>4, <2>1, OffersNot
      <4> QED
        BY <3>2, <4>2, <4>3
    <3>5. CASE e.root # "parameters"
      <4>1. Given(e, Q, W) = <<T>>
        BY <3>1, <3>5, <1>2 DEF Given, Read
      <4> QED
        BY <3>2, <4>1
    <3> QED
      BY <3>4, <3>5
  <2>4. CASE Held(s, S)
    <3>1. Q[T] = P[T] /\ Q[S] = P[S]
      BY <2>1, <2>2, <2>4
    <3>2. /\ GivenOn(s, e) => P[T][e.slot] = Given(e, P, R)
          /\ IsHost(S) /\ ~GivenOn(s, e) => P[T][e.slot] = <<T>>
      BY <2>4 DEF Delivered
    <3>3. Firm(t, S) => Firm(s, S) /\ Given(e, Q, W) = Given(e, P, R)
      BY <3>1, <2>1, <2>4, <1>1 DEF Given, Read
    <3>4. IsHost(S) => (t.node[S].status \in Good <=> s.node[S].status \in Good)
      <4>1. CASE S \in D
        BY <4>1, <2>1, <2>4 DEF Firm
      <4>2. CASE S \notin D
        BY <4>2, <2>1, <2>4, SolidIs
      <4> QED
        BY <4>1, <4>2
    <3>5. t.node[S].status \in Good => s.node[S].status \in Good
      BY <1>1, <2>1, <2>4 DEF Firm
    <3>6. t.node[S].status \in Good => Firm(t, S)
      BY DEF Firm
    <3>7. CASE IsHost(S) \/ (e.root = "parameters" /\ Offers(e))
      <4>1. GivenOn(t, e) <=> t.node[S].status \in Good
        BY <3>7 DEF GivenOn
      <4>2. GivenOn(s, e) <=> s.node[S].status \in Good
        BY <3>7 DEF GivenOn
      <4> QED
        BY <4>1, <4>2, <3>1, <3>2, <3>3, <3>4, <3>5, <3>6
    <3>8. CASE ~(IsHost(S) \/ (e.root = "parameters" /\ Offers(e)))
      <4>1. GivenOn(t, e) <=> Firm(t, S) \/ ~Offers(e)
        BY <3>8 DEF GivenOn
      <4>2. GivenOn(s, e) <=> Firm(s, S) \/ ~Offers(e)
        BY <3>8 DEF GivenOn
      <4>3. ~Offers(e) => Given(e, Q, W) = <<T>> /\ Given(e, P, R) = <<T>>
        BY <3>8, <2>1, OffersNot
      <4> QED
        BY <4>1, <4>2, <4>3, <3>1, <3>2, <3>3, <3>8
    <3> QED
      BY <3>7, <3>8
  <2> QED
    BY <2>3, <2>4
<1> QED
  BY <1>3, <1>4

\* The nodes that may give along their edges when a report of n is handled.
Givers(n, G) == G \subseteq {n, HostOf(n)} /\ (HostOf(n) \in G => IsMiddleware(n))

\* What a report does to parameters P and results R, when those of G give.
FlowOf(n, no, G, P, R, own, sent, W, Q) ==
  /\ own = [R EXCEPT ![n] = Output(n, no)]
  /\ sent = IF n \in G THEN Applied(P, own, n) ELSE P
  /\ W = IF IsMiddleware(n) THEN Projected(own, n) ELSE own
  /\ Q = IF HostOf(n) \in G THEN Applied(sent, W, HostOf(n)) ELSE sent

LEMMA FlowIs ==
  ASSUME wf \in Workflows, EdgesCarry, NEW P, NEW R, Filed(P, R), NEW n \in Nodes, NEW no,
         NEW G, Givers(n, G),
         NEW own, NEW sent, NEW W, NEW Q, FlowOf(n, no, G, P, R, own, sent, W, Q)
  PROVE  /\ Filed(Q, W) /\ W[n] = Output(n, no)
         /\ \A m \in Nodes : m # n /\ (IsMiddleware(n) => m # HostOf(n)) => W[m] = R[m]
         /\ IsMiddleware(n) => \A k \in wf.outs[HostOf(n)] \cap DOMAIN W[HostOf(n)] :
                                 k \in DOMAIN R[HostOf(n)] /\ W[HostOf(n)][k] = R[HostOf(n)][k]
         /\ \A e \in Bindings : SourceOf(e) \notin G =>
              Q[TargetOf(e)][e.slot] = P[TargetOf(e)][e.slot]
         /\ \A e \in Bindings :
              /\ SourceOf(e) \in G
              /\ \A b \in Bindings : SourceOf(b) = n => TargetOf(b) # HostOf(n) \/ e.root # "parameters"
              => Q[TargetOf(e)][e.slot] = IF e.key \in DOMAIN Read(e, P, W)
                                          THEN Read(e, P, W)[e.key] ELSE P[TargetOf(e)][e.slot]
         /\ \A u \in Nodes : (\A b \in Bindings : SourceOf(b) \in G => TargetOf(b) # u) =>
              \A k \in wf.slots[u] : Q[u][k] = P[u][k]
PROOF
<1> DEFINE h == HostOf(n)
<1>1. DOMAIN P = Nodes /\ DOMAIN R = Nodes /\ (\A m \in Nodes : DOMAIN P[m] = wf.slots[m])
      /\ \A m \in Nodes : ~IsHost(m) => DOMAIN R[m] \subseteq wf.outs[m]
  BY DEF Filed
<1>2. /\ DOMAIN own = Nodes /\ own[n] = Output(n, no) /\ DOMAIN own[n] = wf.outs[n]
      /\ \A m \in Nodes : m # n => own[m] = R[m]
  BY <1>1 DEF FlowOf, Output
<1>3. Filed(P, own)
  BY <1>1, <1>2 DEF Filed
<1>4. /\ IsMiddleware(n) => h \in Nodes /\ h # n /\ IsHost(h)
      /\ h \in G => IsMiddleware(n)
  BY Place DEF Givers
<1>5. n \in G => sent = Applied(P, own, n)
  BY DEF FlowOf
<1>6. n \notin G => sent = P
  BY DEF FlowOf
<1>7. /\ DOMAIN sent = Nodes /\ \A u \in Nodes : DOMAIN sent[u] = wf.slots[u]
      /\ \A e \in Bindings :
           sent[TargetOf(e)][e.slot] = IF n \in G /\ SourceOf(e) = n /\ e.key \in DOMAIN Read(e, P, own)
                                       THEN Read(e, P, own)[e.key] ELSE P[TargetOf(e)][e.slot]
      /\ \A u \in Nodes : (\A e \in Bindings : n \in G /\ SourceOf(e) = n => TargetOf(e) # u) =>
           \A k \in wf.slots[u] : sent[u][k] = P[u][k]
  <2>1. CASE n \in G
    <3>1. sent = Applied(P, own, n)
      BY <2>1, <1>5
    <3>2. /\ DOMAIN sent = Nodes /\ \A u \in Nodes : DOMAIN sent[u] = wf.slots[u]
          /\ \A e \in Bindings :
               sent[TargetOf(e)][e.slot] = IF SourceOf(e) = n /\ e.key \in DOMAIN Read(e, P, own)
                                       THEN Read(e, P, own)[e.key] ELSE P[TargetOf(e)][e.slot]
          /\ \A u \in Nodes : (\A e \in Bindings : SourceOf(e) = n => TargetOf(e) # u) =>
               \A k \in wf.slots[u] : sent[u][k] = P[u][k]
      BY <3>1, <1>3, AppliedIs
    <3> QED
      BY <2>1, <3>2
  <2>2. CASE n \notin G
    BY <2>2, <1>1, <1>6
  <2> QED
    BY <2>1, <2>2
<1>8. /\ DOMAIN W = Nodes /\ \A m \in Nodes : (IsMiddleware(n) => m # h) => W[m] = own[m]
      /\ IsMiddleware(n) => \A k \in wf.outs[h] \cap DOMAIN W[h] : k \in DOMAIN own[h] /\ W[h][k] = own[h][k]
  <2>1. CASE IsMiddleware(n)
    <3>1. W = Projected(own, n)
      BY <2>1 DEF FlowOf
    <3>2. /\ DOMAIN W = Nodes /\ \A m \in Nodes : m # HostOf(n) => W[m] = own[m]
          /\ \A k \in wf.outs[HostOf(n)] \cap DOMAIN W[HostOf(n)] :
              k \in DOMAIN own[HostOf(n)] /\ W[HostOf(n)][k] = own[HostOf(n)][k]
      BY <2>1, <3>1, <1>2, ProjectedIs
    <3> QED
      BY <2>1, <3>2
  <2>2. CASE ~IsMiddleware(n)
    <3>1. W = own
      BY <2>2 DEF FlowOf
    <3> QED
      BY <2>2, <3>1, <1>2
  <2> QED
    BY <2>1, <2>2
<1>9. W[n] = Output(n, no)
  BY <1>2, <1>4, <1>8
<1>10. Filed(sent, W)
  BY <1>2, <1>3, <1>4, <1>7, <1>8 DEF Filed
<1>11. /\ DOMAIN Q = Nodes /\ \A u \in Nodes : DOMAIN Q[u] = wf.slots[u]
       /\ \A e \in Bindings :
            Q[TargetOf(e)][e.slot] = IF h \in G /\ SourceOf(e) = h /\ e.key \in DOMAIN Read(e, sent, W)
                                       THEN Read(e, sent, W)[e.key] ELSE sent[TargetOf(e)][e.slot]
       /\ \A u \in Nodes : (\A e \in Bindings : h \in G /\ SourceOf(e) = h => TargetOf(e) # u) =>
            \A k \in wf.slots[u] : Q[u][k] = sent[u][k]
  <2>1. CASE h \in G
    <3>1. Q = Applied(sent, W, h)
      BY <2>1 DEF FlowOf
    <3>2. PICK m \in Nodes : m = h
      BY <2>1, <1>4
    <3>3. Q = Applied(sent, W, m)
      BY <3>1, <3>2
    <3>4. /\ DOMAIN Q = Nodes /\ \A u \in Nodes : DOMAIN Q[u] = wf.slots[u]
          /\ \A e \in Bindings :
               Q[TargetOf(e)][e.slot] = IF SourceOf(e) = m /\ e.key \in DOMAIN Read(e, sent, W)
                                       THEN Read(e, sent, W)[e.key] ELSE sent[TargetOf(e)][e.slot]
          /\ \A u \in Nodes : (\A e \in Bindings : SourceOf(e) = m => TargetOf(e) # u) =>
               \A k \in wf.slots[u] : Q[u][k] = sent[u][k]
      BY <3>3, <1>10, AppliedIs
    <3> QED
      BY <2>1, <3>2, <3>4
  <2>2. CASE h \notin G
    <3>1. Q = sent
      BY <2>2 DEF FlowOf
    <3> QED
      BY <2>2, <3>1, <1>7
  <2> QED
    BY <2>1, <2>2
<1>12. Filed(Q, W)
  BY <1>10, <1>11 DEF Filed
<1>13. \A m : m \in G <=> (m = n /\ n \in G) \/ (m = h /\ h \in G)
  BY DEF Givers
<1>14. ASSUME NEW e \in Bindings, SourceOf(e) \notin G
       PROVE  Q[TargetOf(e)][e.slot] = P[TargetOf(e)][e.slot]
  BY <1>7, <1>11, <1>13, <1>14
<1>15. ASSUME NEW e \in Bindings, SourceOf(e) \in G,
              \A b \in Bindings : SourceOf(b) = n => TargetOf(b) # h \/ e.root # "parameters"
       PROVE  Q[TargetOf(e)][e.slot] = IF e.key \in DOMAIN Read(e, P, W)
                                       THEN Read(e, P, W)[e.key] ELSE P[TargetOf(e)][e.slot]
  <2>1. CASE SourceOf(e) = n /\ n \in G
    <3>1. ~(h \in G /\ SourceOf(e) = h)
      BY <2>1, <1>4
    <3>2. Read(e, P, own) = Read(e, P, W)
      BY <2>1, <1>2, <1>9 DEF Read
    <3> QED
      BY <2>1, <3>1, <3>2, <1>7, <1>11
  <2>2. CASE SourceOf(e) = h /\ h \in G
    <3>1. SourceOf(e) # n /\ h \in Nodes
      BY <2>2, <1>4
    <3>2. sent[TargetOf(e)][e.slot] = P[TargetOf(e)][e.slot]
      BY <3>1, <1>7
    <3>3. DOMAIN Read(e, sent, W) = DOMAIN Read(e, P, W)
          /\ \A k \in DOMAIN Read(e, P, W) : Read(e, sent, W)[k] = Read(e, P, W)[k]
      <4>1. CASE e.root = "parameters"
        <5>1. \A b \in Bindings : n \in G /\ SourceOf(b) = n => TargetOf(b) # h
          BY <4>1, <1>15
        <5>2. DOMAIN sent[h] = DOMAIN P[h] /\ \A k \in DOMAIN P[h] : sent[h][k] = P[h][k]
          BY <5>1, <3>1, <1>1, <1>7
        <5> QED
          BY <4>1, <5>2, <2>2 DEF Read
      <4>2. CASE e.root # "parameters"
        BY <4>2 DEF Read
      <4> QED
        BY <4>1, <4>2
    <3> QED
      BY <2>2, <3>2, <3>3, <1>11
  <2> QED
    BY <2>1, <2>2, <1>13, <1>15
<1>16. ASSUME NEW u \in Nodes, \A b \in Bindings : SourceOf(b) \in G => TargetOf(b) # u,
              NEW k \in wf.slots[u]
       PROVE  Q[u][k] = P[u][k]
  BY <1>7, <1>11, <1>13, <1>16
<1>17. /\ \A m \in Nodes : m # n /\ (IsMiddleware(n) => m # h) => W[m] = R[m]
       /\ IsMiddleware(n) => \A k \in wf.outs[h] \cap DOMAIN W[h] : k \in DOMAIN R[h] /\ W[h][k] = R[h][k]
  BY <1>2, <1>4, <1>8
<1> QED
  BY <1>9, <1>12, <1>14, <1>15, <1>16, <1>17

\* Node n, one of those that run, is about to report.
Working(s, X, N, L, n) ==
  /\ Shaped(s) /\ s.adopted = {} /\ Typed(X, N, L) /\ Told(s, X, N, L) /\ Ordered(s)
  /\ n \in Nodes /\ Held(s, n) /\ s.node[n].status = "running"
  /\ IsMiddleware(n) => ~Astir(s.node[HostOf(n)])

\* The host of a middleware that runs has not ended.
LEMMA HostWaits ==
  ASSUME wf \in Workflows, NEW s, NEW X, NEW N, NEW L, NEW n, Working(s, X, N, L, n), IsMiddleware(n)
  PROVE  /\ HostOf(n) \in Nodes /\ Held(s, HostOf(n)) /\ IsHost(HostOf(n)) /\ HostOf(n) # n
         /\ s.node[HostOf(n)].status \notin Good
PROOF
<1> DEFINE h == HostOf(n)
<1>1. n \in Nodes /\ Held(s, n) /\ s.node[n].status = "running"
  BY DEF Working
<1>2. h \in Nodes /\ IsHost(h) /\ wf.graph[h] = wf.graph[n] /\ ~IsHost(n)
  BY <1>1, Place
<1>3. Held(s, h) /\ h \notin s.adopted
  BY <1>1, <1>2 DEF Working, Held
<1>4. PICK m : m = wf.chain[h][1]
  OBVIOUS
<1>5. s.node[m].status \notin Good
  <2>1. CASE Outermost(n)
    <3>1. m = n
      BY <2>1, <1>1, <1>4, Place DEF Outermost
    <3> QED
      BY <3>1, <1>1 DEF Good
  <2>2. CASE ~Outermost(n)
    <3>1. Within(n)
      BY <2>2 DEF Within
    <3>2. m \in Callers(n)
      BY <3>1, <1>1, <1>4, Called
    <3>3. \E y \in X : y.node = m
      BY <3>1, <3>2, <1>1 DEF Working, Told, Astir
    <3>4. s.node[m].status = "running"
      BY <3>3 DEF Working, Told, Claimed, ExecsTold
    <3> QED
      BY <3>4 DEF Good
  <2> QED
    BY <2>1, <2>2
<1>6. s.node[h].status \notin Good
  BY <1>2, <1>3, <1>4, <1>5 DEF Working, Ordered, HostsEnd
<1> QED
  BY <1>1, <1>2, <1>3, <1>6

\* Nothing flows to a node all of whose dependencies have ended.
LEMMA NotInto ==
  ASSUME wf \in Workflows, EdgesCarry, NEW s, NEW X, NEW N, NEW L, NEW n, Working(s, X, N, L, n),
         NEW G, Givers(n, G),
         NEW e \in Bindings, Awaited(e), \A d \in Upstream(TargetOf(e)) : s.node[d].status \in Good
  PROVE  SourceOf(e) \notin G
PROOF
<1> SUFFICES ASSUME SourceOf(e) = n \/ (IsMiddleware(n) /\ SourceOf(e) = HostOf(n)) PROVE FALSE
  BY DEF Givers
<1>1. Anchor(e) = SourceOf(e) \/ (IsMiddleware(SourceOf(e)) /\ Anchor(e) = HostOf(SourceOf(e)))
  BY AnchorIs
<1>2. s.node[Anchor(e)].status \in Good
  BY AnchorIs
<1>3. s.node[n].status \notin Good
  BY DEF Working, Good
<1>4. n \in Nodes
  BY DEF Working
<1>5. IsMiddleware(n) => s.node[HostOf(n)].status \notin Good /\ ~IsMiddleware(HostOf(n))
  <2> SUFFICES ASSUME IsMiddleware(n) PROVE s.node[HostOf(n)].status \notin Good /\ ~IsMiddleware(HostOf(n))
    OBVIOUS
  <2>1. HostOf(n) \in Nodes /\ IsHost(HostOf(n)) /\ s.node[HostOf(n)].status \notin Good
    BY HostWaits
  <2> QED
    BY <2>1, Members
<1> QED
  BY <1>1, <1>2, <1>3, <1>5

\* What goes has all it depends on.
LEMMA UpstreamIs ==
  ASSUME wf \in Workflows, NEW s, Ordered(s), NEW m \in Nodes, Held(s, m), Goes(s.node[m])
  PROVE  \A d \in DepsOf(m) : s.node[d].status \in Good
PROOF
<1>1. Undone(s, m) = {}
  BY DEF Ordered, Counts
<1> QED
  BY <1>1 DEF Undone

LEMMA PlainUpstream ==
  ASSUME wf \in Workflows, NEW m \in Nodes, ~IsMiddleware(m)
  PROVE  Upstream(m) = wf.deps[m] /\ DepsOf(m) = wf.deps[m]
BY DEF Upstream, DepsOf, Outermost

\* A node whose parameters are given on has all it depends on.
LEMMA SourcesReady ==
  ASSUME wf \in Workflows, EdgesOfHosts, EdgesCarry, NEW s, NEW X, NEW N, NEW L, NEW n, Working(s, X, N, L, n),
         NEW e \in Bindings, e.root = "parameters",
         \/ SourceOf(e) = n
         \/ SourceOf(e) = HostOf(n) /\ Outermost(n)
         \/ Held(s, SourceOf(e)) /\ s.node[SourceOf(e)].status \in Good
  PROVE  \A b \in Bindings : TargetOf(b) = SourceOf(e) =>
           Awaited(b) /\ \A d \in Upstream(TargetOf(b)) : s.node[d].status \in Good
PROOF
<1> DEFINE S == SourceOf(e)
<1>1. S \in Nodes /\ ~IsMiddleware(S) /\ \A b \in Bindings : TargetOf(b) = S => b.scope \in {None} \cup wf.deps[S]
  BY EdgeIs
<1>2. Upstream(S) = wf.deps[S] /\ DepsOf(S) = wf.deps[S]
  BY <1>1, PlainUpstream
<1>3. n \in Nodes /\ Held(s, n) /\ Goes(s.node[n]) /\ Ordered(s)
  BY DEF Working, Goes
<1>4. \A d \in DepsOf(n) : s.node[d].status \in Good
  BY <1>3, UpstreamIs
<1> HIDE DEF S
<1>5. \A d \in wf.deps[S] : s.node[d].status \in Good
  <2>1. CASE S = n
    BY <2>1, <1>2, <1>4
  <2>2. CASE S = HostOf(n) /\ Outermost(n)
    <3>1. IsMiddleware(n)
      BY <2>2 DEF Outermost
    <3>2. n \notin wf.deps[S]
      BY <3>1, <1>1 DEF EdgesOfHosts, IsMiddleware, Nodes
    <3>3. wf.deps[S] \subseteq DepsOf(n)
      BY <2>2, <3>2 DEF DepsOf
    <3> QED
      BY <3>3, <1>4
  <2>3. CASE Held(s, S) /\ s.node[S].status \in Good
    <3>1. Goes(s.node[S])
      BY <2>3 DEF Goes
    <3> QED
      BY <2>3, <3>1, <1>1, <1>2, <1>3, UpstreamIs
  <2> QED
    BY <2>1, <2>2, <2>3 DEF S
<1> QED
  BY <1>1, <1>2, <1>5 DEF Awaited, S

\* How the report st of n takes the graphs from s to t, with the frames C that end.
Takes(s, t, n, st, C) ==
  /\ Solid(s, t, EndedBy(s, n, st) \cup C) /\ st # "skipped"
  /\ IF IsHost(n) THEN t.node[n].status = "queued" ELSE st \in Good
  /\ EndsHost(s, n, st) => t.node[HostOf(n)].status \in Good
  /\ \A c \in C : /\ c \in wf.containers /\ c = wf.graph[n] /\ s.node[c].status = "running"
                  /\ Held(s, c) /\ (IsHost(c) => t.node[c].status = "queued")

\* The data on which the report acts: that of before, with new nodes in new frames.
Begins(s, t, P, R, A, B) ==
  \A m \in Nodes : /\ Held(s, m) => A[m] = P[m] /\ B[m] = R[m]
                   /\ Held(t, m) /\ ~Held(s, m) => A[m] = Default(m) /\ B[m] = Empty

\* The containers among them give nothing.
LEMMA BarrenIs ==
  ASSUME wf \in Workflows, EdgesCarry, NEW e \in Bindings, SourceOf(e) \in wf.containers
  PROVE  ~Offers(e) /\ e.root # "parameters"
PROOF
<1>1. e.root # "parameters"
  BY EdgeIs
<1>2. wf.outs[SourceOf(e)] = {}
  BY DEF EdgesCarry
<1> QED
  BY <1>1, <1>2 DEF Offers

\* Those that give along their edges: n if it is no host, and the host it ends.
Giving(s, n, st, G) ==
  /\ G \subseteq {n, HostOf(n)}
  /\ n \in G <=> ~IsHost(n)
  /\ HostOf(n) \in G <=> EndsHost(s, n, st)

\* What those are given that wait for nothing any more stays as it is.
Spares(s, A, Q) ==
  \A e \in Bindings : Awaited(e) /\ (\A d \in Upstream(TargetOf(e)) : s.node[d].status \in Good) =>
    Q[TargetOf(e)][e.slot] = A[TargetOf(e)][e.slot]

LEMMA ResultFlows_ ==
  ASSUME wf \in Workflows, EdgesOfHosts, EdgesCarry,
         NEW s, NEW X, NEW N, NEW L, NEW n, Working(s, X, N, L, n),
         NEW t, NEW st, NEW C, Takes(s, t, n, st, C),
         NEW P, NEW R, NEW A, NEW B, Filed(P, R), Filed(A, B), Begins(s, t, P, R, A, B),
         NEW no, Fresh(s, R, no), Delivered(s, P, R),
         NEW G, Giving(s, n, st, G),
         NEW own, NEW sent, NEW W, NEW Q, FlowOf(n, no[n], G, A, B, own, sent, W, Q)
  PROVE  Filed(Q, W) /\ Fresh(t, W, no) /\ Delivered(t, Q, W) /\ Spares(s, A, Q)
PROOF
<1> DEFINE h == HostOf(n)
<1>0. G \subseteq {n, HostOf(n)} /\ (n \in G <=> ~IsHost(n)) /\ (HostOf(n) \in G <=> EndsHost(s, n, st))
  BY DEF Giving
<1>1. /\ n \in Nodes /\ Held(s, n) /\ s.node[n].status = "running" /\ s.node[n].status \notin Good
      /\ (IsMiddleware(n) => ~Astir(s.node[h]))
  BY DEF Working, Good
<1>2. (h \in G => IsMiddleware(n) /\ Outermost(n)) /\ Givers(n, G)
  BY <1>0 DEF Givers, EndsHost, Chained, Takes
<1>3. IsMiddleware(n) => h \in Nodes /\ Held(s, h) /\ IsHost(h) /\ h # n /\ s.node[h].status \notin Good
                         /\ ~IsHost(n) /\ ~IsMiddleware(h)
  <2>1. IsMiddleware(n) => h \in Nodes /\ Held(s, h) /\ IsHost(h) /\ h # n /\ s.node[h].status \notin Good
    BY HostWaits
  <2>2. IsMiddleware(n) => ~IsHost(n)
    BY <1>1, Place
  <2> QED
    BY <2>1, <2>2, Members
<1>4. \A m : m \in G <=> (m = n /\ ~IsHost(n)) \/ (m = h /\ h \in G)
  BY <1>0 DEF Givers
<1>5. /\ Filed(Q, W) /\ W[n] = Output(n, no[n])
      /\ \A m \in Nodes : m # n /\ (IsMiddleware(n) => m # HostOf(n)) => W[m] = B[m]
      /\ IsMiddleware(n) => \A k \in wf.outs[HostOf(n)] \cap DOMAIN W[HostOf(n)] :
                              k \in DOMAIN B[HostOf(n)] /\ W[HostOf(n)][k] = B[HostOf(n)][k]
      /\ \A e \in Bindings : SourceOf(e) \notin G =>
           Q[TargetOf(e)][e.slot] = A[TargetOf(e)][e.slot]
      /\ \A e \in Bindings :
           /\ SourceOf(e) \in G
           /\ \A b \in Bindings : SourceOf(b) = n => TargetOf(b) # HostOf(n) \/ e.root # "parameters"
           => Q[TargetOf(e)][e.slot] = IF e.key \in DOMAIN Read(e, A, W)
                                       THEN Read(e, A, W)[e.key] ELSE A[TargetOf(e)][e.slot]
      /\ \A u \in Nodes : (\A b \in Bindings : SourceOf(b) \in G => TargetOf(b) # u) =>
           \A k \in wf.slots[u] : Q[u][k] = A[u][k]
  <2>1. PICK z : z = no[n]
    OBVIOUS
  <2>2. /\ Filed(Q, W) /\ W[n] = Output(n, z)
        /\ \A m \in Nodes : m # n /\ (IsMiddleware(n) => m # HostOf(n)) => W[m] = B[m]
        /\ IsMiddleware(n) => \A k \in wf.outs[HostOf(n)] \cap DOMAIN W[HostOf(n)] :
                                k \in DOMAIN B[HostOf(n)] /\ W[HostOf(n)][k] = B[HostOf(n)][k]
        /\ \A e \in Bindings : SourceOf(e) \notin G =>
             Q[TargetOf(e)][e.slot] = A[TargetOf(e)][e.slot]
        /\ \A e \in Bindings :
             /\ SourceOf(e) \in G
             /\ \A b \in Bindings : SourceOf(b) = n => TargetOf(b) # HostOf(n) \/ e.root # "parameters"
             => Q[TargetOf(e)][e.slot] = IF e.key \in DOMAIN Read(e, A, W)
                                         THEN Read(e, A, W)[e.key] ELSE A[TargetOf(e)][e.slot]
        /\ \A u \in Nodes : (\A b \in Bindings : SourceOf(b) \in G => TargetOf(b) # u) =>
             \A k \in wf.slots[u] : Q[u][k] = A[u][k]
    <3>1. FlowOf(n, z, G, A, B, own, sent, W, Q)
      BY <2>1
    <3>2. n \in Nodes /\ Givers(n, G)
      BY <1>1, <1>2
    <3> QED
      BY <3>1, <3>2, FlowIs
  <2> QED
    BY <2>1, <2>2
<1>6. \A m \in Nodes : Held(s, m) => A[m] = P[m] /\ B[m] = R[m]
  BY DEF Begins
<1>7. \A m \in Nodes : Held(t, m) /\ ~Held(s, m) =>
        /\ A[m] = Default(m) /\ B[m] = Empty /\ W[m] = Empty /\ m \notin G /\ t.node[m].status \notin Good
  <2> SUFFICES ASSUME NEW m \in Nodes, Held(t, m), ~Held(s, m)
               PROVE  /\ A[m] = Default(m) /\ B[m] = Empty /\ W[m] = Empty /\ m \notin G /\ t.node[m].status \notin Good
    OBVIOUS
  <2>1. m # n /\ (IsMiddleware(n) => m # h)
    BY <1>1, <1>3
  <2>2. m \notin EndedBy(s, n, st) \cup C
    BY <2>1, <1>0, <1>2 DEF EndedBy, Takes
  <2> QED
    BY <2>1, <2>2, <1>2, <1>4, <1>5 DEF Begins, Takes, Solid
<1>8. \A m \in Nodes : Held(s, m) /\ Held(t, m) /\ m # n /\ ~(m = h /\ h \in G) /\ m \notin C =>
        /\ t.node[m].status \in Good <=> s.node[m].status \in Good
        /\ Firm(t, m) => Firm(s, m)
  <2> SUFFICES ASSUME NEW m \in Nodes, Held(s, m), Held(t, m), m # n, ~(m = h /\ h \in G), m \notin C
               PROVE  /\ t.node[m].status \in Good <=> s.node[m].status \in Good
                      /\ Firm(t, m) => Firm(s, m)
    OBVIOUS
  <2>1. m \notin EndedBy(s, n, st) \cup C
    BY <1>0 DEF EndedBy
  <2> QED
    BY <2>1, SolidIs DEF Takes
<1>9. \A c \in C : c \in wf.containers /\ c \in Nodes /\ wf.outs[c] = {} /\ s.node[c].status = "running"
                   /\ (IsHost(c) => t.node[c].status = "queued")
  BY Flow DEF Takes, EdgesCarry
<1>10. ASSUME NEW e \in Bindings, Awaited(e), \A d \in Upstream(TargetOf(e)) : s.node[d].status \in Good
       PROVE  SourceOf(e) \notin G
  BY <1>2, <1>10, NotInto
<1> HIDE DEF h
<1>11. Fresh(t, W, no)
  <2> SUFFICES ASSUME NEW m \in Nodes, Held(t, m), Firm(t, m), NEW k \in wf.outs[m] \cap DOMAIN W[m]
               PROVE  W[m][k] = <<m, no[m]>>
    BY DEF Fresh
  <2>1. CASE ~Held(s, m)
    BY <2>1, <1>7 DEF Empty
  <2>2. CASE m = n
    BY <2>2, <1>5 DEF Output
  <2>3. CASE IsMiddleware(n) /\ m = h
    <3>1. k \in DOMAIN R[m] /\ W[m][k] = R[m][k]
      BY <2>3, <1>3, <1>5, <1>6 DEF h
    <3>2. Firm(s, m) /\ Held(s, m)
      BY <2>3, <1>1, <1>3 DEF Firm, Within
    <3> QED
      BY <3>1, <3>2 DEF Fresh
  <2>4. CASE Held(s, m) /\ m # n /\ ~(IsMiddleware(n) /\ m = h)
    <3>1. m \notin C
      BY <1>9
    <3>2. W[m] = R[m]
      BY <2>4, <1>5, <1>6 DEF h
    <3>3. Firm(s, m)
      BY <2>4, <3>1, <1>2, <1>8
    <3> QED
      BY <2>4, <3>2, <3>3 DEF Fresh
  <2> QED
    BY <2>1, <2>2, <2>3, <2>4
<1>12. Delivered(t, Q, W)
  <2> SUFFICES ASSUME NEW e \in Bindings, Held(t, SourceOf(e)), Awaited(e)
               PROVE  /\ GivenOn(t, e) => Q[TargetOf(e)][e.slot] = Given(e, Q, W)
                      /\ IsHost(SourceOf(e)) /\ ~GivenOn(t, e) => Q[TargetOf(e)][e.slot] = <<TargetOf(e)>>
    BY DEF Delivered
  <2> DEFINE S == SourceOf(e)
             T == TargetOf(e)
  <2>1. S \in Nodes /\ T \in Nodes /\ wf.graph[S] = wf.graph[T] /\ e.slot \in wf.slots[T]
        /\ (e.root = "parameters" => ~IsMiddleware(S))
    BY EdgeIs
  <2>2. Held(t, T) /\ (Held(s, T) <=> Held(s, S))
    BY <2>1 DEF Held
  <2>3. CASE ~Held(s, S)
    <3>1. A[T] = Default(T) /\ W[S] = Empty /\ S \notin G /\ t.node[S].status \notin Good
      BY <2>1, <2>2, <2>3, <1>7
    <3>2. Q[T][e.slot] = <<T>>
      BY <3>1, <2>1, <1>5 DEF Default
    <3>3. CASE e.root = "parameters"
      <4>1. Offers(e) => ~GivenOn(t, e)
        BY <3>1, <3>3 DEF GivenOn
      <4>2. ~Offers(e) => Given(e, Q, W) = <<T>>
        BY <3>3, <2>1, <1>5, OffersNot
      <4> QED
        BY <3>2, <4>1, <4>2
    <3>4. CASE e.root # "parameters"
      <4>1. Given(e, Q, W) = <<T>>
        BY <3>1, <3>4 DEF Given, Read, Empty
      <4> QED
        BY <3>2, <4>1
    <3> QED
      BY <3>3, <3>4
  <2>4. CASE Held(s, S)
    <3>1. A[T] = P[T] /\ A[S] = P[S] /\ B[S] = R[S]
      BY <2>1, <2>2, <2>4, <1>6
    <3>2. /\ GivenOn(s, e) => P[T][e.slot] = Given(e, P, R)
          /\ IsHost(S) /\ ~GivenOn(s, e) => P[T][e.slot] = <<T>>
      BY <2>4 DEF Delivered
    <3>3. e.root = "parameters" /\ (S = n \/ (S = h /\ h \in G) \/ s.node[S].status \in Good) =>
            /\ \A k \in wf.slots[S] : Q[S][k] = A[S][k]
            /\ \A b \in Bindings : SourceOf(b) \in G => TargetOf(b) # S
      <4> SUFFICES ASSUME e.root = "parameters", S = n \/ (S = h /\ h \in G) \/ s.node[S].status \in Good
                   PROVE  /\ \A k \in wf.slots[S] : Q[S][k] = A[S][k]
                          /\ \A b \in Bindings : SourceOf(b) \in G => TargetOf(b) # S
        OBVIOUS
      <4>1. \A b \in Bindings : TargetOf(b) = S =>
              Awaited(b) /\ \A d \in Upstream(TargetOf(b)) : s.node[d].status \in Good
        BY <2>4, <1>2, SourcesReady DEF h
      <4>2. \A b \in Bindings : SourceOf(b) \in G => TargetOf(b) # S
        BY <4>1, <1>10
      <4> QED
        BY <4>2, <2>1, <1>5
    <3>4. ~Offers(e) /\ (~IsHost(S) \/ e.root = "parameters") =>
            Given(e, Q, W) = <<T>> /\ Given(e, P, R) = <<T>>
      BY <2>1, <1>5, OffersNot
    <3>5. CASE S \notin G /\ S # n /\ S \notin C
      <4>1. Q[T][e.slot] = P[T][e.slot]
        BY <3>1, <3>5, <1>5
      <4>2. /\ t.node[S].status \in Good <=> s.node[S].status \in Good
            /\ Firm(t, S) => Firm(s, S)
        BY <2>1, <2>4, <3>5, <1>4, <1>8
      <4>3. GivenOn(t, e) => GivenOn(s, e)
        BY <4>2 DEF GivenOn
      <4>4. IsHost(S) => (GivenOn(t, e) <=> GivenOn(s, e))
        BY <4>2 DEF GivenOn
      <4>5. ASSUME GivenOn(s, e)
            PROVE  Given(e, Q, W) = Given(e, P, R)
        <5>1. CASE e.root = "parameters" /\ Offers(e)
          <6>1. s.node[S].status \in Good
            BY <5>1, <4>5 DEF GivenOn
          <6>2. DOMAIN Q[S] = wf.slots[S] /\ DOMAIN P[S] = wf.slots[S]
            BY <2>1, <1>5 DEF Filed
          <6> QED
            BY <6>1, <6>2, <5>1, <3>1, <3>3 DEF Given, Read
        <5>2. CASE e.root = "parameters" /\ ~Offers(e)
          BY <5>2, <3>4
        <5>3. CASE e.root # "parameters"
          <6>1. ~(IsMiddleware(n) /\ S = h)
            BY <4>5, <1>3 DEF GivenOn
          <6>2. W[S] = R[S]
            BY <6>1, <2>1, <3>1, <3>5, <1>5 DEF h
          <6> QED
            BY <6>2, <5>3 DEF Given, Read
        <5> QED
          BY <5>1, <5>2, <5>3
      <4> QED
        BY <4>1, <4>3, <4>4, <4>5, <3>2
    <3>6. CASE S \notin G /\ S \in C
      <4>1. Q[T][e.slot] = P[T][e.slot]
        BY <3>1, <3>6, <1>5
      <4>2. ~Offers(e) /\ e.root # "parameters"
        BY <3>6, <1>9, BarrenIs
      <4>3. CASE IsHost(S)
        <5>1. ~GivenOn(t, e) /\ ~GivenOn(s, e)
          BY <4>3, <3>6, <1>9 DEF GivenOn, Good
        <5> QED
          BY <4>1, <4>3, <5>1, <3>2
      <4>4. CASE ~IsHost(S)
        <5>1. GivenOn(s, e)
          BY <4>2, <4>4 DEF GivenOn
        <5> QED
          BY <4>1, <4>2, <4>4, <5>1, <3>2, <3>4
      <4> QED
        BY <4>3, <4>4
    <3>7. CASE S \notin G /\ S = n
      <4>1. Q[T][e.slot] = P[T][e.slot]
        BY <3>1, <3>7, <1>5
      <4>2. IsHost(S)
        BY <3>7, <1>4
      <4>3. t.node[S].status = "queued"
        BY <4>2, <3>7 DEF Takes
      <4>4. ~GivenOn(t, e) /\ ~GivenOn(s, e)
        BY <4>2, <4>3, <3>7, <1>1 DEF GivenOn, Good
      <4> QED
        BY <4>1, <4>2, <4>4, <3>2
    <3>8. CASE S \in G
      <4>1. (S = n /\ ~IsHost(n)) \/ (S = h /\ h \in G)
        BY <3>8, <1>4
      <4>2. e.root = "parameters" =>
              /\ \A k \in wf.slots[S] : Q[S][k] = A[S][k]
              /\ \A b \in Bindings : SourceOf(b) \in G => TargetOf(b) # S
        BY <4>1, <3>3
      <4>3. \A b \in Bindings : SourceOf(b) = n => TargetOf(b) # HostOf(n) \/ e.root # "parameters"
        <5> SUFFICES ASSUME NEW b \in Bindings, SourceOf(b) = n, e.root = "parameters" PROVE TargetOf(b) # h
          BY DEF h
        <5>1. CASE S = n /\ ~IsHost(n)
          <6>1. h = None
            BY <5>1, <2>1 DEF IsMiddleware, HostOf, h
          <6> QED
            BY <6>1, Flow, EdgeIs
        <5>2. CASE S = h /\ h \in G
          <6>1. n \in G
            BY <5>2, <1>2, <1>3, <1>4
          <6> QED
            BY <6>1, <5>2, <4>2
        <5> QED
          BY <4>1, <5>1, <5>2
      <4>4. Q[T][e.slot] = IF e.key \in DOMAIN Read(e, A, W) THEN Read(e, A, W)[e.key] ELSE A[T][e.slot]
        BY <3>8, <4>3, <1>5
      <4>5. DOMAIN Read(e, Q, W) = DOMAIN Read(e, A, W)
            /\ \A k \in DOMAIN Read(e, A, W) : Read(e, Q, W)[k] = Read(e, A, W)[k]
        <5>1. DOMAIN Q[S] = wf.slots[S] /\ DOMAIN A[S] = wf.slots[S]
          BY <2>1, <1>5 DEF Filed
        <5> QED
          BY <5>1, <4>2 DEF Read
      <4>6. CASE e.key \in DOMAIN Read(e, A, W)
        <5>1. Q[T][e.slot] = Given(e, Q, W)
          BY <4>4, <4>5, <4>6 DEF Given
        <5>2. IsHost(S) => GivenOn(t, e)
          <6>1. IsHost(S) => t.node[S].status \in Good
            BY <4>1, <1>0 DEF Takes, h
          <6> QED
            BY <6>1 DEF GivenOn
        <5> QED
          BY <5>1, <5>2
      <4>7. CASE e.key \notin DOMAIN Read(e, A, W)
        <5>1. Q[T][e.slot] = P[T][e.slot] /\ Given(e, Q, W) = <<T>>
          BY <4>4, <4>5, <4>7, <3>1 DEF Given
        <5>2. P[T][e.slot] = <<T>>
          <6>1. CASE S = n /\ ~IsHost(n)
            <7>1. ~Offers(e)
              <8>1. DOMAIN A[S] = wf.slots[S] /\ DOMAIN W[S] = wf.outs[S]
                BY <6>1, <2>1, <1>5 DEF Filed, Output
              <8> QED
                BY <8>1, <4>7 DEF Offers, Read
            <7>2. GivenOn(s, e)
              BY <7>1, <6>1 DEF GivenOn
            <7> QED
              BY <7>1, <7>2, <6>1, <3>2, <3>4
          <6>2. CASE S = h /\ h \in G
            <7>1. IsHost(S) /\ s.node[S].status \notin Good
              BY <6>2, <1>2, <1>3
            <7>2. ~GivenOn(s, e)
              BY <7>1 DEF GivenOn
            <7> QED
              BY <7>1, <7>2, <3>2
          <6> QED
            BY <4>1, <6>1, <6>2
        <5> QED
          BY <5>1, <5>2
      <4> QED
        BY <4>6, <4>7
    <3> QED
      BY <3>5, <3>6, <3>7, <3>8
  <2> QED
    BY <2>3, <2>4
<1>13. Spares(s, A, Q)
  BY <1>5, <1>10 DEF Spares
<1> QED
  BY <1>5, <1>11, <1>12, <1>13

---------------------------------------------------------------------------
(* The data along the steps. *)

\* Between the actions, while no fault of Kinds has occurred.
Settled == ShapeInv /\ ToldNow /\ OrderNow /\ DataNow /\ adopted = {}

\* A stage that becomes the graphs of the run, with data that agrees with it.
LEMMA DataNext ==
  ASSUME wf' = wf, NEW t, Graphs' = t, Filed(params', result'), Fresh(t, result', dispatched'),
         Delivered(t, params', result'), Numbered(execs', dispatched'), Loaded(params', carried'),
         DOMAIN carried' = Carriers
  PROVE  DataNow'
PROOF
<1>1. Nodes' = Nodes /\ \A n : IsMiddleware(n)' = IsMiddleware(n)
  BY Rigid
<1>2. \A n : IsHost(n)' = IsHost(n) /\ HostOf(n)' = HostOf(n)
  BY DEF IsHost, HostOf
<1>3. \A n : ChainIndex(n)' = ChainIndex(n)
  BY Zenon DEF ChainIndex, HostOf
<1>4. \A n : Outermost(n)' = Outermost(n)
  BY <1>1, <1>3, Zenon DEF Outermost
<1>5. \A n : Within(n)' = Within(n)
  BY <1>1, <1>2, <1>4, Zenon DEF Within
<1>6. \A n : Held(Graphs, n)' = Held(t, n)
  BY Zenon DEF Held, Active
<1>7. \A e : SourceOf(e)' = SourceOf(e) /\ TargetOf(e)' = TargetOf(e) /\ At(e)' = At(e)
  BY DEF SourceOf, TargetOf, At
<1>8. \A g : Graph(g)' = Graph(g)
  BY <1>1, Zenon DEF Graph
<1>9. \A e : IsBound(e)' = IsBound(e)
  BY <1>7, <1>8 DEF IsBound
<1>10. Bindings' = Bindings
  BY <1>9 DEF Bindings
<1>11. \A n : Upstream(n)' = Upstream(n)
  BY <1>1, <1>2 DEF Upstream
<1>12. \A e : Awaited(e)' = Awaited(e) /\ Offers(e)' = Offers(e)
  BY <1>7, <1>11 DEF Awaited, Offers
<1>13. \A n : Firm(Graphs, n)' = Firm(t, n)
  BY <1>5 DEF Firm, Astir
<1>14. \A e : GivenOn(Graphs, e)' = GivenOn(t, e)
  BY <1>2, <1>7, <1>12, <1>13, Zenon DEF GivenOn
<1>15. \A e : Read(e, params, result)' = Read(e, params', result')
  BY <1>7 DEF Read
<1>16. \A e : Given(e, params, result)' = Given(e, params', result')
  BY <1>7, <1>15 DEF Given
<1>17. Filed(params, result)'
  BY <1>1, <1>2 DEF Filed
<1>18. Fresh(Graphs, result, dispatched)'
  BY <1>1, <1>6, <1>13 DEF Fresh
<1>19. Delivered(Graphs, params, result)'
  BY <1>2, <1>6, <1>7, <1>10, <1>12, <1>14, <1>16 DEF Delivered
<1>20. Numbered(execs, dispatched)'
  BY DEF Numbered
<1>21. Loaded(params, carried)'
  BY <1>7, <1>10, <1>12 DEF Loaded
<1>22. (DOMAIN carried = ready \cup {At(e) : e \in {x \in execs : x.report = "none"}})'
  BY <1>7 DEF Carriers
<1> QED
  BY <1>17, <1>18, <1>19, <1>20, <1>21, <1>22 DEF DataNow

\* What a step starts from: the data of before, with new nodes in new frames.
LEMMA Renewing ==
  ASSUME wf \in Workflows, Filed(params, result), adopted' = {}, NEW t, Shaped(t), t.frames = frames'
  PROVE  /\ Filed(Renewed(params), Cleared(result))
         /\ Begins(Graphs, t, params, result, Renewed(params), Cleared(result))
PROOF
<1>1. Root \notin wf.containers /\ t.frames \in Seq(wf.containers)
  BY Flow DEF Shaped
<1>2. Root \notin ToSet(t.frames)
  BY <1>1 DEF ToSet
<1>3. Added = {} /\ Graphs.frames = frames
  BY DEF Added, Graphs
<1>4. \A m \in Nodes : /\ Held(Graphs, m) => m \notin Opened
                       /\ Held(t, m) /\ ~Held(Graphs, m) => m \in Opened
  BY <1>2, <1>3 DEF Opened, Held, Active
<1>5. \A m \in Nodes : /\ Renewed(params)[m] = IF m \in Opened THEN Default(m) ELSE params[m]
                       /\ Cleared(result)[m] = IF m \in Opened THEN Empty ELSE result[m]
  BY <1>3 DEF Renewed, Cleared
<1>6. DOMAIN Renewed(params) = Nodes /\ DOMAIN Cleared(result) = Nodes
  BY DEF Renewed, Cleared
<1>7. DOMAIN Empty = {} /\ \A m \in Nodes : DOMAIN Default(m) = wf.slots[m]
  BY DEF Empty, Default
<1>8. Filed(Renewed(params), Cleared(result))
  BY <1>5, <1>6, <1>7 DEF Filed
<1>9. Begins(Graphs, t, params, result, Renewed(params), Cleared(result))
  BY <1>4, <1>5 DEF Begins
<1> QED
  BY <1>8, <1>9

\* What is carried on, is packed anew or comes from the request.
Handed ==
  /\ DOMAIN carried' = Carriers
  /\ \A x \in Carriers : \/ x \in DOMAIN carried /\ carried'[x] = carried[x]
                         \/ carried'[x] = params'[x.node]
                         \/ \E q \in DOMAIN carried : q.node = x.node /\ carried'[x] = carried[q]

LEMMA LoadedOn ==
  ASSUME Handed, Loaded(params, carried),
         \A x \in DOMAIN carried : \A e \in Bindings :
           TargetOf(e) = x.node /\ Awaited(e) => params'[x.node][e.slot] = params[x.node][e.slot]
  PROVE  Loaded(params', carried')
PROOF
<1> SUFFICES ASSUME NEW x \in Carriers, NEW e \in Bindings, TargetOf(e) = x.node, Awaited(e)
             PROVE  carried'[x][e.slot] = params'[x.node][e.slot]
  BY DEF Handed, Loaded
<1>1. CASE x \in DOMAIN carried /\ carried'[x] = carried[x]
  BY <1>1 DEF Loaded
<1>2. CASE carried'[x] = params'[x.node]
  BY <1>2
<1>3. CASE \E q \in DOMAIN carried : q.node = x.node /\ carried'[x] = carried[q]
  BY <1>3 DEF Loaded
<1> QED
  BY <1>1, <1>2, <1>3 DEF Handed

LEMMA PacksOn ==
  ASSUME Packs
  PROVE  Handed
PROOF
  BY DEF Packs, Packed, Handed

\* Whom something is carried to is held, and so is all it waits for.
LEMMA CarriedTo ==
  ASSUME Unnested, EdgesOfHosts, Settled, NEW x \in DOMAIN carried
  PROVE  /\ x.node \in Nodes /\ Held(Graphs, x.node)
         /\ \A d \in Upstream(x.node) : Graphs.node[d].status \in Good
PROOF
<1>1. /\ wf \in Workflows /\ Shaped(Graphs) /\ Typed(execs, nexts, pendingNext)
      /\ Graphs.node = node /\ Graphs.ready = ready
  BY TypedNow, Now DEF Settled
<1>2. Claimed(Graphs, execs)
  BY DEF Settled, ToldNow, Told
<1>3. x \in ready \/ \E e \in execs : e.report = "none" /\ x = At(e)
  BY DEF Settled, DataNow
<1>4. CASE x \in ready
  <2>1. x.node \in Nodes /\ Held(Graphs, x.node) /\ Started(x.node)
    BY <1>1, <1>2, <1>4 DEF Shaped, Claimed, ReadyTold, Started
  <2> QED
    BY <2>1, <1>1, DependentsAre DEF Settled
<1>5. CASE \E e \in execs : e.report = "none" /\ x = At(e)
  <2>1. PICK e \in execs : e.report = "none" /\ x.node = e.node
    BY <1>5 DEF At
  <2>2. x.node \in Nodes /\ Held(Graphs, x.node) /\ Started(x.node)
    BY <1>1, <1>2, <2>1 DEF Typed, Claimed, ExecsTold, Started, Runs
  <2> QED
    BY <2>2, <1>1, DependentsAre DEF Settled
<1> QED
  BY <1>3, <1>4, <1>5

\* A step that gives no node a value, and in which those of D are to run again.
LEMMA DataKept ==
  ASSUME Unnested, EdgesOfHosts, EdgesCarry, Settled, wf' = wf, adopted' = {},
         NEW t, Shaped(t), Graphs' = t, NEW D, Solid(Graphs, t, D),
         \A m \in Nodes : Held(t, m) /\ m \in D =>
           Held(Graphs, m) /\ ~Firm(t, m) /\ (IsHost(m) => Graphs.node[m].status \notin Good),
         params' = Renewed(params), Filed(params', result'),
         \A m \in Nodes : Held(t, m) /\ ~Held(Graphs, m) => result'[m] = Empty,
         \A m \in Nodes : Held(t, m) /\ Held(Graphs, m) /\ Firm(t, m) =>
           result'[m] = result[m] /\ dispatched'[m] = dispatched[m],
         Numbered(execs', dispatched'), Handed
  PROVE  DataNow'
PROOF
<1>1. wf \in Workflows
  BY DEF Settled, ShapeInv
<1>2. /\ Filed(params, result) /\ Fresh(Graphs, result, dispatched) /\ Delivered(Graphs, params, result)
      /\ Loaded(params, carried)
  BY DEF Settled, DataNow
<1>3. t.frames = frames'
  <2>1. Graphs'.frames = frames'
    BY DEF Graphs
  <2> QED
    BY <2>1
<1>4. Begins(Graphs, t, params, result, Renewed(params), Cleared(result))
  BY <1>1, <1>2, <1>3, Renewing
<1>5. PICK P, R, Q, W, no, nu, s :
        P = params /\ R = result /\ Q = params' /\ W = result' /\ no = dispatched /\ nu = dispatched' /\ s = Graphs
  OBVIOUS
<1>6. \A m \in Nodes : Held(t, m) =>
        IF Held(s, m) THEN Q[m] = P[m] ELSE Q[m] = Default(m) /\ W[m] = Empty
  BY <1>4, <1>5 DEF Begins
<1>7. \A m \in Nodes : Held(t, m) /\ Held(s, m) /\ Firm(t, m) => W[m] = R[m] /\ nu[m] = no[m]
  BY <1>5
<1>8. /\ Filed(P, R) /\ Filed(Q, W) /\ Fresh(s, R, no) /\ Delivered(s, P, R) /\ Solid(s, t, D)
      /\ \A m \in Nodes : Held(t, m) /\ m \in D =>
           Held(s, m) /\ ~Firm(t, m) /\ (IsHost(m) => s.node[m].status \notin Good)
  BY <1>2, <1>5
<1>9. Fresh(t, W, nu) /\ Delivered(t, Q, W)
  BY <1>1, <1>6, <1>7, <1>8, FlowsNot
<1>10. \A x \in DOMAIN carried : params'[x.node] = params[x.node]
  BY <1>4, CarriedTo DEF Begins
<1>11. Loaded(params', carried')
  BY <1>2, <1>10, LoadedOn
<1>12. DOMAIN carried' = Carriers
  BY DEF Handed
<1> QED
  BY <1>5, <1>9, <1>11, <1>12, DataNext

\* A step in which nothing is dispatched.
LEMMA DataFlows0 ==
  ASSUME Unnested, EdgesOfHosts, EdgesCarry, Settled, wf' = wf, adopted' = {},
         NEW t, Shaped(t), Graphs' = t, NEW D, Solid(Graphs, t, D),
         \A m \in Nodes : Held(t, m) /\ m \in D =>
           Held(Graphs, m) /\ ~Firm(t, m) /\ (IsHost(m) => Graphs.node[m].status \notin Good),
         Flows0, dispatched' = dispatched, \A x \in execs' : \E y \in execs : x.node = y.node /\ x.no = y.no
  PROVE  DataNow'
PROOF
<1>1. wf \in Workflows /\ Filed(params, result) /\ Numbered(execs, dispatched)
  BY DEF Settled, ShapeInv, DataNow
<1>2. t.frames = frames'
  <2>1. Graphs'.frames = frames'
    BY DEF Graphs
  <2> QED
    BY <2>1
<1>3. /\ Filed(Renewed(params), Cleared(result))
      /\ Begins(Graphs, t, params, result, Renewed(params), Cleared(result))
  BY <1>1, <1>2, Renewing
<1>4. params' = Renewed(params) /\ result' = Cleared(result) /\ Handed
  BY PacksOn DEF Flows0
<1>5. Filed(params', result')
  BY <1>3, <1>4
<1>6. /\ \A m \in Nodes : Held(t, m) /\ ~Held(Graphs, m) => result'[m] = Empty
      /\ \A m \in Nodes : Held(t, m) /\ Held(Graphs, m) /\ Firm(t, m) =>
           result'[m] = result[m] /\ dispatched'[m] = dispatched[m]
  BY <1>3, <1>4 DEF Begins
<1>7. Numbered(execs', dispatched')
  BY <1>1 DEF Numbered
<1> QED
  BY <1>4, <1>5, <1>6, <1>7, DataKept

\* A step that leaves the graphs alone.
LEMMA DataQuiet ==
  ASSUME Unnested, EdgesOfHosts, EdgesCarry, Settled, wf' = wf, UNCHANGED graphVars, Flows0,
         dispatched' = dispatched, \A x \in execs' : \E y \in execs : x.node = y.node /\ x.no = y.no
  PROVE  DataNow'
PROOF
<1>1. Graphs' = Graphs /\ adopted' = {}
  BY DEF Settled, Graphs, graphVars
<1>2. Shaped(Graphs)
  BY Now DEF Settled
<1>3. PICK t : t = Graphs
  OBVIOUS
<1>4. Shaped(t) /\ Graphs' = t
  BY <1>1, <1>2, <1>3
<1>5. Solid(Graphs, t, {})
  BY <1>3 DEF Solid
<1>6. \A m \in Nodes : Held(t, m) /\ m \in {} =>
        Held(Graphs, m) /\ ~Firm(t, m) /\ (IsHost(m) => Graphs.node[m].status \notin Good)
  OBVIOUS
<1> QED
  BY <1>1, <1>4, <1>5, <1>6, DataFlows0

LEMMA DataCollect ==
  ASSUME Unnested, EdgesOfHosts, EdgesCarry, Settled, adopted' = {}, Live', CollectReady, Flows0
  PROVE  DataNow'
PROOF
<1> DEFINE g == IF frames = <<>> THEN Root ELSE Last(frames)
           t == CollectFrom(Graphs, g)
<1>1. /\ wf' = wf /\ UNCHANGED <<runStatus, execs, dispatched>>
      /\ IF Live THEN Install(t) ELSE UNCHANGED graphVars
  BY DEF CollectReady
<1>2. Live
  BY <1>1 DEF Live
<1>3. wf \in Workflows /\ Shaped(Graphs) /\ Claimed(Graphs, execs)
  BY TypedNow DEF Settled, ToldNow, Told
<1> HIDE DEF g
<1>4. Shaped(t)
  BY <1>3, Collecting
<1>5. Solid(Graphs, t, {})
  BY <1>3, CollectSolid
<1> HIDE DEF t
<1>6. Graphs' = t
  BY <1>1, <1>2, <1>4, Installed
<1>7. \A x \in execs' : \E y \in execs : x.node = y.node /\ x.no = y.no
  BY <1>1
<1>8. \A m \in Nodes : Held(t, m) /\ m \in {} =>
        Held(Graphs, m) /\ ~Firm(t, m) /\ (IsHost(m) => Graphs.node[m].status \notin Good)
  OBVIOUS
<1> QED
  BY <1>1, <1>4, <1>5, <1>6, <1>7, <1>8, DataFlows0

LEMMA DataReports ==
  ASSUME Unnested, EdgesOfHosts, EdgesCarry, Settled, NEW e \in execs, NEW st, CallsNext(e) \/ Reports(e, st), Flows0
  PROVE  DataNow'
PROOF
<1>1. execs \subseteq Execs
  BY DEF Settled, ShapeInv
<1>2. \E x : /\ execs' = (execs \ {e}) \cup {x} /\ x.node = e.node /\ x.no = e.no
  <2>1. e \in Execs
    BY <1>1
  <2>2. CASE CallsNext(e)
    <3> DEFINE x == [e EXCEPT !.calls = @ + 1, !.waits = TRUE]
    <3>1. execs' = (execs \ {e}) \cup {x}
      BY <2>2 DEF CallsNext, Becomes
    <3>2. x.node = e.node /\ x.no = e.no
      BY <2>1 DEF Execs
    <3> QED
      BY <3>1, <3>2
  <2>3. CASE Reports(e, st)
    <3> DEFINE x == [e EXCEPT !.report = st]
    <3>1. execs' = (execs \ {e}) \cup {x}
      BY <2>3 DEF Reports, Becomes
    <3>2. x.node = e.node /\ x.no = e.no
      BY <2>1 DEF Execs
    <3> QED
      BY <3>1, <3>2
  <2> QED
    BY <2>2, <2>3
<1>3. \A x \in execs' : \E y \in execs : x.node = y.node /\ x.no = y.no
  BY <1>2
<1>4. wf' = wf /\ UNCHANGED graphVars /\ dispatched' = dispatched
  BY DEF CallsNext, Reports, WorkerOnly
<1> QED
  BY <1>3, <1>4, DataQuiet

LEMMA DataRefuse ==
  ASSUME Unnested, EdgesOfHosts, EdgesCarry, Settled, NEW r, RefuseNext(r), Flows0
  PROVE  DataNow'
PROOF
<1>1. /\ wf' = wf /\ UNCHANGED graphVars /\ dispatched' = dispatched /\ execs' = Answer(execs, {r})
      /\ execs \subseteq Execs
  BY DEF RefuseNext, TakesNext, Settled, ShapeInv
<1>2. \A x \in execs' : \E y \in execs : x.node = y.node /\ x.no = y.no
  BY <1>1, AnswerIs
<1> QED
  BY <1>1, <1>2, DataQuiet

LEMMA DataError ==
  ASSUME Unnested, EdgesOfHosts, EdgesCarry, Settled, Live', NEW e \in execs, HandleError(e), Flows0
  PROVE  DataNow'
PROOF
<1>1. UNCHANGED <<wf, graphVars>> /\ execs' = execs \ {e}
  BY ErrorQuiet DEF Settled
<1>2. dispatched' = dispatched
  BY DEF HandleError, Handled
<1>3. \A x \in execs' : \E y \in execs : x.node = y.node /\ x.no = y.no
  BY <1>1
<1> QED
  BY <1>1, <1>2, <1>3, DataQuiet

\* A node that runs, alone on its way, is not firm.
LEMMA DataInterrupted ==
  ASSUME Unnested, EdgesOfHosts, EdgesCarry, Settled, Live', adopted' = {},
         NEW e \in execs, HandleInterrupted(e), Flows0
  PROVE  DataNow'
PROOF
<1> DEFINE x == [status |-> "queued", pending |-> 0, enqueued |-> FALSE, blocked |-> FALSE]
           n == e.node
           t == Set(Graphs, n, x)
<1>1. /\ wf' = wf /\ e.report = "interrupted" /\ execs' = execs \ {e} /\ dispatched' = dispatched
      /\ IF ~Live \/ ~Present(Graphs, n)
         THEN UNCHANGED <<graphVars, runStatus, pendingNext>>
         ELSE InstallAndRefresh(t)
  BY DEF HandleInterrupted, Handled
<1>2. /\ wf \in Workflows /\ Shaped(Graphs) /\ execs \subseteq Execs /\ Typed(execs, nexts, pendingNext)
  BY TypedNow DEF Settled
<1>3. ~e.waits
  BY <1>1 DEF Settled, ShapeInv
<1>4. Told(Graphs, execs, nexts, pendingNext)
  BY DEF Settled, ToldNow
<1>5. n \in Nodes /\ Held(Graphs, n) /\ Graphs.node[n].status = "running"
  BY <1>2, <1>3, <1>4, Reporter
<1>6. \A y \in execs' : \E z \in execs : y.node = z.node /\ y.no = z.no
  BY <1>1
<1>7. CASE ~Live \/ ~Present(Graphs, n)
  BY <1>1, <1>6, <1>7, DataQuiet
<1>8. CASE InstallAndRefresh(t)
  <2>1. x \in NodeStates(n)
    <3>1. Cardinality(DepsOf(n)) \in Nat
      BY <1>2, <1>5, Waits_
    <3> QED
      BY <3>1 DEF NodeStates, Final
  <2>2. PICK z \in NodeStates(n) : z = x
    BY <2>1
  <2>3. z.status = "queued" /\ z.blocked = FALSE
    BY <2>2
  <2> DEFINE u == Set(Graphs, n, z)
  <2>4. u = t
    BY <2>2
  <2> HIDE DEF t, x, n
  <2>5. Shaped(u) /\ u.node[n] = z
    BY <1>2, <1>5, SetOne
  <2>6. Solid(Graphs, u, {n})
    BY <1>2, <1>5, SetSolid
  <2> HIDE DEF u
  <2>7. Graphs' = u
    <3>1. Install(u)
      BY <2>4, <1>8 DEF InstallAndRefresh
    <3> QED
      BY <3>1, <2>5, <1>1, Installed
  <2>8. \A m \in Nodes : Held(u, m) /\ m \in {n} =>
          Held(Graphs, m) /\ ~Firm(u, m) /\ (IsHost(m) => Graphs.node[m].status \notin Good)
    BY <1>5, <2>3, <2>5 DEF Firm, Astir, Good
  <2> QED
    BY <1>1, <1>6, <2>5, <2>6, <2>7, <2>8, DataFlows0
<1> QED
  BY <1>1, <1>7, <1>8

\* The target of a next() is to run again, and had not ended if it is a host.
LEMMA DataNextCall ==
  ASSUME Unnested, EdgesOfHosts, EdgesCarry, Settled, adopted' = {}, NEW r, HandleNext(r), Flows0
  PROVE  DataNow'
PROOF
<1> DEFINE t == NextTarget(r.node)
           x == Requeued(node[t])
           q == Set(Graphs, t, x)
           s == IF IsContainer(t) THEN Open(q, {t}) ELSE Enqueue(q, {t}, r)
<1>1. /\ r \in nexts /\ wf' = wf /\ Install(s) /\ dispatched' = dispatched
      /\ execs' = (IF s.ready = ready THEN Answer(execs, {r}) ELSE execs)
      /\ (t = HostOf(r.node) => t \notin adopted)
  BY DEF HandleNext, TakesNext, NextReady
<1>2. /\ wf \in Workflows /\ Shaped(Graphs) /\ execs \subseteq Execs /\ Typed(execs, nexts, pendingNext)
  BY TypedNow DEF Settled
<1>3. Told(Graphs, execs, nexts, pendingNext) /\ Claimed(Graphs, execs)
  BY DEF Settled, ToldNow, Told
<1>4. Held(Graphs, t) /\ t \in Nodes /\ ~Astir(Graphs.node[t])
  BY <1>1, <1>2, <1>3, ToldIs
<1>5. r.node \in Nodes /\ IsMiddleware(r.node) /\ r \in Calls
  BY <1>1, <1>2 DEF Typed, Settled, ShapeInv
<1>6. /\ t \in Nodes /\ Within(t)
      /\ t = HostOf(r.node) \/ (IsMiddleware(t) /\ ~Outermost(t))
  BY <1>2, <1>5, Following
<1>7. t \notin ToSet(Graphs.frames) /\ (\A e \in execs : e.node # t) /\ \A p \in Graphs.ready : p.node # t
  BY <1>2, <1>3, <1>4, AtRest
<1>8. \A l \in Callers(t) : \E y \in execs : y.node = l /\ y.waits
  BY <1>1, <1>2, <1>3, CallersWait
<1>9. \A y \in execs' : \E e \in execs : y.node = e.node /\ y.no = e.no
  BY <1>1, <1>2, AnswerIs
<1> HIDE DEF t
<1>10. x \in NodeStates(t) /\ Loose(x)
  <2>1. node[t] \in NodeStates(t)
    BY <1>4 DEF Settled, ShapeInv
  <2>2. x = [node[t] EXCEPT !.status = IF @ \in Final \cup {"running"} THEN "queued" ELSE @,
                            !.enqueued = FALSE, !.blocked = FALSE]
    BY Zenon DEF Requeued
  <2> HIDE DEF x
  <2>3. x.status = "queued" /\ x.enqueued = FALSE /\ x.blocked = FALSE /\ x \in NodeStates(t)
    BY <2>1, <2>2 DEF NodeStates
  <2> QED
    BY <2>3 DEF Loose
<1>11. PICK z \in NodeStates(t) : z = x
  BY <1>10
<1>12. IsHost(t) => Graphs.node[t].status \notin Good
  <2> SUFFICES ASSUME IsHost(t), Graphs.node[t].status \in Good PROVE FALSE
    OBVIOUS
  <2>1. t \notin Graphs.adopted
    BY Now DEF Settled
  <2>2. wf.chain[t][1] \in Callers(t)
    BY <1>2, <1>6, Called
  <2>3. \E y \in execs : y.node = wf.chain[t][1]
    BY <2>2, <1>8
  <2>4. Graphs.node[wf.chain[t][1]].status = "running"
    BY <2>3, <1>3 DEF Claimed, ExecsTold
  <2>5. Graphs.node[wf.chain[t][1]].status \notin Good
    BY <2>4 DEF Good
  <2> QED
    BY <2>1, <2>5, <1>4 DEF Settled, OrderNow, Ordered, HostsEnd
<1>13. \A e \in execs : e.node \in Nodes /\ e.node # t
  BY <1>2, <1>7 DEF Typed
<1>14. /\ Claimed(q, execs) /\ q.node[t] = z /\ Shaped(q) /\ Solid(Graphs, q, {t})
       /\ \A m : Held(q, m) = Held(Graphs, m)
  <2> DEFINE u == Set(Graphs, t, z)
  <2>1. /\ Claimed(u, execs) /\ u.node[t] = z /\ \A m \in Nodes : m # t => u.node[m] = Graphs.node[m]
        /\ Shaped(u) /\ u.frames = Graphs.frames /\ u.ready = Graphs.ready /\ u.adopted = Graphs.adopted
        /\ \A m : Held(u, m) = Held(Graphs, m)
    BY <1>2, <1>3, <1>4, <1>7, <1>13, SetUnclaimed
  <2>2. Solid(Graphs, u, {t})
    BY <1>2, <1>4, SetSolid
  <2>3. u = q
    BY <1>11
  <2> HIDE DEF u, q
  <2> QED
    BY <2>1, <2>2, <2>3
<1>15. Loose(q.node[t])
  BY <1>10, <1>11, <1>14
<1> HIDE DEF q, x
<1>16. PICK S : S = {t}
  OBVIOUS
<1>17. S \subseteq Nodes /\ r \in Calls \cup {None} /\ \A n \in S : Loose(q.node[n])
  BY <1>4, <1>5, <1>15, <1>16
<1>18. Shaped(s) /\ Solid(q, s, {}) /\ Astir(s.node[t]) /\ s.node[t].status \notin Good
  <2>1. CASE IsContainer(t)
    <3>1. S \subseteq wf.containers
      BY <1>16, <2>1 DEF IsContainer
    <3> DEFINE v == Open(q, S)
    <3>2. v = s
      BY <1>16, <2>1
    <3> HIDE DEF s
    <3>3. Shaped(v)
      BY <3>1, <1>2, <1>14, Opening
    <3>4. Solid(q, v, {})
      BY <3>1, <1>2, <1>14, <1>17, OpenSolid
    <3>6. /\ \E o \in Seq(wf.containers) :
               /\ ToSet(o) = S /\ \A i, j \in DOMAIN o : o[i] = o[j] => i = j
               /\ v.frames = q.frames \o o
          /\ v.ready = q.ready \cup {Request(m, None) : m \in News(S)}
          /\ \A m \in Nodes :
               /\ m \in S => /\ v.node[m].status = "running" /\ v.node[m].enqueued = TRUE
                             /\ v.node[m].blocked = q.node[m].blocked
                             /\ v.node[m].pending = q.node[m].pending
               /\ wf.graph[m] \in S => /\ v.node[m].status = "queued"
                                       /\ v.node[m].blocked = NewNode(m).blocked
                                       /\ v.node[m].pending = Cardinality(DepsOf(m))
                                       /\ m \in News(S) => v.node[m].enqueued = TRUE
                                       /\ m \notin News(S) => v.node[m].enqueued = FALSE
               /\ m \notin S /\ wf.graph[m] \notin S =>
                    /\ v.node[m].status = q.node[m].status /\ v.node[m].blocked = q.node[m].blocked
                    /\ v.node[m].pending = q.node[m].pending
                    /\ v.node[m].enqueued = q.node[m].enqueued
      BY <3>1, <1>2, <1>14, OpenIs
    <3> HIDE DEF v
    <3>5. v.node[t].status = "running"
      BY <3>6, <1>4, <1>16
    <3> QED
      BY <3>2, <3>3, <3>4, <3>5, <1>4, <1>16 DEF Astir, Good
  <2>2. CASE ~IsContainer(t)
    <3> DEFINE v == Enqueue(q, S, r)
    <3>2. v = s
      BY <1>16, <2>2
    <3> HIDE DEF s
    <3>3. Shaped(v)
      BY <1>14, <1>17, Enqueues
    <3>4. Solid(q, v, {})
      BY <1>14, <1>17, EnqueueSolid
    <3>5. /\ v.ready = q.ready \cup {Request(n, r) : n \in S}
          /\ \A m \in Nodes :
               /\ v.node[m].status = q.node[m].status /\ v.node[m].pending = q.node[m].pending
               /\ v.node[m].blocked = q.node[m].blocked
               /\ m \notin S => v.node[m].enqueued = q.node[m].enqueued
               /\ m \in S => v.node[m].enqueued = TRUE
      BY <1>14, <1>17, EnqueueIs
    <3> HIDE DEF v
    <3> QED
      BY <3>2, <3>3, <3>4, <3>5, <1>4, <1>15 DEF Astir, Good, Loose
  <2> QED
    BY <2>1, <2>2
<1> HIDE DEF s
<1>19. Solid(Graphs, s, {t} \cup {})
  <2>1. \A m \in Nodes : Held(Graphs, m) /\ Held(s, m) => Held(q, m)
    BY <1>14
  <2> QED
    BY <2>1, <1>14, <1>18, SolidTwice, Zenon
<1>20. Graphs' = s
  BY <1>1, <1>18, Installed
<1>21. \A m \in Nodes : Held(s, m) /\ m \in {t} \cup {} =>
         Held(Graphs, m) /\ ~Firm(s, m) /\ (IsHost(m) => Graphs.node[m].status \notin Good)
  BY <1>4, <1>12, <1>18 DEF Firm
<1> QED
  BY <1>1, <1>9, <1>18, <1>19, <1>20, <1>21, DataFlows0

\* What is dispatched has been held back by nothing, and is not firm before it ends.
LEMMA DataDispatch ==
  ASSUME Unnested, EdgesOfHosts, EdgesCarry, Settled, adopted' = {}, NEW q, Dispatch(q), Hands(q)
  PROVE  DataNow'
PROOF
<1> DEFINE n == q.node
           g == [Graphs EXCEPT !.ready = @ \ {q}]
           s == Found(g, n)
           x == [s.node[n] EXCEPT !.status = "running", !.enqueued = FALSE]
           t == Set(s, n, x)
           e == [node |-> n, no |-> dispatched[n] + 1, for |-> q.for, calls |-> 0, waits |-> FALSE, report |-> "none"]
<1>1. /\ q \in ready /\ InstallAndRefresh(t) /\ wf' = wf
      /\ dispatched' = [dispatched EXCEPT ![n] = @ + 1] /\ execs' = execs \cup {e}
  BY DEF Dispatch, Sent
<1>2. wf \in Workflows /\ Shaped(Graphs)
  BY TypedNow DEF Settled
<1>3. Claimed(Graphs, execs)
  BY DEF Settled, ToldNow, Told
<1>4. /\ g.node = Graphs.node /\ g.frames = Graphs.frames /\ g.adopted = Graphs.adopted
      /\ g.ready = Graphs.ready \ {q} /\ Shaped(g)
  <2>1. g = [node |-> node, frames |-> frames, adopted |-> adopted, ready |-> ready \ {q}]
    BY DEF Graphs
  <2> HIDE DEF g
  <2>2. /\ g.node = Graphs.node /\ g.frames = Graphs.frames /\ g.adopted = Graphs.adopted
        /\ g.ready = Graphs.ready \ {q}
    BY <2>1, Now DEF Settled
  <2>3. g = [node |-> g.node, frames |-> g.frames, adopted |-> g.adopted, ready |-> g.ready]
    BY <2>1
  <2> QED
    BY <2>2, <2>3, <1>2 DEF Shaped
<1> HIDE DEF g
<1>5. q \in Graphs.ready /\ n \in Nodes
  BY <1>1, <1>2, Now DEF Shaped, Settled
<1>6. Held(Graphs, n) /\ Graphs.node[n].status = "queued"
  BY <1>3, <1>5 DEF Claimed, ReadyTold
<1>7. Present(g, n) /\ Held(g, n)
  BY <1>4, <1>6 DEF Present, Held, Active
<1>8. s = g
  BY <1>7, Zenon DEF Found
<1>9. x \in NodeStates(n) /\ x.status = "running"
  <2>1. s.node[n] \in NodeStates(n)
    BY <1>4, <1>5, <1>8 DEF Shaped
  <2> HIDE DEF s
  <2> QED
    BY <2>1 DEF NodeStates
<1>10. PICK z \in NodeStates(n) : z = x
  BY <1>9
<1>11. e.node = n /\ e.no = dispatched[n] + 1
  OBVIOUS
<1> HIDE DEF x, s, e
<1>12. \A m : Held(g, m) = Held(Graphs, m)
  BY <1>4, Zenon DEF Held, Active
<1> DEFINE u == Set(g, n, z)
<1>13. u = t
  BY <1>8, <1>10
<1> HIDE DEF t
<1>14. Shaped(u) /\ u.node[n] = z
  BY <1>4, <1>5, SetOne
<1>15. Solid(g, u, {n})
  BY <1>2, <1>4, <1>5, SetSolid
<1> HIDE DEF u
<1>16. Solid(Graphs, u, {n})
  BY <1>4, <1>12, <1>15 DEF Solid
<1>17. Graphs' = u
  <2>1. Install(u)
    BY <1>1, <1>13 DEF InstallAndRefresh
  <2> QED
    BY <2>1, <1>1, <1>14, Installed
<1>18. u.node[n].status = "running" /\ ~Firm(u, n)
  BY <1>9, <1>10, <1>14 DEF Firm, Astir, Good
<1>19. \A m \in Nodes : Held(u, m) /\ m \in {n} =>
         Held(Graphs, m) /\ ~Firm(u, m) /\ (IsHost(m) => Graphs.node[m].status \notin Good)
  BY <1>6, <1>18 DEF Good
<1>20. u.frames = frames'
  <2>1. Graphs'.frames = frames'
    BY DEF Graphs
  <2> QED
    BY <2>1, <1>17
<1>21. /\ Filed(Renewed(params), Cleared(result))
       /\ Begins(Graphs, u, params, result, Renewed(params), Cleared(result))
  BY <1>2, <1>14, <1>20, Renewing DEF Settled, DataNow
<1>22. params' = Renewed(params) /\ result' = Cleared(result)
  BY DEF Hands
<1>23. dispatched \in [Nodes -> 0..MaxDispatches]
  BY DEF Settled, ShapeInv
<1>24. /\ \A m \in Nodes : Held(u, m) /\ ~Held(Graphs, m) => result'[m] = Empty
       /\ \A m \in Nodes : Held(u, m) /\ Held(Graphs, m) /\ Firm(u, m) =>
            result'[m] = result[m] /\ dispatched'[m] = dispatched[m]
  <2>1. \A m \in Nodes : m # n => dispatched'[m] = dispatched[m]
    BY <1>1, <1>23
  <2> QED
    BY <2>1, <1>18, <1>21, <1>22 DEF Begins
<1>25. Filed(params', result')
  BY <1>21, <1>22
<1>26. Numbered(execs', dispatched')
  <2> SUFFICES ASSUME NEW y \in execs' PROVE y.no = dispatched'[y.node]
    BY DEF Numbered
  <2>1. CASE y = e
    BY <2>1, <1>1, <1>5, <1>11, <1>23
  <2>2. CASE y \in execs
    <3>1. y.no = dispatched[y.node] /\ y.node \in Nodes
      BY <2>2 DEF Settled, DataNow, Numbered, ShapeInv, Execs
    <3>2. y.node # n
      BY <2>2, <1>3, <1>6 DEF Claimed, ExecsTold
    <3> QED
      BY <3>1, <3>2, <1>1, <1>23
  <2> QED
    BY <2>1, <2>2, <1>1
<1>27. Handed
  <2>1. /\ DOMAIN carried = ready \cup {At(y) : y \in {z_ \in execs : z_.report = "none"}}
        /\ ready' \subseteq ready
    <3>1. Graphs'.ready = ready'
      BY DEF Graphs
    <3>2. u.ready = g.ready
      BY <1>4, <1>5, SetOne DEF u
    <3>3. ready' \subseteq ready
      BY <3>1, <3>2, <1>4, <1>17, Now DEF Settled
    <3> QED
      BY <3>3 DEF Settled, DataNow
  <2>2. DOMAIN carried' = Carriers
    BY DEF Hands
  <2>3. ASSUME NEW y \in Carriers
        PROVE  \/ y \in DOMAIN carried /\ carried'[y] = carried[y]
               \/ y.node = n /\ carried'[y] = carried[q]
    <3>1. y \in DOMAIN carried \/ y = At(e)
      BY <2>1, <1>1 DEF Carriers
    <3>2. carried'[y] = IF y \in DOMAIN carried THEN carried[y] ELSE carried[q]
      BY DEF Hands
    <3>3. At(e).node = n
      BY <1>11 DEF At
    <3> QED
      BY <3>1, <3>2, <3>3
  <2>4. q \in DOMAIN carried
    BY <2>1, <1>1
  <2> QED
    BY <2>2, <2>3, <2>4 DEF Handed
<1> QED
  BY <1>1, <1>14, <1>16, <1>17, <1>19, <1>22, <1>24, <1>25, <1>26, <1>27, DataKept

\* Feedback is of a node that runs.
LEMMA DataFeedback ==
  ASSUME Unnested, EdgesOfHosts, EdgesCarry, Settled, adopted' = {},
         NEW e \in execs, Feedback(e), Merges(e.node, e.no)
  PROVE  DataNow'
PROOF
<1> DEFINE n == e.node
<1>1. /\ ~e.waits /\ Install(Found(Graphs, n)) /\ wf' = wf /\ dispatched' = dispatched /\ execs' = execs
  BY DEF Feedback, Busy, ApplyFeedback
<1>2. /\ wf \in Workflows /\ Shaped(Graphs) /\ execs \subseteq Execs /\ Typed(execs, nexts, pendingNext)
  BY TypedNow DEF Settled
<1>3. Told(Graphs, execs, nexts, pendingNext)
  BY DEF Settled, ToldNow
<1>4. n \in Nodes /\ Held(Graphs, n) /\ Graphs.node[n].status = "running"
  BY <1>1, <1>2, <1>3, Reporter
<1>5. Found(Graphs, n) = Graphs
  BY <1>4, Zenon DEF Found, Present, Held
<1>6. PICK t : t = Graphs
  OBVIOUS
<1>7. Graphs' = t /\ Shaped(t) /\ Solid(Graphs, t, {})
  <2>1. Install(Graphs)
    BY <1>1, <1>5
  <2>2. Graphs' = Graphs
    BY <2>1, <1>1, <1>2, Installed
  <2> QED
    BY <2>2, <1>2, <1>6 DEF Solid
<1>8. t.frames = frames'
  <2>1. Graphs'.frames = frames'
    BY DEF Graphs
  <2> QED
    BY <2>1, <1>7
<1> DEFINE A == Renewed(params)
           B == Cleared(result)
<1>9. /\ Filed(A, B) /\ Begins(Graphs, t, params, result, A, B)
  BY <1>2, <1>7, <1>8, Renewing DEF Settled, DataNow
<1>10. params' = A /\ result' = [B EXCEPT ![n] = Written(Partial(n, e.no), @)] /\ Packs
  BY DEF Merges
<1> HIDE DEF A, B, n
<1>11. DOMAIN B = Nodes
  BY <1>9 DEF Filed
<1>12. /\ DOMAIN result' = Nodes /\ \A m \in Nodes : m # n => result'[m] = B[m]
       /\ DOMAIN result'[n] = wf.outs[n] \cup DOMAIN B[n]
  <2>1. result'[n] = Written(Partial(n, e.no), B[n])
    BY <1>4, <1>10, <1>11
  <2>2. DOMAIN result'[n] = wf.outs[n] \cup DOMAIN B[n]
    BY <2>1 DEF Written, Partial
  <2> QED
    BY <2>2, <1>10, <1>11
<1>13. Filed(params', result')
  BY <1>9, <1>10, <1>12 DEF Filed
<1>14. ~Firm(t, n)
  BY <1>4, <1>6 DEF Firm, Astir, Good
<1>15. /\ \A m \in Nodes : Held(t, m) /\ ~Held(Graphs, m) => result'[m] = Empty
       /\ \A m \in Nodes : Held(t, m) /\ Held(Graphs, m) /\ Firm(t, m) =>
            result'[m] = result[m] /\ dispatched'[m] = dispatched[m]
  BY <1>1, <1>4, <1>9, <1>12, <1>14 DEF Begins
<1>16. Numbered(execs', dispatched')
  BY <1>1 DEF Settled, DataNow
<1>17. \A m \in Nodes : Held(t, m) /\ m \in {} =>
         Held(Graphs, m) /\ ~Firm(t, m) /\ (IsHost(m) => Graphs.node[m].status \notin Good)
  OBVIOUS
<1>18. params' = Renewed(params) /\ Handed
  BY <1>10, PacksOn DEF A
<1> QED
  BY <1>1, <1>7, <1>13, <1>15, <1>16, <1>17, <1>18, DataKept

\* The result of a node that runs, and where it goes.
LEMMA DataResult ==
  ASSUME Unnested, EdgesOfHosts, EdgesCarry, Settled, adopted' = {}, Live',
         NEW e \in execs, HandleResultData(e), e.report # "skipped"
  PROVE  DataNow'
PROOF
<1> DEFINE n == e.node
           st == e.report
           s0 == Found(Graphs, n)
           a0 == AfterReport(s0, n, st)
           t0 == CloseAfter(a0, n)
           over == AskedFor({n} \cup ClosedWith(a0, n))
<1>1. /\ UNCHANGED wf /\ st \in Good \cup {"failed"} /\ dispatched' = dispatched
      /\ IF ~Live
         THEN execs' = execs \ {e} /\ UNCHANGED <<graphVars, runStatus, pendingNext>>
         ELSE /\ InstallAndRefresh(t0)
              /\ execs' = Answer(execs \ {e}, Reqs(over))
  BY DEF HandleResultData, HandleResult, Handled
<1>2. Live
  BY <1>1 DEF Live
<1>3. /\ wf \in Workflows /\ Shaped(Graphs) /\ execs \subseteq Execs /\ Typed(execs, nexts, pendingNext)
  BY TypedNow DEF Settled
<1>4. ~e.waits
  BY <1>1 DEF Settled, ShapeInv, Good
<1>5. /\ Told(Graphs, execs, nexts, pendingNext) /\ Ordered(Graphs) /\ Graphs.adopted = {}
      /\ Filed(params, result) /\ Fresh(Graphs, result, dispatched) /\ Delivered(Graphs, params, result)
      /\ Numbered(execs, dispatched) /\ Loaded(params, carried)
  BY Now DEF Settled, ToldNow, OrderNow, DataNow
<1>6. /\ n \in Nodes /\ Held(Graphs, n) /\ Graphs.node[n].status = "running"
      /\ (IsMiddleware(n) => ~Astir(Graphs.node[HostOf(n)]))
  BY <1>3, <1>4, <1>5, Reporter
<1>7. s0 = Graphs
  BY <1>6, Zenon DEF Found, Present, Held
<1>8. ~RunFails(t0) /\ Install(t0)
  <2> HIDE DEF t0
  <2> QED
    BY <1>1, <1>2, Fails
<1>9. \A y \in execs' : \E z \in execs : y.node = z.node /\ y.no = z.no
  <2>1. execs \ {e} \subseteq Execs /\ execs' = Answer(execs \ {e}, Reqs(over))
    BY <1>1, <1>2, <1>3
  <2> HIDE DEF over
  <2> QED
    BY <2>1, AnswerIs
<1>10. PICK g, a, t, C, no : /\ g = Graphs /\ a = a0 /\ t = t0 /\ C = ClosedWith(a0, n) /\ no = dispatched
  OBVIOUS
<1>11. Shaped(a0) /\ a0.adopted = Graphs.adopted
  BY <1>1, <1>3, <1>6, <1>7, ReportDone
<1>12. Shaped(t0)
  <2>1. CASE Closes(a0, n)
    <3>1. t0 = Close(a0, wf.graph[n]) /\ wf.graph[n] \in wf.containers
      BY <2>1, <1>3, <1>6, Flow, Zenon DEF CloseAfter, Closes
    <3> HIDE DEF a0
    <3> QED
      BY <3>1, <1>3, <1>11, Closing
  <2>2. CASE ~Closes(a0, n)
    <3>1. t0 = a0
      BY <2>2, Zenon DEF CloseAfter
    <3> HIDE DEF a0, t0
    <3> QED
      BY <3>1, <1>11
  <2> QED
    BY <2>1, <2>2
<1>13. a = AfterReport(g, n, st) /\ t = CloseAfter(a, n) /\ C = ClosedWith(a, n) /\ ~RunFails(t)
  BY <1>7, <1>8, <1>10
<1>14. Graphs' = t /\ Shaped(t)
  BY <1>1, <1>8, <1>10, <1>12, Installed
<1> HIDE DEF s0, a0, t0, over
<1>15. /\ Shaped(g) /\ g.adopted = {} /\ Told(g, execs, nexts, pendingNext) /\ Ordered(g)
       /\ Fresh(g, result, no) /\ Delivered(g, params, result) /\ Held(g, n) /\ g.node[n].status = "running"
       /\ (IsMiddleware(n) => ~Astir(g.node[HostOf(n)]))
  BY <1>3, <1>5, <1>6, <1>10
<1>34. PICK st_ : st_ = st
  OBVIOUS
<1>35. /\ st_ \in Good \cup {"failed"} /\ st_ # "skipped" /\ a = AfterReport(g, e.node, st_)
       /\ t = CloseAfter(a, e.node) /\ C = ClosedWith(a, e.node) /\ ~RunFails(t)
       /\ wf \in Workflows /\ Shaped(g) /\ g.adopted = {} /\ Typed(execs, nexts, pendingNext)
       /\ Told(g, execs, nexts, pendingNext) /\ ~e.waits
  BY <1>1, <1>3, <1>4, <1>13, <1>15, <1>34
<1>36. /\ Solid(g, t, EndedBy(g, e.node, st_) \cup C)
       /\ IsHost(e.node) => t.node[e.node].status = "queued"
       /\ ~IsHost(e.node) => st_ \in Good
       /\ EndsHost(g, e.node, st_) => t.node[HostOf(e.node)].status \in Good
       /\ \A c \in C : /\ c \in wf.containers /\ c = wf.graph[e.node] /\ g.node[c].status = "running"
                       /\ Held(g, c) /\ (IsHost(c) => t.node[c].status = "queued")
  BY <1>35, ResultSolid
<1>16. /\ Solid(g, t, EndedBy(g, e.node, st) \cup C)
       /\ IsHost(e.node) => t.node[e.node].status = "queued"
       /\ ~IsHost(e.node) => st \in Good
       /\ EndsHost(g, e.node, st) => t.node[HostOf(e.node)].status \in Good
       /\ \A c \in C : /\ c \in wf.containers /\ c = wf.graph[e.node] /\ g.node[c].status = "running"
                       /\ Held(g, c) /\ (IsHost(c) => t.node[c].status = "queued")
  BY <1>34, <1>36
<1>17. Takes(g, t, n, st, C)
  BY <1>16, <1>35, <1>34 DEF Takes
<1>18. Working(g, execs, nexts, pendingNext, n)
  BY <1>3, <1>6, <1>15 DEF Working
<1>19. t.frames = frames'
  <2>1. Graphs'.frames = frames'
    BY DEF Graphs
  <2> QED
    BY <2>1, <1>14
<1> DEFINE A == Renewed(params)
           B == Cleared(result)
           G == {m \in {n, HostOf(n)} : IF m = n THEN ~IsHost(n) ELSE EndsHost(g, n, st)}
           own == [B EXCEPT ![n] = Output(n, no[n])]
           sent == IF n \in G THEN Applied(A, own, n) ELSE A
           W == IF IsMiddleware(n) THEN Projected(own, n) ELSE own
           Q == IF HostOf(n) \in G THEN Applied(sent, W, HostOf(n)) ELSE sent
<1>20. /\ Filed(A, B) /\ Begins(Graphs, t, params, result, A, B)
  BY <1>3, <1>5, <1>14, <1>19, Renewing
<1>21. HostOf(n) # n /\ (IsMiddleware(n) => ~IsHost(n)) /\ (EndsHost(g, n, st) => IsMiddleware(n))
  <2>1. IsMiddleware(n) => HostOf(n) \in Nodes /\ IsHost(HostOf(n)) /\ ~IsHost(n)
    BY <1>3, <1>6, Place
  <2>2. ~IsMiddleware(n) => HostOf(n) = None
    BY DEF IsMiddleware, HostOf
  <2>3. None \notin Nodes
    BY <1>3, Flow
  <2> QED
    BY <2>1, <2>2, <2>3, <1>6 DEF EndsHost, Chained
<1>22. /\ G \subseteq {n, HostOf(n)} /\ (n \in G <=> ~IsHost(n)) /\ (HostOf(n) \in G <=> EndsHost(g, n, st))
       /\ Giving(g, n, st, G)
  <2>1. /\ G \subseteq {n, HostOf(n)} /\ (n \in G <=> ~IsHost(n)) /\ (HostOf(n) \in G <=> EndsHost(g, n, st))
    BY <1>21
  <2> HIDE DEF G
  <2> QED
    BY <2>1 DEF Giving
<1>23. params' = Q /\ result' = W
  <2> DEFINE good == e.report \in Good
             own_ == [Cleared(result) EXCEPT ![n] = Output(n, e.no)]
             sent_ == IF good /\ ~Hosting(s0, n) /\ n \notin s0.adopted THEN Applied(Renewed(params), own_, n) ELSE Renewed(params)
             shown_ == IF Chained(s0, n) THEN Projected(own_, n) ELSE own_
             ended_ == IF good /\ EndsHost(s0, n, e.report) THEN Applied(sent_, shown_, HostOf(n)) ELSE sent_
  <2>1. params' = ended_ /\ result' = shown_
    BY <1>2, Zenon DEF HandleResultData, ResultFlows, s0
  <2>2. s0 = g /\ g.adopted = {}
    BY <1>7, <1>10, <1>15
  <2>3. e.no = no[n]
    BY <1>5, <1>10 DEF Numbered
  <2>4. (good /\ ~Hosting(s0, n) /\ n \notin s0.adopted) <=> n \in G
    BY <2>2, <1>16, <1>22 DEF Hosting
  <2>5. Chained(s0, n) <=> IsMiddleware(n)
    BY <2>2 DEF Chained
  <2>6. (good /\ EndsHost(s0, n, e.report)) <=> HostOf(n) \in G
    BY <2>2, <1>16, <1>21, <1>22
  <2>7. own_ = own
    BY <2>3
  <2> HIDE DEF own_, own, G, good
  <2>8. sent_ = sent
    BY <2>4, <2>7
  <2>9. shown_ = W
    BY <2>5, <2>7
  <2> HIDE DEF sent_, sent, shown_, W
  <2>10. ended_ = Q
    BY <2>6, <2>8, <2>9
  <2> QED
    BY <2>1, <2>9, <2>10
<1>24. FlowOf(n, no[n], G, A, B, own, sent, W, Q)
  BY DEF FlowOf
<1> HIDE DEF A, B, G, own, sent, W, Q
<1>25. Begins(g, t, params, result, A, B)
  BY <1>10, <1>20
<1> HIDE DEF n
<1>26. Filed(Q, W) /\ Fresh(t, W, no) /\ Delivered(t, Q, W) /\ Spares(g, A, Q)
  <2>1. PICK P, R, A_, B_, own_, sent_, W_, Q_ :
          /\ P = params /\ R = result /\ A_ = A /\ B_ = B /\ own_ = own /\ sent_ = sent /\ W_ = W /\ Q_ = Q
    OBVIOUS
  <2>2. /\ Working(g, execs, nexts, pendingNext, n) /\ Takes(g, t, n, st_, C)
        /\ Filed(P, R) /\ Filed(A_, B_) /\ Begins(g, t, P, R, A_, B_)
        /\ Fresh(g, R, no) /\ Delivered(g, P, R) /\ Giving(g, n, st_, G)
        /\ FlowOf(n, no[n], G, A_, B_, own_, sent_, W_, Q_) /\ wf \in Workflows
    BY <2>1, <1>3, <1>5, <1>15, <1>17, <1>18, <1>20, <1>22, <1>24, <1>25, <1>34
  <2>3. Filed(Q_, W_) /\ Fresh(t, W_, no) /\ Delivered(t, Q_, W_) /\ Spares(g, A_, Q_)
    BY <2>2, ResultFlows_
  <2> QED
    BY <2>1, <2>3
<1>27. \A x \in DOMAIN carried : \A b \in Bindings :
         TargetOf(b) = x.node /\ Awaited(b) => params'[x.node][b.slot] = params[x.node][b.slot]
  <2> SUFFICES ASSUME NEW x \in DOMAIN carried, NEW b \in Bindings, TargetOf(b) = x.node, Awaited(b)
               PROVE  params'[x.node][b.slot] = params[x.node][b.slot]
    OBVIOUS
  <2>1. /\ x.node \in Nodes /\ Held(g, x.node)
        /\ \A d \in Upstream(x.node) : g.node[d].status \in Good
    BY <1>10, CarriedTo
  <2>2. Q[x.node][b.slot] = A[x.node][b.slot]
    BY <2>1, <1>26 DEF Spares
  <2>3. A[x.node] = params[x.node]
    BY <2>1, <1>25 DEF Begins
  <2> QED
    BY <2>2, <2>3, <1>23
<1>28. Handed
  BY PacksOn DEF HandleResultData
<1>29. Loaded(params', carried')
  BY <1>5, <1>27, <1>28, LoadedOn
<1>30. Numbered(execs', dispatched')
  BY <1>1, <1>5, <1>9 DEF Numbered
<1>31. DOMAIN carried' = Carriers
  BY <1>28 DEF Handed
<1>32. Filed(params', result') /\ Fresh(t, result', dispatched') /\ Delivered(t, params', result')
  BY <1>1, <1>10, <1>23, <1>26
<1>33. wf' = wf
  BY <1>1
<1> QED
  BY <1>14, <1>29, <1>30, <1>31, <1>32, <1>33, DataNext

LEMMA DataFirst ==
  ASSUME EdgesCarry, DInit
  PROVE  DataNow
PROOF
<1>1. /\ wf \in Workflows /\ \A n \in Nodes : Graphs.node[n] = NewNode(n)
      /\ ready = {} /\ execs = {}
  <2>1. Graphs.node = node
    BY DEF Graphs
  <2>2. wf \in Workflows /\ node = [n \in Nodes |-> NewNode(n)] /\ ready = {} /\ execs = {}
    BY Zenon DEF DInit, Init
  <2> QED
    BY <2>1, <2>2
<1>2. params = [n \in Nodes |-> Default(n)] /\ result = [n \in Nodes |-> Empty] /\ carried = Empty
  BY DEF DInit
<1>3. DOMAIN Empty = {} /\ \A n \in Nodes : DOMAIN Default(n) = wf.slots[n]
  BY DEF Empty, Default
<1>4. Filed(params, result)
  BY <1>2, <1>3 DEF Filed
<1>5. Fresh(Graphs, result, dispatched)
  BY <1>2, <1>3 DEF Fresh
<1>6. Delivered(Graphs, params, result)
  <2> SUFFICES ASSUME NEW e \in Bindings
               PROVE  /\ GivenOn(Graphs, e) => params[TargetOf(e)][e.slot] = Given(e, params, result)
                      /\ params[TargetOf(e)][e.slot] = <<TargetOf(e)>>
    BY DEF Delivered
  <2>1. SourceOf(e) \in Nodes /\ TargetOf(e) \in Nodes /\ e.slot \in wf.slots[TargetOf(e)]
    BY <1>1, EdgeIs
  <2>2. params[TargetOf(e)][e.slot] = <<TargetOf(e)>>
    BY <1>2, <2>1 DEF Default
  <2>3. Graphs.node[SourceOf(e)].status \notin Good
    <3> DEFINE b(n) == IsHost(n) \/ (IsMiddleware(n) /\ ~Outermost(n))
    <3>1. \A n : NewNode(n) = [status |-> "queued", pending |-> Cardinality(DepsOf(n)), enqueued |-> FALSE,
                               blocked |-> b(n)]
      BY Zenon DEF NewNode
    <3> HIDE DEF b
    <3>2. Graphs.node[SourceOf(e)].status = "queued"
      BY <1>1, <2>1, <3>1
    <3> QED
      BY <3>2 DEF Good
  <2>4. CASE e.root = "parameters"
    <3>1. GivenOn(Graphs, e) => ~Offers(e)
      BY <2>3, <2>4 DEF GivenOn
    <3>2. ~Offers(e) => Given(e, params, result) = <<TargetOf(e)>>
      BY <1>4, <2>1, <2>4, OffersNot
    <3> QED
      BY <2>2, <3>1, <3>2
  <2>5. CASE e.root # "parameters"
    <3>1. DOMAIN Read(e, params, result) = {}
      BY <1>2, <1>3, <2>1, <2>5 DEF Read
    <3>2. Given(e, params, result) = <<TargetOf(e)>>
      BY <3>1 DEF Given
    <3> QED
      BY <2>2, <3>2
  <2> QED
    BY <2>4, <2>5
<1>7. Numbered(execs, dispatched) /\ Loaded(params, carried)
  BY <1>1, <1>2, <1>3 DEF Numbered, Loaded
<1>8. DOMAIN carried = ready \cup {At(e) : e \in {x \in execs : x.report = "none"}}
  BY <1>1, <1>2, <1>3
<1> QED
  BY <1>4, <1>5, <1>6, <1>7, <1>8 DEF DataNow

LEMMA DataStill ==
  ASSUME Settled, UNCHANGED dvars
  PROVE  DataNow'
PROOF
<1>1. UNCHANGED <<wf, graphVars, execs, dispatched, params, result, carried>>
  BY DEF dvars, vars, data, graphVars
<1>2. Graphs' = Graphs
  BY <1>1 DEF Graphs, graphVars
<1>3. PICK t : t = Graphs
  OBVIOUS
<1>4. Filed(params', result') /\ Fresh(t, result', dispatched') /\ Delivered(t, params', result')
  BY <1>1, <1>3 DEF Settled, DataNow
<1>5. Numbered(execs', dispatched') /\ Loaded(params', carried')
  BY <1>1 DEF Settled, DataNow
<1>6. DOMAIN carried' = Carriers
  BY <1>1 DEF Settled, DataNow, Carriers, graphVars
<1> QED
  BY <1>1, <1>2, <1>3, <1>4, <1>5, <1>6, DataNext

LEMMA DataMoves ==
  ASSUME Unnested, EdgesOfHosts, EdgesCarry, Settled, adopted' = {}, late = {}, [DNext]_dvars, Live',
         Without(Kinds)', \A e \in execs : Faulted(e.report, faults), faults \subseteq faults'
  PROVE  DataNow'
PROOF
<1>1. CASE UNCHANGED dvars
  BY <1>1, DataStill
<1>2. CASE CollectReady /\ Flows0
  BY <1>2, DataCollect
<1>3. CASE CancelRun
  BY <1>3 DEF CancelRun, Live, Final
<1>4. CASE \E q \in ready : DropRequest(q) \/ Refused(q) \/ (Dispatch(q) /\ Hands(q))
  <2>1. \A q \in ready : ~DropRequest(q)
    BY DEF DropRequest, Live
  <2>2. \A q \in ready : ~Refused(q)
    BY CarriesRefused DEF Settled
  <2> QED
    BY <1>4, <2>1, <2>2, DataDispatch
<1>5. "timeout" \notin faults' /\ "late_feedback" \notin faults' /\ "skipped" \notin faults
  BY DEF Without, Kinds
<1>6. ASSUME NEW e \in execs, CallsNext(e) \/ GivesUp(e) \/ LeavesFeedback(e), Flows0
      PROVE  DataNow'
  <2>1. ~GivesUp(e) /\ ~LeavesFeedback(e)
    BY <1>5 DEF GivesUp, LeavesFeedback, Fault
  <2>2. PICK st : st = "succeeded"
    OBVIOUS
  <2>3. CallsNext(e) \/ Reports(e, st)
    BY <2>1, <1>6
  <2> QED
    BY <2>3, <1>6, DataReports
<1>7. ASSUME NEW e \in execs, NEW st \in Good \cup {"failed", "interrupted", "error"}, Reports(e, st), Flows0
      PROVE  DataNow'
  BY <1>7, DataReports
<1>8. ASSUME NEW e \in execs, HandleResultData(e)
      PROVE  DataNow'
  <2>1. e.report # "skipped"
    BY <1>5 DEF Faulted
  <2> QED
    BY <2>1, <1>8, DataResult
<1>9. ASSUME NEW e \in execs, HandleInterrupted(e) \/ HandleError(e), Flows0
      PROVE  DataNow'
  BY <1>9, DataInterrupted, DataError
<1>10. ASSUME NEW e \in execs, Feedback(e), Merges(e.node, e.no)
       PROVE  DataNow'
  BY <1>10, DataFeedback
<1>11. ASSUME NEW r \in nexts, RefuseNext(r) \/ HandleNext(r), Flows0
       PROVE  DataNow'
  BY <1>11, DataRefuse, DataNextCall
<1>12. ~ \E p \in pendingNext : ExpireNext(p)
  BY <1>5 DEF ExpireNext, Fault
<1>13. ~ \E n \in blank : RejectBlank(n)
  BY Rejecting DEF Settled
<1> QED
  BY <1>1, <1>2, <1>3, <1>4, <1>6, <1>7, <1>8, <1>9, <1>10, <1>11, <1>12, <1>13, Zenon DEF DNext

LEMMA DataStep ==
  ASSUME Unnested, FramesStart, EdgesOfHosts, EdgesCarry, ShapeInv, ShapeInv', ChainInv, FrameInv, WaiterInv,
         DepInv, DataInv, [Next]_vars, [DNext]_dvars
  PROVE  DataInv'
PROOF
<1> SUFFICES ASSUME Live', Without(Kinds)' PROVE DataNow'
  BY DEF DataInv
<1>1. Without({"timeout"})' /\ Without({"timeout", "late_feedback"})'
  BY DEF Without, Kinds
<1>2. Live /\ ToldNow
  BY <1>1, ChainStep
<1>3. faults \subseteq faults'
  BY FaultsGrow
<1>4. Without({"timeout", "skipped"}) /\ Without({"timeout", "late_feedback"}) /\ Without(Kinds)
  BY <1>3 DEF Without, Kinds
<1>5. adopted' = {}
  <2>1. FrameInv'
    BY FrameStep
  <2> QED
    BY <2>1, <1>1 DEF FrameInv
<1>6. Settled /\ late = {}
  BY <1>2, <1>4 DEF Settled, DepInv, FrameInv, DataInv
<1>7. \A e \in execs : Faulted(e.report, faults)
  BY DEF WaiterInv
<1> QED
  BY <1>3, <1>5, <1>6, <1>7, DataMoves

\* All that somebody who starts waits for has been given on.
LEMMA InputsGiven ==
  ASSUME Unnested, EdgesOfHosts, EdgesCarry, Settled
  PROVE  InputsAreResults
PROOF
<1> SUFFICES ASSUME NEW x \in DOMAIN carried, NEW e \in Bindings, TargetOf(e) = x.node, Awaited(e)
             PROVE  carried[x][e.slot] = IF e.key \in DOMAIN Read(e, params, result)
                                         THEN Read(e, params, result)[e.key] ELSE <<x.node>>
  BY DEF InputsAreResults, Awaited
<1> DEFINE S == SourceOf(e)
           h == HostOf(S)
<1>1. wf \in Workflows /\ Graphs.adopted = {} /\ Told(Graphs, execs, nexts, pendingNext) /\ Ordered(Graphs)
  BY Now DEF Settled, ShapeInv, ToldNow, OrderNow
<1>2. Loaded(params, carried) /\ Delivered(Graphs, params, result)
  BY DEF Settled, DataNow
<1>3. carried[x][e.slot] = params[x.node][e.slot]
  BY <1>2 DEF Loaded
<1>4. /\ x.node \in Nodes /\ Held(Graphs, x.node)
      /\ \A d \in Upstream(x.node) : Graphs.node[d].status \in Good
  BY CarriedTo
<1>5. /\ S \in Nodes /\ wf.graph[S] = wf.graph[x.node]
      /\ (e.root = "parameters" => ~IsMiddleware(S))
  BY <1>1, EdgeIs
<1>6. Held(Graphs, S)
  BY <1>4, <1>5 DEF Held
<1>7. Graphs.node[Anchor(e)].status \in Good
      /\ (Anchor(e) = S \/ (IsMiddleware(S) /\ Anchor(e) = h))
  BY <1>1, <1>4, AnchorIs
<1>8. GivenOn(Graphs, e)
  <2>1. CASE Anchor(e) = S
    BY <2>1, <1>7 DEF GivenOn, Firm
  <2>2. CASE IsMiddleware(S) /\ Anchor(e) = h
    <3>1. h \in Nodes /\ IsHost(h) /\ ~IsHost(S) /\ wf.graph[h] = wf.graph[S]
      BY <2>2, <1>1, <1>5, Place
    <3>2. Held(Graphs, h)
      BY <3>1, <1>6 DEF Held
    <3>3. Graphs.node[wf.chain[h][1]].status \in Good
      BY <3>1, <3>2, <2>2, <1>1, <1>7 DEF Ordered, HostsEnd
    <3>4. Firm(Graphs, S)
      <4>1. CASE Outermost(S)
        <5>1. wf.chain[h][1] = S
          BY <4>1, <2>2, <1>1, <1>5, Place DEF Outermost
        <5> QED
          BY <5>1, <3>3 DEF Firm
      <4>2. CASE ~Outermost(S)
        <5>1. Within(S)
          BY <4>2, <2>2 DEF Within
        <5>2. wf.chain[h][1] \in Callers(S)
          BY <5>1, <2>2, <1>1, <1>5, Called
        <5>3. ~Astir(Graphs.node[S])
          <6> SUFFICES ASSUME Astir(Graphs.node[S]) PROVE FALSE
            OBVIOUS
          <6>1. \E y \in execs : y.node = wf.chain[h][1]
            BY <5>1, <5>2, <1>1, <1>5, <1>6 DEF Told
          <6>2. Graphs.node[wf.chain[h][1]].status = "running"
            BY <6>1, <1>1 DEF Told, Claimed, ExecsTold
          <6> QED
            BY <6>2, <3>3 DEF Good
        <5> QED
          BY <5>1, <5>3 DEF Firm
      <4> QED
        BY <4>1, <4>2
    <3> QED
      BY <3>1, <3>4, <2>2, <1>5 DEF GivenOn
  <2> QED
    BY <2>1, <2>2, <1>7
<1>9. params[x.node][e.slot] = Given(e, params, result)
  BY <1>2, <1>6, <1>8 DEF Delivered
<1> QED
  BY <1>3, <1>9 DEF Given

\* The data of a live run is coherent: what a dispatch carries, and what a node
\* that ended shows, are results that are complete and of the last execution, on
\* whatever way along edges and chains they came (apply_record_result,
\* apply_edge_bindings_for_graph, build_dispatch_request).
THEOREM DataStaysCoherent ==
  ASSUME Unnested, FramesStart, EdgesOfHosts, EdgesCarry
  PROVE  DSpec => []DataCoherent
PROOF
<1>1. DInit => FrameInv /\ WaiterInv /\ DepInv /\ DataInv
  <2> SUFFICES ASSUME DInit PROVE FrameInv /\ WaiterInv /\ DepInv /\ DataInv
    OBVIOUS
  <2>1. Init
    BY DEF DInit
  <2>2. frames = <<>> /\ adopted = {} /\ late = {}
    BY <2>1 DEF Init
  <2>3. FrameInv
    <3>1. ToSet(frames) = {}
      BY <2>2 DEF ToSet
    <3> QED
      BY <2>2, <3>1 DEF FrameInv
  <2>4. WaiterInv /\ DepInv
    BY <2>1, OrderedFirst DEF Init, WaiterInv, WaitersNow, Waiters, DepInv
  <2> QED
    BY <2>3, <2>4, DataFirst DEF DataInv
<1>2. [DNext]_dvars => [Next]_vars
  <2>1. DNext => Next
    BY Zenon DEF DNext, Next, HandleResultData
  <2>2. UNCHANGED dvars => UNCHANGED vars
    BY DEF dvars
  <2> QED
    BY <2>1, <2>2
<1>3. ShapeInv /\ ShapeInv' /\ ChainInv /\ FrameInv /\ WaiterInv /\ DepInv /\ DataInv /\ [Next]_vars /\ [DNext]_dvars =>
        FrameInv' /\ WaiterInv' /\ DepInv' /\ DataInv'
  BY FrameStep, WaitStep, DepStep, DataStep
<1>4. ShapeInv /\ ChainInv /\ FrameInv /\ DepInv /\ DataInv => DataCoherent
  <2> SUFFICES ASSUME ShapeInv, ChainInv, FrameInv, DepInv, DataInv, Live, Without(Kinds)
               PROVE  InputsAreResults /\ ResultsAreLast
    BY DEF DataCoherent, Kinds
  <2>1. Settled
    BY DEF Settled, ChainInv, FrameInv, DepInv, DataInv, Without, Kinds
  <2>2. ResultsAreLast
    BY <2>1, Now DEF Settled, DataNow, Fresh, Firm, ResultsAreLast, Present, Held
  <2> QED
    BY <2>1, <2>2, InputsGiven
<1> QED
  BY <1>1, <1>2, <1>3, <1>4, DataKeepsControl, ShapeKept, ChainsTold, PTL DEF DSpec
=============================================================================
