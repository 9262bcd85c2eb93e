--------------------------- MODULE Builder_proofs ---------------------------
(***************************************************************************)
(* Every graph the editor can show, undo to or store is closed, every view *)
(* shows a loaded graph and nodes of it, and containers and subgraphs fit  *)
(* together, whatever the workflow that was opened and however long the    *)
(* history.  The inductive invariant says it of one snapshot, of the       *)
(* snapshots of the history, and of the copies on their way to and from    *)
(* the scheduler.                                                          *)
(***************************************************************************)
EXTENDS Builder, SequenceTheorems, FiniteSetTheorems, TLAPS

\* Subgraphs by their ids, all of them handed out before n.
SubsOK(subs, n) ==
    /\ subs = [x \in DOMAIN subs |-> subs[x]]
    /\ \A x \in DOMAIN subs : IsGraph(subs[x]) /\ x \in Nat \ {0} /\ x < n

DocOK(d, n) ==
    /\ d = [root |-> d.root, subs |-> d.subs, listed |-> d.listed, drafts |-> d.drafts]
    /\ IsGraph(d.root)
    /\ SubsOK(d.subs, n)
    /\ SubsOK(d.listed, n)

SnapOK(s, n) ==
    /\ s = View(s.doc, s.active, s.selected)
    /\ DocOK(s.doc, n)
    /\ s.active \in {Root} \cup DOMAIN s.doc.subs
    /\ s.selected \subseteq Shown(s).nodes

RecordOK(w, n) ==
    /\ w = [root |-> w.root, subs |-> w.subs]
    /\ IsGraph(w.root)
    /\ SubsOK(w.subs, n)

HistoryOK(h, n) == h \in Seq(Range(h)) /\ \A s \in Range(h) : SnapOK(s, n)

SavingOK(v, n) == v /= Idle => IsGraph(v.root) /\ SubsOK(v.subs, n)

\* The inductive invariant.
IInv ==
    /\ next \in Nat \ {0}
    /\ SnapOK(now, next)
    /\ HistoryOK(past, next)
    /\ HistoryOK(future, next)
    /\ RecordOK(stored, next)
    /\ RecordOK(cache, next)
    /\ SavingOK(saving, next)

-----------------------------------------------------------------------------
(***************************************************************************)
(* Graphs.                                                                 *)
(***************************************************************************)

LEMMA CutOK ==
    ASSUME NEW g, NEW S, IsGraph(g)
    PROVE  IsGraph(Cut(g, S)) /\ Cut(g, S).nodes = g.nodes \ S
<1>1. Cut(g, S) = [nodes |-> Cut(g, S).nodes, edges |-> Cut(g, S).edges, opens |-> Cut(g, S).opens]
  BY DEF Cut
<1>2. Cut(g, S).opens = [c \in DOMAIN g.opens \ S |-> g.opens[c]]
  BY DEF Cut, Without, Restrict
<1>3. Cut(g, S).edges \subseteq Cut(g, S).nodes \X Cut(g, S).nodes
  BY DEF Cut, IsGraph
<1> QED  BY <1>1, <1>2, <1>3 DEF Cut, IsGraph

LEMMA InnerOK ==
    ASSUME NEW g, NEW S, IsGraph(g)
    PROVE  IsGraph(Inner(g, S))
<1>1. Inner(g, S).opens = [c \in DOMAIN g.opens \cap S |-> g.opens[c]]
  BY DEF Inner, Restrict
<1>2. Inner(g, S).edges \subseteq Inner(g, S).nodes \X Inner(g, S).nodes
  BY DEF Inner, IsGraph
<1> QED  BY <1>1, <1>2 DEF Inner, IsGraph

LEMMA CollapsedOK ==
    ASSUME NEW g, NEW S, NEW c, NEW sub, IsGraph(g)
    PROVE  /\ IsGraph(Collapsed(g, S, c, sub))
           /\ c \in Collapsed(g, S, c, sub).nodes
<1> DEFINE h == Collapsed(g, S, c, sub)
           r == Cut(g, S)
<1>1. IsGraph(r) /\ r.nodes = g.nodes \ S
  BY CutOK
<1>2. h.nodes = r.nodes \cup {c}
  BY DEF Collapsed
<1>3. h.edges \subseteq h.nodes \X h.nodes
  <2>1. r.edges \subseteq h.nodes \X h.nodes
    BY <1>1, <1>2 DEF IsGraph
  <2>2. \A e \in g.edges : e[1] \in g.nodes /\ e[2] \in g.nodes
    BY DEF IsGraph
  <2>3. {<<e[1], c>> : e \in {x \in g.edges : x[1] \notin S /\ x[2] \in S}} \subseteq h.nodes \X h.nodes
    BY <2>2, <1>1, <1>2
  <2>4. {<<c, e[2]>> : e \in {x \in g.edges : x[1] \in S /\ x[2] \notin S}} \subseteq h.nodes \X h.nodes
    BY <2>2, <1>1, <1>2
  <2> QED  BY <2>1, <2>3, <2>4 DEF Collapsed
<1>4. h.opens = [x \in DOMAIN r.opens \cup {c} |-> h.opens[x]]
  BY DEF Collapsed, With
<1>5. h = [nodes |-> h.nodes, edges |-> h.edges, opens |-> h.opens]
  BY DEF Collapsed
<1> HIDE DEF h
<1>6. IsGraph(h)
  BY <1>1, <1>2, <1>3, <1>4, <1>5 DEF IsGraph
<1> QED  BY <1>2, <1>6 DEF h

LEMMA RenamedOK ==
    ASSUME NEW g, NEW f, IsGraph(g)
    PROVE  IsGraph(RenamedBy(g, f))
<1>1. \A e \in g.edges : e[1] \in g.nodes /\ e[2] \in g.nodes
  BY DEF IsGraph
<1>2. RenamedBy(g, f).edges \subseteq RenamedBy(g, f).nodes \X RenamedBy(g, f).nodes
  BY <1>1 DEF RenamedBy
<1>3. DOMAIN RenamedBy(g, f).opens = {f[n] : n \in DOMAIN g.opens}
  BY DEF RenamedBy
<1>4. DOMAIN RenamedBy(g, f).opens \subseteq RenamedBy(g, f).nodes
  BY <1>3 DEF RenamedBy, IsGraph
<1>5. RenamedBy(g, f).opens = [x \in DOMAIN RenamedBy(g, f).opens |-> RenamedBy(g, f).opens[x]]
  BY DEF RenamedBy
<1>6. RenamedBy(g, f) = [nodes |-> RenamedBy(g, f).nodes, edges |-> RenamedBy(g, f).edges, opens |-> RenamedBy(g, f).opens]
  BY DEF RenamedBy
<1> QED  BY <1>2, <1>4, <1>5, <1>6 DEF IsGraph

LEMMA UnionOK ==
    ASSUME NEW g, NEW h, IsGraph(g), IsGraph(h)
    PROVE  IsGraph(Union(g, h))
BY DEF IsGraph, Joined, Union, Graph

LEMMA SubsJoined ==
    ASSUME NEW n \in Nat, NEW m \in Nat, NEW subs, NEW x \in Nat \ {0}, NEW g,
           SubsOK(subs, n), IsGraph(g), x < m, n <= m
    PROVE  SubsOK(With(subs, x, g), m)
BY DEF SubsOK, With

LEMMA SubsWithout ==
    ASSUME NEW n, NEW subs, NEW S, SubsOK(subs, n)
    PROVE  /\ SubsOK(Without(subs, S), n)
           /\ DOMAIN Without(subs, S) = DOMAIN subs \ S
BY DEF SubsOK, Without, Restrict

-----------------------------------------------------------------------------
(***************************************************************************)
(* Snapshots.                                                              *)
(***************************************************************************)

\* What was made of the ids before n is made of the ids before m.
LEMMA Later ==
    ASSUME NEW n \in Nat, NEW m \in Nat, n <= m
    PROVE  /\ \A subs : SubsOK(subs, n) => SubsOK(subs, m)
           /\ \A d : DocOK(d, n) => DocOK(d, m)
           /\ \A s : SnapOK(s, n) => SnapOK(s, m)
           /\ \A w : RecordOK(w, n) => RecordOK(w, m)
           /\ \A h : HistoryOK(h, n) => HistoryOK(h, m)
           /\ \A v : SavingOK(v, n) => SavingOK(v, m)
<1>1. \A subs : SubsOK(subs, n) => SubsOK(subs, m)
  BY DEF SubsOK
<1>2. \A d : DocOK(d, n) => DocOK(d, m)
  BY <1>1 DEF DocOK
<1>3. \A s : SnapOK(s, n) => SnapOK(s, m)
  BY <1>2 DEF SnapOK
<1>4. \A w : RecordOK(w, n) => RecordOK(w, m)
  BY <1>1 DEF RecordOK
<1>5. \A h : HistoryOK(h, n) => HistoryOK(h, m)
  BY <1>3 DEF HistoryOK
<1>6. \A v : SavingOK(v, n) => SavingOK(v, m)
  BY <1>1 DEF SavingOK
<1> QED  BY <1>1, <1>2, <1>3, <1>4, <1>5, <1>6

LEMMA ShownOK ==
    ASSUME NEW n, NEW s, SnapOK(s, n)
    PROVE  IsGraph(Shown(s))
BY DEF SnapOK, DocOK, SubsOK, Shown

\* The canvas is redrawn and the selection lies in what it shows.
LEMMA RedrawnOK ==
    ASSUME NEW n, NEW s, NEW g, NEW S, SnapOK(s, n), IsGraph(g), S \subseteq g.nodes
    PROVE  /\ SnapOK(View(Redrawn(s, g), s.active, S), n)
           /\ DocOK(Redrawn(s, g), n)
           /\ DOMAIN Redrawn(s, g).subs = DOMAIN s.doc.subs
           /\ s.active = Root => Redrawn(s, g).root = g
           /\ s.active /= Root => Redrawn(s, g).subs[s.active] = g
<1> DEFINE d == Redrawn(s, g)
           t == View(d, s.active, S)
<1>1. t.doc = d /\ t.selected = S /\ t.active = s.active /\ t = View(t.doc, t.active, t.selected)
  BY DEF View
<1>2. CASE s.active = Root
  <2>1. d = [root |-> g, subs |-> s.doc.subs, listed |-> s.doc.listed, drafts |-> s.doc.drafts]
    BY <1>2 DEF Redrawn, SnapOK, DocOK
  <2>2. DocOK(d, n) /\ d.subs = s.doc.subs /\ d.root = g
    BY <2>1 DEF SnapOK, DocOK
  <2> HIDE DEF d
  <2>3. Shown(t) = g
    BY <1>1, <1>2, <2>2 DEF Shown
  <2> QED  BY <1>1, <1>2, <2>2, <2>3 DEF SnapOK, d
<1>3. CASE s.active /= Root
  <2>0. s.active \in DOMAIN s.doc.subs
    BY <1>3 DEF SnapOK
  <2>1. d = [root |-> s.doc.root, subs |-> [s.doc.subs EXCEPT ![s.active] = g],
             listed |-> s.doc.listed, drafts |-> s.doc.drafts]
    BY <1>3 DEF Redrawn, SnapOK, DocOK
  <2>2. /\ SubsOK([s.doc.subs EXCEPT ![s.active] = g], n)
        /\ DOMAIN [s.doc.subs EXCEPT ![s.active] = g] = DOMAIN s.doc.subs
        /\ [s.doc.subs EXCEPT ![s.active] = g][s.active] = g
    BY <2>0 DEF SnapOK, DocOK, SubsOK
  <2>3. DocOK(d, n) /\ DOMAIN d.subs = DOMAIN s.doc.subs /\ d.subs[s.active] = g
    BY <2>1, <2>2 DEF SnapOK, DocOK
  <2> HIDE DEF d
  <2>4. Shown(t) = g
    BY <1>1, <1>3, <2>3 DEF Shown
  <2> QED  BY <1>1, <1>3, <2>0, <2>3, <2>4 DEF SnapOK, d
<1> QED  BY <1>2, <1>3

LEMMA SwitchedOK ==
    ASSUME NEW n, NEW s, NEW g, SnapOK(s, n), g \in {Root} \cup DOMAIN s.doc.subs
    PROVE  SnapOK(SwitchedTo(s, g), n) /\ SwitchedTo(s, g).doc = s.doc /\ SwitchedTo(s, g).active = g
BY DEF SnapOK, SwitchedTo, View, Shown

LEMMA OpenedOK ==
    ASSUME NEW n, NEW w, RecordOK(w, n)
    PROVE  SnapOK(Opened(w), n)
BY DEF RecordOK, SnapOK, DocOK, Opened, Shown, View

LEMMA ConvertedOK ==
    ASSUME NEW n \in Nat \ {0}, NEW s, NEW c, SnapOK(s, n)
    PROVE  SnapOK(Converted(s, n, c), n + 1)
<1> DEFINE g == Shown(s)
           inner == Inner(g, s.selected)
           outer == Collapsed(g, s.selected, c, n)
           d == Redrawn(s, outer)
           subs == With(d.subs, n, inner)
           listed == With(d.listed, n, inner)
           t == Converted(s, n, c)
<1>1. IsGraph(g) /\ IsGraph(inner) /\ IsGraph(outer) /\ c \in outer.nodes
  BY ShownOK, InnerOK, CollapsedOK
<1>2. /\ SnapOK(View(d, s.active, {c}), n)
      /\ DocOK(d, n)
      /\ DOMAIN d.subs = DOMAIN s.doc.subs
      /\ s.active = Root => d.root = outer
      /\ s.active /= Root => d.subs[s.active] = outer
  <2> HIDE DEF outer
  <2>1. {c} \subseteq outer.nodes
    BY <1>1
  <2> QED  BY <1>1, <2>1, RedrawnOK
<1>3. /\ SubsOK(subs, n + 1) /\ DOMAIN subs = DOMAIN d.subs \cup {n}
      /\ \A y \in DOMAIN d.subs : y /= n => subs[y] = d.subs[y]
      /\ SubsOK(listed, n + 1)
  <2> HIDE DEF inner, d
  <2>1. SubsOK(d.subs, n) /\ SubsOK(d.listed, n)
    BY <1>2 DEF DocOK
  <2>2. n \in Nat /\ n + 1 \in Nat /\ n < n + 1 /\ n <= n + 1
    OBVIOUS
  <2>3. IsGraph(inner)
    BY <1>1
  <2>4. SubsOK(subs, n + 1)
    BY <2>1, <2>2, <2>3, SubsJoined
  <2>5. SubsOK(listed, n + 1)
    BY <2>1, <2>2, <2>3, SubsJoined
  <2>6. DOMAIN subs = DOMAIN d.subs \cup {n} /\ \A y \in DOMAIN d.subs : y /= n => subs[y] = d.subs[y]
    BY DEF With
  <2> QED  BY <2>4, <2>5, <2>6
<1>4. t = View([root |-> d.root, subs |-> subs, listed |-> listed,
                drafts |-> d.drafts \cup {n}], s.active, {c})
  BY DEF Converted
<1>5. s.active \in {Root} \cup DOMAIN s.doc.subs /\ s.active /= n
  BY DEF SnapOK, DocOK, SubsOK, Root
<1> HIDE DEF g, inner, outer, d, subs, listed, t
<1>6. /\ t.doc.root = d.root /\ t.doc.subs = subs
      /\ t.active = s.active /\ t.selected = {c} /\ t = View(t.doc, t.active, t.selected)
  BY <1>4 DEF View
<1>7. DocOK(t.doc, n + 1)
  BY <1>2, <1>3, <1>4 DEF DocOK, View
<1>8. Shown(t) = outer
  BY <1>2, <1>3, <1>5, <1>6 DEF Shown
<1>9. SnapOK(t, n + 1)
  BY <1>1, <1>2, <1>3, <1>5, <1>6, <1>7, <1>8 DEF SnapOK
<1> QED  BY <1>9 DEF t

LEMMA InlinedOK ==
    ASSUME NEW n, NEW s, NEW c \in DOMAIN s.doc.root.opens, SnapOK(s, n), s.active = Root,
           s.doc.root.opens[c] \in DOMAIN s.doc.subs
    PROVE  SnapOK(Inlined(s, c), n)
<1> DEFINE sub == s.doc.root.opens[c]
           g == s.doc.subs[sub]
           body == RenamedBy(g, NewNames(g, s.doc.root.nodes))
           rest == Cut(s.doc.root, {c})
           t == Inlined(s, c)
<1>1. IsGraph(g) /\ IsGraph(s.doc.root)
  BY DEF SnapOK, DocOK, SubsOK
<1>2. IsGraph(body) /\ IsGraph(rest)
  BY <1>1, RenamedOK, CutOK
<1>3. IsGraph(Union(rest, body)) /\ body.nodes \subseteq Union(rest, body).nodes
  <2> HIDE DEF rest, body
  <2> QED  BY <1>2, UnionOK DEF Union, Graph
<1>4. SubsOK(Without(s.doc.subs, {sub}), n) /\ SubsOK(Without(s.doc.listed, {sub}), n)
  BY SubsWithout DEF SnapOK, DocOK
<1>5. t = View([root |-> Union(rest, body), subs |-> Without(s.doc.subs, {sub}),
                listed |-> Without(s.doc.listed, {sub}), drafts |-> s.doc.drafts \ {sub}],
               s.active, body.nodes)
  BY DEF Inlined
<1> HIDE DEF sub, g, body, rest, t
<1>6. /\ t.doc.root = Union(rest, body) /\ t.active = Root /\ t.selected = body.nodes
      /\ t = View(t.doc, t.active, t.selected)
  BY <1>5 DEF View
<1>7. DocOK(t.doc, n)
  BY <1>3, <1>4, <1>5 DEF DocOK, View
<1>8. SnapOK(t, n)
  BY <1>3, <1>6, <1>7 DEF SnapOK, Shown
<1> QED  BY <1>8 DEF t

-----------------------------------------------------------------------------
(***************************************************************************)
(* Histories.                                                              *)
(***************************************************************************)

LEMMA HistoryIntro ==
    ASSUME NEW n, NEW h, NEW T, h \in Seq(T), \A s \in T : SnapOK(s, n)
    PROVE  HistoryOK(h, n)
<1>1. \A s \in Range(h) : s \in T
  BY DEF Range
<1>2. h \in Seq(Range(h))
  <2>1. Len(h) \in Nat /\ h \in [1 .. Len(h) -> Range(h)]
    BY DEF Range
  <2> QED  BY <2>1
<1> QED  BY <1>1, <1>2 DEF HistoryOK

LEMMA EmptyHistory == ASSUME NEW n PROVE HistoryOK(<<>>, n)
BY DEF HistoryOK, Range

LEMMA AppendHistory ==
    ASSUME NEW n, NEW h, NEW s, HistoryOK(h, n), SnapOK(s, n)
    PROVE  HistoryOK(Append(h, s), n) /\ HistoryOK(Trimmed(Append(h, s)), n)
<1> DEFINE T == Range(h) \cup {s}
           a == Append(h, s)
<1>1. \A t \in T : SnapOK(t, n)
  BY DEF HistoryOK
<1>2. h \in Seq(T)
  BY DEF HistoryOK
<1>3. s \in T
  OBVIOUS
<1> HIDE DEF T
<1>4. a \in Seq(T) /\ a /= <<>>
  BY <1>2, <1>3, AppendProperties
<1> HIDE DEF a
<1>5. Tail(a) \in Seq(T)
  BY <1>4, HeadTailProperties
<1>6. Trimmed(a) \in Seq(T)
  BY <1>4, <1>5 DEF Trimmed
<1> QED  BY <1>1, <1>4, <1>6, HistoryIntro DEF a

LEMMA PopHistory ==
    ASSUME NEW n, NEW h, HistoryOK(h, n), h /= <<>>
    PROVE  HistoryOK(Front(h), n) /\ SnapOK(Last(h), n)
<1> DEFINE T == Range(h)
<1>1. h \in Seq(T) /\ \A t \in T : SnapOK(t, n)
  BY DEF HistoryOK
<1> HIDE DEF T
<1>2. Len(h) \in Nat /\ Len(h) >= 1
  BY <1>1
<1>3. h[Len(h)] \in T
  BY <1>1, <1>2
<1>4. SubSeq(h, 1, Len(h) - 1) \in Seq(T)
  BY <1>1, <1>2
<1> QED  BY <1>1, <1>3, <1>4, HistoryIntro DEF Last, Front

\* A recorded edit keeps the invariant when the view before and the view after
\* it are sound.
LEMMA RecordStep ==
    ASSUME NEW before, NEW after, IInv, Record(before, after), UNCHANGED Stores,
           next' \in Nat, next <= next',
           SnapOK(before, next), SnapOK(after, next')
    PROVE  IInv'
<1>1. HistoryOK(past', next)
  BY AppendHistory DEF Record, IInv
<1>2. HistoryOK(future', next')
  BY EmptyHistory DEF Record
<1>3. next \in Nat /\ next' \in Nat \ {0}
  BY DEF IInv
<1>4. HistoryOK(past', next') /\ RecordOK(stored, next') /\ RecordOK(cache, next') /\ SavingOK(saving, next')
  BY <1>1, <1>3, Later DEF IInv
<1>5. stored' = stored /\ cache' = cache /\ saving' = saving /\ now' = after
  BY DEF Stores, Record
<1> QED  BY <1>2, <1>3, <1>4, <1>5 DEF IInv

\* So does one that redraws the graph on the canvas.
LEMMA RedrawStep ==
    ASSUME NEW g, NEW S, IInv, Redraw(g, S), UNCHANGED Stores, IsGraph(g), S \subseteq g.nodes,
           next' \in Nat, next <= next'
    PROVE  IInv'
<1>1. SnapOK(now, next) /\ next \in Nat
  BY DEF IInv
<1>2. SnapOK(View(Redrawn(now, g), now.active, S), next)
  BY <1>1, RedrawnOK
<1>3. SnapOK(View(Redrawn(now, g), now.active, S), next')
  BY <1>1, <1>2, Later
<1> QED  BY <1>1, <1>3, RecordStep DEF Redraw

LEMMA InvInit == Init => IInv
<1> SUFFICES ASSUME Init PROVE IInv
  OBVIOUS
<1>1. PICK w \in Documents : stored = w /\ cache = w /\ now = Opened(w) /\ next = FirstId
  BY DEF Init
<1>2. next \in Nat \ {0}
  BY <1>1, IdsAssumption
<1>3. SubsOK(w.subs, next)
  <2>1. \A x \in DOMAIN w.subs : w.subs[x] \in Range(w.subs)
    BY DEF Range
  <2> QED  BY <1>1, <1>2, <2>1, IdsAssumption, DocumentsAssumption DEF SubsOK
<1>4. RecordOK(w, next)
  BY <1>3, DocumentsAssumption DEF RecordOK
<1>5. SnapOK(now, next)
  BY <1>1, <1>4, OpenedOK
<1>6. HistoryOK(past, next) /\ HistoryOK(future, next)
  BY EmptyHistory DEF Init
<1>7. SavingOK(saving, next)
  BY DEF Init, SavingOK
<1> QED  BY <1>1, <1>2, <1>4, <1>5, <1>6, <1>7 DEF IInv

-----------------------------------------------------------------------------
(***************************************************************************)
(* The steps of the editor.                                                *)
(***************************************************************************)

LEMMA GraphOf ==
    ASSUME NEW N, NEW E, NEW f, E \subseteq N \X N, DOMAIN f \subseteq N,
           f = [c \in DOMAIN f |-> f[c]]
    PROVE  IsGraph(Graph(N, E, f)) /\ Graph(N, E, f).nodes = N
BY DEF IsGraph, Graph

\* What holds of the snapshot that an edit starts from.
LEMMA FromNow ==
    ASSUME IInv
    PROVE  /\ next \in Nat \ {0}
           /\ SnapOK(now, next)
           /\ IsGraph(Shown(now))
           /\ now.selected \subseteq Shown(now).nodes
<1>1. next \in Nat \ {0} /\ SnapOK(now, next)
  BY DEF IInv
<1> QED  BY <1>1, ShownOK DEF SnapOK

LEMMA AddNodeInv == ASSUME IInv, AddNode PROVE IInv'
<1> DEFINE g == Shown(now)
           N == g.nodes \cup {next}
<1>1. IsGraph(g) /\ next \in Nat
  BY FromNow
<1>2. PICK f \in {g.opens, With(g.opens, next, None)} : Redraw(Graph(N, g.edges, f), {next})
  BY DEF AddNode
<1>3. /\ g.edges \subseteq N \X N
      /\ DOMAIN f \subseteq N
      /\ f = [c \in DOMAIN f |-> f[c]]
  BY <1>1, <1>2 DEF IsGraph, With
<1>4. UNCHANGED Stores /\ next' = next + 1
  BY DEF AddNode, Elsewhere, Stores
<1>5. {next} \subseteq N
  OBVIOUS
<1> HIDE DEF g, N
<1>6. IsGraph(Graph(N, g.edges, f)) /\ Graph(N, g.edges, f).nodes = N
  BY <1>3, GraphOf
<1> QED  BY <1>1, <1>2, <1>4, <1>5, <1>6, RedrawStep

LEMMA RemoveNodeInv == ASSUME IInv, NEW n, RemoveNode(n) PROVE IInv'
<1> DEFINE h == Cut(Shown(now), {n})
           S == now.selected \ {n}
<1>1. next \in Nat /\ IsGraph(Shown(now)) /\ now.selected \subseteq Shown(now).nodes
  BY FromNow
<1>2. IsGraph(h) /\ h.nodes = Shown(now).nodes \ {n}
  BY <1>1, CutOK
<1>3. Redraw(h, S) /\ UNCHANGED Stores /\ next' = next
  BY DEF RemoveNode, Elsewhere, Stores
<1> HIDE DEF h
<1>4. S \subseteq h.nodes
  BY <1>1, <1>2
<1> HIDE DEF S
<1> QED  BY <1>1, <1>2, <1>3, <1>4, RedrawStep

LEMMA AddEdgeInv == ASSUME IInv, NEW m, NEW n, AddEdge(m, n) PROVE IInv'
<1> DEFINE g == Shown(now)
           h == Graph(g.nodes, g.edges \cup {<<m, n>>}, g.opens)
<1>1. next \in Nat /\ IsGraph(g) /\ now.selected \subseteq g.nodes
  BY FromNow
<1>2. IsGraph(h) /\ h.nodes = g.nodes
  <2>1. /\ g.edges \cup {<<m, n>>} \subseteq g.nodes \X g.nodes
        /\ DOMAIN g.opens \subseteq g.nodes /\ g.opens = [c \in DOMAIN g.opens |-> g.opens[c]]
    BY <1>1 DEF IsGraph, AddEdge
  <2> HIDE DEF g
  <2> QED  BY <1>1, <2>1, GraphOf
<1>3. Redraw(h, now.selected) /\ UNCHANGED Stores /\ next' = next
  BY DEF AddEdge, Elsewhere, Stores
<1> HIDE DEF h
<1> QED  BY <1>1, <1>2, <1>3, RedrawStep

LEMMA RemoveEdgeInv == ASSUME IInv, NEW e, RemoveEdge(e) PROVE IInv'
<1> DEFINE g == Shown(now)
           h == Graph(g.nodes, g.edges \ {e}, g.opens)
<1>1. next \in Nat /\ IsGraph(g) /\ now.selected \subseteq g.nodes
  BY FromNow
<1>2. IsGraph(h) /\ h.nodes = g.nodes
  <2>1. /\ g.edges \ {e} \subseteq g.nodes \X g.nodes
        /\ DOMAIN g.opens \subseteq g.nodes /\ g.opens = [c \in DOMAIN g.opens |-> g.opens[c]]
    BY <1>1 DEF IsGraph
  <2> HIDE DEF g
  <2> QED  BY <1>1, <2>1, GraphOf
<1>3. Redraw(h, now.selected) /\ UNCHANGED Stores /\ next' = next
  BY DEF RemoveEdge, Elsewhere, Stores
<1> HIDE DEF h
<1> QED  BY <1>1, <1>2, <1>3, RedrawStep

LEMMA PickSubgraphInv == ASSUME IInv, NEW c, NEW sub, PickSubgraph(c, sub) PROVE IInv'
<1> DEFINE g == Shown(now)
           f == With(g.opens, c, sub)
           h == Graph(g.nodes, g.edges, f)
<1>1. next \in Nat /\ IsGraph(g) /\ now.selected \subseteq g.nodes
  BY FromNow
<1>2. IsGraph(h) /\ h.nodes = g.nodes
  <2>1. /\ g.edges \subseteq g.nodes \X g.nodes
        /\ DOMAIN f \subseteq g.nodes
        /\ f = [x \in DOMAIN f |-> f[x]]
    BY <1>1 DEF IsGraph, With, PickSubgraph
  <2> HIDE DEF g, f
  <2> QED  BY <2>1, GraphOf
<1>3. Redraw(h, now.selected) /\ UNCHANGED Stores /\ next' = next
  BY DEF PickSubgraph, Elsewhere, Stores
<1> HIDE DEF h
<1> QED  BY <1>1, <1>2, <1>3, RedrawStep

LEMMA TouchInv == ASSUME IInv, Touch PROVE IInv'
<1>1. next \in Nat /\ SnapOK(now, next)
  BY FromNow
<1> QED  BY <1>1, RecordStep DEF Touch, Elsewhere, Stores

\* A change of the view that the history does not see.
LEMMA ShowStep ==
    ASSUME IInv, NEW s, SnapOK(s, next), Show(s), next' = next, UNCHANGED Stores
    PROVE  IInv'
BY DEF IInv, Show, Stores

LEMMA SetSelectedNodesInv == ASSUME IInv, NEW S, SetSelectedNodes(S) PROVE IInv'
<1> DEFINE t == View(now.doc, now.active, S)
<1>1. SnapOK(now, next) /\ S \subseteq Shown(now).nodes
  BY FromNow DEF SetSelectedNodes
<1>2. SnapOK(t, next)
  BY <1>1 DEF SnapOK, View, Shown
<1>3. Show(t) /\ next' = next /\ UNCHANGED Stores
  BY DEF SetSelectedNodes, Elsewhere, Stores
<1> HIDE DEF t
<1> QED  BY <1>2, <1>3, ShowStep

LEMMA SetActiveGraphInv == ASSUME IInv, NEW g, SetActiveGraph(g) PROVE IInv'
<1> DEFINE t == SwitchedTo(now, g)
<1>1. next \in Nat /\ SnapOK(now, next)
  BY FromNow
<1>2. SnapOK(t, next)
  BY <1>1, SwitchedOK DEF SetActiveGraph
<1>3. Record(now, t) /\ next' = next /\ UNCHANGED Stores
  BY DEF SetActiveGraph, Elsewhere, Stores
<1> HIDE DEF t
<1> QED  BY <1>1, <1>2, <1>3, RecordStep

LEMMA ConvertInv == ASSUME IInv, ConvertSelectionToSubgraph PROVE IInv'
<1> DEFINE t == Converted(now, next, next + 1)
<1>1. next \in Nat \ {0} /\ SnapOK(now, next)
  BY FromNow
<1>2. SnapOK(t, next + 1)
  BY <1>1, ConvertedOK
<1>3. Record(now, t) /\ next' = next + 2 /\ UNCHANGED Stores
  BY DEF ConvertSelectionToSubgraph, Elsewhere, Stores
<1> HIDE DEF t
<1>4. SnapOK(t, next')
  <2>1. next + 1 \in Nat /\ next' \in Nat /\ next + 1 <= next'
    BY <1>1, <1>3
  <2> QED  BY <1>2, <2>1, Later
<1>5. next' \in Nat /\ next <= next'
  BY <1>1, <1>3
<1> QED  BY <1>1, <1>3, <1>4, <1>5, RecordStep

LEMMA AtRootOK ==
    ASSUME NEW n, SnapOK(now, n)
    PROVE  SnapOK(AtRoot, n) /\ AtRoot.active = Root /\ AtRoot.doc = now.doc
BY SwitchedOK DEF AtRoot

LEMMA InlineStep ==
    ASSUME IInv, NEW c \in DOMAIN AtRoot.doc.root.opens,
           AtRoot.doc.root.opens[c] \in DOMAIN AtRoot.doc.subs,
           InlineInto(AtRoot, c), UNCHANGED Stores
    PROVE  IInv'
<1> DEFINE s == AtRoot
           t == Inlined(s, c)
<1>1. next \in Nat /\ SnapOK(now, next)
  BY FromNow
<1>2. SnapOK(s, next) /\ s.active = Root
  BY <1>1, AtRootOK
<1>3. SnapOK(t, next)
  <2> HIDE DEF s
  <2>1. c \in DOMAIN s.doc.root.opens /\ s.doc.root.opens[c] \in DOMAIN s.doc.subs
    BY DEF s
  <2> QED  BY <1>2, <2>1, InlinedOK
<1>4. Record(s, t) /\ next' \in Nat /\ next <= next'
  <2> DEFINE k == next + Clashes(s, c)
  <2>1. k \in next .. MaxId + 1 /\ next' = k /\ Record(s, t)
    BY DEF InlineInto
  <2> HIDE DEF k, s, t
  <2>2. k \in Int /\ next <= k
    BY <2>1
  <2> QED  BY <1>1, <2>1, <2>2
<1> HIDE DEF s, t
<1>5. SnapOK(t, next')
  BY <1>1, <1>3, <1>4, Later
<1> QED  BY <1>2, <1>4, <1>5, RecordStep

LEMMA InlineNodeInv == ASSUME IInv, NEW c, InlineNode(c) PROVE IInv'
<1> DEFINE s == AtRoot
<1>1. SnapOK(s, next)
  BY FromNow, AtRootOK
<1>2. CASE c \in DOMAIN s.doc.root.opens /\ s.doc.root.opens[c] \in DOMAIN s.doc.subs
  BY <1>2, InlineStep DEF InlineNode
<1>3. CASE ~(c \in DOMAIN s.doc.root.opens /\ s.doc.root.opens[c] \in DOMAIN s.doc.subs)
  BY <1>1, <1>3, ShowStep DEF InlineNode
<1> QED  BY <1>2, <1>3

LEMMA InlineSubgraphInv == ASSUME IInv, NEW sub, InlineSubgraph(sub) PROVE IInv'
<1> DEFINE s == AtRoot
           by == {c \in DOMAIN s.doc.root.opens : s.doc.root.opens[c] = sub}
<1>1. SnapOK(s, next) /\ s.doc = now.doc
  BY FromNow, AtRootOK
<1>2. sub \in DOMAIN s.doc.subs /\ UNCHANGED Stores
  BY <1>1 DEF InlineSubgraph
<1>3. CASE Cardinality(by) = 1
  <2>1. PICK c \in by : InlineInto(s, c)
    BY <1>3 DEF InlineSubgraph
  <2> QED  BY <1>2, <2>1, InlineStep
<1>4. CASE Cardinality(by) /= 1
  <2>1. Show(s) /\ next' = next
    BY <1>4 DEF InlineSubgraph
  <2> QED  BY <1>1, <1>2, <2>1, ShowStep
<1> QED  BY <1>3, <1>4

LEMMA UndoInv == ASSUME IInv, Undo PROVE IInv'
<1>1. SnapOK(now, next) /\ HistoryOK(past, next) /\ HistoryOK(future, next)
  BY DEF IInv
<1>2. HistoryOK(past', next) /\ SnapOK(now', next)
  BY <1>1, PopHistory DEF Undo
<1>3. HistoryOK(future', next)
  BY <1>1, AppendHistory DEF Undo
<1> QED  BY <1>2, <1>3 DEF IInv, Undo, Stores

LEMMA RedoInv == ASSUME IInv, Redo PROVE IInv'
<1>1. SnapOK(now, next) /\ HistoryOK(past, next) /\ HistoryOK(future, next)
  BY DEF IInv
<1>2. HistoryOK(future', next) /\ SnapOK(now', next)
  BY <1>1, PopHistory DEF Redo
<1>3. HistoryOK(past', next)
  BY <1>1, AppendHistory DEF Redo
<1> QED  BY <1>2, <1>3 DEF IInv, Redo, Stores

LEMMA ClickSaveInv == ASSUME IInv, ClickSave PROVE IInv'
<1>1. SnapOK(now, next)
  BY DEF IInv
<1>2. SavingOK(saving', next)
  BY <1>1 DEF SnapOK, DocOK, SavingOK, ClickSave
<1> QED  BY <1>2 DEF IInv, ClickSave

LEMMA CapturePreviewInv == ASSUME IInv, CapturePreview PROVE IInv'
<1>1. /\ SnapOK(now, next) /\ HistoryOK(past, next) /\ HistoryOK(future, next)
      /\ SavingOK(saving, next) /\ next' = next
  BY DEF IInv, CapturePreview
<1>2. SavingOK(saving', next)
  BY <1>1 DEF SavingOK, CapturePreview, Idle
<1>3. now' = now /\ HistoryOK(past', next) /\ HistoryOK(future', next)
  <2>1. CASE Record(now, now)
    BY <1>1, <2>1, AppendHistory, EmptyHistory DEF Record
  <2>2. CASE Show(now)
    BY <1>1, <2>2 DEF Show
  <2> QED  BY <2>1, <2>2 DEF CapturePreview
<1> QED  BY <1>1, <1>2, <1>3 DEF IInv, CapturePreview

LEMMA PersistInv == ASSUME IInv, PersistWorkflow PROVE IInv'
<1>1. SavingOK(saving, next) /\ RecordOK(stored, next) /\ saving /= Idle
  BY DEF IInv, PersistWorkflow, Idle
<1>2. RecordOK([root |-> saving.root, subs |-> saving.subs], next)
  BY <1>1 DEF SavingOK, RecordOK
<1>3. RecordOK(stored', next) /\ SavingOK(saving', next)
  BY <1>1, <1>2 DEF PersistWorkflow, SavingOK
<1> QED  BY <1>3 DEF IInv, PersistWorkflow

LEMMA RefetchInv == ASSUME IInv, Refetch PROVE IInv'
BY DEF IInv, Refetch

LEMMA ReopenInv == ASSUME IInv, Reopen PROVE IInv'
<1>1. SnapOK(now', next)
  BY OpenedOK DEF IInv, Reopen
<1> QED  BY <1>1, EmptyHistory DEF IInv, Reopen, Stores

LEMMA InvNext == IInv /\ [Next]_vars => IInv'
<1> SUFFICES ASSUME IInv, [Next]_vars PROVE IInv'
  OBVIOUS
<1>1. CASE AddNode
  BY <1>1, AddNodeInv
<1>2. CASE \E n \in Ids : RemoveNode(n) \/ InlineNode(n) \/ InlineSubgraph(n)
  BY <1>2, RemoveNodeInv, InlineNodeInv, InlineSubgraphInv
<1>3. CASE \E m, n \in Ids : AddEdge(m, n) \/ RemoveEdge(<<m, n>>)
  BY <1>3, AddEdgeInv, RemoveEdgeInv
<1>11. CASE \E c \in Ids, sub \in {None} \cup Ids : PickSubgraph(c, sub)
  BY <1>11, PickSubgraphInv
<1>4. CASE Touch
  BY <1>4, TouchInv
<1>5. CASE \E S \in SUBSET Ids : Cardinality(S) <= MaxSelected /\ SetSelectedNodes(S)
  BY <1>5, SetSelectedNodesInv
<1>6. CASE \E g \in {Root} \cup Ids : SetActiveGraph(g)
  BY <1>6, SetActiveGraphInv
<1>7. CASE ConvertSelectionToSubgraph
  BY <1>7, ConvertInv
<1>8. CASE Undo \/ Redo
  BY <1>8, UndoInv, RedoInv
<1>9. CASE ClickSave \/ CapturePreview \/ PersistWorkflow \/ Refetch \/ Reopen
  BY <1>9, ClickSaveInv, CapturePreviewInv, PersistInv, RefetchInv, ReopenInv
<1>10. CASE UNCHANGED vars
  BY <1>10 DEF vars, Stores, IInv
<1> QED  BY <1>1, <1>2, <1>3, <1>4, <1>5, <1>6, <1>7, <1>8, <1>9, <1>10, <1>11 DEF Next

-----------------------------------------------------------------------------
(***************************************************************************)
(* The theorems.                                                           *)
(***************************************************************************)

\* The inductive invariant holds of every session of the editor.
THEOREM Soundness == Spec => []IInv
<1> QED  BY InvInit, InvNext, PTL DEF Spec

\* What the invariant says of every snapshot: past, present and future.
LEMMA SnapshotsOK ==
    ASSUME IInv
    PROVE  \A s \in Snapshots : SnapOK(s, next)
BY DEF IInv, Snapshots, HistoryOK

\* Edges and containers are those of nodes of their own graph, in the document,
\* in every snapshot undo and redo can bring back and in what is stored, for
\* every workflow opened and every length of the history: store.ts removes the
\* edges with the nodes wherever a graph is edited, converted or inlined.
THEOREM GraphsAreClosed == Spec => []EdgesConnect
<1>1. IInv => EdgesConnect
  <2> SUFFICES ASSUME IInv, NEW w \in Workflows, NEW g \in Graphs(w) PROVE IsGraph(g)
    BY DEF EdgesConnect, IsGraph
  <2>1. CASE w \in {s.doc : s \in Snapshots}
    <3>1. PICK s \in Snapshots : w = s.doc
      BY <2>1
    <3>2. DocOK(w, next)
      BY <3>1, SnapshotsOK DEF SnapOK
    <3> QED  BY <3>2 DEF DocOK, SubsOK, Graphs, Range
  <2>2. CASE w \in {stored, cache}
    <3>1. RecordOK(w, next)
      BY <2>2 DEF IInv
    <3> QED  BY <3>1 DEF RecordOK, SubsOK, Graphs, Range
  <2> QED  BY <2>1, <2>2 DEF Workflows
<1> QED  BY <1>1, Soundness, PTL

\* The graph on the canvas is loaded and the selected nodes are nodes of it, now
\* and after any sequence of undos and redos, for every workflow opened and
\* every length of the history.
THEOREM ViewsAreShown == Spec => []ViewIsShown
<1>1. IInv => ViewIsShown
  BY SnapshotsOK DEF ViewIsShown, SnapOK
<1> QED  BY <1>1, Soundness, PTL

-----------------------------------------------------------------------------
(***************************************************************************)
(* Graphs that fit together.  The ids of a document were handed out before *)
(* n, its containers open subgraphs of it or of L, and no two of its       *)
(* graphs have a node in common but those of T: not with the drafts, and   *)
(* not with the list, the subgraphs that a save refuses left aside.        *)
(***************************************************************************)
GraphFits(g, n, X, L) ==
    /\ \A x \in g.nodes : x \in Nat \ {0} /\ x < n
    /\ \A c \in DOMAIN g.opens : /\ g.opens[c] \in {None} \cup X \cup L
                                 /\ g.opens[c] \in Nat /\ g.opens[c] < n

SubsFit(subs, n, L) == \A x \in DOMAIN subs : GraphFits(subs[x], n, DOMAIN subs, L)

RecordFits(w, n, L, T) ==
    /\ GraphFits(w.root, n, DOMAIN w.subs, L)
    /\ SubsFit(w.subs, n, L)
    /\ Apart(w.root, w.subs, T)

DocFits(d, n, L, T) ==
    /\ DOMAIN d.listed = DOMAIN d.subs
    /\ d.drafts \subseteq DOMAIN d.listed
    /\ RecordFits(d, n, L, T)
    /\ SubsFit(d.listed, n, L)
    /\ Apart(d.root, Without(d.listed, d.drafts), T)

SavingFits(v, n, L, T) ==
    v /= Idle =>
        /\ GraphFits(v.root, n, DOMAIN v.subs, L)
        /\ SubsFit(v.subs, n, L)
        /\ Apart(v.root, Without(v.subs, v.drafts), T)

LEMMA FitsLater ==
    ASSUME NEW n \in Nat, NEW m \in Nat, n <= m, NEW L, NEW M, L \subseteq M, NEW T, NEW U, T \subseteq U
    PROVE  /\ \A g, X : GraphFits(g, n, X, L) => GraphFits(g, m, X, M)
           /\ \A w : RecordFits(w, n, L, T) => RecordFits(w, m, M, U)
           /\ \A d : DocFits(d, n, L, T) => DocFits(d, m, M, U)
           /\ \A v : SavingFits(v, n, L, T) => SavingFits(v, m, M, U)
<1>1. \A g, X : GraphFits(g, n, X, L) => GraphFits(g, m, X, M)
  <2> SUFFICES ASSUME NEW g, NEW X, GraphFits(g, n, X, L) PROVE GraphFits(g, m, X, M)
    OBVIOUS
  <2>1. \A x \in g.nodes : x \in Nat \ {0} /\ x < m
    BY DEF GraphFits
  <2>2. \A c \in DOMAIN g.opens : g.opens[c] \in {None} \cup X \cup M /\ g.opens[c] \in Nat /\ g.opens[c] < m
    BY DEF GraphFits
  <2> QED  BY <2>1, <2>2 DEF GraphFits
<1>2. \A subs : SubsFit(subs, n, L) => SubsFit(subs, m, M)
  BY <1>1 DEF SubsFit
<1>3. \A g, subs : Apart(g, subs, T) => Apart(g, subs, U)
  BY DEF Apart
<1>4. \A w : RecordFits(w, n, L, T) => RecordFits(w, m, M, U)
  BY <1>1, <1>2, <1>3 DEF RecordFits
<1>5. \A d : DocFits(d, n, L, T) => DocFits(d, m, M, U)
  BY <1>2, <1>3, <1>4 DEF DocFits
<1>6. \A v : SavingFits(v, n, L, T) => SavingFits(v, m, M, U)
  BY <1>1, <1>2, <1>3 DEF SavingFits
<1> QED  BY <1>1, <1>4, <1>5, <1>6

LEMMA WithoutLemma ==
    ASSUME NEW f, NEW S
    PROVE  /\ DOMAIN Without(f, S) = DOMAIN f \ S
           /\ \A x \in DOMAIN f \ S : Without(f, S)[x] = f[x]
BY DEF Without, Restrict

LEMMA WithLemma ==
    ASSUME NEW f, NEW x, NEW v
    PROVE  /\ DOMAIN With(f, x, v) = DOMAIN f \cup {x}
           /\ With(f, x, v)[x] = v
           /\ \A y \in DOMAIN f : y /= x => With(f, x, v)[y] = f[y]
BY DEF With

\* The canvas redrawn with nodes it had and new ones.
LEMMA RedrawnFits ==
    ASSUME NEW n \in Nat, NEW m \in Nat, n <= m, NEW L, NEW T, NEW s, NEW g,
           SnapOK(s, n), DocFits(s.doc, n, L, T), GraphFits(g, m, DOMAIN s.doc.subs, L),
           \A x \in g.nodes : x \in Shown(s).nodes \/ n <= x
    PROVE  DocFits(Redrawn(s, g), m, L, T)
<1> DEFINE d == s.doc
           e == Redrawn(s, g)
           old == Without(d.listed, d.drafts)
<1>1. DocFits(d, m, L, T) /\ DocFits(d, n, L, T)
  BY FitsLater
<1>2. /\ DOMAIN old = DOMAIN d.listed \ d.drafts
      /\ \A x \in DOMAIN old : old[x] = d.listed[x]
  BY DEF Without, Restrict
<1>3. \A x \in DOMAIN d.subs : \A k \in g.nodes \cap d.subs[x].nodes : k \in Shown(s).nodes
  BY <1>1 DEF DocFits, RecordFits, SubsFit, GraphFits
<1>4. \A x \in DOMAIN old : \A k \in g.nodes \cap old[x].nodes : k \in Shown(s).nodes
  BY <1>1, <1>2 DEF DocFits, RecordFits, SubsFit, GraphFits
<1>5. \A k \in g.nodes \cap d.root.nodes : k \in Shown(s).nodes
  BY <1>1 DEF DocFits, RecordFits, GraphFits
<1>6. CASE s.active = Root
  <2>1. Shown(s) = d.root /\ e = [root |-> g, subs |-> d.subs, listed |-> d.listed, drafts |-> d.drafts]
    BY <1>6 DEF Shown, Redrawn, SnapOK, DocOK
  <2>2. e.root = g /\ e.subs = d.subs /\ e.listed = d.listed /\ e.drafts = d.drafts
    BY <2>1
  <2> HIDE DEF e, old
  <2>3. Apart(g, d.subs, T)
    BY <1>1, <1>3, <2>1 DEF Apart, DocFits, RecordFits
  <2>4. Apart(g, old, T)
    BY <1>1, <1>4, <2>1 DEF Apart, DocFits, old
  <2> QED  BY <1>1, <2>2, <2>3, <2>4 DEF DocFits, RecordFits, e, old
<1>7. CASE s.active /= Root
  <2> DEFINE a == s.active
  <2>0. a \in DOMAIN d.subs /\ Shown(s) = d.subs[a]
    BY <1>7 DEF SnapOK, Shown
  <2>1. e = [root |-> d.root, subs |-> [d.subs EXCEPT ![a] = g], listed |-> d.listed, drafts |-> d.drafts]
    BY <1>7 DEF Redrawn, SnapOK, DocOK
  <2>2. /\ e.root = d.root /\ e.listed = d.listed /\ e.drafts = d.drafts
        /\ DOMAIN e.subs = DOMAIN d.subs /\ e.subs[a] = g
        /\ \A x \in DOMAIN d.subs : x /= a => e.subs[x] = d.subs[x]
    BY <2>0, <2>1
  <2> HIDE DEF e, old, a
  <2>3. SubsFit(e.subs, m, L)
    BY <1>1, <2>2 DEF DocFits, RecordFits, SubsFit
  <2>4. Apart(d.root, e.subs, T)
    <3>1. Apart(d.root, d.subs, T)
      BY <1>1 DEF DocFits, RecordFits
    <3>2. \A x \in DOMAIN d.subs : d.root.nodes \cap e.subs[x].nodes \subseteq T
      BY <3>1, <1>5, <2>0, <2>2 DEF Apart
    <3>3. \A x \in DOMAIN d.subs : x /= a => g.nodes \cap d.subs[x].nodes \subseteq T
      BY <3>1, <1>3, <2>0 DEF Apart
    <3>4. \A x, y \in DOMAIN d.subs : x /= y => e.subs[x].nodes \cap e.subs[y].nodes \subseteq T
      BY <3>1, <3>3, <2>2 DEF Apart
    <3> QED  BY <3>2, <3>4, <2>2 DEF Apart
  <2> QED  BY <1>1, <2>2, <2>3, <2>4 DEF DocFits, RecordFits, e, old
<1> QED  BY <1>6, <1>7

\* A selection of the graph shown becomes subgraph n, behind container n + 1.
LEMMA ConvertedFits ==
    ASSUME NEW n \in Nat \ {0}, NEW L, NEW T, NEW s, SnapOK(s, n), DocFits(s.doc, n, L, T)
    PROVE  DocFits(Converted(s, n, n + 1).doc, n + 2, L, T)
<1> DEFINE g == Shown(s)
           S == s.selected
           c == n + 1
           m == n + 2
           outer == Collapsed(g, S, c, n)
           inner == Inner(g, S)
           d == Redrawn(s, outer)
           e == Converted(s, n, c).doc
           X == DOMAIN s.doc.subs
           Y == X \cup {n}
<1>1. e = [root |-> d.root, subs |-> With(d.subs, n, inner), listed |-> With(d.listed, n, inner),
           drafts |-> d.drafts \cup {n}]
  BY DEF Converted, View
<1>2. IsGraph(g) /\ IsGraph(outer) /\ n \in Nat /\ m \in Nat /\ n <= m
  BY ShownOK, CollapsedOK
<1>3. GraphFits(g, n, X, L)
  BY DEF DocFits, RecordFits, SubsFit, Shown, SnapOK
<1>4. /\ outer.nodes = (g.nodes \ S) \cup {c}
      /\ DOMAIN outer.opens = (DOMAIN g.opens \ S) \cup {c}
      /\ outer.opens[c] = n
      /\ \A k \in DOMAIN g.opens \ S : k /= c => outer.opens[k] = g.opens[k]
  BY DEF Collapsed, Cut, With, Without, Restrict
<1>5. /\ inner.nodes = g.nodes \cap S
      /\ DOMAIN inner.opens = DOMAIN g.opens \cap S
      /\ \A k \in DOMAIN inner.opens : inner.opens[k] = g.opens[k]
  BY DEF Inner, Restrict
<1>6. \A x \in g.nodes : x \in Nat /\ x < n
  BY <1>3 DEF GraphFits
<1> HIDE DEF g, S, c, m, outer, inner, d, e, X, Y
<1>7. GraphFits(outer, m, Y, L)
  <2>1. \A x \in outer.nodes : x \in Nat \ {0} /\ x < m
    BY <1>3, <1>4 DEF GraphFits, c, m
  <2>2. \A k \in DOMAIN outer.opens : outer.opens[k] \in {None} \cup Y \cup L
    BY <1>3, <1>4 DEF GraphFits, Y
  <2>3. \A k \in DOMAIN outer.opens : outer.opens[k] \in Nat /\ outer.opens[k] < m
    BY <1>3, <1>4 DEF GraphFits, m
  <2> QED  BY <2>1, <2>2, <2>3 DEF GraphFits
<1>8. GraphFits(inner, m, Y, L)
  <2>1. \A x \in inner.nodes : x \in Nat \ {0} /\ x < m
    BY <1>3, <1>5 DEF GraphFits, m
  <2>2. \A k \in DOMAIN inner.opens : inner.opens[k] \in {None} \cup Y \cup L
    BY <1>3, <1>5 DEF GraphFits, Y
  <2>3. \A k \in DOMAIN inner.opens : inner.opens[k] \in Nat /\ inner.opens[k] < m
    BY <1>3, <1>5 DEF GraphFits, m
  <2> QED  BY <2>1, <2>2, <2>3 DEF GraphFits
<1>9. /\ DOMAIN s.doc.listed = X /\ s.doc.drafts \subseteq X
      /\ \A x \in X : x \in Nat /\ x < n
      /\ \A x \in X : GraphFits(s.doc.subs[x], n, X, L) /\ GraphFits(s.doc.listed[x], n, X, L)
      /\ GraphFits(s.doc.root, n, X, L)
  BY DEF DocFits, RecordFits, SubsFit, SnapOK, DocOK, SubsOK, X
<1>10. \A h : GraphFits(h, n, X, L) => GraphFits(h, m, Y, L)
  <2> SUFFICES ASSUME NEW h, GraphFits(h, n, X, L) PROVE GraphFits(h, m, Y, L)
    OBVIOUS
  <2>1. \A x \in h.nodes : x \in Nat \ {0} /\ x < m
    BY DEF GraphFits, m
  <2>2. \A k \in DOMAIN h.opens : h.opens[k] \in {None} \cup Y \cup L
    BY DEF GraphFits, Y
  <2>3. \A k \in DOMAIN h.opens : h.opens[k] \in Nat /\ h.opens[k] < m
    BY DEF GraphFits, m
  <2> QED  BY <2>1, <2>2, <2>3 DEF GraphFits
<1>11. n \notin X
  BY <1>9
<1>12. /\ d.listed = s.doc.listed /\ d.drafts = s.doc.drafts /\ DOMAIN d.subs = X
       /\ \/ /\ s.active = Root /\ g = s.doc.root /\ d.root = outer /\ d.subs = s.doc.subs
          \/ /\ s.active \in X /\ g = s.doc.subs[s.active] /\ d.root = s.doc.root
             /\ d.subs[s.active] = outer
             /\ \A x \in X : x /= s.active => d.subs[x] = s.doc.subs[x]
  <2>1. CASE s.active = Root
    <3>1. d = [root |-> outer, subs |-> s.doc.subs, listed |-> s.doc.listed, drafts |-> s.doc.drafts]
      BY <2>1 DEF Redrawn, SnapOK, DocOK, d
    <3> QED  BY <2>1, <3>1 DEF Shown, g, X
  <2>2. CASE s.active /= Root
    <3>1. d = [root |-> s.doc.root, subs |-> [s.doc.subs EXCEPT ![s.active] = outer],
               listed |-> s.doc.listed, drafts |-> s.doc.drafts]
      BY <2>2 DEF Redrawn, SnapOK, DocOK, d
    <3>2. s.active \in X
      BY <2>2 DEF SnapOK, X
    <3> QED  BY <2>2, <3>1, <3>2 DEF Shown, g, X
  <2> QED  BY <2>1, <2>2
<1>13. /\ e.root = d.root /\ e.drafts = s.doc.drafts \cup {n}
       /\ DOMAIN e.subs = Y /\ e.subs[n] = inner /\ \A x \in X : e.subs[x] = d.subs[x]
       /\ DOMAIN e.listed = Y /\ e.listed[n] = inner /\ \A x \in X : e.listed[x] = s.doc.listed[x]
  BY <1>1, <1>9, <1>11, <1>12 DEF With, Y
<1>14. /\ \A x \in Y : GraphFits(e.subs[x], m, Y, L) /\ GraphFits(e.listed[x], m, Y, L)
       /\ GraphFits(e.root, m, Y, L)
  BY <1>7, <1>8, <1>9, <1>10, <1>12, <1>13 DEF Y
<1>15. Apart(s.doc.root, s.doc.subs, T) /\ Apart(s.doc.root, Without(s.doc.listed, s.doc.drafts), T)
  BY DEF DocFits, RecordFits
<1>16. \A x \in X : \A k \in s.doc.subs[x].nodes \cup s.doc.listed[x].nodes \cup s.doc.root.nodes : k /= c
  BY <1>9 DEF GraphFits, c
<1>17. inner.nodes \cap outer.nodes = {} /\ inner.nodes \subseteq g.nodes
  BY <1>4, <1>5, <1>6 DEF c
<1>18. Apart(e.root, e.subs, T)
  <2>1. CASE s.active = Root /\ g = s.doc.root /\ d.root = outer /\ d.subs = s.doc.subs
    <3>1. \A x \in X : outer.nodes \cap s.doc.subs[x].nodes \subseteq T
      BY <1>4, <1>15, <1>16, <2>1 DEF Apart, X
    <3>2. \A x \in X : inner.nodes \cap s.doc.subs[x].nodes \subseteq T
      BY <1>15, <1>17, <2>1 DEF Apart, X
    <3>3. \A x, y \in X : x /= y => s.doc.subs[x].nodes \cap s.doc.subs[y].nodes \subseteq T
      BY <1>15 DEF Apart, X
    <3>4. \A x \in Y : e.root.nodes \cap e.subs[x].nodes \subseteq T
      BY <1>13, <1>17, <2>1, <3>1 DEF Y
    <3>5. \A x, y \in Y : x /= y => e.subs[x].nodes \cap e.subs[y].nodes \subseteq T
      BY <1>13, <2>1, <3>2, <3>3 DEF Y
    <3> QED  BY <1>13, <3>4, <3>5 DEF Apart
  <2>2. CASE /\ s.active \in X /\ g = s.doc.subs[s.active] /\ d.root = s.doc.root
             /\ d.subs[s.active] = outer
             /\ \A x \in X : x /= s.active => d.subs[x] = s.doc.subs[x]
    <3> DEFINE a == s.active
    <3>1. \A x \in X : x /= a => outer.nodes \cap s.doc.subs[x].nodes \subseteq T
      BY <1>4, <1>15, <1>16, <2>2 DEF Apart, X
    <3>2. \A x \in X : x /= a => inner.nodes \cap s.doc.subs[x].nodes \subseteq T
      BY <1>15, <1>17, <2>2 DEF Apart, X
    <3>3. \A x, y \in X : x /= y => s.doc.subs[x].nodes \cap s.doc.subs[y].nodes \subseteq T
      BY <1>15 DEF Apart, X
    <3>4. outer.nodes \cap s.doc.root.nodes \subseteq T /\ inner.nodes \cap s.doc.root.nodes \subseteq T
      BY <1>4, <1>15, <1>16, <1>17, <2>2 DEF Apart, X
    <3>5. \A x \in X : s.doc.root.nodes \cap s.doc.subs[x].nodes \subseteq T
      BY <1>15 DEF Apart, X
    <3>6. \A x \in Y : e.root.nodes \cap e.subs[x].nodes \subseteq T
      BY <1>13, <2>2, <3>4, <3>5 DEF Y
    <3>7. \A x, y \in X : x /= y => d.subs[x].nodes \cap d.subs[y].nodes \subseteq T
      BY <2>2, <3>1, <3>3
    <3>8. \A x \in X : inner.nodes \cap d.subs[x].nodes \subseteq T
      BY <1>17, <2>2, <3>2
    <3>9. \A x, y \in Y : x /= y => e.subs[x].nodes \cap e.subs[y].nodes \subseteq T
      BY <1>13, <3>7, <3>8 DEF Y
    <3> QED  BY <1>13, <3>6, <3>9 DEF Apart
  <2> QED  BY <1>12, <2>1, <2>2
<1>19. Apart(e.root, Without(e.listed, e.drafts), T)
  <2> DEFINE old == Without(s.doc.listed, s.doc.drafts)
             new == Without(e.listed, e.drafts)
  <2>1. /\ DOMAIN old = X \ s.doc.drafts /\ \A x \in DOMAIN old : old[x] = s.doc.listed[x]
        /\ DOMAIN new = Y \ e.drafts /\ \A x \in DOMAIN new : new[x] = e.listed[x]
    BY <1>9, <1>13 DEF Without, Restrict
  <2> HIDE DEF old, new
  <2>2. DOMAIN new = DOMAIN old /\ \A x \in DOMAIN new : new[x] = old[x] /\ x \in X
    BY <1>11, <1>13, <2>1 DEF Y
  <2>3. Apart(s.doc.root, old, T)
    BY <1>15 DEF old
  <2>4. \A x \in DOMAIN new : e.root.nodes \cap new[x].nodes \subseteq T
    <3>1. \A x \in DOMAIN new : c \notin new[x].nodes
      BY <1>16, <2>1, <2>2
    <3>2. e.root.nodes \subseteq s.doc.root.nodes \cup {c}
      BY <1>4, <1>12, <1>13
    <3> QED  BY <2>2, <2>3, <3>1, <3>2 DEF Apart
  <2>5. \A x, y \in DOMAIN new : x /= y => new[x].nodes \cap new[y].nodes \subseteq T
    BY <2>2, <2>3 DEF Apart
  <2> QED  BY <2>4, <2>5 DEF Apart, new
<1>20. SubsFit(e.subs, m, L) /\ SubsFit(e.listed, m, L)
  BY <1>13, <1>14 DEF SubsFit
<1>21. DOMAIN e.listed = DOMAIN e.subs /\ e.drafts \subseteq DOMAIN e.listed
  BY <1>9, <1>13 DEF Y
<1>22. DocFits(e, m, L, T)
  BY <1>13, <1>14, <1>18, <1>19, <1>20, <1>21 DEF DocFits, RecordFits
<1> QED  BY <1>22 DEF e, c, m

\* The nodes of a subgraph that is inlined keep their ids where the root graph
\* has them not, and get ids from next on, one for each clash, where it has.
LEMMA NewNamesAreNew ==
    ASSUME NEW g, NEW used, next \in Nat \ {0}, \A x \in g.nodes : x \in Nat \ {0} /\ x < next
    PROVE  /\ Cardinality(g.nodes \cap used) \in Nat
           /\ \A x \in g.nodes :
                 LET y == NewNames(g, used)[x]
                 IN  \/ x \notin used /\ y = x
                     \/ y \in Nat /\ next <= y /\ y < next + Cardinality(g.nodes \cap used)
<1> DEFINE K == g.nodes \cap used
           Below(x) == {k \in K : k <= x}
<1>1. IsFiniteSet(K)
  <2>1. K \in SUBSET (1 .. next)
    OBVIOUS
  <2>2. IsFiniteSet(1 .. next)
    <3>1. 1 \in Int /\ next \in Int
      OBVIOUS
    <3> QED  BY <3>1, FS_Interval
  <2> QED  BY <2>1, <2>2, FS_Subset
<1>2. Cardinality(K) \in Nat
  BY <1>1, FS_CardinalityType
<1>3. ASSUME NEW x \in K
      PROVE  Cardinality(Below(x)) \in Nat /\ 1 <= Cardinality(Below(x)) /\ Cardinality(Below(x)) <= Cardinality(K)
  <2>1. Below(x) \in SUBSET K /\ x \in Below(x)
    OBVIOUS
  <2> HIDE DEF K, Below
  <2>2. IsFiniteSet(Below(x)) /\ Cardinality(Below(x)) <= Cardinality(K)
    BY <1>1, <2>1, FS_Subset
  <2>3. Cardinality(Below(x)) \in Nat
    BY <2>2, FS_CardinalityType
  <2>4. Cardinality(Below(x)) /= 0
    BY <2>1, <2>2, FS_EmptySet
  <2> QED  BY <2>2, <2>3, <2>4
<1>4. \A x \in g.nodes : NewNames(g, used)[x] = IF x \in used THEN next - 1 + Cardinality(Below(x)) ELSE x
  BY DEF NewNames
<1>5. ASSUME NEW x \in g.nodes
      PROVE  LET y == NewNames(g, used)[x]
             IN  \/ x \notin used /\ y = x
                 \/ y \in Nat /\ next <= y /\ y < next + Cardinality(K)
  <2>1. CASE x \notin used
    BY <1>4, <2>1
  <2>2. CASE x \in used
    <3>1. x \in K
      BY <2>2
    <3>2. NewNames(g, used)[x] = next - 1 + Cardinality(Below(x))
      BY <1>4, <2>2
    <3> HIDE DEF K, Below
    <3> QED  BY <1>2, <1>3, <3>1, <3>2
  <2> QED  BY <2>1, <2>2
<1> QED  BY <1>2, <1>5

\* A subgraph takes the place of a container of the root graph.
LEMMA InlinedFits ==
    ASSUME next \in Nat \ {0}, NEW L, NEW T, NEW s, NEW c \in DOMAIN s.doc.root.opens,
           SnapOK(s, next), DocFits(s.doc, next, L, T), s.active = Root,
           s.doc.root.opens[c] \in DOMAIN s.doc.subs
    PROVE  /\ Clashes(s, c) \in Nat
           /\ DocFits(Inlined(s, c).doc, next + Clashes(s, c),
                      L \cup {x \in {s.doc.root.opens[c]} : OpenedElsewhere(s.doc, c)},
                      T \cup ListedElsewhere(s.doc, c))
<1> DEFINE d == s.doc
           sub == d.root.opens[c]
           g == d.subs[sub]
           f == NewNames(g, d.root.nodes)
           body == RenamedBy(g, f)
           rest == Cut(d.root, {c})
           k == Clashes(s, c)
           m == next + k
           M == L \cup {x \in {sub} : OpenedElsewhere(d, c)}
           U == T \cup ListedElsewhere(d, c)
           e == Inlined(s, c).doc
           X == DOMAIN d.subs
           Y == X \ {sub}
<1>1. /\ e.root = Union(rest, body)
      /\ e.subs = Without(d.subs, {sub}) /\ e.listed = Without(d.listed, {sub})
      /\ e.drafts = d.drafts \ {sub}
  BY DEF Inlined, View
<1>2. /\ DOMAIN d.listed = X /\ d.drafts \subseteq X /\ sub \in X
      /\ \A x \in X : GraphFits(d.subs[x], next, X, L) /\ GraphFits(d.listed[x], next, X, L)
      /\ GraphFits(d.root, next, X, L)
      /\ Apart(d.root, d.subs, T)
      /\ Apart(d.root, Without(d.listed, d.drafts), T)
  BY DEF DocFits, RecordFits, SubsFit
<1>3. IsGraph(g) /\ IsGraph(d.root)
  BY DEF SnapOK, DocOK, SubsOK
<1>4. k = Cardinality(g.nodes \cap d.root.nodes)
  BY DEF Clashes
<1>5. GraphFits(g, next, X, L)
  BY <1>2
<1>6. /\ k \in Nat
      /\ \A x \in g.nodes : \/ x \notin d.root.nodes /\ f[x] = x
                            \/ f[x] \in Nat /\ next <= f[x] /\ f[x] < m
  <2> HIDE DEF k, g
  <2>1. \A x \in g.nodes : x \in Nat \ {0} /\ x < next
    BY <1>5 DEF GraphFits
  <2> QED  BY <1>4, <2>1, NewNamesAreNew
<1>7. /\ body.nodes = {f[x] : x \in g.nodes}
      /\ DOMAIN body.opens = {f[x] : x \in DOMAIN g.opens}
      /\ \A y \in DOMAIN body.opens : \E x \in DOMAIN g.opens : body.opens[y] = g.opens[x]
  BY DEF RenamedBy
<1>8. /\ rest.nodes = d.root.nodes \ {c}
      /\ DOMAIN rest.opens = DOMAIN d.root.opens \ {c}
      /\ \A y \in DOMAIN rest.opens : rest.opens[y] = d.root.opens[y]
  BY DEF Cut, Without, Restrict
<1> HIDE DEF f, body, rest, k, m, e, X
<1>9. /\ e.root.nodes = rest.nodes \cup body.nodes
      /\ DOMAIN e.root.opens = DOMAIN rest.opens \cup DOMAIN body.opens
      /\ \A y \in DOMAIN e.root.opens :
            \/ \E x \in DOMAIN d.root.opens \ {c} : e.root.opens[y] = d.root.opens[x]
            \/ \E x \in DOMAIN g.opens : e.root.opens[y] = g.opens[x]
  <2>1. /\ e.root.nodes = rest.nodes \cup body.nodes
        /\ e.root.opens = Joined(rest.opens, body.opens)
    BY <1>1 DEF Union, Graph
  <2>2. /\ DOMAIN e.root.opens = DOMAIN rest.opens \cup DOMAIN body.opens
        /\ \A y \in DOMAIN e.root.opens :
              e.root.opens[y] = IF y \in DOMAIN body.opens THEN body.opens[y] ELSE rest.opens[y]
    BY <2>1 DEF Joined
  <2> HIDE DEF g, d
  <2>3. \A y \in DOMAIN e.root.opens :
            \/ \E x \in DOMAIN d.root.opens \ {c} : e.root.opens[y] = d.root.opens[x]
            \/ \E x \in DOMAIN g.opens : e.root.opens[y] = g.opens[x]
    <3> SUFFICES ASSUME NEW y \in DOMAIN e.root.opens
                 PROVE  \/ \E x \in DOMAIN d.root.opens \ {c} : e.root.opens[y] = d.root.opens[x]
                        \/ \E x \in DOMAIN g.opens : e.root.opens[y] = g.opens[x]
      OBVIOUS
    <3>1. CASE y \in DOMAIN body.opens
      BY <3>1, <2>2, <1>7
    <3>2. CASE y \notin DOMAIN body.opens
      <4>1. y \in DOMAIN rest.opens /\ e.root.opens[y] = rest.opens[y]
        BY <3>2, <2>2
      <4> QED  BY <4>1, <1>8
    <3> QED  BY <3>1, <3>2
  <2> QED  BY <2>1, <2>2, <2>3
<1>10. /\ DOMAIN e.subs = Y /\ \A x \in Y : e.subs[x] = d.subs[x]
       /\ DOMAIN e.listed = Y /\ \A x \in Y : e.listed[x] = d.listed[x]
  BY <1>1, <1>2 DEF Without, Restrict, X
<1>11. m \in Nat /\ next <= m
  BY <1>6 DEF m
<1>12. \A y \in e.root.nodes :
          \/ y \in d.root.nodes
          \/ y \in g.nodes
          \/ y \in Nat /\ next <= y /\ y < m
  <2> HIDE DEF g, d
  <2>1. \A y \in body.nodes : y \in g.nodes \/ (y \in Nat /\ next <= y /\ y < m)
    BY <1>6, <1>7
  <2>2. \A y \in rest.nodes : y \in d.root.nodes
    BY <1>8
  <2> QED  BY <1>9, <2>1, <2>2
\* Who still opens the subgraph is known to.
<1>13. /\ (\E x \in DOMAIN d.root.opens \ {c} : d.root.opens[x] = sub) => sub \in M
       /\ \A x \in X : \A y \in DOMAIN d.subs[x].opens : d.subs[x].opens[y] = sub => sub \in M
       /\ \A x \in Y : \A y \in DOMAIN d.listed[x].opens : d.listed[x].opens[y] = sub => sub \in M
  BY <1>2 DEF OpenedElsewhere, Range, X
<1>14. \A x \in Y : d.subs[sub].nodes \cap d.listed[x].nodes \subseteq U
  BY <1>2 DEF ListedElsewhere, Others, X
<1>15. L \subseteq M /\ T \subseteq U
  OBVIOUS
<1> HIDE DEF M, U, Y, g, sub
<1>16. ASSUME NEW h, GraphFits(h, next, X, L), \A y \in DOMAIN h.opens : h.opens[y] = sub => sub \in M
       PROVE  GraphFits(h, m, Y, M)
  <2>1. \A x \in h.nodes : x \in Nat \ {0} /\ x < m
    BY <1>11, <1>16 DEF GraphFits
  <2>2. \A y \in DOMAIN h.opens : h.opens[y] \in {None} \cup Y \cup M
    BY <1>15, <1>16 DEF GraphFits, Y
  <2>3. \A y \in DOMAIN h.opens : h.opens[y] \in Nat /\ h.opens[y] < m
    BY <1>11, <1>16 DEF GraphFits
  <2> QED  BY <2>1, <2>2, <2>3 DEF GraphFits
<1>17. \A x \in Y : GraphFits(d.subs[x], m, Y, M) /\ GraphFits(d.listed[x], m, Y, M)
  BY <1>2, <1>13, <1>16 DEF Y
<1>18. GraphFits(e.root, m, Y, M)
  <2>1. \A x \in e.root.nodes : x \in Nat \ {0} /\ x < m
    BY <1>2, <1>5, <1>11, <1>12 DEF GraphFits
  <2>2. ASSUME NEW y \in DOMAIN e.root.opens
        PROVE  /\ e.root.opens[y] \in {None} \cup Y \cup M
               /\ e.root.opens[y] \in Nat /\ e.root.opens[y] < m
    <3> DEFINE v == e.root.opens[y]
    <3>1. CASE \E x \in DOMAIN d.root.opens \ {c} : v = d.root.opens[x]
      BY <3>1, <1>2, <1>11, <1>13, <1>15 DEF GraphFits, Y
    <3>2. CASE \E x \in DOMAIN g.opens : v = g.opens[x]
      <4>1. v = sub => sub \in M
        BY <3>2, <1>2, <1>13 DEF g
      <4> QED  BY <3>2, <4>1, <1>5, <1>11, <1>15 DEF GraphFits, Y
    <3> QED  BY <3>1, <3>2, <1>9
  <2> QED  BY <2>1, <2>2 DEF GraphFits
<1>19. /\ \A x \in Y : d.root.nodes \cap d.subs[x].nodes \subseteq U /\ g.nodes \cap d.subs[x].nodes \subseteq U
       /\ \A x, y \in Y : x /= y => d.subs[x].nodes \cap d.subs[y].nodes \subseteq U
  BY <1>2, <1>15 DEF Apart, Y, X, g
<1>20. \A x \in X : \A y \in d.subs[x].nodes \cup d.listed[x].nodes : ~(y \in Nat /\ next <= y /\ y < m)
  BY <1>2 DEF GraphFits
<1>21. Apart(e.root, e.subs, U)
  <2>1. \A x \in Y : e.root.nodes \cap e.subs[x].nodes \subseteq U
    BY <1>10, <1>12, <1>19, <1>20 DEF Y
  <2> QED  BY <1>10, <1>19, <2>1 DEF Apart
<1>22. Apart(e.root, Without(e.listed, e.drafts), U)
  <2> DEFINE old == Without(d.listed, d.drafts)
             new == Without(e.listed, e.drafts)
  <2>1. /\ DOMAIN old = X \ d.drafts /\ \A x \in DOMAIN old : old[x] = d.listed[x]
        /\ DOMAIN new = Y \ e.drafts /\ \A x \in DOMAIN new : new[x] = e.listed[x]
    BY <1>2, <1>10 DEF Without, Restrict
  <2>2. Apart(d.root, old, T)
    BY <1>2
  <2> HIDE DEF old, new
  <2>3. DOMAIN new \subseteq DOMAIN old /\ DOMAIN new \subseteq Y
        /\ \A x \in DOMAIN new : new[x] = old[x] /\ new[x] = d.listed[x]
    BY <1>1, <1>10, <2>1 DEF Y
  <2>4. \A x \in DOMAIN new : e.root.nodes \cap new[x].nodes \subseteq U
    <3> SUFFICES ASSUME NEW x \in DOMAIN new, NEW y \in e.root.nodes, y \in new[x].nodes PROVE y \in U
      OBVIOUS
    <3>1. CASE y \in d.root.nodes
      BY <3>1, <2>2, <2>3, <1>15 DEF Apart
    <3>2. CASE y \in g.nodes
      BY <3>2, <2>3, <1>14 DEF g
    <3>3. CASE y \in Nat /\ next <= y /\ y < m
      BY <3>3, <2>3, <1>20 DEF Y
    <3> QED  BY <3>1, <3>2, <3>3, <1>12
  <2>5. \A x, y \in DOMAIN new : x /= y => new[x].nodes \cap new[y].nodes \subseteq U
    BY <2>2, <2>3, <1>15 DEF Apart
  <2> QED  BY <2>4, <2>5 DEF Apart, new
<1>23. SubsFit(e.subs, m, M) /\ SubsFit(e.listed, m, M)
  BY <1>10, <1>17 DEF SubsFit
<1>24. DOMAIN e.listed = DOMAIN e.subs /\ e.drafts \subseteq DOMAIN e.listed
  BY <1>1, <1>2, <1>10 DEF Y
<1>25. DocFits(e, m, M, U)
  BY <1>10, <1>18, <1>21, <1>22, <1>23, <1>24 DEF DocFits, RecordFits
<1> QED  BY <1>6, <1>25 DEF e, m, M, U, k, sub

-----------------------------------------------------------------------------
(***************************************************************************)
(* The editor's workflows fit together, and the history within its limit.  *)
(***************************************************************************)
FitInv ==
    /\ next \in FirstId .. MaxId + 1
    /\ \A s \in Snapshots : DocFits(s.doc, next, flaws.lost, flaws.twice)
    /\ RecordFits(stored, next, flaws.lost, flaws.twice)
    /\ RecordFits(cache, next, flaws.lost, flaws.twice)
    /\ SavingFits(saving, next, flaws.lost, flaws.twice)

CountInv ==
    /\ Len(past) + Len(future) <= HistoryLimit
    /\ work \in 0 .. MaxWork + 1
    /\ saving = Idle \/ saving.stage \in {"preview", "persist"}

LEMMA SeqRange == ASSUME NEW T, NEW h \in Seq(T) PROVE Range(h) \subseteq T
BY DEF Range

\* What is pushed on a history and what is popped from it.
LEMMA Pushed ==
    ASSUME NEW n, NEW h, NEW s, HistoryOK(h, n)
    PROVE  /\ Range(Append(h, s)) \subseteq Range(h) \cup {s}
           /\ Range(Trimmed(Append(h, s))) \subseteq Range(h) \cup {s}
           /\ Len(h) \in Nat
           /\ Len(Append(h, s)) = Len(h) + 1
           /\ Len(h) <= HistoryLimit => Len(Trimmed(Append(h, s))) <= HistoryLimit
           /\ Len(Trimmed(Append(h, s))) \in Nat
<1> DEFINE T == Range(h) \cup {s}
           a == Append(h, s)
<1>1. h \in Seq(T)
  BY DEF HistoryOK
<1>2. s \in T
  OBVIOUS
<1> HIDE DEF T
<1>3. a \in Seq(T) /\ a /= <<>> /\ Len(a) = Len(h) + 1 /\ Len(h) \in Nat
  BY <1>1, <1>2, AppendProperties
<1> HIDE DEF a
<1>4. Tail(a) \in Seq(T) /\ Len(Tail(a)) = Len(a) - 1
  BY <1>3, HeadTailProperties
<1>5. Trimmed(a) \in Seq(T)
  BY <1>3, <1>4 DEF Trimmed
<1>6. Len(h) <= HistoryLimit => Len(Trimmed(a)) <= HistoryLimit
  BY <1>3, <1>4, HistoryLimitAssumption DEF Trimmed
<1>7. Len(Trimmed(a)) \in Nat
  BY <1>3, <1>4 DEF Trimmed
<1>8. Range(a) \subseteq T /\ Range(Trimmed(a)) \subseteq T
  BY <1>3, <1>5, SeqRange
<1> QED  BY <1>3, <1>6, <1>7, <1>8 DEF a, T

LEMMA Popped ==
    ASSUME NEW n, NEW h, HistoryOK(h, n), h /= <<>>
    PROVE  /\ Range(Front(h)) \subseteq Range(h) /\ Last(h) \in Range(h)
           /\ Len(h) \in Nat /\ Len(Front(h)) = Len(h) - 1
<1> DEFINE T == Range(h)
<1>1. h \in Seq(T)
  BY DEF HistoryOK
<1> HIDE DEF T
<1>2. Len(h) \in Nat /\ Len(h) >= 1
  BY <1>1
<1>3. h[Len(h)] \in T
  BY <1>1, <1>2
<1>4. SubSeq(h, 1, Len(h) - 1) \in Seq(T) /\ Len(SubSeq(h, 1, Len(h) - 1)) = Len(h) - 1
  <2> DEFINE k == Len(h) - 1
  <2>1. 1 \in Int /\ k \in Nat /\ \A i \in 1 .. k : h[i] \in T
    BY <1>1, <1>2
  <2> HIDE DEF k
  <2>2. SubSeq(h, 1, k) \in Seq(T) /\ Len(SubSeq(h, 1, k)) = IF 1 <= k THEN k - 1 + 1 ELSE 0
    BY <2>1, SubSeqProperties
  <2>3. Len(SubSeq(h, 1, k)) = k
    BY <2>1, <2>2
  <2> QED  BY <2>2, <2>3 DEF k
<1>5. Front(h) \in Seq(T) /\ Len(Front(h)) = Len(h) - 1 /\ Last(h) \in T
  BY <1>3, <1>4 DEF Front, Last
<1>6. Range(Front(h)) \subseteq T
  BY <1>5, SeqRange
<1> QED  BY <1>2, <1>5, <1>6 DEF T

LEMMA NoneIn == Range(<<>>) = {}
BY DEF Range

LEMMA Recorded ==
    ASSUME IInv, NEW b, NEW a, Record(b, a)
    PROVE  Snapshots' \subseteq Snapshots \cup {b, a}
<1>1. HistoryOK(past, next)
  BY DEF IInv
<1>2. Range(past') \subseteq Range(past) \cup {b}
  BY <1>1, Pushed DEF Record
<1>3. Range(future') = {} /\ now' = a
  BY NoneIn DEF Record
<1>4. Snapshots' = {now'} \cup Range(past') \cup Range(future')
  BY DEF Snapshots
<1> QED  BY <1>2, <1>3, <1>4 DEF Snapshots

LEMMA Moved ==
    ASSUME IInv, Undo \/ Redo
    PROVE  Snapshots' \subseteq Snapshots
<1>1. HistoryOK(past, next) /\ HistoryOK(future, next)
  BY DEF IInv
<1>2. Snapshots' = {now'} \cup Range(past') \cup Range(future')
  BY DEF Snapshots
<1>3. CASE Undo
  <2>1. Range(past') \subseteq Range(past) /\ now' \in Range(past)
    BY <1>1, <1>3, Popped DEF Undo
  <2>2. Range(future') \subseteq Range(future) \cup {now}
    BY <1>1, <1>3, Pushed DEF Undo
  <2> QED  BY <1>2, <2>1, <2>2 DEF Snapshots
<1>4. CASE Redo
  <2>1. Range(future') \subseteq Range(future) /\ now' \in Range(future)
    BY <1>1, <1>4, Popped DEF Redo
  <2>2. Range(past') \subseteq Range(past) \cup {now}
    BY <1>1, <1>4, Pushed DEF Redo
  <2> QED  BY <1>2, <2>1, <2>2 DEF Snapshots
<1> QED  BY <1>3, <1>4

\* A step after which the editor holds one document more keeps what fits
\* together when that document does.
LEMMA FitStep ==
    ASSUME IInv, FitInv, UNCHANGED Stores, NEW d,
           next' \in Int, next <= next', next' <= MaxId + 1,
           flaws.lost \subseteq flaws'.lost, flaws.twice \subseteq flaws'.twice,
           \A s \in Snapshots' : s \in Snapshots \/ s.doc = now.doc \/ s.doc = d,
           DocFits(d, next', flaws'.lost, flaws'.twice)
    PROVE  FitInv'
<1> DEFINE L == flaws.lost
           M == flaws'.lost
           T == flaws.twice
           U == flaws'.twice
           m == next'
<1>1. next \in Nat /\ m \in Nat /\ next <= m /\ m \in FirstId .. MaxId + 1 /\ L \subseteq M /\ T \subseteq U
  BY IdsAssumption DEF FitInv, IInv
<1>2. /\ \A s \in Snapshots : DocFits(s.doc, next, L, T)
      /\ RecordFits(stored, next, L, T) /\ RecordFits(cache, next, L, T) /\ SavingFits(saving, next, L, T)
  BY DEF FitInv
<1>3. DocFits(d, m, M, U) /\ \A s \in Snapshots' : s.doc = d \/ \E r \in Snapshots : s.doc = r.doc
  BY DEF Snapshots
<1>4. stored' = stored /\ cache' = cache /\ saving' = saving
  BY DEF Stores
<1> HIDE DEF L, M, T, U, m
<1>5. /\ \A s \in Snapshots : DocFits(s.doc, m, M, U)
      /\ RecordFits(stored, m, M, U) /\ RecordFits(cache, m, M, U) /\ SavingFits(saving, m, M, U)
  BY <1>1, <1>2, FitsLater
<1>6. \A s \in Snapshots' : DocFits(s.doc, m, M, U)
  BY <1>3, <1>5
<1> QED  BY <1>1, <1>4, <1>5, <1>6 DEF FitInv, m, M, U

LEMMA FitNow ==
    ASSUME IInv, FitInv
    PROVE  /\ next \in Nat \ {0} /\ next <= MaxId + 1 /\ MaxId \in Nat
           /\ SnapOK(now, next)
           /\ DocFits(now.doc, next, flaws.lost, flaws.twice)
           /\ GraphFits(Shown(now), next, DOMAIN now.doc.subs, flaws.lost)
<1>1. next \in Nat \ {0} /\ next <= MaxId + 1 /\ MaxId \in Nat
  BY IdsAssumption DEF IInv, FitInv
<1>2. SnapOK(now, next)
  BY DEF IInv
<1>3. DocFits(now.doc, next, flaws.lost, flaws.twice)
  BY DEF FitInv, Snapshots
<1>4. GraphFits(Shown(now), next, DOMAIN now.doc.subs, flaws.lost)
  BY <1>2, <1>3 DEF DocFits, RecordFits, SubsFit, Shown, SnapOK
<1> QED  BY <1>1, <1>2, <1>3, <1>4

\* A step that leaves the documents alone.
LEMMA SameDocs ==
    ASSUME IInv, FitInv, UNCHANGED Stores, next' = next, flaws' = flaws,
           \A s \in Snapshots' : s \in Snapshots \/ s.doc = now.doc
    PROVE  FitInv'
<1>1. DocFits(now.doc, next, flaws.lost, flaws.twice) /\ next \in Int /\ next <= MaxId + 1
  BY FitNow
<1> QED  BY <1>1, FitStep

\* So does a recorded edit of the graph on the canvas, if the new graph fits.
LEMMA RedrawFit ==
    ASSUME IInv, FitInv, NEW g, NEW S, Redraw(g, S), UNCHANGED Stores, flaws' = flaws,
           next' \in Nat, next <= next', next' <= MaxId + 1,
           GraphFits(g, next', DOMAIN now.doc.subs, flaws.lost),
           \A x \in g.nodes : x \in Shown(now).nodes \/ next <= x
    PROVE  FitInv'
<1> DEFINE d == Redrawn(now, g)
           b == now
           a == View(d, now.active, S)
<1>1. next \in Nat /\ SnapOK(now, next) /\ DocFits(now.doc, next, flaws.lost, flaws.twice)
  BY FitNow
<1>2. DocFits(d, next', flaws.lost, flaws.twice)
  BY <1>1, RedrawnFits
<1>3. Snapshots' \subseteq Snapshots \cup {b, a}
  BY Recorded DEF Redraw
<1>4. a.doc = d /\ b \in Snapshots
  BY DEF View, Snapshots
<1> HIDE DEF a, b, d
<1>5. \A s \in Snapshots' : s \in Snapshots \/ s.doc = d
  BY <1>3, <1>4
<1> QED  BY <1>2, <1>5, FitStep

LEMMA AddNodeFit == ASSUME IInv, FitInv, AddNode PROVE FitInv'
<1> DEFINE g == Shown(now)
           N == g.nodes \cup {next}
           X == DOMAIN now.doc.subs
<1>1. next \in Nat \ {0} /\ GraphFits(g, next, X, flaws.lost)
  BY FitNow
<1>2. PICK f \in {g.opens, With(g.opens, next, None)} : Redraw(Graph(N, g.edges, f), {next})
  BY DEF AddNode
<1>3. \A c \in DOMAIN f : (c \in DOMAIN g.opens /\ f[c] = g.opens[c]) \/ f[c] = None
  BY <1>2 DEF With
<1> DEFINE h == Graph(N, g.edges, f)
<1>4. h.nodes = N /\ h.opens = f
  BY DEF Graph
<1>5. UNCHANGED Stores /\ flaws' = flaws /\ next' = next + 1 /\ next <= MaxId /\ MaxId \in Nat
  BY IdsAssumption DEF AddNode, Elsewhere, Stores
<1>6. Redraw(h, {next})
  BY <1>2
<1> HIDE DEF h, g, X
<1>7. GraphFits(h, next', X, flaws.lost)
  <2>1. \A x \in h.nodes : x \in Nat \ {0} /\ x < next'
    BY <1>1, <1>4, <1>5 DEF GraphFits
  <2>2. \A c \in DOMAIN h.opens : /\ h.opens[c] \in {None} \cup X \cup flaws.lost
                                  /\ h.opens[c] \in Nat /\ h.opens[c] < next'
    BY <1>1, <1>3, <1>4, <1>5 DEF GraphFits, None
  <2> QED  BY <2>1, <2>2 DEF GraphFits
<1>8. \A x \in h.nodes : x \in Shown(now).nodes \/ next <= x
  BY <1>1, <1>4 DEF g
<1>9. next' \in Nat /\ next <= next' /\ next' <= MaxId + 1
  BY <1>1, <1>5
<1> QED  BY <1>5, <1>6, <1>7, <1>8, <1>9, RedrawFit DEF X

\* Edits that take nodes away or rearrange those there are.
LEMMA RearrangedFit ==
    ASSUME IInv, FitInv, NEW h, NEW S, Redraw(h, S), UNCHANGED Stores, flaws' = flaws, next' = next,
           h.nodes \subseteq Shown(now).nodes,
           \A c \in DOMAIN h.opens :
              \/ c \in DOMAIN Shown(now).opens /\ h.opens[c] = Shown(now).opens[c]
              \/ h.opens[c] \in {None} \cup DOMAIN now.doc.subs
    PROVE  FitInv'
<1> DEFINE g == Shown(now)
           X == DOMAIN now.doc.subs
<1>1. /\ next \in Nat \ {0} /\ next <= MaxId + 1 /\ SnapOK(now, next)
      /\ GraphFits(g, next, X, flaws.lost)
  BY FitNow
<1>2. \A x \in X : x \in Nat /\ x < next
  BY <1>1 DEF SnapOK, DocOK, SubsOK
<1> HIDE DEF g, X
<1>3. GraphFits(h, next', X, flaws.lost)
  <2>1. \A x \in h.nodes : x \in Nat \ {0} /\ x < next'
    BY <1>1 DEF GraphFits, g
  <2>2. \A c \in DOMAIN h.opens : /\ h.opens[c] \in {None} \cup X \cup flaws.lost
                                  /\ h.opens[c] \in Nat /\ h.opens[c] < next'
    BY <1>1, <1>2 DEF GraphFits, None, g, X
  <2> QED  BY <2>1, <2>2 DEF GraphFits
<1>4. next' \in Nat /\ next <= next' /\ next' <= MaxId + 1
  BY <1>1
<1> QED  BY <1>3, <1>4, RedrawFit DEF X

LEMMA RemoveNodeFit == ASSUME IInv, FitInv, NEW n, RemoveNode(n) PROVE FitInv'
<1> DEFINE h == Cut(Shown(now), {n})
<1>1. h.nodes \subseteq Shown(now).nodes
  BY DEF Cut
<1>2. \A c \in DOMAIN h.opens : c \in DOMAIN Shown(now).opens /\ h.opens[c] = Shown(now).opens[c]
  BY DEF Cut, Without, Restrict
<1>3. Redraw(h, now.selected \ {n}) /\ UNCHANGED Stores /\ flaws' = flaws /\ next' = next
  BY DEF RemoveNode, Elsewhere, Stores
<1> HIDE DEF h
<1> QED  BY <1>1, <1>2, <1>3, RearrangedFit

LEMMA AddEdgeFit == ASSUME IInv, FitInv, NEW m, NEW n, AddEdge(m, n) PROVE FitInv'
<1> DEFINE g == Shown(now)
           h == Graph(g.nodes, g.edges \cup {<<m, n>>}, g.opens)
<1>1. h.nodes = Shown(now).nodes /\ h.opens = Shown(now).opens
  BY DEF Graph
<1>2. Redraw(h, now.selected) /\ UNCHANGED Stores /\ flaws' = flaws /\ next' = next
  BY DEF AddEdge, Elsewhere, Stores
<1> HIDE DEF h
<1> QED  BY <1>1, <1>2, RearrangedFit

LEMMA RemoveEdgeFit == ASSUME IInv, FitInv, NEW e, RemoveEdge(e) PROVE FitInv'
<1> DEFINE g == Shown(now)
           h == Graph(g.nodes, g.edges \ {e}, g.opens)
<1>1. h.nodes = Shown(now).nodes /\ h.opens = Shown(now).opens
  BY DEF Graph
<1>2. Redraw(h, now.selected) /\ UNCHANGED Stores /\ flaws' = flaws /\ next' = next
  BY DEF RemoveEdge, Elsewhere, Stores
<1> HIDE DEF h
<1> QED  BY <1>1, <1>2, RearrangedFit

LEMMA PickSubgraphFit == ASSUME IInv, FitInv, NEW c, NEW sub, PickSubgraph(c, sub) PROVE FitInv'
<1> DEFINE g == Shown(now)
           h == Graph(g.nodes, g.edges, With(g.opens, c, sub))
<1>1. h.nodes = Shown(now).nodes /\ h.opens = With(Shown(now).opens, c, sub)
  BY DEF Graph
<1>2. Redraw(h, now.selected) /\ UNCHANGED Stores /\ flaws' = flaws /\ next' = next
  BY DEF PickSubgraph, Elsewhere, Stores
<1> HIDE DEF h
<1>3. \A x \in DOMAIN h.opens : \/ x \in DOMAIN Shown(now).opens /\ h.opens[x] = Shown(now).opens[x]
                                \/ h.opens[x] \in {None} \cup DOMAIN now.doc.subs
  BY <1>1 DEF With, PickSubgraph
<1> QED  BY <1>1, <1>2, <1>3, RearrangedFit

\* Steps that change the view or move along the history.
LEMMA ViewFit ==
    ASSUME IInv, FitInv,
           \/ Touch
           \/ \E S : SetSelectedNodes(S)
           \/ \E g : SetActiveGraph(g)
           \/ Undo \/ Redo
    PROVE  FitInv'
<1>1. UNCHANGED Stores /\ flaws' = flaws /\ next' = next
  BY DEF Touch, SetSelectedNodes, SetActiveGraph, Undo, Redo, Elsewhere, Stores
<1>2. now \in Snapshots
  BY DEF Snapshots
<1>3. CASE Touch
  <2>1. Snapshots' \subseteq Snapshots \cup {now, now}
    BY <1>3, Recorded DEF Touch
  <2> QED  BY <1>1, <2>1, SameDocs
<1>4. CASE \E S : SetSelectedNodes(S)
  <2>1. PICK S : SetSelectedNodes(S)
    BY <1>4
  <2>2. now'.doc = now.doc /\ past' = past /\ future' = future
    BY <2>1 DEF SetSelectedNodes, Show, View
  <2>3. \A s \in Snapshots' : s \in Snapshots \/ s.doc = now.doc
    BY <2>2 DEF Snapshots
  <2> QED  BY <1>1, <2>3, SameDocs
<1>5. CASE \E g : SetActiveGraph(g)
  <2>1. PICK g : SetActiveGraph(g)
    BY <1>5
  <2>2. Snapshots' \subseteq Snapshots \cup {now, SwitchedTo(now, g)}
    BY <2>1, Recorded DEF SetActiveGraph
  <2>3. SwitchedTo(now, g).doc = now.doc
    BY DEF SwitchedTo, View
  <2>4. \A s \in Snapshots' : s \in Snapshots \/ s.doc = now.doc
    BY <1>2, <2>2, <2>3
  <2> QED  BY <1>1, <2>4, SameDocs
<1>6. CASE Undo \/ Redo
  BY <1>1, <1>6, Moved, SameDocs
<1> QED  BY <1>3, <1>4, <1>5, <1>6

LEMMA ConvertFit == ASSUME IInv, FitInv, ConvertSelectionToSubgraph PROVE FitInv'
<1> DEFINE t == Converted(now, next, next + 1)
           d == t.doc
<1>1. /\ next \in Nat \ {0} /\ MaxId \in Nat /\ SnapOK(now, next)
      /\ DocFits(now.doc, next, flaws.lost, flaws.twice)
  BY FitNow
<1>2. DocFits(d, next + 2, flaws.lost, flaws.twice)
  BY <1>1, ConvertedFits
<1>3. Record(now, t) /\ next' = next + 2 /\ next + 1 <= MaxId /\ UNCHANGED Stores /\ flaws' = flaws
  BY DEF ConvertSelectionToSubgraph, Elsewhere, Stores
<1> HIDE DEF t
<1>4. Snapshots' \subseteq Snapshots \cup {now, t} /\ now \in Snapshots
  BY <1>3, Recorded DEF Snapshots
<1>5. \A s \in Snapshots' : s \in Snapshots \/ s.doc = d
  BY <1>4
<1>6. next' \in Int /\ next <= next' /\ next' <= MaxId + 1
  BY <1>1, <1>3
<1> QED  BY <1>2, <1>3, <1>5, <1>6, FitStep

LEMMA InlineFit ==
    ASSUME IInv, FitInv, NEW c \in DOMAIN AtRoot.doc.root.opens,
           AtRoot.doc.root.opens[c] \in DOMAIN AtRoot.doc.subs,
           InlineInto(AtRoot, c), UNCHANGED Stores
    PROVE  FitInv'
<1> DEFINE s == AtRoot
           t == Inlined(s, c)
           d == t.doc
           k == Clashes(s, c)
           L == flaws.lost \cup {x \in {s.doc.root.opens[c]} : OpenedElsewhere(s.doc, c)}
           T == flaws.twice \cup ListedElsewhere(s.doc, c)
<1>1. next \in Nat \ {0} /\ MaxId \in Nat /\ SnapOK(now, next)
      /\ DocFits(now.doc, next, flaws.lost, flaws.twice)
  BY FitNow
<1>2. SnapOK(s, next) /\ s.active = Root /\ s.doc = now.doc
  BY <1>1, AtRootOK
<1>3. k \in Nat /\ DocFits(d, next + k, L, T)
  <2>1. DocFits(s.doc, next, flaws.lost, flaws.twice)
    BY <1>1, <1>2
  <2>2. c \in DOMAIN s.doc.root.opens /\ s.doc.root.opens[c] \in DOMAIN s.doc.subs
    OBVIOUS
  <2> HIDE DEF s
  <2> QED  BY <1>1, <1>2, <2>1, <2>2, InlinedFits
<1>4. /\ next + k \in next .. MaxId + 1 /\ next' = next + k /\ Record(s, t)
      /\ flaws'.lost = L /\ flaws'.twice = T
  BY DEF InlineInto
<1> HIDE DEF s, t, k, L, T
<1>5. Snapshots' \subseteq Snapshots \cup {s, t} /\ now \in Snapshots
  BY <1>4, Recorded DEF Snapshots
<1>6. next' \in Int /\ next <= next' /\ next' <= MaxId + 1 /\ DocFits(d, next', flaws'.lost, flaws'.twice)
  BY <1>1, <1>3, <1>4
<1>7. flaws.lost \subseteq flaws'.lost /\ flaws.twice \subseteq flaws'.twice
  BY <1>4 DEF L, T
<1>8. \A x \in Snapshots' : x \in Snapshots \/ x.doc = now.doc \/ x.doc = d
  BY <1>2, <1>5
<1> QED  BY <1>6, <1>7, <1>8, FitStep

LEMMA InlineNodeFit == ASSUME IInv, FitInv, NEW c, InlineNode(c) PROVE FitInv'
<1> DEFINE s == AtRoot
<1>1. s.doc = now.doc /\ UNCHANGED Stores
  BY FitNow, AtRootOK DEF InlineNode
<1>2. CASE c \in DOMAIN s.doc.root.opens /\ s.doc.root.opens[c] \in DOMAIN s.doc.subs
  BY <1>2, InlineFit DEF InlineNode
<1>3. CASE ~(c \in DOMAIN s.doc.root.opens /\ s.doc.root.opens[c] \in DOMAIN s.doc.subs)
  <2>1. Show(s) /\ flaws' = flaws /\ next' = next
    BY <1>3 DEF InlineNode
  <2> HIDE DEF s
  <2>2. \A x \in Snapshots' : x \in Snapshots \/ x.doc = now.doc
    BY <1>1, <2>1 DEF Show, Snapshots
  <2> QED  BY <1>1, <2>1, <2>2, SameDocs
<1> QED  BY <1>2, <1>3

LEMMA InlineSubgraphFit == ASSUME IInv, FitInv, NEW sub, InlineSubgraph(sub) PROVE FitInv'
<1> DEFINE s == AtRoot
           by == {c \in DOMAIN s.doc.root.opens : s.doc.root.opens[c] = sub}
<1>1. s.doc = now.doc
  BY FitNow, AtRootOK
<1>2. sub \in DOMAIN s.doc.subs /\ UNCHANGED Stores
  BY <1>1 DEF InlineSubgraph
<1>3. CASE Cardinality(by) = 1
  <2>1. PICK c \in by : InlineInto(s, c)
    BY <1>3 DEF InlineSubgraph
  <2> QED  BY <1>2, <2>1, InlineFit
<1>4. CASE Cardinality(by) /= 1
  <2>1. Show(s) /\ flaws' = flaws /\ next' = next
    BY <1>4 DEF InlineSubgraph
  <2> HIDE DEF s
  <2>2. \A x \in Snapshots' : x \in Snapshots \/ x.doc = now.doc
    BY <1>1, <2>1 DEF Show, Snapshots
  <2> QED  BY <1>2, <2>1, <2>2, SameDocs
<1> QED  BY <1>3, <1>4

LEMMA ClickSaveFit == ASSUME IInv, FitInv, ClickSave PROVE FitInv'
<1> DEFINE d == now.doc
           L == flaws.lost
           T == flaws.twice
<1>1. DocFits(d, next, L, T)
  BY FitNow
<1>2. GraphFits(d.root, next, DOMAIN d.listed, L) /\ SubsFit(d.listed, next, L) /\ Apart(d.root, Without(d.listed, d.drafts), T)
  BY <1>1 DEF DocFits, RecordFits
<1>3. saving'.root = d.root /\ saving'.subs = d.listed /\ saving'.drafts = d.drafts
  BY DEF ClickSave
<1>4. SavingFits(saving', next, L, T)
  BY <1>2, <1>3 DEF SavingFits
<1>5. Snapshots' = Snapshots
  BY DEF ClickSave, Snapshots
<1>6. next' = next /\ flaws' = flaws /\ stored' = stored /\ cache' = cache
  BY DEF ClickSave
<1> HIDE DEF L, T
<1> QED  BY <1>4, <1>5, <1>6 DEF FitInv, L, T

LEMMA CapturePreviewFit == ASSUME IInv, FitInv, CapturePreview PROVE FitInv'
<1> DEFINE L == flaws.lost
           T == flaws.twice
<1>1. Snapshots' \subseteq Snapshots
  <2>1. CASE Record(now, now)
    BY <2>1, Recorded DEF Snapshots
  <2>2. CASE Show(now)
    BY <2>2 DEF Show, Snapshots
  <2> QED  BY <2>1, <2>2 DEF CapturePreview
<1>2. saving /= Idle
  BY DEF CapturePreview, Idle
<1>3. next' = next /\ flaws' = flaws /\ stored' = stored /\ cache' = cache
  BY DEF CapturePreview
<1>4. saving'.root = saving.root /\ saving'.subs = saving.subs /\ saving'.drafts = saving.drafts
  BY DEF CapturePreview
<1>5. SavingFits(saving, next, L, T)
  BY DEF FitInv
<1>6. SavingFits(saving', next, L, T)
  BY <1>2, <1>4, <1>5 DEF SavingFits
<1> QED  BY <1>1, <1>3, <1>6 DEF FitInv

\* A workflow with subgraphs of the draft shape is refused, so what is stored
\* is a root graph with subgraphs it fits.
LEMMA PersistFit == ASSUME IInv, FitInv, PersistWorkflow PROVE FitInv'
<1> DEFINE L == flaws.lost
           T == flaws.twice
           w == [root |-> saving.root, subs |-> saving.subs]
<1>1. saving /= Idle /\ SavingFits(saving, next, L, T) /\ RecordFits(stored, next, L, T)
  BY DEF FitInv, PersistWorkflow, Idle
<1>2. ASSUME Acceptable(saving) PROVE RecordFits(w, next, L, T)
  <2>1. saving.drafts = {}
    BY <1>2 DEF Acceptable
  <2>2. DOMAIN Without(saving.subs, {}) = DOMAIN saving.subs
        /\ \A x \in DOMAIN saving.subs : Without(saving.subs, {})[x] = saving.subs[x]
    BY DEF Without, Restrict
  <2>3. Apart(saving.root, saving.subs, T)
    BY <1>1, <2>1, <2>2 DEF SavingFits, Apart
  <2> QED  BY <1>1, <2>3 DEF SavingFits, RecordFits
<1>3. RecordFits(stored', next, L, T) /\ SavingFits(saving', next, L, T)
  BY <1>1, <1>2 DEF PersistWorkflow, SavingFits
<1>4. next' = next /\ flaws' = flaws /\ cache' = cache /\ Snapshots' = Snapshots
  BY DEF PersistWorkflow, Snapshots
<1> HIDE DEF L, T
<1> QED  BY <1>3, <1>4 DEF FitInv, L, T

LEMMA RefetchFit == ASSUME IInv, FitInv, Refetch PROVE FitInv'
BY DEF FitInv, Refetch, Snapshots

LEMMA OpenedFits ==
    ASSUME NEW w, NEW n, NEW L, NEW T, RecordFits(w, n, L, T)
    PROVE  DocFits(Opened(w).doc, n, L, T)
<1> DEFINE d == Opened(w).doc
<1>1. d.root = w.root /\ d.subs = w.subs /\ d.listed = w.subs /\ d.drafts = {}
  BY DEF Opened, View
<1>2. /\ DOMAIN Without(d.listed, {}) = DOMAIN d.listed
      /\ \A x \in DOMAIN d.listed : Without(d.listed, {})[x] = d.listed[x]
  BY DEF Without, Restrict
<1> HIDE DEF d
<1>3. Apart(d.root, Without(d.listed, d.drafts), T)
  BY <1>1, <1>2 DEF RecordFits, Apart
<1>4. DocFits(d, n, L, T)
  BY <1>1, <1>3 DEF RecordFits, DocFits
<1> QED  BY <1>4 DEF d

LEMMA ReopenFit == ASSUME IInv, FitInv, Reopen PROVE FitInv'
<1>1. DocFits(Opened(cache).doc, next, flaws.lost, flaws.twice)
  BY OpenedFits DEF FitInv
<1>2. next' = next /\ flaws' = flaws /\ UNCHANGED Stores
  BY DEF Reopen, Stores
<1>3. \A s \in Snapshots' : s.doc = Opened(cache).doc
  BY NoneIn DEF Reopen, Snapshots
<1>4. next \in Int /\ next <= MaxId + 1
  BY FitNow
<1> QED  BY <1>1, <1>2, <1>3, <1>4, FitStep

LEMMA FitInit == Init => FitInv
<1> SUFFICES ASSUME Init PROVE FitInv
  OBVIOUS
<1>1. PICK w \in Documents : /\ stored = w /\ cache = w /\ now = Opened(w) /\ next = FirstId
                             /\ flaws = [lost |-> Missing(w), twice |-> Shared(w)]
  BY DEF Init
<1>2. next \in FirstId .. MaxId + 1 /\ next \in Nat
  BY <1>1, IdsAssumption
<1> DEFINE L == Missing(w)
           T == Shared(w)
           X == DOMAIN w.subs
<1>3. \A g \in Graphs(w) : GraphFits(g, next, X, L)
  <2> SUFFICES ASSUME NEW g \in Graphs(w) PROVE GraphFits(g, next, X, L)
    OBVIOUS
  <2>1. /\ \A x \in g.nodes : x \in 1 .. FirstId - 1
        /\ \A c \in DOMAIN g.opens : g.opens[c] \in Range(g.opens)
        /\ Range(g.opens) \subseteq 0 .. FirstId - 1
    BY DocumentsAssumption DEF Graphs, Range
  <2>2. \A v \in Range(g.opens) : v \in {None} \cup X \cup L
    <3>1. ASSUME NEW v \in Range(g.opens), v \notin {None} \cup DOMAIN w.subs PROVE v \in Missing(w)
      <4>1. v \in UNION {Range(h.opens) : h \in Graphs(w)}
        OBVIOUS
      <4> QED  BY <3>1, <4>1 DEF Missing
    <3> QED  BY <3>1
  <2> QED  BY <1>1, <1>2, <2>1, <2>2, IdsAssumption DEF GraphFits
<1>4. w.root \in Graphs(w) /\ \A x \in X : w.subs[x] \in Graphs(w)
  BY DEF Graphs, Range
<1>5. Apart(w.root, w.subs, T)
  <2>1. \A x \in X : w.subs[x].nodes \cap (w.root.nodes \cup Others(w.subs, x)) \subseteq T
    BY DEF Shared
  <2>2. \A x, y \in X : x /= y => w.subs[y].nodes \subseteq Others(w.subs, x)
    BY DEF Others
  <2> QED  BY <2>1, <2>2 DEF Apart
<1>6. RecordFits(w, next, L, T)
  BY <1>3, <1>4, <1>5 DEF RecordFits, SubsFit
<1>7. Snapshots = {Opened(w)}
  BY <1>1, NoneIn DEF Init, Snapshots
<1>8. DocFits(Opened(w).doc, next, L, T)
  BY <1>6, OpenedFits
<1>9. SavingFits(saving, next, L, T)
  BY DEF Init, SavingFits
<1> QED  BY <1>1, <1>2, <1>6, <1>7, <1>8, <1>9 DEF FitInv

LEMMA FitNext == IInv /\ FitInv /\ [Next]_vars => FitInv'
<1> SUFFICES ASSUME IInv, FitInv, [Next]_vars PROVE FitInv'
  OBVIOUS
<1>1. CASE AddNode
  BY <1>1, AddNodeFit
<1>2. CASE \E n \in Ids : RemoveNode(n) \/ InlineNode(n) \/ InlineSubgraph(n)
  BY <1>2, RemoveNodeFit, InlineNodeFit, InlineSubgraphFit
<1>3. CASE \E m, n \in Ids : AddEdge(m, n) \/ RemoveEdge(<<m, n>>)
  BY <1>3, AddEdgeFit, RemoveEdgeFit
<1>4. CASE \E c \in Ids, sub \in {None} \cup Ids : PickSubgraph(c, sub)
  BY <1>4, PickSubgraphFit
<1>5. CASE \/ Touch
           \/ \E S \in SUBSET Ids : Cardinality(S) <= MaxSelected /\ SetSelectedNodes(S)
           \/ \E g \in {Root} \cup Ids : SetActiveGraph(g)
           \/ Undo \/ Redo
  BY <1>5, ViewFit
<1>6. CASE ConvertSelectionToSubgraph
  BY <1>6, ConvertFit
<1>7. CASE ClickSave \/ CapturePreview \/ PersistWorkflow \/ Refetch \/ Reopen
  BY <1>7, ClickSaveFit, CapturePreviewFit, PersistFit, RefetchFit, ReopenFit
<1>8. CASE UNCHANGED vars
  BY <1>8 DEF vars, Stores, FitInv, Snapshots
<1> QED  BY <1>1, <1>2, <1>3, <1>4, <1>5, <1>6, <1>7, <1>8 DEF Next

-----------------------------------------------------------------------------
LEMMA CountInit == Init => CountInv
BY HistoryLimitAssumption, MaxWorkAssumption DEF Init, CountInv

LEMMA CountRecord ==
    ASSUME IInv, CountInv, NEW b, NEW a, Record(b, a)
    PROVE  Len(past') + Len(future') <= HistoryLimit /\ work' \in 0 .. MaxWork + 1
<1>1. HistoryOK(past, next) /\ HistoryOK(future, next)
  BY DEF IInv
<1>2. Len(past) \in Nat /\ Len(future) \in Nat
  BY <1>1, Pushed
<1>3. Len(past) <= HistoryLimit
  BY <1>2, HistoryLimitAssumption DEF CountInv
<1>4. Len(past') <= HistoryLimit /\ Len(past') \in Nat
  BY <1>1, <1>3, Pushed DEF Record
<1>5. Len(future') = 0
  BY DEF Record
<1> QED  BY <1>4, <1>5, MaxWorkAssumption DEF Record, CountInv

LEMMA CountMove ==
    ASSUME IInv, CountInv, Undo \/ Redo
    PROVE  Len(past') + Len(future') <= HistoryLimit /\ work' = work
<1>1. HistoryOK(past, next) /\ HistoryOK(future, next)
  BY DEF IInv
<1>2. CASE Undo
  <2>1. Len(past) \in Nat /\ Len(past') = Len(past) - 1
    BY <1>1, <1>2, Popped DEF Undo
  <2>2. Len(future) \in Nat /\ Len(future') = Len(future) + 1
    BY <1>1, <1>2, Pushed DEF Undo
  <2> QED  BY <1>2, <2>1, <2>2 DEF CountInv, Undo
<1>3. CASE Redo
  <2>1. Len(future) \in Nat /\ Len(future') = Len(future) - 1
    BY <1>1, <1>3, Popped DEF Redo
  <2>2. Len(past) \in Nat /\ Len(past') = Len(past) + 1
    BY <1>1, <1>3, Pushed DEF Redo
  <2> QED  BY <1>3, <2>1, <2>2 DEF CountInv, Redo
<1> QED  BY <1>2, <1>3

LEMMA CountNext == IInv /\ CountInv /\ [Next]_vars => CountInv'
<1> SUFFICES ASSUME IInv, CountInv, [Next]_vars PROVE CountInv'
  OBVIOUS
<1>1. CASE (\E b, a : Record(b, a)) /\ saving' = saving
  BY <1>1, CountRecord DEF CountInv
<1>2. CASE (\E s : Show(s)) /\ saving' = saving
  BY <1>2 DEF CountInv, Show
<1>3. CASE Undo \/ Redo
  BY <1>3, CountMove DEF CountInv, Undo, Redo, Stores
<1>4. CASE ClickSave
  BY <1>4, MaxWorkAssumption DEF ClickSave, CountInv
<1>5. CASE CapturePreview
  <2>1. saving'.stage = "persist"
    BY <1>5 DEF CapturePreview, CountInv, Idle
  <2>2. CASE Record(now, now)
    BY <2>1, <2>2, CountRecord DEF CountInv
  <2>3. CASE Show(now)
    BY <2>1, <2>3 DEF CountInv, Show
  <2> QED  BY <1>5, <2>2, <2>3 DEF CapturePreview
<1>6. CASE PersistWorkflow \/ Refetch
  BY <1>6 DEF PersistWorkflow, Refetch, CountInv
<1>7. CASE Reopen
  BY <1>7, HistoryLimitAssumption DEF Reopen, Stores, CountInv
<1>8. CASE UNCHANGED vars
  BY <1>8 DEF vars, Stores, CountInv
<1>9. ASSUME AddNode PROVE (\E b, a : Record(b, a)) /\ saving' = saving
  BY <1>9 DEF AddNode, Redraw, Elsewhere, Stores
<1>10. ASSUME NEW n, RemoveNode(n) PROVE (\E b, a : Record(b, a)) /\ saving' = saving
  BY <1>10 DEF RemoveNode, Redraw, Elsewhere, Stores
<1>11. ASSUME NEW m, NEW n, AddEdge(m, n) \/ RemoveEdge(<<m, n>>)
       PROVE  (\E b, a : Record(b, a)) /\ saving' = saving
  BY <1>11 DEF AddEdge, RemoveEdge, Redraw, Elsewhere, Stores
<1>12. ASSUME NEW c, NEW sub, PickSubgraph(c, sub) PROVE (\E b, a : Record(b, a)) /\ saving' = saving
  BY <1>12 DEF PickSubgraph, Redraw, Elsewhere, Stores
<1>13. ASSUME Touch \/ (\E g : SetActiveGraph(g)) \/ ConvertSelectionToSubgraph
       PROVE  (\E b, a : Record(b, a)) /\ saving' = saving
  BY <1>13 DEF Touch, SetActiveGraph, ConvertSelectionToSubgraph, Elsewhere, Stores
<1>14. ASSUME NEW S, SetSelectedNodes(S) PROVE (\E s : Show(s)) /\ saving' = saving
  BY <1>14 DEF SetSelectedNodes, Elsewhere, Stores
<1>15. ASSUME NEW n, InlineNode(n) \/ InlineSubgraph(n)
       PROVE  ((\E b, a : Record(b, a)) \/ (\E s : Show(s))) /\ saving' = saving
  <2>1. saving' = saving
    BY <1>15 DEF InlineNode, InlineSubgraph, Stores
  <2>2. \A c : InlineInto(AtRoot, c) => \E b, a : Record(b, a)
    BY DEF InlineInto
  <2>3. (\E c : InlineInto(AtRoot, c)) \/ Show(AtRoot)
    BY <1>15 DEF InlineNode, InlineSubgraph
  <2> QED  BY <2>1, <2>2, <2>3
<1> QED  BY <1>1, <1>2, <1>3, <1>4, <1>5, <1>6, <1>7, <1>8, <1>9, <1>10, <1>11, <1>12, <1>13, <1>14, <1>15
         DEF Next

\* Every document of the editor fits together, and the history keeps its limit.
THEOREM Fitness == Spec => [](IInv /\ FitInv /\ CountInv)
<1>1. Init => IInv /\ FitInv /\ CountInv
  BY InvInit, FitInit, CountInit
<1>2. IInv /\ FitInv /\ CountInv /\ [Next]_vars => (IInv /\ FitInv /\ CountInv)'
  BY InvNext, FitNext, CountNext
<1> QED  BY <1>1, <1>2, PTL DEF Spec

\* Containers open subgraphs that are there and graphs have no nodes in common,
\* in the document, in every snapshot and in what a save stores, however many
\* edits, conversions, inlinings, undos, saves and reopenings came before, but
\* for what the workflow came with and what an inlining left to the list that a
\* save sends (store.ts inlineSubgraphIntoActiveGraph, useWorkflowDraft.ts
\* handleSaveWorkflow).
THEOREM GraphsFit == Spec => []SubgraphsCoherent
<1>1. ASSUME IInv, FitInv PROVE SubgraphsCoherent
  <2>1. \A w \in Workflows : RecordFits(w, next, flaws.lost, flaws.twice)
    BY <1>1 DEF Workflows, FitInv, DocFits
  <2>2. ContainersResolve
    <3> SUFFICES ASSUME NEW w \in Workflows, NEW g \in Graphs(w), NEW v \in Range(g.opens)
                 PROVE  v \in {None} \cup DOMAIN w.subs \cup flaws.lost
      BY DEF ContainersResolve
    <3>1. GraphFits(g, next, DOMAIN w.subs, flaws.lost)
      BY <2>1 DEF RecordFits, SubsFit, Graphs, Range
    <3> QED  BY <3>1 DEF GraphFits, Range
  <2>3. NodesAreOnce
    BY <2>1 DEF NodesAreOnce, RecordFits
  <2> QED  BY <2>2, <2>3 DEF SubgraphsCoherent
<1> QED  BY <1>1, Fitness, PTL

\* Every snapshot is a document with a view on it whose ids were handed out, and
\* past and future together never hold more than HISTORY_LIMIT of them.
THEOREM TypeCorrect == Spec => []TypeOK
<1>1. ASSUME IInv, FitInv, CountInv PROVE TypeOK
  <2>1. next \in Nat /\ next <= MaxId + 1 /\ MaxId \in Nat /\ next \in FirstId .. MaxId + 1
    BY <1>1, IdsAssumption DEF IInv, FitInv
  <2>2. \A x \in Nat \ {0} : x < next => x \in Ids
    BY <2>1 DEF Ids
  <2>3. ASSUME NEW g, NEW X, X \subseteq Ids, IsGraph(g), GraphFits(g, next, X, flaws.lost) PROVE GraphOK(g)
    <3>1. g.nodes \subseteq Ids
      BY <2>2, <2>3 DEF GraphFits
    <3>2. g.edges \subseteq Ids \X Ids
      BY <2>3, <3>1 DEF IsGraph
    <3>3. \A c \in DOMAIN g.opens : g.opens[c] \in {None} \cup Ids
      BY <2>2, <2>3 DEF GraphFits, None
    <3>4. g.opens = [c \in DOMAIN g.opens |-> g.opens[c]]
      BY <2>3 DEF IsGraph
    <3> QED  BY <3>1, <3>2, <3>3, <3>4 DEF GraphOK
  <2>4. ASSUME NEW s \in Snapshots PROVE SnapshotOK(s)
    <3>1. SnapOK(s, next) /\ DocFits(s.doc, next, flaws.lost, flaws.twice)
      BY <1>1, SnapshotsOK DEF FitInv
    <3> DEFINE X == DOMAIN s.doc.subs
    <3>2. /\ X \subseteq Ids /\ DOMAIN s.doc.listed = X /\ s.doc.drafts \subseteq X
          /\ IsGraph(s.doc.root)
          /\ \A x \in X : IsGraph(s.doc.subs[x]) /\ IsGraph(s.doc.listed[x])
      BY <2>2, <3>1 DEF SnapOK, DocOK, SubsOK, DocFits
    <3>3. /\ GraphFits(s.doc.root, next, X, flaws.lost)
          /\ \A x \in X : /\ GraphFits(s.doc.subs[x], next, X, flaws.lost)
                          /\ GraphFits(s.doc.listed[x], next, X, flaws.lost)
      BY <3>1, <3>2 DEF DocFits, RecordFits, SubsFit
    <3> HIDE DEF X
    <3>4. GraphOK(s.doc.root) /\ \A x \in X : GraphOK(s.doc.subs[x]) /\ GraphOK(s.doc.listed[x])
      BY <2>3, <3>2, <3>3
    <3>5. s.active \in {Root} \cup Ids /\ Shown(s).nodes \subseteq Ids
      BY <3>1, <3>2, <3>4 DEF SnapOK, Shown, GraphOK, X
    <3>6. s.selected \subseteq Ids
      BY <3>1, <3>5 DEF SnapOK
    <3> QED  BY <3>2, <3>4, <3>5, <3>6 DEF SnapshotOK, X
  <2>5. saving.stage \in {"idle", "preview", "persist"}
    BY <1>1 DEF CountInv, Idle
  <2> QED  BY <1>1, <2>1, <2>4, <2>5 DEF TypeOK, CountInv
<1> QED  BY <1>1, Fitness, PTL


-----------------------------------------------------------------------------
(***************************************************************************)
(* The line of documents that undo and redo move along.                    *)
(***************************************************************************)
LineOf(p, n, f) == DocsOf(p) \o <<n.doc>> \o DocsOf(Reverse(f))

\* Which document is where on a line.
OnTheLine(l, D, p, n, f) ==
    /\ l \in Seq(D)
    /\ Len(l) = Len(p) + 1 + Len(f)
    /\ \A i \in 1 .. Len(p) : l[i] = p[i].doc
    /\ l[Len(p) + 1] = n.doc
    /\ \A j \in 1 .. Len(f) : l[Len(p) + 1 + j] = f[Len(f) - j + 1].doc

LEMMA DocsAre ==
    ASSUME NEW S, NEW h \in Seq(S), NEW D, \A s \in S : s.doc \in D
    PROVE  /\ DocsOf(h) \in Seq(D) /\ Len(DocsOf(h)) = Len(h)
           /\ \A i \in 1 .. Len(h) : DocsOf(h)[i] = h[i].doc
<1>1. Len(h) \in Nat /\ DOMAIN h = 1 .. Len(h) /\ \A i \in 1 .. Len(h) : h[i] \in S
  OBVIOUS
<1>2. DocsOf(h) = [i \in 1 .. Len(h) |-> h[i].doc]
  BY <1>1 DEF DocsOf
<1>3. \A i \in 1 .. Len(h) : h[i].doc \in D
  BY <1>1
<1> QED  BY <1>1, <1>2, <1>3

LEMMA Reversed ==
    ASSUME NEW S, NEW h \in Seq(S)
    PROVE  /\ Reverse(h) \in Seq(S) /\ Len(Reverse(h)) = Len(h)
           /\ \A i \in 1 .. Len(h) : Reverse(h)[i] = h[Len(h) - i + 1]
<1>1. Len(h) \in Nat /\ \A i \in 1 .. Len(h) : h[i] \in S
  OBVIOUS
<1>2. \A i \in 1 .. Len(h) : Len(h) - i + 1 \in 1 .. Len(h)
  BY <1>1
<1>3. Reverse(h) = [i \in 1 .. Len(h) |-> h[Len(h) - i + 1]]
  BY <1>1 DEF Reverse
<1> QED  BY <1>1, <1>2, <1>3

LEMMA LineIs ==
    ASSUME NEW S, NEW p \in Seq(S), NEW f \in Seq(S), NEW n \in S,
           NEW D, \A s \in S : s.doc \in D
    PROVE  OnTheLine(LineOf(p, n, f), D, p, n, f)
<1> DEFINE a == DocsOf(p)
           b == <<n.doc>>
           r == Reverse(f)
           c == DocsOf(r)
<1>1. a \in Seq(D) /\ Len(a) = Len(p) /\ \A i \in 1 .. Len(p) : a[i] = p[i].doc
  BY DocsAre
<1>2. b \in Seq(D) /\ Len(b) = 1 /\ b[1] = n.doc
  OBVIOUS
<1>3. /\ r \in Seq(S) /\ Len(r) = Len(f)
      /\ \A i \in 1 .. Len(f) : r[i] = f[Len(f) - i + 1]
  BY Reversed
<1>0. Len(p) \in Nat /\ Len(f) \in Nat
  OBVIOUS
<1> HIDE DEF r
<1>4. /\ c \in Seq(D) /\ Len(c) = Len(f)
      /\ \A i \in 1 .. Len(f) : c[i] = f[Len(f) - i + 1].doc
  <2>1. c \in Seq(D) /\ Len(c) = Len(r) /\ \A i \in 1 .. Len(r) : c[i] = r[i].doc
    BY <1>3, DocsAre
  <2> HIDE DEF c
  <2> QED  BY <1>3, <2>1
<1>5. LineOf(p, n, f) = a \o b \o c
  BY DEF LineOf, r
<1> HIDE DEF a, b, c
<1> DEFINE ab == a \o b
<1>6. /\ ab \in Seq(D) /\ Len(ab) = Len(p) + 1
      /\ \A i \in 1 .. Len(p) : ab[i] = p[i].doc
      /\ ab[Len(p) + 1] = n.doc
  <2>1. /\ ab \in Seq(D) /\ Len(ab) = Len(a) + Len(b)
        /\ \A i \in 1 .. Len(a) + Len(b) : ab[i] = IF i <= Len(a) THEN a[i] ELSE b[i - Len(a)]
    BY <1>1, <1>2, ConcatProperties
  <2> HIDE DEF ab
  <2>2. ab[Len(p) + 1] = b[1]
    BY <1>0, <1>1, <1>2, <2>1
  <2> QED  BY <1>0, <1>1, <1>2, <2>1, <2>2
<1> HIDE DEF ab
<1> DEFINE l == ab \o c
<1>7. /\ l \in Seq(D) /\ Len(l) = Len(ab) + Len(c)
      /\ \A i \in 1 .. Len(ab) + Len(c) : l[i] = IF i <= Len(ab) THEN ab[i] ELSE c[i - Len(ab)]
  <2>1. ab \in Seq(D) /\ c \in Seq(D)
    BY <1>4, <1>6
  <2> QED  BY <2>1, ConcatProperties
<1>10. LineOf(p, n, f) = l
  BY <1>5 DEF l, ab
<1>11. \A i \in 1 .. Len(p) : i \in 1 .. Len(p) + 1
  BY <1>0
<1>12. Len(p) + 1 \in 1 .. Len(p) + 1
  BY <1>0
<1> HIDE DEF l
<1>8. \A i \in 1 .. Len(p) + 1 : l[i] = ab[i]
  BY <1>0, <1>4, <1>6, <1>7
<1>9. \A j \in 1 .. Len(f) : l[Len(p) + 1 + j] = c[j]
  <2> SUFFICES ASSUME NEW j \in 1 .. Len(f) PROVE l[Len(p) + 1 + j] = c[j]
    OBVIOUS
  <2>1. /\ Len(p) + 1 + j \in 1 .. Len(ab) + Len(c) /\ ~(Len(p) + 1 + j <= Len(ab))
        /\ Len(p) + 1 + j - Len(ab) = j
    BY <1>0, <1>4, <1>6
  <2> QED  BY <1>7, <2>1
<1>13. Len(l) = Len(p) + 1 + Len(f)
  BY <1>0, <1>4, <1>6, <1>7
<1> QED  BY <1>4, <1>6, <1>7, <1>8, <1>9, <1>10, <1>11, <1>12, <1>13 DEF OnTheLine

\* Undo and redo only move along it.
LEMMA UndoLine ==
    ASSUME NEW S, NEW p \in Seq(S), NEW f \in Seq(S), NEW n \in S, p /= <<>>
    PROVE  LineOf(Front(p), Last(p), Append(f, n)) = LineOf(p, n, f)
<1> DEFINE D == {s.doc : s \in S}
           q == Front(p)
           m == Last(p)
           g == Append(f, n)
           l == LineOf(p, n, f)
           k == LineOf(q, m, g)
<1>1. Len(p) \in Nat /\ Len(p) >= 1 /\ Len(f) \in Nat
  OBVIOUS
<1>2. /\ q \in Seq(S) /\ Len(q) = Len(p) - 1 /\ m \in S /\ m = p[Len(p)]
      /\ \A i \in 1 .. Len(q) : q[i] = p[i]
  BY <1>1 DEF Front, Last
<1>3. /\ g \in Seq(S) /\ Len(g) = Len(f) + 1 /\ g[Len(f) + 1] = n
      /\ \A i \in 1 .. Len(f) : g[i] = f[i]
  BY <1>1
<1>4. \A s \in S : s.doc \in D
  OBVIOUS
<1> HIDE DEF D, q, m, g
<1>5. OnTheLine(l, D, p, n, f)
  BY <1>4, LineIs
<1>6. OnTheLine(k, D, q, m, g)
  BY <1>2, <1>3, <1>4, LineIs
<1> HIDE DEF l, k
<1>7. Len(k) = Len(l)
  BY <1>1, <1>2, <1>3, <1>5, <1>6 DEF OnTheLine
<1>8. ASSUME NEW i \in 1 .. Len(k) PROVE k[i] = l[i]
  <2>1. i \in Int /\ 1 <= i /\ i <= Len(p) + 1 + Len(f)
    BY <1>1, <1>5, <1>7 DEF OnTheLine
  <2>2. CASE i < Len(p)
    <3>1. i \in 1 .. Len(q) /\ i \in 1 .. Len(p)
      BY <1>1, <1>2, <2>1, <2>2
    <3> QED  BY <1>2, <1>5, <1>6, <3>1 DEF OnTheLine
  <2>3. CASE i = Len(p)
    <3>1. Len(q) + 1 = i /\ i \in 1 .. Len(p)
      BY <1>1, <1>2, <2>3
    <3> QED  BY <1>2, <1>5, <1>6, <2>3, <3>1 DEF OnTheLine
  <2>4. CASE i = Len(p) + 1
    <3>1. 1 \in 1 .. Len(g) /\ Len(q) + 1 + 1 = i /\ Len(g) - 1 + 1 = Len(f) + 1
      BY <1>1, <1>2, <1>3, <2>4
    <3> QED  BY <1>3, <1>5, <1>6, <2>4, <3>1 DEF OnTheLine
  <2>5. CASE i > Len(p) + 1
    <3> DEFINE j == i - Len(p) - 1
    <3>1. /\ j \in 1 .. Len(f) /\ j + 1 \in 1 .. Len(g)
          /\ Len(p) + 1 + j = i /\ Len(q) + 1 + (j + 1) = i
          /\ Len(g) - (j + 1) + 1 = Len(f) - j + 1 /\ Len(f) - j + 1 \in 1 .. Len(f)
      BY <1>1, <1>2, <1>3, <2>1, <2>5
    <3> HIDE DEF j
    <3>2. l[i] = f[Len(f) - j + 1].doc
      BY <1>5, <3>1 DEF OnTheLine
    <3>3. k[i] = g[Len(g) - (j + 1) + 1].doc
      BY <1>6, <3>1 DEF OnTheLine
    <3>4. g[Len(f) - j + 1] = f[Len(f) - j + 1]
      BY <1>3, <3>1
    <3> QED  BY <3>1, <3>2, <3>3, <3>4
  <2> QED  BY <1>1, <2>1, <2>2, <2>3, <2>4, <2>5
<1>9. k = l
  BY <1>5, <1>6, <1>7, <1>8, SeqEqual DEF OnTheLine
<1> QED  BY <1>9 DEF k, l, q, m, g

LEMMA RedoLine ==
    ASSUME NEW S, NEW p \in Seq(S), NEW f \in Seq(S), NEW n \in S, f /= <<>>
    PROVE  LineOf(Append(p, n), Last(f), Front(f)) = LineOf(p, n, f)
<1> DEFINE q == Append(p, n)
           m == Last(f)
           g == Front(f)
<1>1. Len(p) \in Nat /\ Len(f) \in Nat /\ Len(f) >= 1
  OBVIOUS
<1>2. q \in Seq(S) /\ q /= <<>> /\ Last(q) = n
  BY <1>1 DEF Last
<1>3. Front(q) = p
  <2>1. Len(q) - 1 = Len(p) /\ SubSeq(q, 1, Len(p)) \in Seq(S) /\ Len(SubSeq(q, 1, Len(p))) = Len(p)
    BY <1>1, <1>2
  <2>2. \A i \in 1 .. Len(p) : SubSeq(q, 1, Len(p))[i] = p[i]
    BY <1>1
  <2>3. SubSeq(q, 1, Len(p)) = p
    BY <2>1, <2>2, SeqEqual
  <2> QED  BY <2>1, <2>3 DEF Front
<1>4. /\ g \in Seq(S) /\ Len(g) = Len(f) - 1 /\ m \in S /\ m = f[Len(f)]
      /\ \A i \in 1 .. Len(g) : g[i] = f[i]
  <2>1. m = f[Len(f)] /\ m \in S
    BY <1>1 DEF Last
  <2> DEFINE k == Len(f) - 1
  <2>2. k \in Nat /\ 1 \in Int /\ \A i \in 1 .. k : f[i] \in S
    BY <1>1
  <2>3. g = SubSeq(f, 1, k)
    BY DEF Front
  <2> HIDE DEF g, k
  <2>4. g \in Seq(S) /\ Len(g) = k /\ \A i \in 1 .. k : g[i] = f[i]
    <3>1. /\ g \in Seq(S) /\ Len(g) = IF 1 <= k THEN k - 1 + 1 ELSE 0
          /\ \A i \in 1 .. k - 1 + 1 : g[i] = f[1 + i - 1]
      BY <2>2, <2>3, SubSeqProperties
    <3>2. k - 1 + 1 = k /\ \A i \in 1 .. k : 1 + i - 1 = i
      BY <2>2
    <3>3. Len(g) = k
      BY <2>2, <3>1
    <3> QED  BY <3>1, <3>2, <3>3
  <2> QED  BY <2>1, <2>4 DEF k
<1> HIDE DEF q, m, g
<1>5. Append(g, m) = f
  <2>1. Append(g, m) \in Seq(S) /\ Len(Append(g, m)) = Len(f)
    BY <1>1, <1>4
  <2>2. \A i \in 1 .. Len(f) : Append(g, m)[i] = f[i]
    BY <1>1, <1>4
  <2> QED  BY <2>1, <2>2, SeqEqual
<1>6. LineOf(Front(q), Last(q), Append(g, m)) = LineOf(q, m, g)
  BY <1>2, <1>4, UndoLine
<1> QED  BY <1>2, <1>3, <1>5, <1>6 DEF q, m, g

\* An edit cuts off what lies ahead, and forgets the oldest document when the
\* history is full.
LEMMA EditLine ==
    ASSUME NEW S, NEW p \in Seq(S), NEW f \in Seq(S), NEW n \in S, NEW b \in S, NEW a \in S,
           b.doc = n.doc
    PROVE  LET line == LineOf(p, n, f)
               at == Len(p) + 1
               q == Trimmed(Append(p, b))
               kept == SubSeq(line, 1, at)
           IN  /\ Len(LineOf(q, a, <<>>)) = Len(q) + 1
               /\ SubSeq(LineOf(q, a, <<>>), 1, Len(q) + 1 - 1)
                    = IF at > HistoryLimit THEN Tail(kept) ELSE kept
<1> DEFINE D == {s.doc : s \in S}
           l == LineOf(p, n, f)
           e == Append(p, b)
           q == Trimmed(e)
           k == LineOf(q, a, <<>>)
           kept == SubSeq(l, 1, Len(p) + 1)
           cut == SubSeq(k, 1, Len(q) + 1 - 1)
           none == <<>>
<1>1. Len(p) \in Nat /\ Len(f) \in Nat /\ HistoryLimit \in Nat
  BY HistoryLimitAssumption
<1>2. \A s \in S : s.doc \in D
  OBVIOUS
<1>3. none \in Seq(S) /\ Len(none) = 0
  OBVIOUS
<1>4. /\ e \in Seq(S) /\ Len(e) = Len(p) + 1 /\ e[Len(p) + 1] = b /\ e /= <<>>
      /\ \A i \in 1 .. Len(p) : e[i] = p[i]
  BY <1>1
<1> HIDE DEF D, e
<1>5. /\ Tail(e) \in Seq(S) /\ Len(Tail(e)) = Len(p)
      /\ \A i \in 1 .. Len(p) : Tail(e)[i] = e[i + 1]
  BY <1>1, <1>4
<1>6. /\ Len(p) + 1 > HistoryLimit => q = Tail(e)
      /\ ~(Len(p) + 1 > HistoryLimit) => q = e
  BY <1>4 DEF Trimmed
<1>7. q \in Seq(S) /\ Len(q) \in Nat
  <2> HIDE DEF q
  <2>1. q = Tail(e) \/ q = e
    BY <1>1, <1>6
  <2> QED  BY <1>4, <1>5, <2>1
<1> HIDE DEF q
<1>8. OnTheLine(l, D, p, n, f)
  BY <1>2, LineIs
<1>9. OnTheLine(k, D, q, a, none)
  BY <1>2, <1>3, <1>7, LineIs
<1> HIDE DEF l, k, none
<1>10. Len(k) = Len(q) + 1 /\ k \in Seq(D) /\ \A i \in 1 .. Len(q) : k[i] = q[i].doc
  BY <1>3, <1>7, <1>9 DEF OnTheLine
<1>11. /\ kept \in Seq(D) /\ Len(kept) = Len(p) + 1
       /\ \A i \in 1 .. Len(p) + 1 : kept[i] = e[i].doc
  <2>1. l \in Seq(D) /\ Len(l) = Len(p) + 1 + Len(f)
    BY <1>8 DEF OnTheLine
  <2>2. Len(p) + 1 \in Int /\ 1 \in Int /\ \A i \in 1 .. Len(p) + 1 : l[i] \in D
    BY <1>1, <2>1
  <2>3. /\ kept \in Seq(D) /\ Len(kept) = Len(p) + 1
        /\ \A i \in 1 .. Len(p) + 1 : kept[i] = l[i]
    BY <1>1, <2>1
  <2>4. \A i \in 1 .. Len(p) + 1 : l[i] = e[i].doc
    <3>1. \A i \in 1 .. Len(p) + 1 : i \in 1 .. Len(p) \/ i = Len(p) + 1
      BY <1>1
    <3>2. \A i \in 1 .. Len(p) : l[i] = e[i].doc
      BY <1>4, <1>8 DEF OnTheLine
    <3>3. l[Len(p) + 1] = e[Len(p) + 1].doc
      BY <1>4, <1>8 DEF OnTheLine
    <3> QED  BY <3>1, <3>2, <3>3
  <2> QED  BY <2>3, <2>4
<1>12. /\ cut \in Seq(D) /\ Len(cut) = Len(q)
       /\ \A i \in 1 .. Len(q) : cut[i] = q[i].doc
  <2>1. Len(q) + 1 - 1 = Len(q)
    BY <1>7
  <2>2. /\ SubSeq(k, 1, Len(q)) \in Seq(D) /\ Len(SubSeq(k, 1, Len(q))) = Len(q)
        /\ \A i \in 1 .. Len(q) : SubSeq(k, 1, Len(q))[i] = k[i]
    BY <1>7, <1>10
  <2> QED  BY <1>10, <2>1, <2>2
<1> HIDE DEF cut, kept
<1>13. CASE Len(p) + 1 > HistoryLimit
  <2>1. /\ Tail(kept) \in Seq(D) /\ Len(Tail(kept)) = Len(p)
        /\ \A i \in 1 .. Len(p) : Tail(kept)[i] = kept[i + 1]
    BY <1>1, <1>11
  <2>2. \A i \in 1 .. Len(p) : i + 1 \in 1 .. Len(p) + 1
    BY <1>1
  <2>3. Len(q) = Len(p) /\ \A i \in 1 .. Len(p) : q[i] = e[i + 1]
    BY <1>5, <1>6, <1>13
  <2>4. \A i \in 1 .. Len(q) : cut[i] = Tail(kept)[i]
    BY <1>11, <1>12, <2>1, <2>2, <2>3
  <2>5. cut = Tail(kept)
    BY <1>12, <2>1, <2>3, <2>4, SeqEqual
  <2> QED  BY <1>10, <1>13, <2>5 DEF cut, kept, k, l, q, e, none
<1>14. CASE ~(Len(p) + 1 > HistoryLimit)
  <2>1. q = e
    BY <1>6, <1>14
  <2>2. \A i \in 1 .. Len(q) : cut[i] = kept[i]
    BY <1>4, <1>11, <1>12, <2>1
  <2>3. cut = kept
    BY <1>4, <1>11, <1>12, <2>1, <2>2, SeqEqual
  <2> QED  BY <1>10, <1>14, <2>3 DEF cut, kept, k, l, q, e, none
<1> QED  BY <1>13, <1>14

\* The steps of the editor as steps of that line.
Line == DocsOf(past) \o <<now.doc>> \o DocsOf(Reverse(future))
At == Len(past) + 1
Moves == [Timeline!Next]_<<Line, At>>

\* A recorded step whatever it does to the document, and one the history does
\* not see.
LEMMA RecordMoves ==
    ASSUME IInv, NEW b, NEW a, b.doc = now.doc, Record(b, a)
    PROVE  Moves
<1> DEFINE S == Range(past) \cup Range(future) \cup {now, a, b}
<1>1. past \in Seq(S) /\ future \in Seq(S) /\ now \in S /\ a \in S /\ b \in S
  <2>1. past \in Seq(Range(past)) /\ future \in Seq(Range(future))
    BY DEF IInv, HistoryOK
  <2> QED  BY <2>1
<1> HIDE DEF S
<1>2. past' = Trimmed(Append(past, b)) /\ future' = <<>> /\ now' = a
  BY DEF Record
<1>3. Line = LineOf(past, now, future) /\ Line' = LineOf(past', now', future')
  BY DEF Line, LineOf
<1>4. /\ Len(Line') = At'
      /\ SubSeq(Line', 1, At' - 1)
           = IF At > HistoryLimit THEN Tail(SubSeq(Line, 1, At)) ELSE SubSeq(Line, 1, At)
  <2> DEFINE line == LineOf(past, now, future)
             at == Len(past) + 1
             q == Trimmed(Append(past, b))
             kept == SubSeq(line, 1, at)
             after == LineOf(q, a, <<>>)
             u == Len(q) + 1
  <2>1. /\ Len(after) = u
        /\ SubSeq(after, 1, u - 1) = IF at > HistoryLimit THEN Tail(kept) ELSE kept
    BY <1>1, EditLine
  <2>2. Line = line /\ Line' = after /\ At = at /\ At' = u
    BY <1>2, <1>3 DEF At
  <2> HIDE DEF line, at, q, after, u
  <2> QED  BY <2>1, <2>2
<1>5. Timeline!Edit
  BY <1>4 DEF Timeline!Edit, Line, At
<1> QED  BY <1>5 DEF Moves, Timeline!Next

LEMMA ShowMoves == ASSUME NEW s, s.doc = now.doc, Show(s) PROVE Moves
BY DEF Show, Moves, Line, At

LEMMA UndoMoves == ASSUME IInv, Undo PROVE Moves
<1> DEFINE S == Range(past) \cup Range(future) \cup {now}
<1>1. past \in Seq(S) /\ future \in Seq(S) /\ now \in S
  <2>1. past \in Seq(Range(past)) /\ future \in Seq(Range(future))
    BY DEF IInv, HistoryOK
  <2> QED  BY <2>1
<1> HIDE DEF S
<1>2. past /= <<>> /\ past' = Front(past) /\ now' = Last(past) /\ future' = Append(future, now)
  BY DEF Undo
<1>3. Line' = LineOf(past', now', future') /\ Line = LineOf(past, now, future)
  BY DEF Line, LineOf
<1>4. Line' = Line
  BY <1>1, <1>2, <1>3, UndoLine
<1>5. Len(past) \in Nat /\ Len(past) >= 1 /\ Len(past') = Len(past) - 1
  <2>1. HistoryOK(past, next)
    BY DEF IInv
  <2>2. Len(past) \in Nat /\ Len(past') = Len(past) - 1
    BY <1>2, <2>1, Popped
  <2>3. Len(past) /= 0
    BY <1>1, <1>2
  <2> QED  BY <2>2, <2>3
<1>6. Timeline!Undo
  BY <1>4, <1>5 DEF Timeline!Undo, Line, At
<1> QED  BY <1>6 DEF Moves, Timeline!Next

LEMMA RedoMoves == ASSUME IInv, Redo PROVE Moves
<1> DEFINE S == Range(past) \cup Range(future) \cup {now}
           D == {s.doc : s \in S}
<1>1. past \in Seq(S) /\ future \in Seq(S) /\ now \in S
  <2>1. past \in Seq(Range(past)) /\ future \in Seq(Range(future))
    BY DEF IInv, HistoryOK
  <2> QED  BY <2>1
<1>0. \A s \in S : s.doc \in D
  OBVIOUS
<1> HIDE DEF S, D
<1>2. future /= <<>> /\ past' = Append(past, now) /\ now' = Last(future) /\ future' = Front(future)
  BY DEF Redo
<1>3. Line' = LineOf(past', now', future') /\ Line = LineOf(past, now, future)
  BY DEF Line, LineOf
<1>4. Line' = Line
  BY <1>1, <1>2, <1>3, RedoLine
<1>5. Len(past) \in Nat /\ Len(future) \in Nat /\ Len(future) >= 1 /\ Len(past') = Len(past) + 1
  BY <1>1, <1>2
<1>6. OnTheLine(Line, D, past, now, future)
  BY <1>0, <1>1, <1>3, LineIs
<1>7. At < Len(Line) /\ At' = At + 1
  BY <1>5, <1>6 DEF At, OnTheLine
<1>8. Timeline!Redo
  BY <1>4, <1>7 DEF Timeline!Redo, Line, At
<1> QED  BY <1>8 DEF Moves, Timeline!Next

\* A line of one document.
LEMMA LineOfOne ==
    ASSUME NEW n
    PROVE  Len(LineOf(<<>>, n, <<>>)) = 1
<1> DEFINE S == {n}
           D == {s.doc : s \in S}
           none == <<>>
<1>1. none \in Seq(S) /\ n \in S /\ Len(none) = 0 /\ \A s \in S : s.doc \in D
  OBVIOUS
<1> HIDE DEF S, D, none
<1>2. OnTheLine(LineOf(none, n, none), D, none, n, none)
  BY <1>1, LineIs
<1> QED  BY <1>1, <1>2 DEF OnTheLine, none

LEMMA ReopenMoves == ASSUME Reopen PROVE Moves
<1>1. past' = <<>> /\ future' = <<>> /\ Line' = LineOf(past', now', future')
  BY DEF Reopen, Line, LineOf
<1>2. Len(Line') = 1 /\ At' = 1
  BY <1>1, LineOfOne DEF At
<1>3. Timeline!Open
  BY <1>2 DEF Timeline!Open, Line, At
<1> QED  BY <1>3 DEF Moves, Timeline!Next

LEMMA InlineMoves ==
    ASSUME IInv, NEW n, InlineNode(n) \/ InlineSubgraph(n)
    PROVE  Moves
<1>1. AtRoot.doc = now.doc
  BY FromNow, AtRootOK
<1>2. (\E a : Record(AtRoot, a)) \/ Show(AtRoot)
  BY DEF InlineNode, InlineSubgraph, InlineInto
<1> QED  BY <1>1, <1>2, RecordMoves, ShowMoves

LEMMA StepMoves == ASSUME IInv, [Next]_vars PROVE Moves
<1>1. CASE \E a : Record(now, a)
  BY <1>1, RecordMoves
<1>2. CASE \E s : s.doc = now.doc /\ Show(s)
  BY <1>2, ShowMoves
<1>3. CASE \E n : InlineNode(n) \/ InlineSubgraph(n)
  BY <1>3, InlineMoves
<1>4. CASE Undo \/ Redo \/ Reopen
  BY <1>4, UndoMoves, RedoMoves, ReopenMoves
<1>5. CASE UNCHANGED <<now, past, future>>
  BY <1>5 DEF Moves, Line, At
<1>6. CASE UNCHANGED vars
  BY <1>5, <1>6 DEF vars
<1>7. CASE AddNode
  BY <1>1, <1>7 DEF AddNode, Redraw
<1>8. CASE \E n \in Ids : RemoveNode(n) \/ InlineNode(n) \/ InlineSubgraph(n)
  BY <1>1, <1>3, <1>8 DEF RemoveNode, Redraw
<1>9. CASE \E m, n \in Ids : AddEdge(m, n) \/ RemoveEdge(<<m, n>>)
  BY <1>1, <1>9 DEF AddEdge, RemoveEdge, Redraw
<1>10. CASE \E c \in Ids, sub \in {None} \cup Ids : PickSubgraph(c, sub)
  BY <1>1, <1>10 DEF PickSubgraph, Redraw
<1>11. CASE Touch \/ ConvertSelectionToSubgraph \/ \E g \in {Root} \cup Ids : SetActiveGraph(g)
  BY <1>1, <1>11 DEF Touch, ConvertSelectionToSubgraph, SetActiveGraph
<1>12. CASE \E S \in SUBSET Ids : Cardinality(S) <= MaxSelected /\ SetSelectedNodes(S)
  <2>1. \A S : View(now.doc, now.active, S).doc = now.doc
    BY DEF View
  <2> QED  BY <1>2, <1>12, <2>1 DEF SetSelectedNodes
<1>13. CASE ClickSave \/ PersistWorkflow \/ Refetch
  BY <1>5, <1>13 DEF ClickSave, PersistWorkflow, Refetch
<1>14. CASE CapturePreview
  BY <1>1, <1>2, <1>14 DEF CapturePreview
<1> QED  BY <1>4, <1>6, <1>7, <1>8, <1>9, <1>10, <1>11, <1>12, <1>13, <1>14 DEF Next

\* Whatever is edited, shown, saved and opened in between: undo and redo move on
\* a line of documents which only a recorded edit changes, by cutting off what
\* lies ahead of it, and only the last HISTORY_LIMIT edits can be taken back
\* (recordHistory, undo and redo in store.ts).
THEOREM HistoryIsALine == Spec => UndoIsATimeline
<1>1. Init => Timeline!Init
  <2> SUFFICES ASSUME Init PROVE Timeline!Init
    OBVIOUS
  <2>1. past = <<>> /\ future = <<>> /\ Line = LineOf(past, now, future)
    BY DEF Init, Line, LineOf
  <2>2. Len(Line) = 1 /\ At = 1
    BY <2>1, LineOfOne DEF At
  <2> QED  BY <2>2 DEF Timeline!Init, Line, At
<1>2. IInv /\ [Next]_vars => [Timeline!Next]_<<Line, At>>
  BY StepMoves DEF Moves
<1> QED  BY <1>1, <1>2, Soundness, PTL DEF Spec, UndoIsATimeline, Timeline!Spec, Line, At

=============================================================================
