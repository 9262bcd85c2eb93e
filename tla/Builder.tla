------------------------------ MODULE Builder ------------------------------
(***************************************************************************)
(* The workflow editor of the dashboard (features/builder): the draft of a *)
(* workflow with its subgraphs, the graph on the canvas and the selection, *)
(* the undo history, and saving and opening the workflow.                  *)
(*                                                                         *)
(* A graph is its nodes, its edges as pairs of nodes (ports are left out,  *)
(* so parallel edges are one edge) and, for its containers, the subgraph   *)
(* each of them opens, or None. Labels, parameters, positions and run      *)
(* states of nodes are left out; so is `dependencies', a copy of the edges *)
(* that nothing reads. The editor keeps every subgraph twice: as a draft   *)
(* that is edited (subgraphDrafts, here subs) and in the list that came    *)
(* with the workflow (workflow.subgraphs, here listed), which is what a    *)
(* save sends.                                                             *)
(***************************************************************************)
EXTENDS Naturals, Sequences, FiniteSets, SequencesExt, Functions

CONSTANTS Documents,     \* the stored workflows the editor may be opened on
          HistoryLimit,  \* how many edits can be undone
          FirstId,       \* the first id generateId returns; smaller ones occur in Documents
          MaxId,         \* bound: the last id generateId returns
          MaxWork,       \* bound: recorded edits and saves, a last save not counted
          MaxSelected    \* bound: nodes selected at once by hand

Root == 0  \* the scope of the root graph
None == 0  \* a container without a subgraph

ASSUME HistoryLimitAssumption == HistoryLimit \in Nat \ {0}
ASSUME IdsAssumption == FirstId \in Nat \ {0} /\ MaxId \in Nat /\ FirstId <= MaxId + 1
ASSUME MaxWorkAssumption == MaxWork \in Nat

\* A stored workflow: a root graph and subgraphs by their ids, with edges and
\* containers at nodes of their own graph, in ids handed out before.
IsGraph(g) ==
    /\ g = [nodes |-> g.nodes, edges |-> g.edges, opens |-> g.opens]
    /\ g.opens = [c \in DOMAIN g.opens |-> g.opens[c]]
    /\ g.edges \subseteq g.nodes \X g.nodes
    /\ DOMAIN g.opens \subseteq g.nodes
ASSUME DocumentsAssumption ==
    \A w \in Documents :
        /\ w = [root |-> w.root, subs |-> w.subs]
        /\ w.subs = [x \in DOMAIN w.subs |-> w.subs[x]]
        /\ DOMAIN w.subs \subseteq 1 .. FirstId - 1
        /\ \A g \in {w.root} \cup Range(w.subs) :
              /\ IsGraph(g)
              /\ g.nodes \subseteq 1 .. FirstId - 1
              /\ Range(g.opens) \subseteq 0 .. FirstId - 1

VARIABLES now,      \* what the store holds: document, graph shown, selection
          past,     \* history.past
          future,   \* history.future
          next,     \* the id generateId returns next
          work,     \* recorded edits and saves so far
          stored,   \* the workflow record of the scheduler
          cache,    \* workflowsSlice.byId: the record as last fetched
          saving,   \* the save in progress
          flaws     \* history: what may not fit together, see Missing, Shared, InlineInto

Stores == <<stored, cache, saving>>

vars == <<now, past, future, next, work, Stores, flaws>>

Idle == [stage |-> "idle"]  \* no save in progress

Without(f, S) == Restrict(f, DOMAIN f \ S)
With(f, x, v) == [y \in DOMAIN f \cup {x} |-> IF y = x THEN v ELSE f[y]]
Joined(f, g) == [x \in DOMAIN f \cup DOMAIN g |-> IF x \in DOMAIN g THEN g[x] ELSE f[x]]

(***************************************************************************)
(* Graphs and documents.                                                   *)
(***************************************************************************)
Graph(nodes, edges, opens) == [nodes |-> nodes, edges |-> edges, opens |-> opens]

\* A document with the graph shown of it and the selected nodes.
View(doc, active, selected) == [doc |-> doc, active |-> active, selected |-> selected]

Graphs(w) == {w.root} \cup Range(w.subs)

\* The subgraphs that containers of a workflow open and it has not, and the
\* nodes that two of its graphs have: the scheduler refuses neither.
Missing(w) == (UNION {Range(g.opens) : g \in Graphs(w)}) \ ({None} \cup DOMAIN w.subs)
Others(subs, x) == UNION {subs[y].nodes : y \in DOMAIN subs \ {x}}
Shared(w) ==
    UNION {w.subs[x].nodes \cap (w.root.nodes \cup Others(w.subs, x)) : x \in DOMAIN w.subs}

\* A workflow as it is loaded: every subgraph is copied into a draft.
Opened(w) ==
    View([root |-> w.root, subs |-> w.subs, listed |-> w.subs, drafts |-> {}], Root, {})

Shown(s) == IF s.active = Root THEN s.doc.root ELSE s.doc.subs[s.active]

\* The document with the graph on the canvas replaced.
Redrawn(s, g) ==
    IF s.active = Root THEN [s.doc EXCEPT !.root = g]
                       ELSE [s.doc EXCEPT !.subs[s.active] = g]

CutNodesOnly(g, S) ==
    [nodes |-> g.nodes \ S, edges |-> g.edges, opens |-> Without(g.opens, S)]

\* A graph without some of its nodes and the edges at them.
Cut(g, S) ==
    [nodes |-> g.nodes \ S,
     edges |-> {e \in g.edges : e[1] \notin S /\ e[2] \notin S},
     opens |-> Without(g.opens, S)]

\* The part of a graph that lies inside a selection.
Inner(g, S) ==
    [nodes |-> g.nodes \cap S,
     edges |-> {e \in g.edges : e[1] \in S /\ e[2] \in S},
     opens |-> Restrict(g.opens, DOMAIN g.opens \cap S)]

\* The graph in which container c stands for a selection.
Collapsed(g, S, c, sub) ==
    LET rest == Cut(g, S)
    IN  [nodes |-> rest.nodes \cup {c},
         edges |-> rest.edges
                     \cup {<<e[1], c>> : e \in {x \in g.edges : x[1] \notin S /\ x[2] \in S}}
                     \cup {<<c, e[2]>> : e \in {x \in g.edges : x[1] \in S /\ x[2] \notin S}},
         opens |-> With(rest.opens, c, sub)]

\* Two graphs side by side.
Union(g, h) ==
    Graph(g.nodes \cup h.nodes, g.edges \cup h.edges, Joined(g.opens, h.opens))

\* The graph with its nodes renamed.
RenamedBy(g, f) ==
    [nodes |-> {f[n] : n \in g.nodes},
     edges |-> {<<f[e[1]], f[e[2]]>> : e \in g.edges},
     opens |-> [m \in {f[n] : n \in DOMAIN g.opens} |->
                  g.opens[CHOOSE n \in DOMAIN g.opens : f[n] = m]]]

\* The ids for the nodes of a subgraph that is inlined: new ones for those the
\* target uses already.
NewNames(g, used) ==
    [n \in g.nodes |->
       IF n \in used THEN next - 1 + Cardinality({m \in g.nodes \cap used : m <= n})
                     ELSE n]

(***************************************************************************)
(* The undo history.                                                       *)
(***************************************************************************)
Untrimmed(h) == h

Trimmed(h) == IF Len(h) > HistoryLimit THEN Tail(h) ELSE h

RecordKeepingFuture(before, after) ==
    /\ work < MaxWork
    /\ work' = work + 1
    /\ past' = Trimmed(Append(past, before))
    /\ future' = future
    /\ now' = after

\* recordHistory(before), then the edit.
Record(before, after) ==
    /\ work < MaxWork
    /\ work' = work + 1
    /\ past' = Trimmed(Append(past, before))
    /\ future' = <<>>
    /\ now' = after

\* A change that the history does not see.
Show(s) == now' = s /\ UNCHANGED <<past, future, work>>

Undo ==
    /\ past /= <<>>
    /\ future' = Append(future, now)
    /\ now' = Last(past)
    /\ past' = Front(past)
    /\ UNCHANGED <<next, work, Stores, flaws>>

Redo ==
    /\ future /= <<>>
    /\ past' = Append(past, now)
    /\ now' = Last(future)
    /\ future' = Front(future)
    /\ UNCHANGED <<next, work, Stores, flaws>>

(***************************************************************************)
(* Editing the graph on the canvas.                                        *)
(***************************************************************************)
Elsewhere == UNCHANGED <<Stores, flaws>>

\* A recorded edit of the graph on the canvas.
Redraw(g, selected) == Record(now, View(Redrawn(now, g), now.active, selected))

\* addNodeFromTemplate; a new container opens no subgraph yet.
AddNode ==
    /\ next <= MaxId
    /\ LET g == Shown(now)
       IN  \E f \in {g.opens, With(g.opens, next, None)} :
              Redraw(Graph(g.nodes \cup {next}, g.edges, f), {next})
    /\ next' = next + 1
    /\ Elsewhere

RemoveNode(n) ==
    /\ n \in Shown(now).nodes
    /\ Redraw(Cut(Shown(now), {n}), now.selected \ {n})
    /\ next' = next
    /\ Elsewhere

\* onConnect, addEdge
AddEdge(m, n) ==
    /\ {m, n} \subseteq Shown(now).nodes
    /\ LET g == Shown(now)
       IN  Redraw(Graph(g.nodes, g.edges \cup {<<m, n>>}, g.opens), now.selected)
    /\ next' = next
    /\ Elsewhere

RemoveEdge(e) ==
    /\ e \in Shown(now).edges
    /\ LET g == Shown(now)
       IN  Redraw(Graph(g.nodes, g.edges \ {e}, g.opens), now.selected)
    /\ next' = next
    /\ Elsewhere

\* The subgraph picker of a container, which offers every subgraph.
PickSubgraph(c, sub) ==
    /\ c \in DOMAIN Shown(now).opens
    /\ sub \in {None} \cup DOMAIN now.doc.subs
    /\ LET g == Shown(now)
       IN  Redraw(Graph(g.nodes, g.edges, With(g.opens, c, sub)), now.selected)
    /\ next' = next
    /\ Elsewhere

\* Edits of what is left out here (a node's label, parameters or position, the
\* workflow's name) and edits that find nothing to change are recorded too.
Touch ==
    /\ Record(now, now)
    /\ next' = next
    /\ Elsewhere

SetSelectedNodes(S) ==
    /\ S \subseteq Shown(now).nodes
    /\ Show(View(now.doc, now.active, S))
    /\ next' = next
    /\ Elsewhere

(***************************************************************************)
(* Subgraphs.                                                              *)
(***************************************************************************)
SwitchedKeepingSelection(s, g) == View(s.doc, g, s.selected)

SwitchedTo(s, g) == View(s.doc, g, {})

\* The graph switcher and the jump button of a container.
SetActiveGraph(g) ==
    /\ g \in {Root} \cup DOMAIN now.doc.subs
    /\ Record(now, SwitchedTo(now, g))
    /\ next' = next
    /\ Elsewhere

Converted(s, sub, c) ==
    LET g == Shown(s)
        inner == Inner(g, s.selected)
        d == Redrawn(s, Collapsed(g, s.selected, c, sub))
    IN  View([root |-> d.root,
              subs |-> With(d.subs, sub, inner),
              listed |-> With(d.listed, sub, inner),
              drafts |-> d.drafts \cup {sub}], s.active, {c})

ConvertSelectionToSubgraph ==
    /\ next + 1 <= MaxId
    /\ now.selected /= {}
    /\ Record(now, Converted(now, next, next + 1))
    /\ next' = next + 2
    /\ Elsewhere

InlinedBesideContainer(s, c) ==
    LET sub == s.doc.root.opens[c]
        g == s.doc.subs[sub]
        body == RenamedBy(g, NewNames(g, s.doc.root.nodes))
    IN  View([root |-> Union(s.doc.root, body),
              subs |-> Without(s.doc.subs, {sub}),
              listed |-> Without(s.doc.listed, {sub}),
              drafts |-> s.doc.drafts \ {sub}], s.active, body.nodes)

\* The subgraph's nodes take the place of container c of the root graph.
Inlined(s, c) ==
    LET sub == s.doc.root.opens[c]
        g == s.doc.subs[sub]
        body == RenamedBy(g, NewNames(g, s.doc.root.nodes))
        rest == Cut(s.doc.root, {c})
    IN  View([root |-> Union(rest, body),
              subs |-> Without(s.doc.subs, {sub}),
              listed |-> Without(s.doc.listed, {sub}),
              drafts |-> s.doc.drafts \ {sub}], s.active, body.nodes)

Clashes(s, c) == Cardinality(s.doc.subs[s.doc.root.opens[c]].nodes \cap s.doc.root.nodes)

\* The root graph, where every inlining takes place.
AtRoot == IF now.active = Root THEN now ELSE SwitchedTo(now, Root)

\* The subgraph of container c is opened by another container, in the drafts or
\* in the list that a save sends.
OpenedElsewhere(d, c) ==
    LET sub == d.root.opens[c]
    IN  \/ \E k \in DOMAIN d.root.opens \ {c} : d.root.opens[k] = sub
        \/ \E x \in DOMAIN d.subs : sub \in Range(d.subs[x].opens)
        \/ \E x \in DOMAIN d.listed \ {sub} : sub \in Range(d.listed[x].opens)

\* The nodes of the subgraph of container c that the list still has elsewhere.
ListedElsewhere(d, c) ==
    d.subs[d.root.opens[c]].nodes \cap Others(d.listed, d.root.opens[c])

InlineInto(s, c) ==
    /\ next + Clashes(s, c) \in next .. MaxId + 1
    /\ Record(s, Inlined(s, c))
    /\ next' = next + Clashes(s, c)
    /\ flaws' = [lost |-> flaws.lost \cup {x \in {s.doc.root.opens[c]} : OpenedElsewhere(s.doc, c)},
                 twice |-> flaws.twice \cup ListedElsewhere(s.doc, c)]

\* The inspector's button.  A container of a subgraph is not found in the root
\* graph, so there only the view changes.
InlineNode(c) ==
    /\ c \in DOMAIN Shown(now).opens
    /\ Shown(now).opens[c] /= None
    /\ LET s == AtRoot
       IN  IF c \in DOMAIN s.doc.root.opens /\ s.doc.root.opens[c] \in DOMAIN s.doc.subs
             THEN InlineInto(s, c)
             ELSE Show(s) /\ UNCHANGED <<next, flaws>>
    /\ UNCHANGED Stores

\* The switcher's button, which wants exactly one container of the root graph.
InlineSubgraph(sub) ==
    /\ sub \in DOMAIN now.doc.subs
    /\ LET s == AtRoot
           by == {c \in DOMAIN s.doc.root.opens : s.doc.root.opens[c] = sub}
       IN  IF Cardinality(by) = 1
             THEN \E c \in by : InlineInto(s, c)
             ELSE Show(s) /\ UNCHANGED <<next, flaws>>
    /\ UNCHANGED Stores

(***************************************************************************)
(* Saving and opening.                                                     *)
(***************************************************************************)
\* handleSaveWorkflow takes the workflow of the click, and its list of
\* subgraphs, and first draws a preview.
ClickSave ==
    /\ saving = Idle
    /\ work <= MaxWork
    /\ work' = work + 1
    /\ saving' = [stage |-> "preview", root |-> now.doc.root, subs |-> now.doc.listed,
                  drafts |-> now.doc.drafts]
    /\ UNCHANGED <<now, past, future, next, stored, cache, flaws>>

CapturePreview ==
    /\ saving.stage = "preview"
    /\ saving' = [saving EXCEPT !.stage = "persist"]
    /\ Record(now, now) \/ Show(now)
    /\ UNCHANGED <<next, stored, cache, flaws>>

AcceptableAsDraft(w) == w.root.nodes /= {} /\ \A s \in DOMAIN w.subs : w.subs[s].nodes /= {}

\* The scheduler's models refuse a workflow without nodes, and subgraphs in the
\* shape of a draft.
Acceptable(w) == w.root.nodes /= {} /\ w.drafts = {} /\ \A s \in DOMAIN w.subs : w.subs[s].nodes /= {}

PersistWorkflow ==
    /\ saving.stage = "persist"
    /\ stored' = IF Acceptable(saving) THEN [root |-> saving.root, subs |-> saving.subs]
                                       ELSE stored
    /\ saving' = Idle
    /\ UNCHANGED <<now, past, future, next, work, cache, flaws>>

\* A refetch; an open editor takes only run states from it.
Refetch ==
    /\ cache' = stored
    /\ UNCHANGED <<now, past, future, next, work, stored, saving, flaws>>

\* Leaving the page and coming back: resetWorkflow, then loadWorkflow.
Reopen ==
    /\ now' = Opened(cache)
    /\ past' = <<>>
    /\ future' = <<>>
    /\ UNCHANGED <<next, work, Stores, flaws>>

Init ==
    \E w \in Documents :
        /\ stored = w
        /\ cache = w
        /\ now = Opened(w)
        /\ past = <<>>
        /\ future = <<>>
        /\ next = FirstId
        /\ work = 0
        /\ saving = Idle
        /\ flaws = [lost |-> Missing(w), twice |-> Shared(w)]

Ids == 1 .. MaxId

Next ==
    \/ AddNode
    \/ \E n \in Ids : RemoveNode(n) \/ InlineNode(n) \/ InlineSubgraph(n)
    \/ \E m, n \in Ids : AddEdge(m, n) \/ RemoveEdge(<<m, n>>)
    \/ \E c \in Ids, sub \in {None} \cup Ids : PickSubgraph(c, sub)
    \/ Touch
    \/ \E S \in SUBSET Ids : Cardinality(S) <= MaxSelected /\ SetSelectedNodes(S)
    \/ \E g \in {Root} \cup Ids : SetActiveGraph(g)
    \/ ConvertSelectionToSubgraph
    \/ Undo \/ Redo
    \/ ClickSave \/ CapturePreview \/ PersistWorkflow \/ Refetch \/ Reopen

Spec == Init /\ [][Next]_vars

(***************************************************************************)
(* Properties.                                                             *)
(***************************************************************************)
Snapshots == {now} \cup Range(past) \cup Range(future)
Workflows == {s.doc : s \in Snapshots} \cup {stored, cache}

GraphOK(g) ==
    /\ g.nodes \subseteq Ids
    /\ g.edges \subseteq Ids \X Ids
    /\ g.opens \in [DOMAIN g.opens -> {None} \cup Ids]

SnapshotOK(s) ==
    /\ s.active \in {Root} \cup Ids
    /\ s.selected \subseteq Ids
    /\ GraphOK(s.doc.root)
    /\ \A x \in DOMAIN s.doc.subs : x \in Ids /\ GraphOK(s.doc.subs[x])
    /\ \A x \in DOMAIN s.doc.listed : x \in Ids /\ GraphOK(s.doc.listed[x])
    /\ s.doc.drafts \subseteq DOMAIN s.doc.listed

\* Every snapshot is a document with a view on it, and the history never holds
\* more than HISTORY_LIMIT of them, past and future together.
TypeOK ==
    /\ \A s \in Snapshots : SnapshotOK(s)
    /\ Len(past) + Len(future) <= HistoryLimit
    /\ next \in FirstId .. MaxId + 1
    /\ work \in 0 .. MaxWork + 1
    /\ saving.stage \in {"idle", "preview", "persist"}

\* In the document, in every snapshot undo can bring back and in what is
\* stored, edges and containers are those of nodes of their own graph: no
\* sequence of removals, conversions, inlinings and undos leaves one behind.
EdgesConnect == \A w \in Workflows : \A g \in Graphs(w) :
        g.edges \subseteq g.nodes \X g.nodes /\ DOMAIN g.opens \subseteq g.nodes

\* A container opens a subgraph of its workflow, in the document, in every
\* snapshot and in what is stored, unless it opened none when the workflow was
\* opened or the subgraph was inlined while two containers opened it: in the
\* drafts (store.ts inlineSubgraphIntoActiveGraph takes the subgraph from all),
\* or in the list, in which a save brings back a container removed meanwhile.
ContainersResolve ==
    \A w \in Workflows : \A g \in Graphs(w) :
        Range(g.opens) \subseteq {None} \cup DOMAIN w.subs \cup flaws.lost

\* The graphs have no nodes in common but those of T.
Apart(root, subs, T) ==
    /\ \A x \in DOMAIN subs : root.nodes \cap subs[x].nodes \subseteq T
    /\ \A x, y \in DOMAIN subs : x /= y => subs[x].nodes \cap subs[y].nodes \subseteq T

\* A node id occurs in one graph only, as the engine expects that finds nodes
\* by their ids alone, in the document, in every snapshot and in what is
\* stored, although a save mixes the root graph of today with the subgraphs of
\* the last load: unless the workflow came with it twice, or it was converted
\* out of a subgraph, which the list does not see, and then inlined.
NodesAreOnce == \A w \in Workflows : Apart(w.root, w.subs, flaws.twice)

\* Containers and subgraphs fit together: what is opened is there, and no node
\* is in two graphs.
SubgraphsCoherent == ContainersResolve /\ NodesAreOnce

\* What the canvas shows exists: the active graph is loaded and the selected
\* nodes are nodes of it, now and after any undo or redo, so that no operation
\* meets "Subgraph not loaded" or acts on nodes out of sight.
ViewIsShown ==
    \A s \in Snapshots :
        /\ s.active \in {Root} \cup DOMAIN s.doc.subs
        /\ s.selected \subseteq Shown(s).nodes

\* The documents of the history, oldest first, form a line along which undo and
\* redo only move: nothing but an edit changes a document, and undo takes back
\* exactly one recorded edit.
DocsOf(h) == [i \in DOMAIN h |-> h[i].doc]
Timeline ==
    INSTANCE EditTimeline WITH
        Limit <- HistoryLimit,
        line <- DocsOf(past) \o <<now.doc>> \o DocsOf(Reverse(future)),
        at <- Len(past) + 1
UndoIsATimeline == Timeline!Spec
=============================================================================
