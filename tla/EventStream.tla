----------------------------- MODULE EventStream -----------------------------
(***************************************************************************)
(* The event stream that keeps the dashboard's view of the runs up to date: *)
(* the run state service changes a run and then publishes the events of the *)
(* change; the publisher numbers them, keeps the last ones for replay and   *)
(* queues them for the connected dashboard; the dashboard applies them to   *)
(* its store, next to the answers of the requests it makes itself.  The     *)
(* connection may drop at any time, and the scheduler may be restarted,     *)
(* which forgets runs, events and numbers.                                  *)
(***************************************************************************)
EXTENDS Integers, Sequences, FiniteSets, SequencesExt

CONSTANTS
  Runs,         \* the runs of a tenant
  Own,          \* those started by the dashboard's session
  NoRun,        \* the scope of an event about a worker
  Capacity,     \* events the store keeps for replay
  MaxChanges,   \* bound: changes of a run of this session
  MaxNoise,     \* bound: changes of other runs and events about workers
  Faults,       \* the kinds of fault a behaviour may have
  MaxFaults     \* bound: their number

FaultKinds == {"drop", "restart", "stale_answer", "late_cancel"}

ASSUME EventStreamAssumption ==
  /\ Own \subseteq Runs /\ NoRun \notin Runs
  /\ Capacity \in Nat \ {0} /\ MaxChanges \in Nat /\ MaxNoise \in Nat
  /\ Faults \subseteq FaultKinds /\ MaxFaults \in Nat

VARIABLES
  run,       \* the scheduler's record of each run: its status, and its version
  outbox,    \* changes whose events are still to be published
  buffer,    \* the events kept for replay, oldest first
  counter,   \* the last id given out
  conn,      \* the dashboard's connection: what is on its way, and the oldest
             \* id the store held when it was opened
  shown,     \* the dashboard's record of each run, with the log chunks it shows
  mark,      \* when the newest run.status applied so far was published
  answer,    \* the answer on its way to a request of the dashboard, per run
  lastId,    \* the last id received, if the client keeps it
  keepsId,   \* whether it does, and presents it when it reconnects
  restarted, \* history: the scheduler was restarted, and numbers from 1 again
  noise,     \* changes of other runs and events about workers so far
  news,      \* history: the events that carry the newest record, per run
  faults     \* faults so far

vars == <<run, outbox, buffer, counter, conn, shown, mark, answer, lastId,
          keepsId, restarted, noise, news, faults>>

\* A run is never skipped: refresh_rollup counts skipped nodes as succeeded.
Final == {"succeeded", "failed", "cancelled"}
Known == {"queued", "running"} \cup Final

Fault(kind) ==
  /\ kind \in Faults /\ faults < MaxFaults
  /\ faults' = faults + 1

-----------------------------------------------------------------------------
(* The events of a change, in the order they are published.  An event about *)
(* a run carries the run's record as it was when the change was made.       *)

Event(kind, r, record) ==
  [kind |-> kind, run |-> r, status |-> record.status, ver |-> record.ver]

RunState(r, record) ==
  <<Event("status", r, record), Event("snapshot", r, record)>>

NodeState(r, before, record) ==
  IF before.status # record.status THEN RunState(r, record)
  ELSE <<Event("snapshot", r, record)>>

RecordResult(r, before, record) ==
  <<Event("result", r, record)>> \o NodeState(r, before, record)

Feedback(r, record) ==
  <<Event("result", r, record), Event("chunk", r, record)>>

-----------------------------------------------------------------------------
(* The store and the publisher.                                             *)

Numbered(batch) == [i \in DOMAIN batch |->
  [kind |-> batch[i].kind, run |-> batch[i].run, status |-> batch[i].status,
   ver |-> batch[i].ver, id |-> counter + i]]

TrimmedLate(events) ==   \* mutant: one event too many is kept
  SubSeq(events, IF Len(events) > Capacity + 1 THEN Len(events) - Capacity ELSE 1,
         Len(events))

Trimmed(events) ==
  SubSeq(events, IF Len(events) > Capacity THEN Len(events) - Capacity + 1 ELSE 1,
         Len(events))

Holds(last) == \E i \in DOMAIN buffer : buffer[i].id = last

Place(last) == CHOOSE i \in DOMAIN buffer : buffer[i].id = last

ReplayKnownOnly(last) ==   \* mutant: only an id the store holds is resumed
  IF Holds(last) THEN SubSeq(buffer, Place(last) + 1, Len(buffer)) ELSE <<>>

ReplayFromLast(last) ==   \* mutant: the event with that id is sent again
  IF Holds(last) THEN SubSeq(buffer, Place(last), Len(buffer)) ELSE buffer

\* No id, or one the store does not hold, gets everything it still holds.
Replay(last) ==
  IF Holds(last) THEN SubSeq(buffer, Place(last) + 1, Len(buffer)) ELSE buffer

\* What a connection is sent: all of a change or nothing, since its events are
\* about one run.
Matches(event) == event.run \in Own \cup {NoRun}

Scoped(batch) == IF Matches(Head(batch)) THEN batch ELSE <<>>

Oldest == IF buffer = <<>> THEN counter + 1 ELSE Head(buffer).id

-----------------------------------------------------------------------------
(* The dashboard's store.                                                   *)

Unknown == [status |-> "unknown", ver |-> 0, log |-> <<>>]

\* A record without nodes ignores the events about its nodes.
HasNodes(view) == view.ver > 0

UpdateStatus(view, event) == [view EXCEPT !.status = event.status]

MergeSnapshot(event) ==
  [status |-> event.status, ver |-> event.ver, log |-> <<>>]

UpdateNode(view, event) ==
  IF HasNodes(view) THEN [view EXCEPT !.ver = event.ver, !.log = <<>>] ELSE view

ApplyDelta(view, event) ==
  IF HasNodes(view) THEN [view EXCEPT !.log = Append(@, event.ver)] ELSE view

Late(event) == event.id < mark[event.run]

Applied(event) ==
  LET view == shown[event.run]
  IN  CASE event.kind = "status" ->
             IF Late(event) THEN view ELSE UpdateStatus(view, event)
        [] event.kind = "snapshot" -> MergeSnapshot(event)
        [] event.kind = "result" -> UpdateNode(view, event)
        [] event.kind = "chunk" -> ApplyDelta(view, event)

Answered(view, reply) ==
  CASE reply.kind = "get" ->
         [status |-> reply.status, ver |-> reply.ver, log |-> <<>>]
    [] reply.kind = "start" -> [status |-> reply.status, ver |-> 0, log |-> <<>>]
    [] reply.kind = "cancel" ->
         IF view.status = "unknown" THEN view ELSE [view EXCEPT !.status = "cancelled"]

NoAnswer == [kind |-> "none", status |-> "unknown", ver |-> 0, over |-> FALSE]

\* "over": an event that is newer than the answer has come before it (history).
Reply(kind, record) ==
  [kind |-> kind, status |-> record.status, ver |-> record.ver, over |-> FALSE]

Overtakes(event, reply) ==
  \/ reply.kind = "get" /\ event.ver > reply.ver
  \/ reply.kind = "start"

-----------------------------------------------------------------------------
NoConn == [open |-> FALSE, stream |-> <<>>, from |-> 0]

Init ==
  /\ run = [r \in Runs |-> [status |-> "none", ver |-> 0]]
  /\ outbox = <<>> /\ buffer = <<>> /\ counter = 0
  /\ conn = NoConn
  /\ shown = [r \in Runs |-> Unknown]
  /\ mark = [r \in Runs |-> 0]
  /\ answer = [r \in Runs |-> NoAnswer]
  /\ lastId = 0 /\ keepsId \in BOOLEAN /\ restarted = FALSE
  /\ noise = 0 /\ faults = 0
  /\ news = [r \in Runs |-> [run |-> 0, node |-> 0, chunk |-> FALSE]]

-----------------------------------------------------------------------------
(* The run state service: change a record under its lock, then publish.     *)

MayChange(r) == IF r \in Own THEN run[r].ver < MaxChanges ELSE noise < MaxNoise

Change(r, status, batch) ==
  /\ run' = [run EXCEPT ![r] = [status |-> status, ver |-> @.ver + 1]]
  /\ outbox' = Append(outbox, batch)
  /\ noise' = IF r \in Own THEN noise ELSE noise + 1
  /\ UNCHANGED <<buffer, counter, conn, shown, mark, lastId, keepsId, restarted, news>>

Next1(r, status) == [status |-> status, ver |-> run[r].ver + 1]

StartRun(r) ==
  /\ run[r].status = "none" /\ MayChange(r)
  /\ Change(r, "queued", RunState(r, Next1(r, "queued")))
  /\ answer' = IF r \in Own THEN [answer EXCEPT ![r] = Reply("start", Next1(r, "queued"))]
               ELSE answer
  /\ UNCHANGED faults

\* A node is dispatched, acknowledged or reset.
NodeMoves(r) ==
  /\ run[r].status \in {"queued", "running"} /\ MayChange(r)
  /\ Change(r, "running", NodeState(r, run[r], Next1(r, "running")))
  /\ UNCHANGED <<answer, faults>>

ResultRecorded(r) ==
  /\ run[r].status = "running" /\ MayChange(r)
  /\ \E status \in {"running", "succeeded", "failed"} :
       Change(r, status, RecordResult(r, run[r], Next1(r, status)))
  /\ UNCHANGED <<answer, faults>>

\* Feedback is recorded whatever the status of the run.
FeedbackRecorded(r) ==
  /\ run[r].status \in {"running"} \cup Final /\ MayChange(r)
  /\ Change(r, run[r].status, Feedback(r, Next1(r, run[r].status)))
  /\ UNCHANGED <<answer, faults>>

\* Cancelling a run that is over changes nothing and is answered all the same.
CancelRun(r) ==
  /\ r \in Own /\ answer[r] = NoAnswer
  /\ \/ /\ run[r].status \in {"queued", "running"} /\ MayChange(r)
        /\ Change(r, "cancelled", RunState(r, Next1(r, "cancelled")))
        /\ answer' = [answer EXCEPT ![r] = Reply("cancel", Next1(r, "cancelled"))]
        /\ UNCHANGED faults
     \/ /\ run[r].status \in Final
        /\ IF run[r].status = "cancelled" THEN UNCHANGED faults ELSE Fault("late_cancel")
        /\ answer' = [answer EXCEPT ![r] = Reply("cancel", run[r])]
        /\ UNCHANGED <<run, outbox, buffer, counter, conn, shown, mark, lastId,
                       keepsId, restarted, noise, news>>

WorkerEvent ==
  /\ noise < MaxNoise
  /\ noise' = noise + 1
  /\ outbox' = Append(outbox, <<Event("worker", NoRun, [status |-> "none", ver |-> 0])>>)
  /\ UNCHANGED <<run, buffer, counter, conn, shown, mark, answer, lastId, keepsId, restarted,
                 news, faults>>

\* What a published change told about its run: the event that carries all of
\* the run's record, the one that carries its node's, and whether a chunk of the
\* node's log came last.
Told(old, batch) ==
  IF Last(batch).kind = "snapshot"
  THEN [run |-> Last(batch).id, node |-> Last(batch).id, chunk |-> FALSE]
  ELSE [run |-> old.run, node |-> Head(batch).id, chunk |-> TRUE]

Publish ==
  /\ outbox # <<>>
  /\ LET batch == Numbered(Head(outbox))
     IN  /\ buffer' = Trimmed(buffer \o batch)
         /\ counter' = counter + Len(batch)
         /\ conn' = IF conn.open
                    THEN [conn EXCEPT !.stream = @ \o Scoped(batch)]
                    ELSE conn
         /\ news' = IF Head(batch).run = NoRun THEN news
                    ELSE [news EXCEPT ![Head(batch).run] = Told(@, batch)]
  /\ outbox' = Tail(outbox)
  /\ UNCHANGED <<run, shown, mark, answer, lastId, keepsId, restarted, noise, faults>>

\* A restart of the scheduler: its memory is gone, and so is the connection.
Restart ==
  /\ Fault("restart")
  /\ run' = [r \in Runs |-> IF run[r].status = "none" THEN run[r]
                            ELSE [status |-> "lost", ver |-> run[r].ver]]
  /\ outbox' = <<>> /\ buffer' = <<>> /\ counter' = 0
  /\ conn' = NoConn
  /\ answer' = [r \in Runs |-> NoAnswer]
  /\ news' = [r \in Runs |-> [run |-> 0, node |-> 0, chunk |-> FALSE]]
  /\ restarted' = TRUE
  /\ UNCHANGED <<shown, mark, lastId, keepsId, noise>>

-----------------------------------------------------------------------------
(* The dashboard.                                                           *)

CanConnect == ~conn.open

\* The replay is taken and the connection registered in one stretch.
Connect ==
  /\ CanConnect
  /\ conn' = [open |-> TRUE, from |-> Oldest,
              stream |-> Replay(lastId)]
  /\ UNCHANGED <<run, outbox, buffer, counter, shown, mark, answer, lastId, keepsId, restarted,
                 noise, news, faults>>

Drop ==
  /\ conn.open
  /\ Fault("drop")
  /\ conn' = NoConn
  /\ UNCHANGED <<run, outbox, buffer, counter, shown, mark, answer, lastId, keepsId, restarted,
                 noise, news>>

Receive ==
  /\ conn.stream # <<>>
  /\ LET event == Head(conn.stream)
     IN  /\ lastId' = IF keepsId THEN event.id ELSE lastId
         /\ IF event.kind = "worker" THEN UNCHANGED <<shown, mark, answer>>
            ELSE /\ shown' = [shown EXCEPT ![event.run] = Applied(event)]
                 /\ mark' = IF event.kind = "status" /\ ~Late(event)
                            THEN [mark EXCEPT ![event.run] = event.id] ELSE mark
                 /\ answer' = [answer EXCEPT ![event.run].over =
                                 @ \/ Overtakes(event, answer[event.run])]
  /\ conn' = [conn EXCEPT !.stream = Tail(@)]
  /\ UNCHANGED <<run, outbox, buffer, counter, keepsId, restarted, noise, news, faults>>

Ask(r) ==
  /\ r \in Own /\ answer[r] = NoAnswer /\ run[r].status \in Known
  /\ answer' = [answer EXCEPT ![r] = Reply("get", run[r])]
  /\ UNCHANGED <<run, outbox, buffer, counter, conn, shown, mark, lastId, keepsId, restarted,
                 noise, news, faults>>

AnswerArrives(r) ==
  /\ answer[r] # NoAnswer
  /\ IF answer[r].over THEN Fault("stale_answer") ELSE UNCHANGED faults
  /\ shown' = [shown EXCEPT ![r] = Answered(@, answer[r])]
  /\ answer' = [answer EXCEPT ![r] = NoAnswer]
  /\ UNCHANGED <<run, outbox, buffer, counter, conn, mark, lastId, keepsId, restarted, noise, news>>

-----------------------------------------------------------------------------
Scheduler ==
  \/ \E r \in Runs : \/ StartRun(r) \/ NodeMoves(r) \/ ResultRecorded(r)
                     \/ FeedbackRecorded(r) \/ CancelRun(r)
  \/ WorkerEvent \/ Publish \/ Restart

Dashboard ==
  \/ Connect \/ Drop \/ Receive
  \/ \E r \in Runs : Ask(r) \/ AnswerArrives(r)

Next == Scheduler \/ Dashboard

Spec == Init /\ [][Next]_vars

\* The loop publishes what it changed; the client's timer reconnects, and the
\* browser reads what arrives.
FairSpec == Spec /\ WF_vars(Publish) /\ WF_vars(Connect) /\ WF_vars(Receive)

-----------------------------------------------------------------------------
Statuses == {"none", "lost"} \cup Known

EventOK(e) ==
  /\ e.kind \in {"status", "snapshot", "result", "chunk", "worker"}
  /\ e.run \in Runs \cup {NoRun} /\ (e.run = NoRun) <=> (e.kind = "worker")
  /\ e.ver \in Nat

\* The shape of the state: the store never holds more than Capacity events, and
\* they are the last ones, numbered without a gap (store.py, append and next_id).
TypeOK ==
  /\ \A r \in Runs : run[r].status \in Statuses /\ run[r].ver \in Nat
  /\ \A i \in DOMAIN outbox : \A j \in DOMAIN outbox[i] : EventOK(outbox[i][j])
  /\ Len(buffer) <= Capacity
  /\ \A i \in DOMAIN buffer : EventOK(buffer[i]) /\ buffer[i].id = counter - Len(buffer) + i
  /\ counter \in Nat /\ lastId \in Nat /\ conn.open \in BOOLEAN
  /\ \A r \in Runs : shown[r].ver \in Nat /\ mark[r] \in Nat
  /\ faults \in 0..MaxFaults /\ noise \in 0..MaxNoise

\* The ids of two lives of the scheduler are not told apart: a client that
\* presents one of the former life may miss events of the new one.
IdsMeanOne == ~(keepsId /\ restarted)

Drained == conn.open /\ conn.stream = <<>> /\ outbox = <<>>

\* Once everything sent has been read, the status the dashboard shows of a run
\* is the one the scheduler has, whatever was replayed, read out of order with
\* answers or lost with a connection -- if the store still held the run's last
\* snapshot when the connection was opened (runEventHandlers.ts, runsSlice.ts).
StatusShown ==
  Drained /\ IdsMeanOne => \A r \in Own :
    run[r].status \in Known /\ news[r].run >= conn.from
      => shown[r].status = run[r].status

\* Likewise for the nodes: the newest results are shown, and of their logs at
\* most the chunks of the newest feedback, each once, however often they were
\* replayed (nodeEventHandlers.ts, jsonDelta.ts).
NodesShown ==
  Drained /\ IdsMeanOne => \A r \in Own :
    run[r].status \in Known /\ news[r].node >= conn.from
      => /\ HasNodes(shown[r]) => shown[r].ver = run[r].ver
         /\ shown[r].log # <<>> => news[r].chunk /\ shown[r].log = <<run[r].ver>>

\* What the dashboard shows of a run, its status and its nodes, is what the
\* scheduler has of it (runEventHandlers.ts, nodeEventHandlers.ts).
ShownIsTrue == StatusShown /\ NodesShown

Increasing(events) ==
  \A i, j \in DOMAIN events : i < j => events[i].id < events[j].id

\* A client that presents its last id is sent every event of its session that
\* the store still holds and that it has not received, once and in order
\* (store.py, replay; events_api.py registers the connection without a pause).
ResumesExactly ==
  keepsId /\ IdsMeanOne /\ conn.open =>
    /\ Increasing(conn.stream)
    /\ \A e \in ToSet(conn.stream) : e.id > lastId
    /\ \A e \in ToSet(buffer) : Matches(e) /\ e.id > lastId => e \in ToSet(conn.stream)

\* How a run ends is shown in the end, after however many drops, unless the
\* store had forgotten it by the last reconnect (client.ts, scheduleReconnect).
EndShown ==
  \A r \in Own :
    <>[](run[r].status \in Final /\ news[r].run >= conn.from /\ IdsMeanOne
           => shown[r].status = run[r].status)
=============================================================================
