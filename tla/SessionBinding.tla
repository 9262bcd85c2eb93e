---------------------------- MODULE SessionBinding ----------------------------
(* The session of one worker with the scheduler: handshake, registration,    *)
(* resume and reset over connections that break, on the worker's side with   *)
(* the coroutines that establish a session and may overlap, on the           *)
(* scheduler's with one reader per connection and one record per worker.     *)
(* What the session carries, and how it is numbered, is WorkerStream.        *)
EXTENDS Naturals, Sequences, FiniteSets, SequencesExt, Functions

CONSTANTS MaxConns,   \* bound: connections opened
          MaxCoros,   \* bound: coroutines that establish the session
          Faults,     \* the kinds of fault allowed
          MaxFaults   \* bound: how many of them occur

ASSUME ConstantsAssumption ==
  MaxConns \in Nat \ {0} /\ MaxCoros \in Nat \ {0} /\ MaxFaults \in Nat

Conns == 1..MaxConns
Coros == 1..MaxCoros

VARIABLES
  w,       \* the worker's Session and Connection
  s,       \* the scheduler's WorkerSession
  reader,  \* ControlPlaneSession of every connection
  link,    \* every connection, and how it ended
  up,      \* frames to the scheduler, by connection
  down,    \* frames to the worker, by connection
  faults   \* how many faults occurred
vars == <<w, s, reader, link, up, down, faults>>

---------------------------------------------------------------------------
(* The worker.  w.conn is the transport, 0 when there is none; w.inbox holds *)
(* what was received over earlier ones; w.gen names the scheduler's windows  *)
(* that the worker's numbering goes with, 0 none.                            *)

Allowed(a) ==
  CASE a = "NEW"         -> {"HANDSHAKING"}
    [] a = "HANDSHAKING" -> {"REGISTERED", "BACKOFF"}
    [] a = "REGISTERED"  -> {"HEARTBEATING", "BACKOFF"}
    [] a = "HEARTBEATING" -> {"BACKOFF"}
    [] a = "BACKOFF"     -> {"NEW"}

Try(x, st) == IF st \in Allowed(x.state) THEN [x EXCEPT !.state = st] ELSE x

\* A coroutine that establishes the session: where it is, the outcome of the
\* ack it waits for, and the accept waiter it waits on.
Idle == [at |-> "none", kind |-> "none", ack |-> "none", on |-> 0]
AwaitsAck    == {"resume", "handshake", "register"}
AwaitsAccept == {"resuming", "accept"}
Failing      == {"failing", "failing resume"}
Running      == AwaitsAck \cup AwaitsAccept \cup Failing

\* _cancel_pending_acks
CancelAcks(x) ==
  [x EXCEPT !.coro = [c \in Coros |-> IF @[c].ack = "open" THEN [@[c] EXCEPT !.ack = "cancelled"]
                                                           ELSE @[c]]]

\* The accept waiter a coroutine prepares, and the one after a failed resume.
Waiter(c, second) == IF second THEN 2 * c ELSE 2 * c - 1

\* _resolve_accept, _reject_accept and the cancellation by _prepare_accept_waiter
Settle(x, outcome) ==
  IF x.waiter # 0 /\ x.waiters[x.waiter] = "open" THEN [x EXCEPT !.waiters[x.waiter] = outcome] ELSE x

Prepare(x, i) ==
  LET old == Settle(x, "cancelled") IN [old EXCEPT !.waiter = i, !.waiters[i] = "open"]

\* Mutant of Stale: the session id is kept.
StaleKeepsId(x) == Settle(CancelAcks([x EXCEPT !.gen = 0]), "rejected")

\* _mark_session_stale
Stale(x) ==
  LET y == CancelAcks([x EXCEPT !.sid = 0, !.fresh = TRUE, !.gen = 0]) IN Settle(y, "rejected")

\* Mutant of At: the ack of a message that could not be sent stays pending.
AtStillPending(x, c, place) == [x EXCEPT !.coro[c].at = place, !.coro[c].ack = "open"]

\* A coroutine goes on to its next wait; an ack is awaited for what was sent.
At(x, c, place) ==
  [x EXCEPT !.coro[c].at = place, !.coro[c].ack = IF place \in AwaitsAck THEN "open" ELSE "none"]
Ends(x, c)      == [x EXCEPT !.coro[c] = [Idle EXCEPT !.at = "over"]]

\* An error that reaches the top of a coroutine; a cancellation passes it by.
Raises(x, c) ==
  IF x.coro[c].kind = "reconnect" THEN Try(Ends(x, c), "BACKOFF") ELSE Ends(x, c)

\* A transport error reaches the one who called send().
SendRaised(x, c) == Raises(IF x.coro[c].at \in {"resume", "failing resume"} THEN Stale(x) ELSE x, c)

\* The session is established: the worker may resume it from now on.
Established(x, c) == Try([Ends(x, c) EXCEPT !.fresh = FALSE], "HEARTBEATING")

\* A reconnect takes the lock first, in turn; start() does not.
MayBegin(c) ==
  /\ w.coro[c].at = "queued"
  /\ w.coro[c].kind = "reconnect" =>
       \A d \in Coros \ {c} : w.coro[d].kind = "reconnect" =>
         w.coro[d].at \notin Running /\ (d < c => w.coro[d].at # "queued")

TimedOut(c) ==
  \/ w.coro[c].ack = "timeout"
  \/ w.coro[c].at \in AwaitsAccept /\ w.waiters[w.coro[c].on] = "timeout"

\* A coroutine that can run does so before a timer fires or a connection opens.
Woken(c) ==
  \/ MayBegin(c)
  \/ w.coro[c].ack \in {"done", "cancelled", "timeout"}
  \/ w.coro[c].at \in AwaitsAccept /\ w.waiters[w.coro[c].on] # "open"
AllWait == \A c \in Coros : ~Woken(c)

Frame(type, c, x) == [type |-> type, for |-> c, sid |-> x.sid]

Init ==
  /\ w = [conn |-> 0, inbox |-> <<>>, reporting |-> FALSE, starting |-> TRUE, reset |-> FALSE,
          opened |-> 0, spawned |-> 0, sid |-> 0, fresh |-> FALSE, gen |-> 0, state |-> "NEW",
          coro |-> [c \in Coros |-> Idle], waiter |-> 0, waiters |-> [i \in 1..(2 * MaxCoros) |-> "none"]]
  /\ s = [known |-> FALSE, sid |-> 0, registered |-> FALSE, transport |-> 0, gen |-> 0, issued |-> 0]
  /\ reader = [k \in Conns |-> [open |-> FALSE, bound |-> FALSE]]
  /\ link = [k \in Conns |-> "none"]
  /\ up = [k \in Conns |-> <<>>] /\ down = [k \in Conns |-> <<>>]
  /\ faults = [f \in Faults |-> 0]

\* A fault of kind f; half_open is a condition of the network, not an event.
Fault(f) ==
  /\ f \in Faults /\ FoldFunction(+, 0, faults) < MaxFaults
  /\ faults' = [faults EXCEPT ![f] = @ + 1]
NoFault    == UNCHANGED faults
Without(F) == \A f \in F \cap Faults : faults[f] = 0

---------------------------------------------------------------------------
(* The worker's connection.                                                  *)

Opens(x, k) ==
  /\ AllWait /\ x.opened < MaxConns /\ k = x.opened + 1
  \* Unless links may stay half open, the scheduler has seen the earlier ones end.
  /\ "half_open" \in Faults \/ \A j \in Conns : ~reader[j].open
  /\ link' = [link EXCEPT ![k] = "open"]
  /\ reader' = [reader EXCEPT ![k].open = TRUE]
  /\ UNCHANGED <<s, up, down, faults>>

Queue(x, n, kind) ==
  [x EXCEPT !.spawned = @ + n,
            !.coro = [c \in Coros |-> IF c \in (x.spawned + 1)..(x.spawned + n)
                                      THEN [Idle EXCEPT !.at = "queued", !.kind = kind] ELSE @[c]]]

\* start(), first and after a reset: connect, then establish.
Connect ==
  /\ w.starting /\ w.spawned < MaxCoros
  /\ LET k == w.opened + 1
     IN  /\ Opens(w, k)
         /\ w' = Queue([w EXCEPT !.starting = FALSE, !.conn = k, !.opened = k], 1, "start")

\* Who reported the break of the last connection has the session established
\* again: the receive loop, and a coroutine whose send() now fails.
Reconnect ==
  /\ w.reporting
  /\ LET k       == w.opened + 1
         failing == {c \in Coros : w.coro[c].at \in Failing}
         n       == 1 + Cardinality(failing)
         y       == Queue([w EXCEPT !.reporting = FALSE, !.conn = k, !.opened = k], n, "reconnect")
     IN  /\ w.spawned + n <= MaxCoros
         /\ Opens(w, k)
         /\ w' = IF failing = {} THEN y ELSE LET c == CHOOSE c \in failing : TRUE IN SendRaised(y, c)

\* The reasons that make the worker give its session up at once.
Revoked == {"restart", "unknown"}

\* _handle_transport_error, until the next connection: what arrived is kept.
Broken(x, got) ==
  LET y == [x EXCEPT !.conn = 0, !.reporting = TRUE, !.inbox = @ \o got]
  IN  Try(IF link[x.conn] \in Revoked THEN Stale(y) ELSE y, "BACKOFF")

Arrived(k) ==
  IF link[k] = "broken" THEN {SubSeq(down[k], 1, i) : i \in 0..Len(down[k])} ELSE {down[k]}

\* The receive loop sees the connection end.
Notice ==
  /\ w.conn # 0 /\ link[w.conn] # "open"
  /\ \E got \in Arrived(w.conn) : w' = Broken(w, got)
  /\ down' = [down EXCEPT ![w.conn] = <<>>]
  /\ UNCHANGED <<s, reader, link, up, faults>>

\* send() fails: its caller reports the break too, and waits.
FailsInSend(x, c) ==
  /\ \E got \in Arrived(x.conn) :
       w' = At(Broken(x, got), c, IF x.coro[c].at = "resume" THEN "failing resume" ELSE "failing")
  /\ down' = [down EXCEPT ![x.conn] = <<>>] /\ UNCHANGED up

\* x sends frame f for coroutine c.  On a connection that has ended, unknown to
\* the worker, the frame is lost or the send fails.
Sends(x, c, f) ==
  /\ UNCHANGED <<s, reader, link>> /\ NoFault
  /\ \/ /\ x.conn = 0
        /\ w' = SendRaised(x, c) /\ UNCHANGED <<up, down>>
     \/ /\ x.conn # 0 /\ link[x.conn] = "open"
        /\ w' = x /\ up' = [up EXCEPT ![x.conn] = Append(@, f)] /\ UNCHANGED down
     \/ /\ x.conn # 0 /\ link[x.conn] # "open"
        /\ w' = x /\ UNCHANGED <<up, down>>
     \/ x.conn # 0 /\ link[x.conn] # "open" /\ FailsInSend(x, c)

---------------------------------------------------------------------------
(* _establish_session, one step for each time the coroutine runs.            *)

SendsHandshake(x, c) ==
  LET y == At(Try(x, "HANDSHAKING"), c, "handshake") IN Sends(y, c, Frame("handshake", c, y))

Begin(c) ==
  /\ MayBegin(c)
  /\ LET x == Prepare(Try(w, "NEW"), Waiter(c, FALSE))
         y == At(Try(x, "HANDSHAKING"), c, "resume")
     IN  IF ~x.fresh /\ x.sid # 0 THEN Sends(y, c, Frame("resume", c, y)) ELSE SendsHandshake(x, c)

\* The wait for accept starts: on the waiter of whoever prepared one last.
AwaitAccept(x, c, place) ==
  IF x.waiter = 0 THEN Raises(x, c)
  ELSE [x EXCEPT !.coro[c].at = place, !.coro[c].ack = "none", !.coro[c].on = x.waiter]

Stays(x) == w' = x /\ NoFault /\ UNCHANGED <<s, reader, link, up, down>>

\* The ack has arrived.
Acked(c) ==
  /\ w.coro[c].ack = "done"
  /\ CASE w.coro[c].at = "resume"    -> Stays(AwaitAccept(w, c, "resuming"))
       [] w.coro[c].at = "handshake" ->
            LET x == At(Try(w, "REGISTERED"), c, "register") IN Sends(x, c, Frame("register", c, x))
       [] w.coro[c].at = "register"  -> Stays(AwaitAccept(w, c, "accept"))

\* After a resume that timed out the coroutine goes on with a handshake.
FallsBack(x, c) == SendsHandshake(Prepare(Stale(x), Waiter(c, TRUE)), c)

\* The wait for the ack ends otherwise.
AckFails(c) ==
  \/ w.coro[c].ack = "cancelled" /\ Stays(Ends(w, c))
  \/ w.coro[c].ack = "timeout" /\ IF w.coro[c].at = "resume" THEN FallsBack(w, c) ELSE Stays(Raises(w, c))

Over(x, c) == IF x.waiter = x.coro[c].on THEN [x EXCEPT !.waiter = 0] ELSE x

\* The wait for accept ends.
AcceptEnds(c) ==
  /\ w.coro[c].at \in AwaitsAccept
  /\ LET outcome == w.waiters[w.coro[c].on]
     IN  \/ outcome = "done"      /\ Stays(Established(Over(w, c), c))
         \/ outcome = "rejected"  /\ Stays(Raises(Over(w, c), c))
         \/ outcome = "cancelled" /\ Stays(Ends(Over(w, c), c))
         \/ outcome = "timeout"   /\ IF w.coro[c].at = "resuming" THEN FallsBack(Over(w, c), c)
                                                                  ELSE Stays(Raises(Over(w, c), c))

\* The worker has frames to read, or the message of c is on its way.
Unread == w.inbox # <<>> \/ (w.conn # 0 /\ down[w.conn] # <<>>) \/ w.reset
UnderWay(c) ==
  Unread \/ \E k \in Conns : \E i \in DOMAIN up[k] : up[k][i].for = c /\ up[k][i].type = w.coro[c].at

\* The ack retry loop sends a message again that was lost, or is slow.
Resend(c) ==
  /\ w.coro[c].ack = "open" /\ AllWait
  /\ IF UnderWay(c) THEN Fault("slow") ELSE NoFault
  /\ w.conn # 0 /\ link[w.conn] = "open"
  /\ up' = [up EXCEPT ![w.conn] = Append(@, Frame(w.coro[c].at, c, w))]
  /\ UNCHANGED <<w, s, reader, link, down>>

\* It is the one that reports the break.
ResendFails(c) ==
  /\ w.coro[c].ack = "open" /\ AllWait /\ ~Unread
  /\ w.conn # 0 /\ link[w.conn] # "open"
  /\ FailsInSend(w, c)
  /\ NoFault /\ UNCHANGED <<s, reader, link>>

AckTimeout(c) ==
  /\ w.coro[c].ack = "open" /\ AllWait /\ Fault("timeout")
  /\ w' = [w EXCEPT !.coro[c].ack = "timeout"]
  /\ UNCHANGED <<s, reader, link, up, down>>

\* What an accept answers is on its way.
AcceptUnderWay ==
  Unread \/ \E k \in Conns : \E i \in DOMAIN up[k] : up[k][i].type \in {"resume", "register"}

AcceptTimeout(c) ==
  /\ w.coro[c].at \in AwaitsAccept /\ w.waiters[w.coro[c].on] = "open" /\ AllWait
  /\ IF AcceptUnderWay THEN Fault("timeout") ELSE NoFault
  /\ w' = [w EXCEPT !.waiters[w.coro[c].on] = "timeout"]
  /\ UNCHANGED <<s, reader, link, up, down>>

---------------------------------------------------------------------------
(* _handle_incoming and the restart after a reset.                           *)

ResolveAck(x, f) ==
  IF x.coro[f.for].ack = "open" /\ x.coro[f.for].at = f.of
  THEN [x EXCEPT !.coro[f.for].ack = "done"] ELSE x

\* Mutant of Accept: the windows are kept.
AcceptWindowsKept(x, f) == Settle([x EXCEPT !.sid = f.sid], "done")

\* A session that was not resumed starts with new windows.
Accept(x, f) ==
  Settle([x EXCEPT !.sid = f.sid, !.gen = IF f.resumed THEN @ ELSE f.gen], "done")

Handled(x, f) ==
  CASE f.type = "ack"    -> ResolveAck(x, f)
    [] f.type = "accept" -> Accept(x, f)
    [] f.type = "reset"  -> [Try(Stale(x), "BACKOFF") EXCEPT !.reset = TRUE]

\* What an earlier connection received is read first.  After a reset the loop
\* is cancelled before more can arrive.
Receive ==
  /\ ~w.starting /\ ~w.reset /\ \A c \in Coros : ~TimedOut(c)
  /\ NoFault /\ UNCHANGED <<s, reader, link, up>>
  /\ \/ /\ w.inbox # <<>>
        /\ w' = Handled([w EXCEPT !.inbox = Tail(@)], Head(w.inbox)) /\ UNCHANGED down
     \/ /\ w.inbox = <<>> /\ w.conn # 0 /\ down[w.conn] # <<>>
        /\ w' = Handled(w, Head(down[w.conn]))
        /\ down' = [down EXCEPT ![w.conn] = Tail(@)]

\* _restart_after_reset, until the new connection: what waited on the old one
\* is cancelled with it.
Restart ==
  /\ w.reset /\ AllWait
  /\ LET x == CancelAcks([w EXCEPT !.reset = FALSE, !.starting = TRUE, !.reporting = FALSE,
                                   !.conn = 0, !.inbox = <<>>, !.gen = 0])
         failing == {c \in Coros : x.coro[c].at \in Failing}
     IN  w' = Try(IF failing = {} THEN x ELSE Ends(x, CHOOSE c \in failing : TRUE), "NEW")
  /\ link' = IF w.conn # 0 /\ link[w.conn] = "open" THEN [link EXCEPT ![w.conn] = "broken"] ELSE link
  /\ down' = IF w.conn # 0 THEN [down EXCEPT ![w.conn] = <<>>] ELSE down
  /\ NoFault /\ UNCHANGED <<s, reader, up>>

---------------------------------------------------------------------------
(* The scheduler.                                                            *)

Replies(k, fs) == IF link[k] = "open" THEN [down EXCEPT ![k] = @ \o fs] ELSE down
Ack(f)         == [type |-> "ack", for |-> f.for, of |-> f.type]

\* Binding a connection closes the one before it: "superseded session".
Supersede(k) ==
  link' = IF s.transport \notin {0, k} /\ link[s.transport] = "open"
          THEN [link EXCEPT ![s.transport] = "closed"] ELSE link

Takes(k) == reader[k].open /\ up[k] # <<>> /\ UNCHANGED w
Pops(k)  == up' = [up EXCEPT ![k] = Tail(@)]

Resumable(f) == s.known /\ s.registered /\ s.sid # 0 /\ s.sid = f.sid

HandleResume(k) ==
  /\ Takes(k) /\ Pops(k) /\ NoFault
  /\ LET f == Head(up[k])
     IN  /\ f.type = "resume" /\ Resumable(f)
         /\ s' = [s EXCEPT !.transport = k]
         /\ reader' = [reader EXCEPT ![k].bound = TRUE]
         /\ down' = Replies(k, <<Ack(f), [type |-> "accept", sid |-> s.sid, resumed |-> TRUE, gen |-> s.gen]>>)
         /\ Supersede(k)

\* upsert_session
HandleHandshake(k) ==
  /\ Takes(k) /\ Pops(k) /\ NoFault
  /\ LET f == Head(up[k])
     IN  /\ f.type = "handshake"
         /\ s' = [s EXCEPT !.known = TRUE, !.sid = 0, !.registered = FALSE, !.transport = k, !.gen = @ + 1]
         /\ reader' = [reader EXCEPT ![k].bound = TRUE]
         /\ down' = Replies(k, <<Ack(f)>>)
         /\ Supersede(k)

HandleRegister(k) ==
  /\ Takes(k) /\ Pops(k) /\ NoFault
  /\ LET f   == Head(up[k])
         new == s.issued + 1
     IN  /\ f.type = "register" /\ reader[k].bound
         /\ IF s.registered
            THEN s' = s /\ down' = Replies(k, <<Ack(f)>>)
            ELSE /\ s' = [s EXCEPT !.registered = TRUE, !.sid = new, !.issued = new]
                 /\ down' = Replies(k, <<Ack(f), [type |-> "accept", sid |-> new, resumed |-> FALSE, gen |-> s.gen]>>)
  /\ UNCHANGED <<reader, link>>

\* Mutant of Detached: a reader leaves the record alone.
StaysAttached(k) == s

\* mark_disconnected: the end of any connection detaches the one in use.
Detached(k) == IF reader[k].bound THEN [s EXCEPT !.transport = 0] ELSE s

\* The reader of a connection ends; what it has not read is lost.
Closed(k) ==
  /\ reader' = [reader EXCEPT ![k] = [open |-> FALSE, bound |-> FALSE]]
  /\ up' = [up EXCEPT ![k] = <<>>]
  /\ s' = Detached(k)

\* _send_reset, for a session that is not known, not the one, or expired, and
\* for a registration on a connection without a handshake.
Refuse(k) ==
  /\ Takes(k)
  /\ LET f == Head(up[k])
     IN  \/ f.type = "resume" /\ ~Resumable(f) /\ NoFault
         \/ f.type = "resume" /\ Resumable(f) /\ Fault("expired")
         \/ f.type = "register" /\ ~reader[k].bound /\ NoFault
  /\ down' = Replies(k, <<[type |-> "reset"]>>)
  /\ link' = IF link[k] = "open" THEN [link EXCEPT ![k] = IF s.known THEN "closed" ELSE "unknown"] ELSE link
  /\ Closed(k)

\* The reader of a connection that has ended marks the worker disconnected.
ReaderEnds(k) ==
  /\ reader[k].open /\ link[k] # "open"
  /\ Closed(k)
  /\ NoFault /\ UNCHANGED <<w, link, down>>

---------------------------------------------------------------------------
(* Faults: a connection breaks, the scheduler restarts.                      *)

Break(k) ==
  /\ link[k] = "open" /\ Fault("break")
  /\ link' = [link EXCEPT ![k] = "broken"]
  /\ UNCHANGED <<w, s, reader, up, down>>

SchedulerRestart ==
  /\ Fault("restart")
  /\ s' = [s EXCEPT !.known = FALSE, !.sid = 0, !.registered = FALSE, !.transport = 0]
  /\ link' = [k \in Conns |-> IF link[k] = "open" THEN "restart" ELSE link[k]]
  /\ reader' = [k \in Conns |-> [open |-> FALSE, bound |-> FALSE]]
  /\ up' = [k \in Conns |-> <<>>]
  /\ UNCHANGED <<w, down>>

Establishing ==
  \E c \in Coros : Begin(c) \/ Acked(c) \/ AckFails(c) \/ AcceptEnds(c)

Serving ==
  \E k \in Conns : HandleResume(k) \/ HandleHandshake(k) \/ HandleRegister(k) \/ Refuse(k) \/ ReaderEnds(k)

Next ==
  \/ Connect \/ Reconnect \/ Notice \/ Receive \/ Restart
  \/ Establishing
  \/ \E c \in Coros : Resend(c) \/ ResendFails(c) \/ AckTimeout(c) \/ AcceptTimeout(c)
  \/ Serving
  \/ \E k \in Conns : Break(k)
  \/ SchedulerRestart

Spec == Init /\ [][Next]_vars

\* Sessions are established and frames handled while connections can be made;
\* faults need not happen.
Progress == Connect \/ Reconnect \/ Notice \/ Receive \/ Restart \/ Establishing \/ Serving
            \/ \E c \in Coros : (Resend(c) /\ ~UnderWay(c)) \/ (AcceptTimeout(c) /\ ~AcceptUnderWay)
FairSpec == Spec /\ WF_vars(Progress)

---------------------------------------------------------------------------
(* Properties.                                                               *)

\* Every variable keeps its shape: an ack is pending exactly for what a
\* coroutine waits for, and a connection carries frames only while it is in use.
TypeOK ==
  /\ w.conn \in 0..w.opened /\ w.opened \in 0..MaxConns /\ w.spawned \in 0..MaxCoros
  /\ s.transport \in 0..w.opened /\ {s.sid, w.sid} \subseteq 0..s.issued /\ w.gen \in 0..s.gen
  /\ \A c \in Coros :
       /\ w.coro[c].ack # "none" <=> w.coro[c].at \in AwaitsAck
       /\ w.coro[c].on # 0 => w.waiters[w.coro[c].on] # "none"
  /\ \A k \in Conns : up[k] # <<>> \/ down[k] # <<>> => link[k] # "none"
  /\ faults \in [Faults -> 0..MaxFaults]

\* The worker numbers its messages as the scheduler's window expects: a session
\* id that it would resume goes with the windows of that registration.  Several
\* coroutines may establish the session at once, and frames of an earlier
\* connection may be read after a later one opened.  Only an answer that comes
\* after its request was sent again, or given up, can break this.
ResumableNumbering ==
  s.known /\ w.sid # 0 /\ w.sid = s.sid /\ ~w.fresh /\ Without({"slow", "timeout"}) => w.gen = s.gen

Quiet ==
  /\ \A c \in Coros : w.coro[c].at \in {"none", "over"}
  /\ w.inbox = <<>> /\ ~w.reset /\ ~w.starting
  /\ w.conn # 0 /\ link[w.conn] = "open" /\ up[w.conn] = <<>> /\ down[w.conn] = <<>>

BoundHere == s.transport = w.conn /\ w.conn # 0

\* When nothing is under way and the scheduler has the worker registered on the
\* connection in use, the two agree on the session and on its numbering.
QuietAgrees ==
  Quiet /\ BoundHere /\ s.registered /\ Without({"slow", "timeout"}) => w.sid = s.sid /\ w.gen = s.gen

\* Worker and scheduler agree on the numbering, whenever a session may be
\* resumed and whenever nothing is under way (session.py on both ends).
NumberingAgrees == ResumableNumbering /\ QuietAgrees

\* The scheduler never keeps a transport that nobody reads: what is dispatched
\* to it would be sent and never acknowledged.
TransportHasReader == s.transport # 0 => reader[s.transport].open /\ reader[s.transport].bound

\* The scheduler's record of a worker is true: it leads to a connection somebody
\* reads, and to a session the worker numbers its messages by.
BindingCoherent == NumberingAgrees /\ TransportHasReader

\* However connections break, the scheduler restarts and tokens expire, in the
\* end the scheduler reaches the worker over the connection in use and both hold
\* the same session.  Not so when a wait timed out: nobody tries again.
EventuallyBound ==
  <>[](\/ BoundHere /\ s.registered /\ w.sid = s.sid
       \/ ~Without({"timeout"}))
=============================================================================
