--------------------------- MODULE SchedulerStream ---------------------------
(***************************************************************************)
(* The stream of biz.* messages from the scheduler to one worker:          *)
(* scheduler_api/core/network/{manager,session,server}.py number them and  *)
(* hold them back by send credit, worker/network/session.py windows, acks  *)
(* and hands them to its application queue.  Unlike the worker             *)
(* (WorkerStream), the scheduler never sends a message again.              *)
(*                                                                         *)
(* A reconnect resumes the session, and both ends go on where they were,   *)
(* or starts a fresh one: the handshake begins a new numbering, an epoch,  *)
(* at the scheduler, and the accept frame at the worker.  A message is the *)
(* epoch and the number the scheduler gave it.  What the worker has taken  *)
(* from a connection stays in its receive queue when it drops, so down is  *)
(* one queue for all connections.  At the scheduler every connection has a *)
(* reader, which takes acks and runs handlers, and a handler may send.     *)
(***************************************************************************)
EXTENDS ReceiveWindow, FiniteSets

CONSTANTS
  Tasks,      \* tasks that send: the dispatcher and others
  MaxSeq,     \* bound on the messages of an epoch
  MaxConns,   \* bound on the connections opened
  Faults,     \* kinds of fault (or unlucky timing) that may happen
  MaxFaults,  \* bound on their number
  None

Conn == 1..MaxConns
Epoch == 1..MaxConns
Sender == Tasks \cup Conn     \* a connection as a sender is its reader
FaultKinds == {"drop", "fresh", "early_frame", "refused", "late_reader"}

ASSUME SchedulerStreamAssumption ==
  /\ MaxSeq \in Nat /\ MaxConns \in Nat \ {0} /\ MaxFaults \in Nat
  /\ Faults \subseteq FaultKinds /\ None \notin Nat /\ Tasks \cap Nat = {}

VARIABLES
  epoch,      \* WorkerSession.send_epoch
  nextSeq,    \* send_next_seq
  unacked,    \* keys of seq_to_message_id
  credit,     \* value of the semaphore send_credit
  queue,      \* senders that wait for it, in order, with the epoch they saw
  woken,      \* senders it was granted to that have not run yet
  transport,  \* WorkerSession.transport: a connection or None
  conn,       \* the connection opened last
  up,         \* whether it is usable
  accepting,  \* the handshake of this epoch still waits for its accept
  open,       \* connections whose reader runs
  down,       \* frames the worker has received or will receive, not handled yet
  back,       \* frames from the worker on each connection, not read yet
  sid,        \* epoch of the session the worker holds, None if it holds none
  window,     \* Session._recv_window
  held,       \* the epoch of the envelope buffered under each number
  handed,     \* messages put to the application queue so far
  gaps,       \* history: messages lost after they were given a number
  ackless,    \* history: epochs in which an ack was lost
  faults

sendVars == <<epoch, nextSeq, unacked, credit, queue, woken>>
linkVars == <<transport, conn, up, accepting, open>>
workVars == <<sid, window, held, handed>>
vars == <<sendVars, linkVars, down, back, workVars, gaps, ackless, faults>>

Fault(f) == f \in Faults /\ faults < MaxFaults /\ faults' = faults + 1
NoFault  == UNCHANGED faults

Message == [epoch : Epoch, seq : 1..MaxSeq]
Accept(e) == [epoch |-> e, seq |-> 0]       \* control.session.accept, resumed = False
NextRequest == [base |-> None, bits |-> {}] \* a next request the scheduler refuses

\* The session was just accepted on connection 1.
Init ==
  /\ epoch = 1 /\ nextSeq = 1 /\ unacked = {} /\ credit = Size /\ queue = <<>> /\ woken = {}
  /\ transport = 1 /\ conn = 1 /\ up = TRUE /\ accepting = FALSE /\ open = {1}
  /\ down = <<>> /\ back = [c \in Conn |-> <<>>]
  /\ sid = 1 /\ window = EmptyWindow /\ held = [s \in 1..MaxSeq |-> None] /\ handed = <<>>
  /\ gaps = {} /\ ackless = {} /\ faults = 0

---------------------------------------------------------------------------
(* The senders at the scheduler. *)

QueuedAs(p) == {i \in DOMAIN queue : queue[i].who = p}
Sending(p) == QueuedAs(p) # {} \/ \E g \in woken : g.who = p

\* send_credit.release(), n times: the first waiters get it.
Release(n) ==
  LET k == IF n <= Len(queue) THEN n ELSE Len(queue) IN
  /\ woken' = woken \cup {queue[i] : i \in 1..k}
  /\ queue' = SubSeq(queue, k + 1, Len(queue))
  /\ credit' = credit + n - k

\* With credit in hand: take the next number and write the frame to the
\* transport of the moment.  On a connection that is gone, or on none at all,
\* the frame is lost or the send raises; the number and the credit stay taken.
\* What precedes the accept frame will be forgotten by the worker.
Numbered ==
  LET m == [epoch |-> epoch, seq |-> nextSeq] IN
  /\ nextSeq' = nextSeq + 1
  /\ unacked' = unacked \cup {nextSeq}
  /\ IF transport = conn /\ up
     THEN /\ IF accepting THEN Fault("early_frame") ELSE NoFault
          /\ down' = Append(down, m)
          /\ gaps' = IF accepting THEN gaps \cup {m} ELSE gaps
     ELSE down' = down /\ gaps' = gaps \cup {m} /\ NoFault
  /\ UNCHANGED epoch

\* send_envelope of a biz message by p: at once, or in turn.
SendEnvelope(p) ==
  \/ /\ credit > 0 /\ Numbered
     /\ credit' = credit - 1
     /\ UNCHANGED <<queue, woken>>
  \/ /\ credit = 0
     /\ queue' = Append(queue, [who |-> p, epoch |-> epoch])
     /\ UNCHANGED <<epoch, nextSeq, unacked, credit, woken, down, gaps, faults>>

\* Bounds the messages of an epoch.
Room == nextSeq + Len(queue) + Cardinality(woken) <= MaxSeq

Send(p) ==
  /\ ~Sending(p) /\ Room
  /\ transport # None
  /\ SendEnvelope(p)
  /\ UNCHANGED <<linkVars, back, workVars, ackless>>

\* _assign_session_seq goes on with its credit, unless the session was reset.
Resume(g) ==
  /\ woken' = woken \ {g}
  /\ IF g.epoch = epoch
     THEN Numbered /\ UNCHANGED <<credit, queue>>
     ELSE UNCHANGED <<epoch, nextSeq, unacked, credit, queue, down, gaps, faults>>
  /\ UNCHANGED <<linkVars, back, workVars, ackless>>

---------------------------------------------------------------------------
(* The readers at the scheduler. *)

Read(c) ==
  /\ c \in open /\ ~Sending(c) /\ back[c] # <<>>
  /\ back' = [back EXCEPT ![c] = Tail(@)]
  /\ UNCHANGED <<linkVars, workVars, ackless>>

\* Mutant of Covered: numbers released before are released once more.
CoveredAgain(a) == {s \in 1..(nextSeq - 1) : IsSeqAcked(s, a.base, a.bits)}

\* What an ack releases (apply_session_ack).
Covered(a) == {s \in unacked : IsSeqAcked(s, a.base, a.bits)}

\* _handle_ack: of whatever epoch the ack may be.
ReadAck(c) ==
  /\ Read(c)
  /\ LET a == Head(back[c]) IN
       /\ a # NextRequest
       /\ unacked' = unacked \ Covered(a)
       /\ Release(Cardinality(Covered(a)))
  /\ UNCHANGED <<epoch, nextSeq, down, gaps, faults>>

\* _handle_exec_next_request: the reader itself sends the error, and reads
\* nothing until it got through.
ReadRequest(c) ==
  /\ Read(c)
  /\ Head(back[c]) = NextRequest
  /\ IF transport # None /\ Room THEN SendEnvelope(c)
     ELSE UNCHANGED <<sendVars, down, gaps, faults>>

\* The reader of a connection that is gone ends, and detaches the session from
\* whatever connection it is bound to by then (mark_disconnected).
CloseReader(c) ==
  /\ c \in open /\ ~Sending(c) /\ back[c] = <<>>
  /\ c # conn \/ ~up
  /\ open' = open \ {c}
  /\ transport' = None
  /\ UNCHANGED <<sendVars, conn, up, accepting, down, back, workVars, gaps, ackless, faults>>

---------------------------------------------------------------------------
(* The connections. *)

\* The connection drops: of what was written in either direction the last
\* frames are lost.
Drop ==
  /\ up /\ Fault("drop")
  /\ up' = FALSE
  /\ \E i \in 0..Len(down), j \in 0..Len(back[conn]) :
       /\ down' = SubSeq(down, 1, i)
       /\ gaps' = gaps \cup {down[n] : n \in {k \in (i + 1)..Len(down) : down[k].seq # 0}}
       /\ back' = [back EXCEPT ![conn] = SubSeq(@, 1, j)]
       /\ ackless' = IF j < Len(back[conn]) THEN ackless \cup {epoch} ELSE ackless
  /\ UNCHANGED <<sendVars, transport, conn, accepting, open, workVars>>

\* The reader of the old connection usually ends before the worker is back.
LateReader == IF \A c \in open : Sending(c) THEN {} ELSE {"late_reader"}

Connect(kinds) ==
  /\ ~up /\ conn < MaxConns
  /\ kinds \subseteq Faults /\ faults' = faults + Cardinality(kinds) /\ faults' <= MaxFaults
  /\ up' = TRUE /\ conn' = conn + 1 /\ transport' = conn + 1
  /\ open' = open \cup {conn + 1}

\* control.resume and its accept: bind_session, and nothing else changes.
ResumeSession ==
  /\ sid = epoch /\ Connect(LateReader)
  /\ UNCHANGED <<sendVars, accepting, down, back, workVars, gaps, ackless>>

\* Mutant of WakeAll: the waiters are left to the old semaphore.
WakeNobody == woken' = woken /\ queue' = queue
\* _reset_session_state wakes who waits for the old semaphore.
WakeAll == woken' = woken \cup {queue[i] : i \in DOMAIN queue} /\ queue' = <<>>

\* A fresh handshake (upsert_session), because the worker holds no session or
\* its resume is refused or not answered in time.  The worker has marked its
\* session stale before.
Handshake ==
  /\ Connect(LateReader \cup (IF sid = epoch THEN {"fresh"} ELSE {}))
  /\ WakeAll
  /\ epoch' = epoch + 1 /\ nextSeq' = 1 /\ unacked' = {} /\ credit' = Size
  /\ accepting' = TRUE
  /\ sid' = None /\ window' = EmptyWindow
  /\ UNCHANGED <<down, back, held, handed, gaps, ackless>>

\* _handle_register: the accept frame leaves.
Register ==
  /\ accepting /\ up
  /\ accepting' = FALSE
  /\ down' = Append(down, Accept(epoch))
  /\ UNCHANGED <<sendVars, transport, conn, up, open, back, workVars, gaps, ackless, faults>>

---------------------------------------------------------------------------
(* The worker: _handle_incoming, one frame after the other. *)

Incoming == down # <<>> /\ down' = Tail(down)

\* Mutant of Reset: the window goes on from the last session.
NoReset == UNCHANGED window
\* _reset_windows
Reset == window' = EmptyWindow

HandleAccept ==
  /\ Incoming /\ Head(down).seq = 0
  /\ sid' = Head(down).epoch
  /\ Reset
  /\ UNCHANGED <<sendVars, linkVars, back, held, handed, gaps, ackless, faults>>

\* A message is recorded, then acked, then what is ready is handed up.  When
\* there is no connection the ack raises, and what was ready is lost.
HandleMessage ==
  /\ Incoming /\ Head(down).seq # 0
  /\ LET m == Head(down)
         now == [held EXCEPT ![m.seq] = IF Accepts(window, m.seq) THEN m.epoch ELSE @]
         ready == [i \in DOMAIN Ready(window, m.seq) |->
                     [epoch |-> now[Ready(window, m.seq)[i]], seq |-> Ready(window, m.seq)[i]]]
     IN /\ window' = Record(window, m.seq)
        /\ held' = now
        /\ IF up
           THEN /\ back' = [back EXCEPT ![conn] =
                              Append(@, [base |-> window'.base, bits |-> window'.bits])]
                /\ handed' = handed \o ready
                /\ UNCHANGED <<gaps, ackless>>
           ELSE /\ gaps' = gaps \cup {ready[i] : i \in DOMAIN ready}
                /\ ackless' = ackless \cup {m.epoch}
                /\ UNCHANGED <<back, handed>>
  /\ UNCHANGED <<sendVars, linkVars, sid, faults>>

\* A middleware of the worker asks for a host that is not there.
Ask ==
  /\ up /\ sid = epoch /\ Fault("refused")
  /\ back' = [back EXCEPT ![conn] = Append(@, NextRequest)]
  /\ UNCHANGED <<sendVars, linkVars, down, workVars, gaps, ackless>>

---------------------------------------------------------------------------

Reader(c) == ReadAck(c) \/ ReadRequest(c) \/ CloseReader(c)
Reconnect == ResumeSession \/ Handshake
Worker == HandleAccept \/ HandleMessage

Next ==
  \/ \E p \in Tasks : Send(p)
  \/ \E g \in woken : Resume(g)
  \/ \E c \in Conn : Reader(c)
  \/ Drop \/ Reconnect \/ Register \/ Worker \/ Ask

Spec == Init /\ [][Next]_vars

\* Event loops run, connections carry what they do not lose, the worker keeps
\* reconnecting; messages and faults are never forced.
FairSpec ==
  /\ Spec
  /\ WF_vars(Reconnect) /\ WF_vars(Register) /\ WF_vars(Worker)
  /\ WF_vars(\E g \in woken : Resume(g))
  /\ \A c \in Conn : WF_vars(Reader(c))

---------------------------------------------------------------------------
(* What must hold. *)

Waiter == [who : Sender, epoch : Epoch]

SendTypes ==
  /\ epoch \in Epoch /\ nextSeq \in 1..(MaxSeq + 1) /\ unacked \subseteq 1..(nextSeq - 1)
  /\ credit \in 0..Size
  /\ queue \in Seq(Waiter) /\ woken \subseteq Waiter

LinkTypes ==
  /\ transport \in Conn \cup {None} /\ conn \in Conn /\ open \subseteq Conn
  /\ up \in BOOLEAN /\ accepting \in BOOLEAN
  /\ down \in Seq(Message \cup {Accept(e) : e \in Epoch})
  /\ back \in [Conn -> Seq([base : Nat \cup {None}, bits : SUBSET (0..(Size - 1))])]

WorkerTypes ==
  /\ sid \in Epoch \cup {None}
  /\ window \in WindowType /\ WindowCoherent(window)
  /\ held \in [1..MaxSeq -> Epoch \cup {None}]
  /\ handed \in Seq(Message)

\* Every variable keeps its shape, whatever is acknowledged, dropped or reset;
\* the worker's window stays coherent.
TypeOK == SendTypes /\ LinkTypes /\ WorkerTypes /\ gaps \subseteq Message /\ ackless \subseteq Epoch

Granted == {g \in woken : g.epoch = epoch}

\* Credit is neither lost nor made up, across acks that come twice, late or from
\* the session before: what is not free is with a number not acknowledged or with a
\* sender about to use it.  Nobody waits while there is credit, nor for the
\* credit of a session that was replaced (_assign_session_seq,
\* _release_session_seq, _reset_session_state).
CreditAccounted ==
  /\ credit + Cardinality(unacked) + Cardinality(Granted) = Size
  /\ queue # <<>> => credit = 0
  /\ \A i \in DOMAIN queue : queue[i].epoch = epoch

\* A message that was numbered reaches the worker's application, unless it or
\* one before it was lost in the same session, or the session was replaced.
Delivery ==
  \A s \in 1..MaxSeq :
    s < nextSeq ~>
      \/ \E i \in DOMAIN handed : handed[i] = [epoch |-> epoch, seq |-> s]
      \/ \E g \in gaps : g.epoch = epoch /\ g.seq <= s
      \/ s >= nextSeq

\* A sender that waits for credit gets on, unless the session lost a frame or an
\* ack, which nobody repeats, or a reader is among the waiting, who reads no acks.
SendersGetOn ==
  \A p \in Tasks :
    QueuedAs(p) # {} ~>
      \/ QueuedAs(p) = {}
      \/ epoch \in ackless \cup {g.epoch : g \in gaps}
      \/ \E c \in Conn : QueuedAs(c) # {}

\* The stream flows as long as nothing is lost, however connections, sessions and
\* readers follow one another.
Flows == Delivery /\ SendersGetOn

---------------------------------------------------------------------------
(* The inductive invariant behind the theorem of SchedulerStream_proofs.   *)

\* The send state, for any number of messages and sessions.
CreditShape ==
  /\ epoch \in Nat \ {0} /\ nextSeq \in Nat \ {0} /\ credit \in Nat
  /\ unacked \subseteq 1..(nextSeq - 1)
  /\ queue \in Seq([who : Sender, epoch : 1..epoch])
  /\ woken \subseteq [who : Sender, epoch : 1..epoch] /\ IsFiniteSet(woken)

\* A sender sends one message at a time.
SendsOnce ==
  /\ \A i, j \in DOMAIN queue : queue[i].who = queue[j].who => i = j
  /\ \A g, h \in woken : g.who = h.who => g = h
  /\ \A i \in DOMAIN queue, g \in woken : queue[i].who # g.who

CreditInv == CreditShape /\ SendsOnce /\ CreditAccounted
=============================================================================
