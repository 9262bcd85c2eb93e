---------------------------- MODULE WorkerStream ----------------------------
(***************************************************************************)
(* The stream of biz.* messages from a worker to the scheduler within one  *)
(* session: worker/network/session.py numbers, tracks and resends them,    *)
(* scheduler_api/core/network/{server,session,manager}.py windows, acks    *)
(* and hands them to the handlers.  The session outlives WebSocket         *)
(* connections: after a drop the worker connects again and sends           *)
(* control.resume, and both windows go on where they were.  A connection   *)
(* delivers what it delivers in order and loses the rest when it drops.    *)
(*                                                                         *)
(* A message is named by its session_seq.  Connections are numbered as     *)
(* they are opened; each has a reader at the scheduler (the loop of        *)
(* handle_websocket), so the readers of a superseded connection and of the *)
(* one that resumed the session run side by side.                          *)
(***************************************************************************)
EXTENDS ReceiveWindow, FiniteSets

CONSTANTS
  MaxSeq,      \* bound on the messages sent
  Requested,   \* messages with ack.request: results, errors, next requests
  MaxRetries,  \* ack_retry_attempts
  MaxConns,    \* bound on the connections opened
  Faults,      \* kinds of fault (or unlucky timing) that may happen
  MaxFaults,   \* bound on their number
  None

Message == 1..MaxSeq
Conn == 1..MaxConns
Resume == 0    \* the control.resume frame on the wire
FaultKinds == {"drop", "broken_send", "offline_send", "offline_retry", "early_retry",
               "early_frame", "ack_error", "overlap"}

ASSUME StreamAssumption ==
  /\ MaxSeq \in Nat /\ MaxConns \in Nat \ {0} /\ MaxRetries \in Nat \ {0} /\ MaxFaults \in Nat
  /\ Requested \subseteq Message /\ Faults \subseteq FaultKinds /\ None \notin Nat

VARIABLES
  nextSeq,    \* _send_next_seq
  unacked,    \* keys of _seq_to_message_id; each holds one unit of send credit
  attempts,   \* resends of every message so far
  failing,    \* sends and resends that raised, give up, and wait for a reconnect
  acked,      \* history: messages whose sequence number an ack released
  lost,       \* history: messages the sender gave up
  conn,       \* the connection opened last
  up,         \* whether it is usable
  resuming,   \* control.resume not written on it yet
  wire,       \* frames written to each connection and not read yet
  bound,      \* connections the scheduler has bound to the session
  window,     \* WorkerSession.recv_window
  reader,     \* what the reader of each connection is doing
  acks,       \* control.ack frames on their way to the worker
  delivered,  \* messages handed to the handlers so far
  unwindowed, \* history: messages read on a connection without a session
  faults

senderVars == <<nextSeq, unacked, attempts, failing, acked, lost>>
linkVars   == <<conn, up, resuming>>
readVars   == <<bound, window, reader, delivered, unwindowed>>
vars == <<senderVars, linkVars, wire, readVars, acks, faults>>

Fault(f) == f \in Faults /\ faults < MaxFaults /\ faults' = faults + 1
NoFault  == UNCHANGED faults

Waiting == [stage |-> "idle", ready |-> <<>>, ack |-> None]
Closed  == [stage |-> "closed", ready |-> <<>>, ack |-> None]
Acking(ready, ack) == [stage |-> "acking", ready |-> ready, ack |-> ack]
Handing(ready)     == [stage |-> "handing", ready |-> ready, ack |-> None]

\* The session was just accepted on connection 1.
Init ==
  /\ nextSeq = 1 /\ unacked = {} /\ attempts = [s \in Message |-> 0]
  /\ failing = {} /\ acked = {} /\ lost = {}
  /\ conn = 1 /\ up = TRUE /\ resuming = FALSE
  /\ wire = [c \in Conn |-> <<>>]
  /\ bound = {1} /\ window = EmptyWindow
  /\ reader = [c \in Conn |-> Waiting]
  /\ acks = {} /\ delivered = <<>> /\ unwindowed = {} /\ faults = 0

---------------------------------------------------------------------------
(* The worker. *)

\* Nothing of this stream is under way on the current connection, and the sends
\* that failed have raised, so a retry timer that fires now is not early.
Quiet == wire[conn] = <<>> /\ reader[conn].stage = "idle" /\ acks = {} /\ failing = {}

\* A frame written before control.resume reaches a reader without a session.
Early == IF resuming THEN Fault("early_frame") ELSE NoFault

Write(s) == wire' = [wire EXCEPT ![conn] = Append(@, s)]

\* _release_send_seq without an ack: the message is gone, its number is not
\* used again.
Release(s) ==
  /\ unacked' = unacked \ {s}
  /\ lost' = lost \cup ({s} \cap unacked)

\* _assign_session_seq: wait for credit, take the next number.
Assign(s) ==
  /\ s = nextSeq /\ s \in Message
  /\ Cardinality(unacked) < Size
  /\ nextSeq' = nextSeq + 1

Send(s) ==
  /\ Assign(s) /\ up /\ Early
  /\ unacked' = unacked \cup {s}
  /\ Write(s)
  /\ UNCHANGED <<attempts, failing, acked, lost, linkVars, readVars, acks>>

\* Between connections Connection.send raises at once.
SendOffline(s) ==
  /\ Assign(s) /\ ~up /\ Fault("offline_send")
  /\ lost' = lost \cup {s}
  /\ UNCHANGED <<unacked, attempts, failing, acked, linkVars, wire, readVars, acks>>

\* transport.send raises: the send waits for the reconnect, still tracked.
SendBreaks(s) ==
  /\ Assign(s) /\ up /\ conn \in bound /\ Fault("broken_send")
  /\ up' = FALSE
  /\ unacked' = unacked \cup {s} /\ failing' = failing \cup {s}
  /\ UNCHANGED <<attempts, acked, lost, conn, resuming, wire, readVars, acks>>

\* ... and then raises to its caller.
SendRaises(s) ==
  /\ s \in failing /\ up
  /\ failing' = failing \ {s}
  /\ Release(s)
  /\ UNCHANGED <<nextSeq, attempts, acked, linkVars, wire, readVars, acks, faults>>

\* The delays double with every attempt, so s does not run far ahead of others.
Due(s) == Quiet /\ \A t \in unacked : attempts[s] <= attempts[t] + 1

\* _ack_retry_scheduler, when the retry timer of s fires.
Resend(s) ==
  /\ s \in unacked /\ attempts[s] < MaxRetries /\ up
  /\ IF resuming THEN Fault("early_frame")
                 ELSE IF Due(s) THEN NoFault ELSE Fault("early_retry")
  /\ Write(s)
  /\ attempts' = [attempts EXCEPT ![s] = @ + 1]
  /\ UNCHANGED <<nextSeq, unacked, failing, acked, lost, linkVars, readVars, acks>>

\* Between connections the resend raises: a tracked ack is dropped at once, a
\* window entry counts the attempt.
ResendOffline(s) ==
  /\ s \in unacked /\ attempts[s] < MaxRetries /\ ~up /\ Fault("offline_retry")
  /\ attempts' = [attempts EXCEPT ![s] = @ + 1]
  /\ IF s \in Requested \/ attempts[s] + 1 = MaxRetries
     THEN Release(s) ELSE UNCHANGED <<unacked, lost>>
  /\ UNCHANGED <<nextSeq, failing, acked, linkVars, wire, readVars, acks>>

\* The resend finds the connection broken: the scheduler of retries waits for
\* the reconnect, counts the attempt and, for a tracked ack or the last attempt,
\* gives the message up (SendRaises).
ResendBreaks(s) ==
  /\ s \in unacked /\ attempts[s] < MaxRetries /\ up /\ conn \in bound /\ Fault("broken_send")
  /\ up' = FALSE
  /\ attempts' = [attempts EXCEPT ![s] = @ + 1]
  /\ failing' = IF s \in Requested \/ attempts[s] + 1 = MaxRetries
                THEN failing \cup {s} ELSE failing
  /\ UNCHANGED <<nextSeq, unacked, acked, lost, conn, resuming, wire, readVars, acks>>

GiveUp(s) ==
  /\ s \in unacked /\ attempts[s] = MaxRetries
  /\ IF up /\ Due(s) THEN NoFault ELSE Fault("early_retry")
  /\ Release(s)
  /\ UNCHANGED <<nextSeq, attempts, failing, acked, linkVars, wire, readVars, acks>>

\* Mutant of AckedBy: the next expected message is taken for acknowledged.
AckedByOneMore(a) == {s \in unacked : a.base # None /\ (s <= a.base + 1 \/ IsSeqAcked(s, a.base, a.bits))}

\* What an ack releases: what its window part covers (_apply_window_ack) and
\* the message it names (_resolve_ack).
AckedBy(a) == {s \in unacked : a.base # None /\ IsSeqAcked(s, a.base, a.bits)}
                \cup ({a.for} \cap unacked)

HandleAck(a) ==
  /\ a \in acks
  /\ acks' = acks \ {a}
  /\ unacked' = unacked \ AckedBy(a)
  /\ acked' = acked \cup AckedBy(a)
  /\ UNCHANGED <<nextSeq, attempts, failing, lost, linkVars, wire, readVars, faults>>

\* The connection drops.  Its last frames may still be read at the scheduler,
\* and acks already received may still be handled.  A drop before the resume
\* went through starts a fresh session and is not modelled here.
Drop ==
  /\ up /\ conn \in bound /\ Fault("drop")
  /\ up' = FALSE
  /\ acks' \in {{}, acks}
  /\ UNCHANGED <<senderVars, conn, resuming, wire, readVars>>

\* _connect_with_backoff
Connect ==
  /\ ~up /\ conn < MaxConns
  /\ conn' = conn + 1 /\ up' = TRUE /\ resuming' = TRUE
  /\ UNCHANGED <<senderVars, wire, readVars, acks, faults>>

\* _on_transport_reconnect: _establish_session resumes.
SendResume ==
  /\ resuming /\ up
  /\ Write(Resume)
  /\ resuming' = FALSE
  /\ UNCHANGED <<senderVars, conn, up, readVars, acks, faults>>

---------------------------------------------------------------------------
(* The scheduler: one reader per connection. *)

Alive(c) == c = conn /\ up

\* Two readers in the middle of their envelopes at once count as a fault.
Alone(c) == \A d \in Conn \ {c} : reader[d].stage \in {"idle", "closed"}

\* The ack of a frame: the state of the window, and the id if it asked for one.
WindowAck(s, w) == [base |-> w.base, bits |-> w.bits,
                    for |-> IF s \in Requested THEN s ELSE None]
PlainAck(s)     == [base |-> None, bits |-> {}, for |-> s]

ReadFrame(c, s) ==
  /\ reader[c].stage = "idle" /\ wire[c] # <<>> /\ s = Head(wire[c])
  /\ wire' = [wire EXCEPT ![c] = Tail(@)]
  /\ UNCHANGED <<senderVars, linkVars, acks, delivered>>

\* handle_envelope with a session: record, then ack whatever came of it.
ReadMessage(c, s) ==
  /\ ReadFrame(c, s) /\ s # Resume /\ c \in bound
  /\ IF Alone(c) THEN NoFault ELSE Fault("overlap")
  /\ window' = Record(window, s)
  /\ reader' = [reader EXCEPT ![c] =
                 Acking(Ready(window, s), WindowAck(s, Record(window, s)))]
  /\ UNCHANGED <<bound, unwindowed>>

\* Without a session there is no window; the envelope goes to the handlers.
ReadUnbound(c, s) ==
  /\ ReadFrame(c, s) /\ s # Resume /\ c \notin bound
  /\ IF Alone(c) THEN NoFault ELSE Fault("overlap")
  /\ reader' = [reader EXCEPT ![c] =
                 IF s \in Requested THEN Acking(<<s>>, PlainAck(s)) ELSE Handing(<<s>>)]
  /\ unwindowed' = unwindowed \cup {s}
  /\ UNCHANGED <<bound, window>>

\* _handle_resume with the right session id and token.
ReadResume(c) ==
  /\ ReadFrame(c, Resume)
  /\ bound' = bound \cup {c}
  /\ UNCHANGED <<window, reader, unwindowed, faults>>

\* An ack sent on a connection that is gone is dropped silently ...
SendAck(c) ==
  /\ reader[c].stage = "acking"
  /\ acks' = IF Alive(c) THEN acks \cup {reader[c].ack} ELSE acks
  /\ reader' = [reader EXCEPT ![c] = IF @.ready = <<>> THEN Waiting ELSE Handing(@.ready)]
  /\ UNCHANGED <<senderVars, linkVars, wire, bound, window, delivered, unwindowed, faults>>

\* ... or raises what _maybe_ack does not expect, and the reader ends.
AckRaises(c) ==
  /\ reader[c].stage = "acking" /\ ~Alive(c) /\ Fault("ack_error")
  /\ reader' = [reader EXCEPT ![c] = Closed]
  /\ wire' = [wire EXCEPT ![c] = <<>>]
  /\ UNCHANGED <<senderVars, linkVars, bound, window, acks, delivered, unwindowed>>

\* _dispatch_handlers for the next envelope of the ready list.
HandOver(c) ==
  /\ reader[c].stage = "handing"
  /\ delivered' = Append(delivered, Head(reader[c].ready))
  /\ reader' = [reader EXCEPT ![c] = IF Len(@.ready) = 1 THEN Waiting
                                     ELSE Handing(Tail(@.ready))]
  /\ UNCHANGED <<senderVars, linkVars, wire, bound, window, acks, unwindowed, faults>>

\* The reader of a dropped connection finds it closed.
CloseReader(c) ==
  /\ reader[c].stage = "idle" /\ c <= conn /\ ~Alive(c)
  /\ reader' = [reader EXCEPT ![c] = Closed]
  /\ wire' = [wire EXCEPT ![c] = <<>>]
  /\ UNCHANGED <<senderVars, linkVars, bound, window, acks, delivered, unwindowed, faults>>

---------------------------------------------------------------------------

Sender(s) == Send(s) \/ SendOffline(s) \/ SendBreaks(s) \/ SendRaises(s)
             \/ Resend(s) \/ ResendOffline(s) \/ ResendBreaks(s) \/ GiveUp(s)

Link == Drop \/ Connect \/ SendResume

Read(c) == \/ \E s \in Message : ReadMessage(c, s) \/ ReadUnbound(c, s)
           \/ ReadResume(c)

Reader(c) == Read(c) \/ SendAck(c) \/ AckRaises(c) \/ HandOver(c) \/ CloseReader(c)

Next ==
  \/ \E s \in Message : Sender(s)
  \/ \E a \in acks : HandleAck(a)
  \/ Link
  \/ \E c \in Conn : Reader(c)

Spec == Init /\ [][Next]_vars

\* Event loops run, connections carry what they do not lose, the worker keeps
\* reconnecting; faults, and new messages, are never forced.
FairSpec ==
  /\ Spec
  /\ WF_vars(Connect) /\ WF_vars(SendResume)
  /\ WF_vars(\E a \in acks : HandleAck(a))
  /\ \A s \in Message : WF_vars(Resend(s) /\ NoFault)
                        /\ WF_vars(SendRaises(s))
  /\ \A c \in Conn : WF_vars(Read(c) /\ NoFault) /\ WF_vars(SendAck(c)) /\ WF_vars(HandOver(c))

---------------------------------------------------------------------------
(* What must hold. *)

AckType == [base : Nat \cup {None}, bits : SUBSET (0..(Size - 1)), for : Message \cup {None}]

SenderTypes ==
  /\ nextSeq \in 1..(MaxSeq + 1)
  /\ unacked \subseteq Message /\ failing \subseteq Message
  /\ acked \subseteq Message /\ lost \subseteq Message
  /\ attempts \in [Message -> 0..MaxRetries]

LinkTypes ==
  /\ conn \in Conn /\ up \in BOOLEAN /\ resuming \in BOOLEAN
  /\ wire \in [Conn -> Seq(Message \cup {Resume})]
  /\ acks \subseteq AckType
  /\ faults \in Nat

ReaderType == [stage : {"idle", "acking", "handing", "closed"}, ready : Seq(Message),
               ack : AckType \cup {None}]

SchedulerTypes ==
  /\ bound \subseteq Conn
  /\ window \in WindowType
  /\ reader \in [Conn -> ReaderType]
  /\ delivered \in Seq(Message)
  /\ unwindowed \subseteq Message

\* Every variable keeps its shape: no more numbers are used than messages were
\* sent, no message is resent beyond ack_retry_attempts, and the ready lists hold
\* messages only.
TypeOK == SenderTypes /\ LinkTypes /\ SchedulerTypes

\* The window is coherent after every step (window.py: the bitmap, the buffer
\* and the base move together).
WindowOK == WindowCoherent(window)

\* What an ack's window part claims was received was received, however late,
\* and on whatever connection, the ack arrives (window.py is_seq_acked against
\* record).
WindowAcksTruthful ==
  \A a \in acks : a.base # None =>
    \A s \in 1..(a.base + Size) : IsSeqAcked(s, a.base, a.bits) => s \in Received(window)

Handled == {delivered[i] : i \in DOMAIN delivered}

\* A message the sender takes for acknowledged has reached the scheduler: it was
\* handed over, or it waits in the window for its predecessors.
AckedIsReceived == acked \subseteq Received(window) \cup Handled

\* The messages in hand or handed over, in the order of the stream.
InHand == UNION {{reader[c].ready[i] : i \in DOMAIN reader[c].ready} : c \in Conn}

\* No message reaches the handlers twice, however often it was resent, unless a
\* copy of it bypassed the window (server.py before control.resume is read).
DeliveredOnce ==
  /\ \A i, j \in DOMAIN delivered :
       delivered[i] = delivered[j] /\ delivered[i] \notin unwindowed => i = j
  /\ \A i \in DOMAIN delivered : delivered[i] \in InHand => delivered[i] \in unwindowed

\* The stream keeps the promise of the session layer: the handlers get the
\* messages in the order they were sent, each once, without gaps.
Ordered == INSTANCE OrderedDelivery WITH sent <- nextSeq - 1

ImplementsOrderedDelivery == Ordered!Spec

\* A message none of whose predecessors (nor itself) was given up reaches the
\* handlers.
Delivery ==
  \A s \in Message :
    (nextSeq > s) ~> (s \in Handled \/ lost \cap (1..s) # {})

\* A message acknowledged to its sender reaches the handlers.
AckedIsDelivered == \A s \in Message : (s \in acked) ~> (s \in Handled)

---------------------------------------------------------------------------
(* The inductive invariants behind the theorems of WorkerStream_proofs.    *)

\* Only numbers that were assigned are tracked, written or received.
SentOnly ==
  /\ unacked \subseteq 1..(nextSeq - 1)
  /\ \A c \in Conn : \A i \in DOMAIN wire[c] : wire[c][i] \in 0..(nextSeq - 1)
  /\ Received(window) \subseteq 1..(nextSeq - 1)

\* The acks sent, or about to be, claim no more than was received.
Truthful(a) ==
  a.base # None => /\ a.base <= window.base
                   /\ \A o \in a.bits : a.base + 1 + o \in Received(window)
AcksTruthful ==
  /\ \A a \in acks : Truthful(a)
  /\ \A c \in Conn : reader[c].stage = "acking" => reader[c].ack \in AckType /\ Truthful(reader[c].ack)

\* A reader that hands over has something to hand over.
HandsSomething == \A c \in Conn : reader[c].stage = "handing" => reader[c].ready # <<>>

StreamInv == TypeOK /\ SentOnly /\ WindowOK /\ HandsSomething /\ AcksTruthful

\* The messages in hand or handed over came through the window, which has moved
\* past them, or bypassed it; of those that came through, no two in hand are the
\* same.
HeldOnce ==
  /\ Handled \cup InHand \subseteq unwindowed \cup 1..window.base
  /\ \A c, d \in Conn : \A i \in DOMAIN reader[c].ready, j \in DOMAIN reader[d].ready :
       reader[c].ready[i] = reader[d].ready[j] /\ reader[c].ready[i] \notin unwindowed
         => c = d /\ i = j

OnceInv == StreamInv /\ HeldOnce /\ DeliveredOnce

\* The faults the order of the stream survives.
OrderlyFaults == Faults \cap {"early_frame", "overlap", "ack_error"} = {}

\* Every connection but the current one was bound; on the current one nothing
\* precedes control.resume.
ResumeFirst ==
  /\ \A c \in Conn : c > conn => wire[c] = <<>> /\ c \notin bound
  /\ \A c \in Conn : c < conn => c \in bound
  /\ conn \notin bound => /\ up
                          /\ resuming => wire[conn] = <<>>
                          /\ ~resuming => wire[conn] # <<>> /\ Head(wire[conn]) = Resume
  /\ resuming => conn \notin bound

\* One reader at a time holds envelopes, the ones between those handed over and
\* the base of the window.
Busy(c) == reader[c].stage \in {"acking", "handing"}
HandedInOrder ==
  /\ \A i \in DOMAIN delivered : delivered[i] = i
  /\ \A c, d \in Conn : Busy(c) /\ Busy(d) => c = d
  /\ \A c \in Conn : Busy(c) =>
       /\ Len(delivered) + Len(reader[c].ready) = window.base
       /\ \A i \in DOMAIN reader[c].ready : reader[c].ready[i] = Len(delivered) + i
  /\ (\A c \in Conn : ~Busy(c)) => Len(delivered) = window.base

OrderInv == StreamInv /\ ResumeFirst /\ HandedInOrder
=============================================================================
