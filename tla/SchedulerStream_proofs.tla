----------------------- MODULE SchedulerStream_proofs -----------------------
(***************************************************************************)
(* Send credit is accounted for, whatever the window size, the number of   *)
(* senders, connections and messages, and whatever acks arrive, from       *)
(* whatever session.  Credit is moved by the hand: from the semaphore to a *)
(* sender that was woken, to the number it takes, and back by an ack.      *)
(* That a release wakes as many senders as it has credit for rests on      *)
(* every sender waiting in one place only.                                 *)
(***************************************************************************)
EXTENDS SchedulerStream, FiniteSetTheorems, FunctionTheorems, SequenceTheorems,
        WellFoundedInduction, TLAPS

\* The numbers in use are finitely many.
LEMMA UnackedFinite ==
  ASSUME CreditShape
  PROVE  IsFiniteSet(unacked) /\ Cardinality(unacked) \in Nat
<1>1. IsFiniteSet(1..(nextSeq - 1))
  BY FS_Interval DEF CreditShape
<1>2. IsFiniteSet(unacked)
  BY <1>1, FS_Subset DEF CreditShape
<1> QED
  BY <1>2, FS_CardinalityType

LEMMA GrantedFinite ==
  ASSUME CreditShape
  PROVE  IsFiniteSet(Granted) /\ Cardinality(Granted) \in Nat
<1>1. IsFiniteSet(Granted)
  BY FS_Subset DEF CreditShape, Granted
<1> QED
  BY <1>1, FS_CardinalityType

\* The queue as a sequence of waiters of this session or an earlier one.
LEMMA QueueShape ==
  ASSUME CreditShape
  PROVE  /\ Len(queue) \in Nat /\ DOMAIN queue = 1..Len(queue)
         /\ \A i \in DOMAIN queue : queue[i] \in [who : Sender, epoch : 1..epoch]
<1> DEFINE W == [who : Sender, epoch : 1..epoch]
<1>1. queue \in Seq(W)
  BY DEF CreditShape
<1> HIDE DEF W
<1>2. Len(queue) \in Nat /\ DOMAIN queue = 1..Len(queue) /\ queue \in [1..Len(queue) -> W]
  BY <1>1, LenProperties
<1>3. \A i \in DOMAIN queue : queue[i] \in W
  BY <1>2
<1> QED
  BY <1>2, <1>3 DEF W

\* The first k waiters are k, since no sender waits twice.
LEMMA QueueCount ==
  ASSUME CreditShape, SendsOnce, NEW k \in 0..Len(queue)
  PROVE  /\ IsFiniteSet({queue[i] : i \in 1..k})
         /\ Cardinality({queue[i] : i \in 1..k}) = k
<1> DEFINE f == [i \in 1..k |-> queue[i]]
           P == {queue[i] : i \in 1..k}
<1>1. \A i \in 1..k : i \in DOMAIN queue
  BY QueueShape
<1>2. \A i, j \in 1..k : queue[i] = queue[j] => i = j
  BY <1>1 DEF SendsOnce
<1>3. f \in Bijection(1..k, P)
  BY <1>2 DEF Bijection, Injection, Surjection, IsInjective
<1>4. ExistsBijection(1..k, P)
  BY <1>3 DEF ExistsBijection
<1>5. k \in Nat
  BY QueueShape
<1>6. IsFiniteSet(1..k) /\ Cardinality(1..k) = k
  BY <1>5, FS_Interval
<1> QED
  BY <1>4, <1>6, FS_Bijection

\* A step that leaves the send state alone.
LEMMA SendUnchanged ==
  ASSUME CreditInv, UNCHANGED sendVars
  PROVE  CreditInv'
BY DEF CreditInv, CreditShape, SendsOnce, CreditAccounted, Granted, sendVars

\* Taking a number moves one unit of credit to it.
LEMMA NumberedCount ==
  ASSUME CreditShape, Numbered
  PROVE  /\ nextSeq' \in Nat \ {0} /\ unacked' \subseteq 1..(nextSeq' - 1)
         /\ Cardinality(unacked') = Cardinality(unacked) + 1
         /\ epoch' = epoch
<1>1. nextSeq \notin unacked
  BY DEF CreditShape
<1>2. Cardinality(unacked \cup {nextSeq}) = Cardinality(unacked) + 1
  BY <1>1, UnackedFinite, FS_AddElement
<1> QED
  BY <1>2 DEF Numbered, CreditShape

LEMMA SendEnvelopeKeeps ==
  ASSUME CreditInv, NEW p \in Sender, ~Sending(p), SendEnvelope(p)
  PROVE  CreditInv'
<1>1. CASE credit > 0 /\ Numbered /\ credit' = credit - 1 /\ UNCHANGED <<queue, woken>>
  <2>0. /\ nextSeq' \in Nat \ {0} /\ unacked' \subseteq 1..(nextSeq' - 1)
        /\ Cardinality(unacked') = Cardinality(unacked) + 1 /\ epoch' = epoch
    BY <1>1, NumberedCount DEF CreditInv
  <2>1. CreditShape'
    <3>1. credit' \in Nat
      BY <1>1 DEF CreditInv, CreditShape
    <3> QED
      BY <1>1, <2>0, <3>1 DEF CreditInv, CreditShape
  <2>2. SendsOnce'
    BY <1>1 DEF CreditInv, SendsOnce
  <2>3. Granted' = Granted
    BY <1>1, <2>0 DEF CreditInv, Granted
  <2>4. CreditAccounted'
    BY <1>1, <2>0, <2>3, UnackedFinite, GrantedFinite
    DEF CreditInv, CreditAccounted, CreditShape
  <2> QED
    BY <2>1, <2>2, <2>4 DEF CreditInv
<1>2. CASE /\ credit = 0 /\ queue' = Append(queue, [who |-> p, epoch |-> epoch])
           /\ UNCHANGED <<epoch, nextSeq, unacked, credit, woken, down, gaps, faults>>
  <2> DEFINE w == [who |-> p, epoch |-> epoch]
  <2>0. epoch \in 1..epoch
    BY DEF CreditInv, CreditShape
  <2>1. CreditShape'
    BY <1>2, <2>0 DEF CreditInv, CreditShape
  <2>2. /\ DOMAIN queue' = 1..(Len(queue) + 1) /\ DOMAIN queue = 1..Len(queue)
        /\ Len(queue) \in Nat
        /\ \A i \in DOMAIN queue : queue'[i] = queue[i] /\ queue[i].who # p
        /\ queue'[Len(queue) + 1] = w
    BY <1>2 DEF CreditInv, CreditShape, Sending, QueuedAs
  <2>3. \A g \in woken : g.who # p
    BY DEF Sending
  <2>4. SendsOnce'
    BY <1>2, <2>2, <2>3 DEF CreditInv, SendsOnce
  <2>5. CreditAccounted'
    <3>1. Granted' = Granted
      BY <1>2 DEF Granted
    <3> QED
      BY <1>2, <2>2, <3>1 DEF CreditInv, CreditAccounted
  <2> QED
    BY <2>1, <2>4, <2>5 DEF CreditInv
<1> QED
  BY <1>1, <1>2 DEF SendEnvelope

\* A release of the credit of n numbers, that are no longer in use: whoever
\* leaves the queue has been granted credit.
LEMMA ReleaseKeeps ==
  ASSUME CreditInv, NEW n \in Nat, Release(n),
         UNCHANGED <<epoch, nextSeq>>, unacked' \subseteq unacked,
         Cardinality(unacked') = Cardinality(unacked) - n
  PROVE  /\ CreditInv'
         /\ Len(queue') \in Nat /\ Cardinality(Granted') \in Nat
         /\ Len(queue') + Cardinality(Granted') = Len(queue) + Cardinality(Granted)
<1> DEFINE k == IF n <= Len(queue) THEN n ELSE Len(queue)
           P == {queue[i] : i \in 1..k}
<1>1. /\ Len(queue) \in Nat /\ DOMAIN queue = 1..Len(queue) /\ k \in 0..Len(queue) /\ k <= n
      /\ \A i \in DOMAIN queue : queue[i] \in [who : Sender, epoch : 1..epoch]
  <2>1. /\ Len(queue) \in Nat /\ DOMAIN queue = 1..Len(queue)
        /\ \A i \in DOMAIN queue : queue[i] \in [who : Sender, epoch : 1..epoch]
    BY QueueShape DEF CreditInv
  <2>2. k \in 0..Len(queue) /\ k <= n
    BY <2>1
  <2> QED
    BY <2>1, <2>2
<1>2. woken' = woken \cup P /\ queue' = SubSeq(queue, k + 1, Len(queue)) /\ credit' = credit + n - k
  BY DEF Release
<1>3. IsFiniteSet(P) /\ Cardinality(P) = k
  BY <1>1, QueueCount DEF CreditInv
<1>4. /\ queue' \in Seq([who : Sender, epoch : 1..epoch]) /\ Len(queue') = Len(queue) - k
      /\ DOMAIN queue' = 1..(Len(queue) - k)
      /\ \A i \in DOMAIN queue' : i + k \in DOMAIN queue /\ queue'[i] = queue[i + k]
  <2> DEFINE W == [who : Sender, epoch : 1..epoch]
             m == k + 1
             l == Len(queue)
  <2>1. m \in Int /\ l \in Int /\ m <= l + 1 /\ \A i \in m..l : queue[i] \in W
    BY <1>1
  <2>2. queue' = SubSeq(queue, m, l)
    BY <1>2
  <2> HIDE DEF W, m, l
  <2>3. /\ SubSeq(queue, m, l) \in Seq(W)
        /\ Len(SubSeq(queue, m, l)) = IF m <= l THEN l - m + 1 ELSE 0
        /\ \A i \in 1..(l - m + 1) : SubSeq(queue, m, l)[i] = queue[m + i - 1]
    BY <2>1, SubSeqProperties
  <2>4. queue' \in Seq(W) /\ Len(queue') = l - m + 1
        /\ \A i \in 1..(l - m + 1) : queue'[i] = queue[m + i - 1]
    BY <2>1, <2>2, <2>3
  <2>5. l - m + 1 = Len(queue) - k
    BY <1>1 DEF l, m
  <2>6. DOMAIN queue' = 1..(Len(queue) - k)
    BY <2>4, <2>5, LenProperties
  <2>7. ASSUME NEW i \in 1..(Len(queue) - k)
        PROVE  i + k \in DOMAIN queue /\ m + i - 1 = i + k
    BY <1>1 DEF m
  <2> QED
    BY <2>4, <2>5, <2>6, <2>7 DEF W
<1>5. P \subseteq [who : Sender, epoch : 1..epoch] /\ P \cap woken = {}
      /\ \A g \in P : g.epoch = epoch
  <2>1. ASSUME NEW i \in 1..k
        PROVE  /\ queue[i] \in [who : Sender, epoch : 1..epoch]
               /\ queue[i] \notin woken /\ queue[i].epoch = epoch
    <3>1. i \in DOMAIN queue
      BY <1>1
    <3> QED
      BY <1>1, <3>1 DEF CreditInv, SendsOnce, CreditAccounted
  <2> QED
    BY <2>1
<1>k. k # Len(queue) => k = n
  OBVIOUS
<1> HIDE DEF k
<1>6. CreditShape'
  <2>1. IsFiniteSet(woken')
    BY <1>2, <1>3, FS_Union DEF CreditInv, CreditShape
  <2>2. credit' \in Nat
    BY <1>1, <1>2 DEF CreditInv, CreditShape
  <2> QED
    BY <1>2, <1>4, <1>5, <2>1, <2>2 DEF CreditInv, CreditShape
<1>7. SendsOnce'
  <2>1. \A i, j \in DOMAIN queue' : queue'[i].who = queue'[j].who => i = j
    BY <1>1, <1>4 DEF CreditInv, SendsOnce
  <2>2. ASSUME NEW g \in woken', NEW h \in woken', g.who = h.who
        PROVE  g = h
    <3>1. \A i \in 1..k : i \in DOMAIN queue
      BY <1>1
    <3>2. \A i, j \in 1..k : queue[i].who = queue[j].who => i = j
      BY <3>1 DEF CreditInv, SendsOnce
    <3>3. \A i \in 1..k, e \in woken : queue[i].who # e.who
      BY <3>1 DEF CreditInv, SendsOnce
    <3>4. \A d, e \in woken : d.who = e.who => d = e
      BY DEF CreditInv, SendsOnce
    <3> QED
      BY <1>2, <2>2, <3>2, <3>3, <3>4
  <2>3. ASSUME NEW i \in DOMAIN queue', NEW g \in woken'
        PROVE  queue'[i].who # g.who
    <3>1. CASE g \in woken
      BY <1>4, <3>1 DEF CreditInv, SendsOnce
    <3>2. CASE g \in P
      <4>1. PICK j \in 1..k : g = queue[j]
        BY <3>2
      <4>2. j \in DOMAIN queue /\ j # i + k
        BY <1>1, <1>4, <4>1
      <4> QED
        BY <1>4, <4>1, <4>2 DEF CreditInv, SendsOnce
    <3> QED
      BY <1>2, <2>3, <3>1, <3>2
  <2> QED
    BY <2>1, <2>2, <2>3 DEF SendsOnce
<1>8. Cardinality(Granted') = Cardinality(Granted) + k
  <2>1. Granted' = Granted \cup P /\ Granted \cap P = {}
    BY <1>2, <1>5 DEF Granted
  <2>2. IsFiniteSet(Granted) /\ Cardinality(Granted) \in Nat
    BY GrantedFinite DEF CreditInv
  <2> QED
    <3>1. Cardinality(Granted \cup P) = Cardinality(Granted) + Cardinality(P) - Cardinality(Granted \cap P)
      BY <1>3, <2>2, FS_Union
    <3>2. Cardinality(Granted \cap P) = 0
      BY <2>1, FS_EmptySet
    <3> HIDE DEF P
    <3> QED
      BY <1>1, <1>3, <2>1, <2>2, <3>1, <3>2
<1>9. CreditAccounted'
  <2>1. credit' + Cardinality(unacked') + Cardinality(Granted') = Size
    BY <1>1, <1>2, <1>8, UnackedFinite, GrantedFinite DEF CreditInv, CreditAccounted, CreditShape
  <2>2. queue' # <<>> => credit' = 0
    <3>1. ASSUME queue' # <<>>  PROVE credit' = 0
      <4>1. Len(queue) - k # 0
        BY <1>4, <3>1, EmptySeq
      <4>2. k # Len(queue) /\ Len(queue) # 0
        <5>1. Len(queue) \in Nat /\ k \in 0..Len(queue)
          BY <1>1
        <5> QED
          BY <4>1, <5>1
      <4>3. queue # <<>> /\ k = n
        BY <1>k, <4>2
      <4> QED
        BY <1>2, <4>3 DEF CreditInv, CreditAccounted, CreditShape
    <3> QED
      BY <3>1
  <2>3. \A i \in DOMAIN queue' : queue'[i].epoch = epoch'
    BY <1>4 DEF CreditInv, CreditAccounted
  <2> QED
    BY <2>1, <2>2, <2>3 DEF CreditAccounted
<1>10. /\ Len(queue') \in Nat /\ Cardinality(Granted') \in Nat
       /\ Len(queue') + Cardinality(Granted') = Len(queue) + Cardinality(Granted)
  BY <1>1, <1>4, <1>8, GrantedFinite DEF CreditInv
<1> QED
  BY <1>6, <1>7, <1>9, <1>10 DEF CreditInv

LEMMA ReadAckReleases ==
  ASSUME CreditInv, NEW c \in Conn, ReadAck(c)
  PROVE  /\ CreditInv'
         /\ Len(queue') \in Nat /\ Cardinality(Granted') \in Nat
         /\ Len(queue') + Cardinality(Granted') = Len(queue) + Cardinality(Granted)
<1> DEFINE A == Covered(Head(back[c]))
<1>1. A \subseteq unacked /\ unacked' = unacked \ A /\ Release(Cardinality(A))
  BY DEF ReadAck, Covered
<1>2. UNCHANGED <<epoch, nextSeq>>
  BY DEF ReadAck
<1>3. IsFiniteSet(A) /\ Cardinality(A) \in Nat
  BY <1>1, UnackedFinite, FS_Subset, FS_CardinalityType DEF CreditInv
<1>4. Cardinality(unacked \ A) = Cardinality(unacked) - Cardinality(A)
  <2>1. IsFiniteSet(unacked \ A) /\ Cardinality(unacked \ A) \in Nat
    BY UnackedFinite, FS_Subset, FS_CardinalityType DEF CreditInv
  <2>2. unacked = (unacked \ A) \cup A /\ (unacked \ A) \cap A = {}
    BY <1>1
  <2>3. Cardinality((unacked \ A) \cup A) = Cardinality(unacked \ A) + Cardinality(A) - Cardinality({})
    BY <1>3, <2>1, <2>2, FS_Union
  <2>4. Cardinality({}) = 0
    BY FS_EmptySet
  <2> QED
    BY <1>3, <2>1, <2>2, <2>3, <2>4
<1> HIDE DEF A
<1> QED
  BY <1>1, <1>2, <1>3, <1>4, ReleaseKeeps

LEMMA ResumeKeeps ==
  ASSUME CreditInv, NEW g \in woken, Resume(g)
  PROVE  CreditInv'
<1>1. woken' = woken \ {g} /\ UNCHANGED <<credit, queue>>
  BY DEF Resume
<1>2. IsFiniteSet(woken')
  BY <1>1, FS_RemoveElement DEF CreditInv, CreditShape
<1>3. SendsOnce'
  BY <1>1 DEF CreditInv, SendsOnce
<1>4. CASE g.epoch = epoch
  <2>1. /\ nextSeq' \in Nat \ {0} /\ unacked' \subseteq 1..(nextSeq' - 1)
        /\ Cardinality(unacked') = Cardinality(unacked) + 1 /\ epoch' = epoch
    BY <1>4, NumberedCount DEF Resume, CreditInv
  <2>2. Granted' = Granted \ {g} /\ g \in Granted
    BY <1>1, <1>4, <2>1 DEF Granted
  <2>3. Cardinality(Granted') = Cardinality(Granted) - 1
    BY <2>2, GrantedFinite, FS_RemoveElement DEF CreditInv
  <2>4. CreditShape'
    BY <1>1, <1>2, <2>1 DEF CreditInv, CreditShape
  <2>5. CreditAccounted'
    BY <1>1, <2>1, <2>3, UnackedFinite, GrantedFinite DEF CreditInv, CreditAccounted, CreditShape
  <2> QED
    BY <1>3, <2>4, <2>5 DEF CreditInv
<1>5. CASE g.epoch # epoch
  <2>1. UNCHANGED <<epoch, nextSeq, unacked>>
    BY <1>5 DEF Resume
  <2>2. Granted' = Granted
    BY <1>1, <1>5, <2>1 DEF Granted
  <2>3. CreditShape'
    BY <1>1, <1>2, <2>1 DEF CreditInv, CreditShape
  <2>4. CreditAccounted'
    BY <1>1, <2>1, <2>2 DEF CreditInv, CreditAccounted
  <2> QED
    BY <1>3, <2>3, <2>4 DEF CreditInv
<1> QED
  BY <1>4, <1>5

LEMMA HandshakeKeeps ==
  ASSUME CreditInv, Handshake
  PROVE  CreditInv'
<1> DEFINE P == {queue[i] : i \in DOMAIN queue}
<1>1. /\ woken' = woken \cup P /\ queue' = <<>> /\ epoch' = epoch + 1
      /\ nextSeq' = 1 /\ unacked' = {} /\ credit' = Size
  BY DEF Handshake, WakeAll
<1>2. /\ Len(queue) \in Nat /\ DOMAIN queue = 1..Len(queue)
      /\ P \subseteq [who : Sender, epoch : 1..epoch]
  BY QueueShape DEF CreditInv
<1>3. IsFiniteSet(P)
  BY <1>2, QueueCount DEF CreditInv
<1>4. CreditShape'
  <2>1. IsFiniteSet(woken')
    BY <1>1, <1>3, FS_Union DEF CreditInv, CreditShape
  <2>2. woken' \subseteq [who : Sender, epoch : 1..epoch']
    BY <1>1, <1>2 DEF CreditInv, CreditShape
  <2> QED
    BY <1>1, <2>1, <2>2, SizeAssumption DEF CreditInv, CreditShape
<1>5. SendsOnce'
  BY <1>1, <1>2 DEF CreditInv, SendsOnce
<1>6. Granted' = {}
  BY <1>1, <1>2 DEF CreditInv, CreditShape, Granted
<1>7. CreditAccounted'
  BY <1>1, <1>6, FS_EmptySet, SizeAssumption DEF CreditAccounted
<1> QED
  BY <1>4, <1>5, <1>7 DEF CreditInv

---------------------------------------------------------------------------

LEMMA CreditStep ==
  ASSUME CreditInv, [Next]_vars
  PROVE  CreditInv'
<1>1. ASSUME NEW p \in Tasks, Send(p)  PROVE CreditInv'
  BY <1>1, SendEnvelopeKeeps DEF Send, Sender
<1>2. ASSUME NEW g \in woken, Resume(g)  PROVE CreditInv'
  BY <1>2, ResumeKeeps
<1>3. ASSUME NEW c \in Conn, ReadAck(c)  PROVE CreditInv'
  BY <1>3, ReadAckReleases
<1>4. ASSUME NEW c \in Conn, ReadRequest(c)  PROVE CreditInv'
  <2>1. ~Sending(c) /\ c \in Sender
    BY <1>4 DEF ReadRequest, Read, Sender
  <2>2. CASE transport # None /\ Room
    BY <1>4, <2>1, <2>2, SendEnvelopeKeeps DEF ReadRequest
  <2>3. CASE ~(transport # None /\ Room)
    BY <1>4, <2>3, SendUnchanged DEF ReadRequest
  <2> QED
    BY <2>2, <2>3
<1>5. ASSUME NEW c \in Conn, CloseReader(c)  PROVE CreditInv'
  BY <1>5, SendUnchanged DEF CloseReader
<1>6. CASE Handshake
  BY <1>6, HandshakeKeeps
<1>7. CASE Drop \/ ResumeSession \/ Register \/ Ask
  BY <1>7, SendUnchanged DEF Drop, ResumeSession, Register, Ask
<1>8. CASE Worker
  BY <1>8, SendUnchanged DEF Worker, HandleAccept, HandleMessage
<1>9. CASE UNCHANGED vars
  BY <1>9, SendUnchanged DEF vars
<1> QED
  BY <1>1, <1>2, <1>3, <1>4, <1>5, <1>6, <1>7, <1>8, <1>9 DEF Next, Reader, Reconnect

\* For every window size, any senders, connections, messages and faults: no send
\* credit is ever lost or made up, and nobody waits for the credit of a session
\* that was replaced.
THEOREM CreditAlwaysAccounted == Spec => []CreditAccounted
<1>1. Init => CreditInv
  BY FS_EmptySet, SizeAssumption
  DEF Init, CreditInv, CreditShape, SendsOnce, CreditAccounted, Granted
<1>2. CreditInv /\ [Next]_vars => CreditInv'
  BY CreditStep
<1>3. CreditInv => CreditAccounted
  BY DEF CreditInv
<1> QED
  BY <1>1, <1>2, <1>3, PTL DEF Spec

---------------------------------------------------------------------------
(* The shape of the state.  Within the bounds every message that is waited   *)
(* for will still find a number, there are no more sessions than             *)
(* connections, and whatever the window buffers has its epoch on record.     *)

Frame == Message \cup {Accept(e) : e \in Epoch}
Ack == [base : Nat \cup {None}, bits : SUBSET (0..(Size - 1))]

Bounded ==
  /\ nextSeq + Len(queue) + Cardinality(Granted) <= MaxSeq + 1
  /\ epoch <= conn

Buffered == \A s \in window.buffer : s \in 1..MaxSeq /\ held[s] \in Epoch

ShapeInv ==
  /\ CreditInv /\ Bounded /\ LinkTypes /\ WorkerTypes /\ Buffered
  /\ gaps \subseteq Message /\ ackless \subseteq Epoch

LEMMA QueueGranted ==
  ASSUME CreditInv
  PROVE  /\ Len(queue) \in Nat
         /\ Cardinality(Granted) \in Nat
         /\ Cardinality(woken) \in Nat /\ Cardinality(Granted) <= Cardinality(woken)
         /\ Granted # {} => Cardinality(Granted) >= 1
<1>1. IsFiniteSet(woken) /\ Cardinality(woken) \in Nat
  BY FS_CardinalityType DEF CreditInv, CreditShape
<1>2. Cardinality(Granted) <= Cardinality(woken)
  BY <1>1, FS_Subset DEF Granted
<1>3. Granted # {} => Cardinality(Granted) # 0
  BY GrantedFinite, FS_EmptySet DEF CreditInv
<1> QED
  BY <1>1, <1>2, <1>3, GrantedFinite, QueueShape DEF CreditInv

LEMMA EpochInRange ==
  ASSUME CreditInv, Bounded, LinkTypes
  PROVE  epoch \in Epoch
BY SchedulerStreamAssumption DEF CreditInv, CreditShape, Bounded, LinkTypes, Conn, Epoch

\* A numbered frame is a message of this epoch.
LEMMA NumberedShape ==
  ASSUME ShapeInv, Numbered, nextSeq <= MaxSeq
  PROVE  down' \in Seq(Frame) /\ gaps' \subseteq Message
<1> DEFINE m == [epoch |-> epoch, seq |-> nextSeq]
<1>1. nextSeq \in 1..MaxSeq /\ epoch \in Epoch
  BY EpochInRange, SchedulerStreamAssumption DEF ShapeInv, CreditInv, CreditShape
<1>2. m \in Message /\ m \in Frame
  BY <1>1 DEF Message, Frame
<1>3. down \in Seq(Frame) /\ gaps \subseteq Message
  BY DEF ShapeInv, LinkTypes, Frame
<1>4. down' \in {down, Append(down, m)} /\ gaps' \in {gaps, gaps \cup {m}}
  BY DEF Numbered
<1> HIDE DEF m
<1> QED
  BY <1>2, <1>3, <1>4

LEMMA SendEnvelopeShape ==
  ASSUME ShapeInv, NEW p \in Sender, ~Sending(p), Room, SendEnvelope(p), conn' = conn
  PROVE  Bounded' /\ down' \in Seq(Frame) /\ gaps' \subseteq Message
<1>1. CreditInv /\ Bounded /\ down \in Seq(Frame) /\ gaps \subseteq Message
  BY DEF ShapeInv, LinkTypes, Frame
<1>2. /\ Len(queue) \in Nat /\ Cardinality(Granted) \in Nat /\ nextSeq \in Nat \ {0} /\ MaxSeq \in Nat
      /\ nextSeq + Len(queue) + Cardinality(Granted) <= MaxSeq
  BY <1>1, QueueGranted, SchedulerStreamAssumption DEF Room, CreditInv, CreditShape
<1>3. CASE credit > 0 /\ Numbered /\ credit' = credit - 1 /\ UNCHANGED <<queue, woken>>
  <2>1. nextSeq' = nextSeq + 1 /\ epoch' = epoch /\ Granted' = Granted /\ queue' = queue
    BY <1>3 DEF Numbered, Granted
  <2>2. Bounded'
    BY <1>1, <1>2, <2>1 DEF Bounded
  <2> QED
    BY <1>2, <1>3, <2>2, NumberedShape
<1>4. CASE /\ queue' = Append(queue, [who |-> p, epoch |-> epoch])
           /\ UNCHANGED <<epoch, nextSeq, unacked, credit, woken, down, gaps, faults>>
  <2>1. Granted' = Granted
    BY <1>4 DEF Granted
  <2>2. Len(queue') = Len(queue) + 1
    BY <1>1, <1>4 DEF CreditInv, CreditShape
  <2>3. Bounded'
    BY <1>1, <1>2, <1>4, <2>1, <2>2 DEF Bounded
  <2> QED
    BY <1>1, <1>4, <2>3
<1> QED
  BY <1>3, <1>4 DEF SendEnvelope

LEMMA SendShape ==
  ASSUME ShapeInv, CreditInv', NEW p \in Tasks, Send(p)
  PROVE  ShapeInv'
<1>1. Bounded' /\ down' \in Seq(Frame) /\ gaps' \subseteq Message
  BY SendEnvelopeShape DEF Send, linkVars, Sender
<1>2. UNCHANGED <<linkVars, back, workVars, ackless>>
  BY DEF Send
<1> QED
  BY <1>1, <1>2 DEF ShapeInv, LinkTypes, WorkerTypes, Buffered, Frame, linkVars, workVars

LEMMA ResumeShape ==
  ASSUME ShapeInv, CreditInv', NEW g \in woken, Resume(g)
  PROVE  ShapeInv'
<1>1. CreditInv /\ Bounded /\ down \in Seq(Frame) /\ gaps \subseteq Message
  BY DEF ShapeInv, LinkTypes, Frame
<1>2. UNCHANGED <<linkVars, back, workVars, ackless, queue>> /\ woken' = woken \ {g}
  BY DEF Resume
<1>3. Bounded' /\ down' \in Seq(Frame) /\ gaps' \subseteq Message
  <2>1. CASE g.epoch = epoch
    <3>1. Numbered
      BY <2>1 DEF Resume
    <3>2. nextSeq' = nextSeq + 1 /\ epoch' = epoch
      BY <3>1 DEF Numbered
    <3>3. g \in Granted /\ Granted' = Granted \ {g}
      BY <1>2, <2>1, <3>2 DEF Granted
    <3>4. Cardinality(Granted') = Cardinality(Granted) - 1
      BY <1>1, <3>3, GrantedFinite, FS_RemoveElement DEF CreditInv
    <3>5. /\ Len(queue) \in Nat /\ Cardinality(Granted) \in Nat \ {0}
          /\ nextSeq \in Nat \ {0} /\ MaxSeq \in Nat
      BY <1>1, <3>3, QueueGranted, SchedulerStreamAssumption DEF CreditInv, CreditShape
    <3>6. nextSeq <= MaxSeq
      BY <1>1, <3>5 DEF Bounded
    <3>7. Bounded'
      BY <1>1, <1>2, <3>2, <3>4, <3>5 DEF Bounded, linkVars
    <3> QED
      BY <3>1, <3>6, <3>7, NumberedShape
  <2>2. CASE g.epoch # epoch
    <3>1. UNCHANGED <<epoch, nextSeq, unacked, credit, queue, down, gaps, faults>>
      BY <2>2 DEF Resume
    <3>2. Granted' = Granted
      BY <1>2, <2>2, <3>1 DEF Granted
    <3> QED
      BY <1>1, <1>2, <3>1, <3>2 DEF Bounded, linkVars
  <2> QED
    BY <2>1, <2>2
<1> QED
  BY <1>2, <1>3 DEF ShapeInv, LinkTypes, WorkerTypes, Buffered, Frame, linkVars, workVars

\* A reader takes the first frame of its connection.
LEMMA ReadShape ==
  ASSUME LinkTypes, NEW c \in Conn, Read(c)
  PROVE  back' \in [Conn -> Seq(Ack)]
<1>1. back \in [Conn -> Seq(Ack)] /\ back[c] # <<>> /\ back' = [back EXCEPT ![c] = Tail(@)]
  BY DEF LinkTypes, Read, Ack
<1>2. Tail(back[c]) \in Seq(Ack)
  BY <1>1, HeadTailProperties
<1> QED
  BY <1>1, <1>2

LEMMA ReadAckShape ==
  ASSUME ShapeInv, NEW c \in Conn, ReadAck(c)
  PROVE  ShapeInv'
<1> DEFINE A == Covered(Head(back[c]))
<1>1. CreditInv /\ Bounded
  BY DEF ShapeInv
<1>2. A \subseteq unacked /\ unacked' = unacked \ A /\ Release(Cardinality(A))
      /\ UNCHANGED <<epoch, nextSeq, down, gaps, faults>>
  BY DEF ReadAck, Covered
<1>3. UNCHANGED <<linkVars, workVars, ackless>> /\ back' \in [Conn -> Seq(Ack)]
  BY ReadShape DEF ReadAck, Read, ShapeInv
<1>4. CreditInv' /\ Len(queue') + Cardinality(Granted') = Len(queue) + Cardinality(Granted)
      /\ Len(queue') \in Nat /\ Cardinality(Granted') \in Nat
  BY <1>1, ReadAckReleases
<1>5. Bounded'
  BY <1>1, <1>2, <1>3, <1>4, QueueGranted, SchedulerStreamAssumption
  DEF Bounded, linkVars, CreditInv, CreditShape
<1> QED
  BY <1>2, <1>3, <1>4, <1>5 DEF ShapeInv, LinkTypes, WorkerTypes, Buffered, Ack, linkVars, workVars

LEMMA ReadRequestShape ==
  ASSUME ShapeInv, CreditInv', NEW c \in Conn, ReadRequest(c)
  PROVE  ShapeInv'
<1>1. UNCHANGED <<linkVars, workVars, ackless>> /\ back' \in [Conn -> Seq(Ack)] /\ ~Sending(c)
  BY ReadShape DEF ReadRequest, Read, ShapeInv
<1>2. Bounded' /\ down' \in Seq(Frame) /\ gaps' \subseteq Message
  <2>1. CASE transport # None /\ Room
    BY <1>1, <2>1, SendEnvelopeShape DEF ReadRequest, linkVars, Sender
  <2>2. CASE ~(transport # None /\ Room)
    <3>1. UNCHANGED <<sendVars, down, gaps, faults>>
      BY <2>2 DEF ReadRequest
    <3> QED
      BY <1>1, <3>1 DEF ShapeInv, Bounded, Granted, sendVars, linkVars, LinkTypes, Frame
  <2> QED
    BY <2>1, <2>2
<1> QED
  BY <1>1, <1>2 DEF ShapeInv, LinkTypes, WorkerTypes, Buffered, Frame, Ack, linkVars, workVars

LEMMA CloseShape ==
  ASSUME ShapeInv, CreditInv', NEW c \in Conn, CloseReader(c)
  PROVE  ShapeInv'
BY DEF CloseReader, ShapeInv, Bounded, Granted, LinkTypes, WorkerTypes, Buffered, sendVars, workVars

LEMMA DropShape ==
  ASSUME ShapeInv, CreditInv', Drop
  PROVE  ShapeInv'
<1>1. LinkTypes /\ down \in Seq(Frame) /\ back \in [Conn -> Seq(Ack)] /\ conn \in Conn
      /\ gaps \subseteq Message /\ ackless \subseteq Epoch /\ epoch \in Epoch
  BY EpochInRange DEF ShapeInv, LinkTypes, Frame, Ack
<1>2. PICK i \in 0..Len(down), j \in 0..Len(back[conn]) :
       /\ down' = SubSeq(down, 1, i)
       /\ gaps' = gaps \cup {down[n] : n \in {k \in (i + 1)..Len(down) : down[k].seq # 0}}
       /\ back' = [back EXCEPT ![conn] = SubSeq(@, 1, j)]
       /\ ackless' = IF j < Len(back[conn]) THEN ackless \cup {epoch} ELSE ackless
  BY DEF Drop
<1>3. down' \in Seq(Frame)
  <2>1. Len(down) \in Nat /\ \A n \in 1..Len(down) : down[n] \in Frame
    BY <1>1, LenProperties, ElementOfSeq
  <2>2. \A n \in 1..i : down[n] \in Frame
    BY <2>1
  <2> HIDE DEF Frame
  <2> QED
    BY <1>2, <2>1, <2>2, SubSeqProperties
<1>4. gaps' \subseteq Message
  <2>1. ASSUME NEW n \in (i + 1)..Len(down), down[n].seq # 0
        PROVE  down[n] \in Message
    <3>1. down[n] \in Frame
      <4>1. Len(down) \in Nat /\ n \in 1..Len(down)
        BY <1>1, LenProperties
      <4> QED
        BY <1>1, <4>1, ElementOfSeq
    <3> QED
      BY <2>1, <3>1 DEF Frame, Accept
  <2> QED
    BY <1>1, <1>2, <2>1
<1>5. back' \in [Conn -> Seq(Ack)]
  <2> DEFINE b == back[conn]
  <2>1. b \in Seq(Ack)
    BY <1>1
  <2> HIDE DEF b, Ack
  <2>2. Len(b) \in Nat /\ \A n \in 1..Len(b) : b[n] \in Ack
    BY <2>1, LenProperties, ElementOfSeq
  <2>3. j \in 0..Len(b)
    BY DEF b
  <2>4. \A n \in 1..j : b[n] \in Ack
    BY <2>2, <2>3
  <2>5. SubSeq(b, 1, j) \in Seq(Ack)
    BY <2>2, <2>3, <2>4, SubSeqProperties
  <2> QED
    BY <1>1, <1>2, <2>5 DEF b
<1>6. ackless' \subseteq Epoch
  BY <1>1, <1>2
<1>7. up' = FALSE /\ UNCHANGED <<sendVars, transport, conn, accepting, open, workVars>>
  BY DEF Drop
<1>8. Bounded'
  BY <1>7 DEF ShapeInv, Bounded, Granted, sendVars
<1>9. LinkTypes'
  BY <1>1, <1>3, <1>5, <1>7 DEF LinkTypes, Frame, Ack
<1> QED
  BY <1>4, <1>6, <1>7, <1>8, <1>9 DEF ShapeInv, WorkerTypes, Buffered, workVars

LEMMA ConnectShape ==
  ASSUME LinkTypes, NEW kinds, Connect(kinds)
  PROVE  /\ transport' \in Conn \cup {None} /\ conn' \in Conn /\ open' \subseteq Conn /\ up' \in BOOLEAN
         /\ conn' = conn + 1 /\ conn \in Nat
BY SchedulerStreamAssumption DEF Connect, LinkTypes, Conn

LEMMA ReconnectShape ==
  ASSUME ShapeInv, CreditInv', Reconnect
  PROVE  ShapeInv'
<1>0. CreditInv /\ Bounded /\ LinkTypes /\ epoch \in Nat /\ epoch <= conn
  BY DEF ShapeInv, CreditInv, CreditShape, Bounded
<1>1. CASE ResumeSession
  <2>1. /\ transport' \in Conn \cup {None} /\ conn' \in Conn /\ open' \subseteq Conn /\ up' \in BOOLEAN
        /\ conn' = conn + 1 /\ conn \in Nat
        /\ UNCHANGED <<sendVars, accepting, down, back, workVars, gaps, ackless>>
    BY <1>0, <1>1, ConnectShape DEF ResumeSession
  <2>2. Bounded'
    BY <1>0, <2>1 DEF Bounded, Granted, sendVars
  <2> QED
    BY <2>1, <2>2 DEF ShapeInv, LinkTypes, WorkerTypes, Buffered, workVars
<1>2. CASE Handshake
  <2>1. /\ transport' \in Conn \cup {None} /\ conn' \in Conn /\ open' \subseteq Conn /\ up' \in BOOLEAN
        /\ conn' = conn + 1 /\ conn \in Nat
        /\ queue' = <<>> /\ epoch' = epoch + 1 /\ nextSeq' = 1 /\ accepting' = TRUE
        /\ sid' = None /\ window' = EmptyWindow /\ UNCHANGED <<down, back, held, handed, gaps, ackless>>
        /\ woken' = woken \cup {queue[i] : i \in DOMAIN queue}
    BY <1>0, <1>2, ConnectShape DEF Handshake, WakeAll
  <2>2. Granted' = {}
    <3>1. \A i \in DOMAIN queue : queue[i].epoch \in 1..epoch
      BY <1>0, QueueShape DEF CreditInv
    <3>2. \A g \in woken : g.epoch \in 1..epoch
      BY <1>0 DEF CreditInv, CreditShape
    <3> QED
      BY <1>0, <2>1, <3>1, <3>2 DEF Granted
  <2>3. Bounded'
    <3>1. Len(queue') = 0 /\ Cardinality(Granted') = 0
      BY <2>1, <2>2, FS_EmptySet, EmptySeq
    <3> QED
      BY <1>0, <2>1, <3>1, SchedulerStreamAssumption DEF Bounded
  <2>4. window' \in WindowType /\ WindowCoherent(window') /\ window'.buffer = {}
    BY <2>1 DEF EmptyWindow, WindowType, WindowCoherent
  <2> QED
    BY <2>1, <2>3, <2>4 DEF ShapeInv, LinkTypes, WorkerTypes, Buffered
<1> QED
  BY <1>1, <1>2 DEF Reconnect

LEMMA RegisterShape ==
  ASSUME ShapeInv, CreditInv', Register
  PROVE  ShapeInv'
<1>1. down \in Seq(Frame) /\ Accept(epoch) \in Frame
  BY EpochInRange DEF ShapeInv, LinkTypes, Frame
<1>2. down' = Append(down, Accept(epoch)) /\ accepting' = FALSE
      /\ UNCHANGED <<sendVars, transport, conn, up, open, back, workVars, gaps, ackless, faults>>
  BY DEF Register
<1> HIDE DEF Frame
<1>3. down' \in Seq(Frame)
  BY <1>1, <1>2
<1> QED
  BY <1>2, <1>3 DEF ShapeInv, Bounded, Granted, LinkTypes, WorkerTypes, Buffered, sendVars, workVars, Frame

LEMMA AskShape ==
  ASSUME ShapeInv, CreditInv', Ask
  PROVE  ShapeInv'
<1>1. back \in [Conn -> Seq(Ack)] /\ conn \in Conn /\ NextRequest \in Ack
  BY DEF ShapeInv, LinkTypes, Ack, NextRequest
<1>2. back' = [back EXCEPT ![conn] = Append(@, NextRequest)]
      /\ UNCHANGED <<sendVars, linkVars, down, workVars, gaps, ackless>>
  BY DEF Ask
<1> HIDE DEF Ack
<1>3. back' \in [Conn -> Seq(Ack)]
  BY <1>1, <1>2
<1> QED
  BY <1>2, <1>3 DEF ShapeInv, Bounded, Granted, LinkTypes, WorkerTypes, Buffered, sendVars, linkVars,
     workVars, Ack

LEMMA AcceptShape ==
  ASSUME ShapeInv, CreditInv', HandleAccept
  PROVE  ShapeInv'
<1>1. down \in Seq(Frame) /\ down # <<>> /\ down' = Tail(down) /\ Head(down).seq = 0
      /\ sid' = Head(down).epoch /\ window' = EmptyWindow
      /\ UNCHANGED <<sendVars, linkVars, back, held, handed, gaps, ackless, faults>>
  BY DEF ShapeInv, LinkTypes, Frame, HandleAccept, Incoming, Reset
<1>2. Head(down) \in Frame /\ down' \in Seq(Frame)
  BY <1>1, HeadTailProperties
<1>3. sid' \in Epoch
  BY <1>1, <1>2 DEF Frame, Message, Accept
<1>4. window' \in WindowType /\ WindowCoherent(window') /\ window'.buffer = {}
  BY <1>1 DEF EmptyWindow, WindowType, WindowCoherent
<1>5. Bounded'
  BY <1>1 DEF ShapeInv, Bounded, Granted, sendVars, linkVars
<1>6. LinkTypes'
  BY <1>1, <1>2 DEF ShapeInv, LinkTypes, linkVars, Frame
<1> QED
  BY <1>1, <1>3, <1>4, <1>5, <1>6 DEF ShapeInv, WorkerTypes, Buffered

\* A set of natural numbers has a least element.
LEMMA LeastExists ==
  ASSUME NEW T \in SUBSET Nat, T # {}
  PROVE  \E n \in T : \A m \in T : n <= m
<1> DEFINE Less == {ss \in Nat \X Nat : ss[1] < ss[2]}
<1>1. IsWellFoundedOn(Less, Nat)
  BY NatLessThanWellFounded DEF OpToRel
<1>2. \A m, n \in Nat : <<m, n>> \in Less <=> m < n
  OBVIOUS
<1> HIDE DEF Less
<1>3. PICK n \in T : \A m \in T : ~(<<m, n>> \in Less)
  BY <1>1, WFMin
<1>4. ASSUME NEW m \in T
      PROVE  n <= m
  <2>1. m \in Nat /\ n \in Nat
    OBVIOUS
  <2>2. ~(m < n)
    BY <1>2, <1>3, <2>1
  <2>3. QED
    BY <2>1, <2>2
<1>5. QED
  BY <1>4

\* The loop of record() stops at the first turn with a clear bit or a missing
\* envelope, and at the latest after Size turns.
LEMMA ReadyCountFirst ==
  ASSUME NEW w, w.bits \subseteq 0..(Size - 1)
  PROVE  /\ ReadyCount(w) \in StopsAt(w)
         /\ ReadyCount(w) \in 0..Size
         /\ \A m \in 0..Size : m < ReadyCount(w) => m \notin StopsAt(w)
<1>1. Size \in Nat \ {0}
  BY SizeAssumption
<1>2. StopsAt(w) \in SUBSET Nat /\ Size \in StopsAt(w)
  BY <1>1 DEF StopsAt
<1>3. \E n \in StopsAt(w) : \A m \in StopsAt(w) : n <= m
  BY <1>2, LeastExists
<1>4. ReadyCount(w) \in StopsAt(w) /\ \A m \in StopsAt(w) : ReadyCount(w) <= m
  BY <1>3 DEF ReadyCount
<1>5. ReadyCount(w) \in 0..Size
  BY <1>4 DEF StopsAt
<1>6. QED
  BY <1>1, <1>4, <1>5

\* An accepted envelope fits in the window.
LEMMA FilledProps ==
  ASSUME NEW w \in WindowType, WindowCoherent(w), NEW s \in Nat \ {0}, Accepts(w, s)
  PROVE  LET f == Filled(w, s)
         IN  /\ f.base = w.base /\ f.base \in Nat
             /\ f.bits \subseteq 0..(Size - 1)
             /\ f.bits = {x - w.base - 1 : x \in f.buffer}
             /\ f.buffer \subseteq (w.base + 1)..(w.base + Size)
             /\ f.buffer = w.buffer \cup {s}
<1>1. Size \in Nat \ {0} /\ w.base \in Nat /\ w.bits \subseteq 0..(Size - 1)
        /\ w.buffer \subseteq Nat \ {0}
  BY SizeAssumption DEF WindowType
<1>2. s - w.base - 1 \in 0..(Size - 1) /\ s \in (w.base + 1)..(w.base + Size)
  BY <1>1 DEF Accepts
<1>3. w.bits = {x - w.base - 1 : x \in w.buffer}
        /\ w.buffer \subseteq (w.base + 1)..(w.base + Size)
  BY <1>1 DEF WindowCoherent
<1>4. QED
  BY <1>1, <1>2, <1>3 DEF Filled

\* The envelopes due are the ones that follow the base without a gap.
LEMMA DueEnvelopes ==
  ASSUME NEW w \in WindowType, WindowCoherent(w), NEW s \in Nat \ {0}, Accepts(w, s)
  PROVE  LET f == Filled(w, s)
             n == ReadyCount(f)
         IN  /\ n \in 0..Size
             /\ \A x \in (w.base + 1)..(w.base + n) : x \in f.buffer
             /\ w.base + n + 1 \notin f.buffer
<1> DEFINE f == Filled(w, s)
           n == ReadyCount(f)
<1>1. /\ f.base = w.base /\ f.base \in Nat
      /\ f.bits \subseteq 0..(Size - 1)
      /\ f.bits = {x - w.base - 1 : x \in f.buffer}
      /\ f.buffer \subseteq (w.base + 1)..(w.base + Size)
  BY FilledProps
<1>2. /\ n \in StopsAt(f) /\ n \in 0..Size
      /\ \A m \in 0..Size : m < n => m \notin StopsAt(f)
  BY <1>1, ReadyCountFirst
<1> HIDE DEF f, n
<1>3. Size \in Nat
  BY SizeAssumption
<1>4. ASSUME NEW x \in (w.base + 1)..(w.base + n)
      PROVE  x \in f.buffer
  <2> DEFINE m == x - w.base - 1
  <2>1. m \in 0..Size /\ m < n /\ f.base + 1 + m = x
    BY <1>1, <1>2, <1>3
  <2>2. m \notin StopsAt(f)
    BY <1>2, <2>1
  <2>3. QED
    BY <2>1, <2>2 DEF StopsAt
<1>5. w.base + n + 1 \notin f.buffer
  <2>1. ~(n \in f.bits /\ f.base + 1 + n \in f.buffer)
    BY <1>2 DEF StopsAt
  <2>2. ASSUME w.base + n + 1 \in f.buffer
        PROVE  FALSE
    <3>1. (w.base + n + 1) - w.base - 1 \in f.bits
      BY <1>1, <2>2
    <3>2. (w.base + n + 1) - w.base - 1 = n /\ f.base + 1 + n = w.base + n + 1
      BY <1>1, <1>2, <1>3
    <3>3. QED
      BY <2>1, <2>2, <3>1, <3>2
  <2>3. QED
    BY <2>2
<1>6. QED
  BY <1>2, <1>4, <1>5 DEF f, n

\* record() keeps the window well formed and coherent, and hands up numbers.
LEMMA RecordKeeps ==
  ASSUME NEW w \in WindowType, WindowCoherent(w), NEW s \in Nat \ {0}
  PROVE  /\ Record(w, s) \in WindowType
         /\ WindowCoherent(Record(w, s))
         /\ Ready(w, s) \in Seq(Nat \ {0})
<1>0. w.base \in Nat /\ w.buffer \subseteq Nat \ {0} /\ Size \in Nat \ {0}
  BY SizeAssumption DEF WindowType
<1>1. CASE ~Accepts(w, s)
  BY <1>0, <1>1 DEF Record, Ready
<1>2. CASE Accepts(w, s)
  <2> DEFINE f == Filled(w, s)
             n == ReadyCount(f)
             v == Slide(f, n)
  <2>1. /\ f.base = w.base
        /\ f.bits \subseteq 0..(Size - 1)
        /\ f.bits = {x - w.base - 1 : x \in f.buffer}
        /\ f.buffer \subseteq (w.base + 1)..(w.base + Size)
        /\ f.buffer = w.buffer \cup {s}
    BY <1>2, FilledProps
  <2>2. /\ n \in 0..Size
        /\ \A x \in (w.base + 1)..(w.base + n) : x \in f.buffer
        /\ w.base + n + 1 \notin f.buffer
    BY <1>2, DueEnvelopes
  <2>3. Record(w, s) = v /\ Ready(w, s) = [i \in 1..n |-> w.base + i]
    BY <1>2 DEF Record, Ready
  <2> HIDE DEF f, n
  <2>4. /\ v.base = w.base + n
        /\ v.bits = {o - n : o \in {p \in f.bits : p >= n}}
        /\ v.buffer = f.buffer \ ((w.base + 1)..(w.base + n))
        /\ v = [base |-> v.base, bits |-> v.bits, buffer |-> v.buffer]
    BY <2>1 DEF Slide
  <2> HIDE DEF v
  <2>5. v \in WindowType
    <3>1. v.base \in Nat /\ v.buffer \subseteq Nat \ {0}
      BY <1>0, <2>1, <2>2, <2>4
    <3>2. v.bits \subseteq 0..(Size - 1)
      BY <1>0, <2>1, <2>2, <2>4
    <3>3. QED
      BY <2>4, <3>1, <3>2 DEF WindowType
  <2>6. v.buffer \subseteq (v.base + 2)..(v.base + Size)
    BY <1>0, <2>1, <2>2, <2>4
  <2>7. v.bits = {x - v.base - 1 : x \in v.buffer}
    <3>1. ASSUME NEW o \in v.bits
          PROVE  \E x \in v.buffer : o = x - v.base - 1
      <4>1. PICK p \in f.bits : p >= n /\ o = p - n
        BY <2>4
      <4>2. PICK x \in f.buffer : p = x - w.base - 1
        BY <2>1, <4>1
      <4>3. x \in Int /\ x > w.base + n
        BY <1>0, <2>1, <2>2, <4>1, <4>2
      <4>4. x \in v.buffer
        BY <1>0, <2>2, <2>4, <4>3
      <4>5. o = x - v.base - 1
        BY <1>0, <2>2, <2>4, <4>1, <4>2, <4>3
      <4>6. QED
        BY <4>4, <4>5
    <3>2. ASSUME NEW x \in v.buffer
          PROVE  x - v.base - 1 \in v.bits
      <4>1. x \in f.buffer /\ x \in Int /\ x >= v.base + 2
        BY <1>0, <2>2, <2>4, <2>6
      <4>2. x - w.base - 1 \in f.bits /\ x - w.base - 1 >= n
        BY <1>0, <2>1, <2>2, <2>4, <4>1
      <4>3. x - v.base - 1 = (x - w.base - 1) - n
        BY <1>0, <2>2, <2>4, <4>1
      <4>4. QED
        BY <2>4, <4>2, <4>3
    <3>3. QED
      BY <3>1, <3>2
  <2>8. Ready(w, s) \in Seq(Nat \ {0})
    <3>1. n \in Nat /\ \A i \in 1..n : w.base + i \in Nat \ {0}
      BY <1>0, <2>2
    <3>2. [i \in 1..n |-> w.base + i] \in [1..n -> Nat \ {0}]
      BY <3>1
    <3>3. QED
      BY <2>3, <3>1, <3>2
  <2>9. QED
    BY <2>3, <2>5, <2>6, <2>7, <2>8 DEF WindowCoherent
<1>3. QED
  BY <1>1, <1>2

\* What record() hands up was in the buffer or is the new envelope.
LEMMA ReadyIsBuffered ==
  ASSUME NEW w \in WindowType, WindowCoherent(w), NEW s \in Nat \ {0}
  PROVE  /\ Ready(w, s) \in Seq(Nat \ {0})
         /\ \A i \in DOMAIN Ready(w, s) :
              Ready(w, s)[i] \in w.buffer \/ (Accepts(w, s) /\ Ready(w, s)[i] = s)
         /\ \A x \in Record(w, s).buffer : x \in w.buffer \/ (Accepts(w, s) /\ x = s)
<1>1. w.base \in Nat /\ w.buffer \subseteq Nat
  BY DEF WindowType
<1>2. CASE ~Accepts(w, s)
  BY <1>2 DEF Record, Ready
<1>3. CASE Accepts(w, s)
  <2> DEFINE f == Filled(w, s)
             n == ReadyCount(f)
  <2>1. f.buffer = w.buffer \cup {s}
    BY <1>3, FilledProps
  <2>2. n \in 0..Size /\ \A x \in (w.base + 1)..(w.base + n) : x \in f.buffer
    BY <1>3, DueEnvelopes
  <2>3. Record(w, s) = Slide(f, n) /\ Ready(w, s) = [i \in 1..n |-> w.base + i]
    BY <1>3 DEF Record, Ready
  <2> HIDE DEF f, n
  <2>4. Slide(f, n).buffer \subseteq f.buffer
    BY DEF Slide
  <2>5. \A i \in 1..n : w.base + i \in (w.base + 1)..(w.base + n)
    BY <1>1, <2>2
  <2>6. Ready(w, s) \in Seq(Nat \ {0})
    BY RecordKeeps
  <2> QED
    BY <1>3, <2>1, <2>2, <2>3, <2>4, <2>5, <2>6
<1> QED
  BY <1>2, <1>3

LEMMA MessageShape ==
  ASSUME ShapeInv, CreditInv', HandleMessage
  PROVE  ShapeInv'
<1> DEFINE m == Head(down)
           now == [held EXCEPT ![m.seq] = IF Accepts(window, m.seq) THEN m.epoch ELSE @]
           r == Ready(window, m.seq)
           ready == [i \in DOMAIN r |-> [epoch |-> now[r[i]], seq |-> r[i]]]
           ack == [base |-> window'.base, bits |-> window'.bits]
<1>1. /\ down \in Seq(Frame) /\ down # <<>> /\ down' = Tail(down) /\ m.seq # 0
      /\ conn \in Conn /\ back \in [Conn -> Seq(Ack)] /\ handed \in Seq(Message)
      /\ held \in [1..MaxSeq -> Epoch \cup {None}] /\ window \in WindowType /\ WindowCoherent(window)
      /\ gaps \subseteq Message /\ ackless \subseteq Epoch /\ Buffered
  BY DEF ShapeInv, LinkTypes, WorkerTypes, Frame, Ack, HandleMessage, Incoming
<1>2. m \in Frame /\ down' \in Seq(Frame)
  BY <1>1, HeadTailProperties
<1>3. m.seq \in 1..MaxSeq /\ m.epoch \in Epoch /\ m.seq \in Nat \ {0}
  BY <1>1, <1>2, SchedulerStreamAssumption DEF Frame, Message, Accept
<1>4. /\ window' = Record(window, m.seq) /\ held' = now
      /\ IF up
         THEN /\ back' = [back EXCEPT ![conn] = Append(@, ack)]
              /\ handed' = handed \o ready
              /\ UNCHANGED <<gaps, ackless>>
         ELSE /\ gaps' = gaps \cup {ready[i] : i \in DOMAIN ready}
              /\ ackless' = ackless \cup {m.epoch}
              /\ UNCHANGED <<back, handed>>
      /\ UNCHANGED <<sendVars, linkVars, sid, faults>>
  BY DEF HandleMessage
<1> HIDE DEF m
<1>5. now \in [1..MaxSeq -> Epoch \cup {None}]
  BY <1>1, <1>3
<1>6. \A x \in 1..MaxSeq :
        (x \in window.buffer /\ held[x] \in Epoch) \/ (Accepts(window, m.seq) /\ x = m.seq)
          => now[x] \in Epoch
  BY <1>1, <1>3
<1>7. /\ r \in Seq(Nat \ {0})
      /\ \A i \in DOMAIN r : r[i] \in window.buffer \/ (Accepts(window, m.seq) /\ r[i] = m.seq)
      /\ \A x \in window'.buffer : x \in window.buffer \/ (Accepts(window, m.seq) /\ x = m.seq)
  BY <1>1, <1>3, <1>4, ReadyIsBuffered
<1>8. window' \in WindowType /\ WindowCoherent(window')
  BY <1>1, <1>3, <1>4, RecordKeeps
<1> HIDE DEF now, r
<1>9. Buffered'
  BY <1>1, <1>3, <1>4, <1>6, <1>7 DEF Buffered
<1>10. \A i \in DOMAIN r : r[i] \in 1..MaxSeq /\ now[r[i]] \in Epoch
  BY <1>1, <1>3, <1>6, <1>7 DEF Buffered
<1>11. \A i \in DOMAIN r : ready[i] \in Message
  BY <1>10 DEF Message
<1>12. ready \in Seq(Message)
  <2>1. Len(r) \in Nat /\ DOMAIN r = 1..Len(r)
    BY <1>7, LenProperties
  <2>2. ready \in [1..Len(r) -> Message]
    BY <1>11, <2>1
  <2> QED
    BY <2>1, <2>2
<1>13. DOMAIN ready = DOMAIN r
  OBVIOUS
<1> HIDE DEF ready
<1>14. ack \in Ack
  BY <1>8 DEF Ack, WindowType
<1> HIDE DEF ack
<1>15. back' \in [Conn -> Seq(Ack)] /\ handed' \in Seq(Message)
       /\ gaps' \subseteq Message /\ ackless' \subseteq Epoch
  <2> HIDE DEF Ack
  <2>1. handed \o ready \in Seq(Message)
    BY <1>1, <1>12, ConcatProperties
  <2>2. CASE up
    <3>1. Append(back[conn], ack) \in Seq(Ack)
      BY <1>1, <1>14
    <3>2. [back EXCEPT ![conn] = Append(@, ack)] \in [Conn -> Seq(Ack)]
      BY <1>1, <3>1
    <3> QED
      BY <1>1, <1>4, <2>1, <2>2, <3>2
  <2>3. CASE ~up
    BY <1>1, <1>3, <1>4, <1>11, <1>13, <2>3
  <2> QED
    BY <2>2, <2>3
<1>16. Bounded'
  BY <1>4 DEF ShapeInv, Bounded, Granted, sendVars, linkVars
<1>17. LinkTypes'
  BY <1>2, <1>4, <1>15 DEF ShapeInv, LinkTypes, linkVars, Frame, Ack
<1>18. WorkerTypes'
  BY <1>4, <1>5, <1>8, <1>15 DEF ShapeInv, WorkerTypes
<1> QED
  BY <1>9, <1>15, <1>16, <1>17, <1>18 DEF ShapeInv

LEMMA ShapeInit == Init => ShapeInv
<1> SUFFICES ASSUME Init
             PROVE  ShapeInv
  OBVIOUS
<1>1. CreditInv
  BY FS_EmptySet, SizeAssumption
  DEF Init, CreditInv, CreditShape, SendsOnce, CreditAccounted, Granted
<1>2. Granted = {} /\ Len(queue) = 0
  BY EmptySeq DEF Init, Granted
<1>3. Bounded
  BY <1>2, FS_EmptySet, SchedulerStreamAssumption DEF Init, Bounded
<1>4. 1 \in Epoch /\ 1 \in Conn
  BY SchedulerStreamAssumption DEF Epoch, Conn
<1>5. LinkTypes
  <2>1. \A S : <<>> \in Seq(S)
    OBVIOUS
  <2>2. down = <<>> /\ back = [c \in Conn |-> <<>>]
    BY DEF Init
  <2>3. down \in Seq(Frame) /\ back \in [Conn -> Seq(Ack)]
    BY <2>1, <2>2
  <2> QED
    BY <1>4, <2>3 DEF Init, LinkTypes, Frame, Ack
<1>6. window \in WindowType /\ WindowCoherent(window) /\ window.buffer = {}
  BY DEF Init, EmptyWindow, WindowType, WindowCoherent
<1> QED
  BY <1>1, <1>3, <1>4, <1>5, <1>6 DEF Init, ShapeInv, WorkerTypes, Buffered

\* The shape of the state at both ends; the worker's window stays coherent and
\* an ack never outgrows it, whatever is dropped, resumed or reset.
THEOREM TypeCorrect == Spec => []TypeOK
<1>1. ShapeInv /\ [Next]_vars => ShapeInv'
  <2> SUFFICES ASSUME ShapeInv, [Next]_vars  PROVE ShapeInv'
    OBVIOUS
  <2>1. CreditInv'
    BY CreditStep DEF ShapeInv
  <2>2. CASE UNCHANGED vars
    BY <2>1, <2>2 DEF vars, ShapeInv, Bounded, Granted, LinkTypes, WorkerTypes, Buffered,
       sendVars, linkVars, workVars
  <2>3. CASE Next
    BY <2>1, <2>3, SendShape, ResumeShape, ReadAckShape, ReadRequestShape, CloseShape, DropShape,
       ReconnectShape, RegisterShape, AskShape, AcceptShape, MessageShape
    DEF Next, Reader, Worker
  <2> QED
    BY <2>2, <2>3
<1>2. ShapeInv => TypeOK
  <2> SUFFICES ASSUME ShapeInv  PROVE TypeOK
    OBVIOUS
  <2>1. epoch \in Epoch /\ \A e \in 1..epoch : e \in Epoch
    BY EpochInRange, SchedulerStreamAssumption DEF ShapeInv, Epoch
  <2>2. nextSeq \in 1..(MaxSeq + 1)
    BY QueueGranted, SchedulerStreamAssumption DEF ShapeInv, Bounded, CreditInv, CreditShape
  <2>3. credit \in 0..Size
    BY UnackedFinite, GrantedFinite, SizeAssumption
    DEF ShapeInv, CreditInv, CreditAccounted, CreditShape
  <2>4. [who : Sender, epoch : 1..epoch] \subseteq Waiter
    BY <2>1 DEF Waiter
  <2>5. queue \in Seq(Waiter) /\ woken \subseteq Waiter
    BY <2>4, SeqMonotonic DEF ShapeInv, CreditInv, CreditShape
  <2>6. SendTypes
    BY <2>1, <2>2, <2>3, <2>5 DEF SendTypes, ShapeInv, CreditInv, CreditShape
  <2> QED
    BY <2>6 DEF TypeOK, ShapeInv
<1> QED
  BY <1>1, <1>2, ShapeInit, PTL DEF Spec
=============================================================================
