------------------------- MODULE WorkerStream_proofs -------------------------
(***************************************************************************)
(* What holds of WorkerStream for every window size, every number of       *)
(* messages, connections and retries, and every combination of faults; and *)
(* what holds once the faults that break the order are left out.           *)
(***************************************************************************)
EXTENDS WorkerStream, SequenceTheorems, WellFoundedInduction, TLAPS

---------------------------------------------------------------------------
(* What record() does to the window, for every window size. *)

\* A set of natural numbers has a least element.
LEMMA LeastExists ==
  ASSUME NEW T \in SUBSET Nat, T # {}
  PROVE  \E n \in T : \A m \in T : n <= m
<1> DEFINE Less == {ss \in Nat \X Nat : ss[1] < ss[2]}
<1>1. IsWellFoundedOn(Less, Nat)
  BY NatLessThanWellFounded DEF OpToRel
<1>2. \A m, n \in Nat : <<m, n>> \in Less <=> m < n
  OBVIOUS
<1> HIDE DEF Less
<1>3. PICK n \in T : \A m \in T : ~(<<m, n>> \in Less)
  BY <1>1, WFMin
<1>4. ASSUME NEW m \in T
      PROVE  n <= m
  <2>1. m \in Nat /\ n \in Nat
    OBVIOUS
  <2>2. ~(m < n)
    BY <1>2, <1>3, <2>1
  <2>3. QED
    BY <2>1, <2>2
<1>5. QED
  BY <1>4

\* The loop of record() stops at the first turn with a clear bit or a missing
\* envelope, and at the latest after Size turns.
LEMMA ReadyCountFirst ==
  ASSUME NEW w, w.bits \subseteq 0..(Size - 1)
  PROVE  /\ ReadyCount(w) \in StopsAt(w)
         /\ ReadyCount(w) \in 0..Size
         /\ \A m \in 0..Size : m < ReadyCount(w) => m \notin StopsAt(w)
<1>1. Size \in Nat \ {0}
  BY SizeAssumption
<1>2. StopsAt(w) \in SUBSET Nat /\ Size \in StopsAt(w)
  BY <1>1 DEF StopsAt
<1>3. \E n \in StopsAt(w) : \A m \in StopsAt(w) : n <= m
  BY <1>2, LeastExists
<1>4. ReadyCount(w) \in StopsAt(w) /\ \A m \in StopsAt(w) : ReadyCount(w) <= m
  BY <1>3 DEF ReadyCount
<1>5. ReadyCount(w) \in 0..Size
  BY <1>4 DEF StopsAt
<1>6. QED
  BY <1>1, <1>4, <1>5

\* An accepted envelope fits in the window.
LEMMA FilledProps ==
  ASSUME NEW w \in WindowType, WindowCoherent(w), NEW s \in Nat \ {0}, Accepts(w, s)
  PROVE  LET f == Filled(w, s)
         IN  /\ f.base = w.base /\ f.base \in Nat
             /\ f.bits \subseteq 0..(Size - 1)
             /\ f.bits = {x - w.base - 1 : x \in f.buffer}
             /\ f.buffer \subseteq (w.base + 1)..(w.base + Size)
             /\ f.buffer = w.buffer \cup {s}
<1>1. Size \in Nat \ {0} /\ w.base \in Nat /\ w.bits \subseteq 0..(Size - 1)
        /\ w.buffer \subseteq Nat \ {0}
  BY SizeAssumption DEF WindowType
<1>2. s - w.base - 1 \in 0..(Size - 1) /\ s \in (w.base + 1)..(w.base + Size)
  BY <1>1 DEF Accepts
<1>3. w.bits = {x - w.base - 1 : x \in w.buffer}
        /\ w.buffer \subseteq (w.base + 1)..(w.base + Size)
  BY <1>1 DEF WindowCoherent
<1>4. QED
  BY <1>1, <1>2, <1>3 DEF Filled

\* The envelopes due are the ones that follow the base without a gap.
LEMMA DueEnvelopes ==
  ASSUME NEW w \in WindowType, WindowCoherent(w), NEW s \in Nat \ {0}, Accepts(w, s)
  PROVE  LET f == Filled(w, s)
             n == ReadyCount(f)
         IN  /\ n \in 0..Size
             /\ \A x \in (w.base + 1)..(w.base + n) : x \in f.buffer
             /\ w.base + n + 1 \notin f.buffer
<1> DEFINE f == Filled(w, s)
           n == ReadyCount(f)
<1>1. /\ f.base = w.base /\ f.base \in Nat
      /\ f.bits \subseteq 0..(Size - 1)
      /\ f.bits = {x - w.base - 1 : x \in f.buffer}
      /\ f.buffer \subseteq (w.base + 1)..(w.base + Size)
  BY FilledProps
<1>2. /\ n \in StopsAt(f) /\ n \in 0..Size
      /\ \A m \in 0..Size : m < n => m \notin StopsAt(f)
  BY <1>1, ReadyCountFirst
<1> HIDE DEF f, n
<1>3. Size \in Nat
  BY SizeAssumption
<1>4. ASSUME NEW x \in (w.base + 1)..(w.base + n)
      PROVE  x \in f.buffer
  <2> DEFINE m == x - w.base - 1
  <2>1. m \in 0..Size /\ m < n /\ f.base + 1 + m = x
    BY <1>1, <1>2, <1>3
  <2>2. m \notin StopsAt(f)
    BY <1>2, <2>1
  <2>3. QED
    BY <2>1, <2>2 DEF StopsAt
<1>5. w.base + n + 1 \notin f.buffer
  <2>1. ~(n \in f.bits /\ f.base + 1 + n \in f.buffer)
    BY <1>2 DEF StopsAt
  <2>2. ASSUME w.base + n + 1 \in f.buffer
        PROVE  FALSE
    <3>1. (w.base + n + 1) - w.base - 1 \in f.bits
      BY <1>1, <2>2
    <3>2. (w.base + n + 1) - w.base - 1 = n /\ f.base + 1 + n = w.base + n + 1
      BY <1>1, <1>2, <1>3
    <3>3. QED
      BY <2>1, <2>2, <3>1, <3>2
  <2>3. QED
    BY <2>2
<1>6. QED
  BY <1>2, <1>4, <1>5 DEF f, n

\* record() keeps the window well formed and coherent, never moves its base back,
\* and hands up, in order, exactly the numbers the base passes; what it has
\* received grows by the new envelope and nothing else.
THEOREM RecordProps ==
  ASSUME NEW w \in WindowType, WindowCoherent(w), NEW s \in Nat \ {0}
  PROVE  /\ Record(w, s) \in WindowType
         /\ WindowCoherent(Record(w, s))
         /\ w.base <= Record(w, s).base
         /\ Received(w) \subseteq Received(Record(w, s))
         /\ Received(Record(w, s)) \subseteq Received(w) \cup {s}
         /\ Ready(w, s) \in Seq(Nat \ {0})
         /\ Len(Ready(w, s)) = Record(w, s).base - w.base
         /\ \A i \in DOMAIN Ready(w, s) : Ready(w, s)[i] = w.base + i
<1>0. w.base \in Nat /\ w.buffer \subseteq Nat \ {0} /\ Size \in Nat \ {0}
  BY SizeAssumption DEF WindowType
<1>1. CASE ~Accepts(w, s)
  BY <1>0, <1>1 DEF Record, Ready
<1>2. CASE Accepts(w, s)
  <2> DEFINE f == Filled(w, s)
             n == ReadyCount(f)
             v == Slide(f, n)
  <2>1. /\ f.base = w.base
        /\ f.bits \subseteq 0..(Size - 1)
        /\ f.bits = {x - w.base - 1 : x \in f.buffer}
        /\ f.buffer \subseteq (w.base + 1)..(w.base + Size)
        /\ f.buffer = w.buffer \cup {s}
    BY <1>2, FilledProps
  <2>2. /\ n \in 0..Size
        /\ \A x \in (w.base + 1)..(w.base + n) : x \in f.buffer
        /\ w.base + n + 1 \notin f.buffer
    BY <1>2, DueEnvelopes
  <2>3. Record(w, s) = v /\ Ready(w, s) = [i \in 1..n |-> w.base + i]
    BY <1>2 DEF Record, Ready
  <2> HIDE DEF f, n
  <2>4. /\ v.base = w.base + n
        /\ v.bits = {o - n : o \in {p \in f.bits : p >= n}}
        /\ v.buffer = f.buffer \ ((w.base + 1)..(w.base + n))
        /\ v = [base |-> v.base, bits |-> v.bits, buffer |-> v.buffer]
    BY <2>1 DEF Slide
  <2> HIDE DEF v
  <2>5. v \in WindowType
    <3>1. v.base \in Nat /\ v.buffer \subseteq Nat \ {0}
      BY <1>0, <2>1, <2>2, <2>4
    <3>2. v.bits \subseteq 0..(Size - 1)
      BY <1>0, <2>1, <2>2, <2>4
    <3>3. QED
      BY <2>4, <3>1, <3>2 DEF WindowType
  <2>6. v.buffer \subseteq (v.base + 2)..(v.base + Size)
    BY <1>0, <2>1, <2>2, <2>4
  <2>7. v.bits = {x - v.base - 1 : x \in v.buffer}
    <3>1. ASSUME NEW o \in v.bits
          PROVE  \E x \in v.buffer : o = x - v.base - 1
      <4>1. PICK p \in f.bits : p >= n /\ o = p - n
        BY <2>4
      <4>2. PICK x \in f.buffer : p = x - w.base - 1
        BY <2>1, <4>1
      <4>3. x \in Int /\ x > w.base + n
        BY <1>0, <2>1, <2>2, <4>1, <4>2
      <4>4. x \in v.buffer
        BY <1>0, <2>2, <2>4, <4>3
      <4>5. o = x - v.base - 1
        BY <1>0, <2>2, <2>4, <4>1, <4>2, <4>3
      <4>6. QED
        BY <4>4, <4>5
    <3>2. ASSUME NEW x \in v.buffer
          PROVE  x - v.base - 1 \in v.bits
      <4>1. x \in f.buffer /\ x \in Int /\ x >= v.base + 2
        BY <1>0, <2>2, <2>4, <2>6
      <4>2. x - w.base - 1 \in f.bits /\ x - w.base - 1 >= n
        BY <1>0, <2>1, <2>2, <2>4, <4>1
      <4>3. x - v.base - 1 = (x - w.base - 1) - n
        BY <1>0, <2>2, <2>4, <4>1
      <4>4. QED
        BY <2>4, <4>2, <4>3
    <3>3. QED
      BY <3>1, <3>2
  <2>8. Received(w) \subseteq Received(v) /\ Received(v) \subseteq Received(w) \cup {s}
    <3>1. ASSUME NEW x \in Received(w)
          PROVE  x \in Received(v)
      BY <1>0, <2>1, <2>2, <2>4 DEF Received
    <3>2. ASSUME NEW x \in Received(v)
          PROVE  x \in Received(w) \cup {s}
      <4>1. CASE x \in 1..w.base
        BY <4>1 DEF Received
      <4>2. CASE x \in (w.base + 1)..(w.base + n)
        BY <2>1, <2>2, <4>2 DEF Received
      <4>3. CASE x \in v.buffer
        BY <2>1, <2>4, <4>3 DEF Received
      <4>4. x \in 1..(w.base + n) \/ x \in v.buffer
        BY <2>4 DEF Received
      <4>5. QED
        BY <1>0, <2>2, <4>1, <4>2, <4>3, <4>4
    <3>3. QED
      BY <3>1, <3>2
  <2>9. Ready(w, s) \in Seq(Nat \ {0}) /\ Len(Ready(w, s)) = n
          /\ \A i \in DOMAIN Ready(w, s) : Ready(w, s)[i] = w.base + i
    <3>1. n \in Nat /\ \A i \in 1..n : w.base + i \in Nat \ {0}
      BY <1>0, <2>2
    <3>2. [i \in 1..n |-> w.base + i] \in [1..n -> Nat \ {0}]
      BY <3>1
    <3>3. QED
      BY <2>3, <3>1, <3>2
  <2>10. w.base <= v.base /\ v.base - w.base = n
    BY <1>0, <2>2, <2>4
  <2>11. QED
    BY <2>3, <2>5, <2>6, <2>7, <2>8, <2>9, <2>10 DEF WindowCoherent
<1>3. QED
  BY <1>1, <1>2

---------------------------------------------------------------------------
(* Facts about constants and operators. *)

\* The constants are numbers, and the messages are 1..MaxSeq.
LEMMA ConstantFacts ==
  /\ MaxSeq \in Nat /\ MaxConns \in Nat \ {0} /\ MaxRetries \in Nat \ {0}
  /\ None \notin Nat /\ 1 \in Conn /\ Conn \subseteq Nat \ {0}
  /\ Message \subseteq Nat \ {0} /\ Message \cup {Resume} \subseteq Nat
BY StreamAssumption DEF StreamAssumption, Message, Conn, Resume

\* The states of a reader.
LEMMA ReaderStates ==
  /\ Waiting \in ReaderType /\ Closed \in ReaderType
  /\ \A r \in Seq(Message) : Handing(r) \in ReaderType
  /\ \A r \in Seq(Message), a \in AckType : Acking(r, a) \in ReaderType
BY EmptySeq DEF Waiting, Closed, Handing, Acking, ReaderType

\* Receiving a number that was assigned keeps the window, and everything it
\* holds, among the assigned numbers.
LEMMA RecordAssigned ==
  ASSUME TypeOK, SentOnly, WindowOK, NEW s \in Message, s < nextSeq
  PROVE  /\ Record(window, s) \in WindowType /\ WindowCoherent(Record(window, s))
         /\ window.base <= Record(window, s).base
         /\ Received(window) \subseteq Received(Record(window, s))
         /\ Received(Record(window, s)) \subseteq 1..(nextSeq - 1)
         /\ Ready(window, s) \in Seq(Message)
         /\ Len(Ready(window, s)) = Record(window, s).base - window.base
         /\ \A i \in DOMAIN Ready(window, s) : Ready(window, s)[i] = window.base + i
<1> DEFINE v == Record(window, s)
           r == Ready(window, s)
<1>1. window \in WindowType /\ WindowCoherent(window) /\ s \in Nat \ {0}
        /\ nextSeq \in 1..(MaxSeq + 1)
  BY ConstantFacts DEF TypeOK, SchedulerTypes, SenderTypes, WindowOK
<1>2. /\ v \in WindowType /\ WindowCoherent(v) /\ window.base <= v.base
      /\ Received(window) \subseteq Received(v)
      /\ Received(v) \subseteq Received(window) \cup {s}
      /\ r \in Seq(Nat \ {0})
      /\ Len(r) = v.base - window.base
      /\ \A i \in DOMAIN r : r[i] = window.base + i
  BY <1>1, RecordProps
<1> HIDE DEF v, r
<1>3. Received(v) \subseteq 1..(nextSeq - 1)
  BY <1>1, <1>2, ConstantFacts DEF SentOnly
<1>4. ASSUME NEW i \in 1..Len(r)
      PROVE  r[i] \in Message
  <2>1. window.base \in Nat /\ v.base \in Nat
    BY <1>1, <1>2 DEF WindowType
  <2>2. r[i] = window.base + i /\ r[i] \in 1..v.base
    BY <1>2, <2>1
  <2>3. r[i] \in Received(v)
    BY <2>2 DEF Received
  <2>4. QED
    BY <1>1, <1>3, <2>3, ConstantFacts DEF Message
<1>5. r \in Seq(Message)
  BY <1>2, <1>4
<1>6. QED
  BY <1>2, <1>3, <1>5 DEF v, r

\* The acks made for a frame are acks.
LEMMA AckTypes ==
  ASSUME NEW s \in Message, NEW w \in WindowType
  PROVE  WindowAck(s, w) \in AckType /\ PlainAck(s) \in AckType
BY ConstantFacts DEF WindowAck, PlainAck, AckType, WindowType

\* Taking one of several elements leaves some.
LEMMA TailNotEmpty ==
  ASSUME NEW S, NEW q \in Seq(S), q # <<>>, Len(q) # 1
  PROVE  Tail(q) # <<>> /\ Len(q) > 1
<1>1. Len(q) \in Nat /\ Len(q) # 0
  BY EmptySeq, LenProperties
<1>2. Len(Tail(q)) = Len(q) - 1
  BY HeadTailProperties
<1>3. Len(Tail(q)) # 0 /\ Len(q) > 1
  BY <1>1, <1>2
<1>4. Len(<<>>) = 0
  OBVIOUS
<1>5. QED
  BY <1>3, <1>4

\* The head of a non-empty wire is a frame, its tail a wire.
LEMMA WireHead ==
  ASSUME TypeOK, SentOnly, NEW c \in Conn, wire[c] # <<>>
  PROVE  /\ Head(wire[c]) \in Message \cup {Resume} /\ Tail(wire[c]) \in Seq(Message \cup {Resume})
         /\ Head(wire[c]) \in 0..(nextSeq - 1)
         /\ \A i \in DOMAIN Tail(wire[c]) : Tail(wire[c])[i] \in 0..(nextSeq - 1)
<1>1. wire[c] \in Seq(Message \cup {Resume}) /\ \A i \in DOMAIN wire[c] : wire[c][i] \in 0..(nextSeq - 1)
  BY DEF TypeOK, LinkTypes, SentOnly
<1>2. Head(wire[c]) = wire[c][1] /\ 1 \in DOMAIN wire[c]
  BY <1>1
<1>3. /\ Tail(wire[c]) \in Seq(Message \cup {Resume})
      /\ \A i \in DOMAIN Tail(wire[c]) : i + 1 \in DOMAIN wire[c] /\ Tail(wire[c])[i] = wire[c][i + 1]
  BY <1>1
<1>4. QED
  BY <1>1, <1>2, <1>3

---------------------------------------------------------------------------
(* Types. *)

\* Writing a frame keeps the wires well formed.
LEMMA WriteType ==
  ASSUME TypeOK, NEW s \in Message \cup {Resume}, Write(s)
  PROVE  wire' \in [Conn -> Seq(Message \cup {Resume})]
BY DEF TypeOK, LinkTypes, Write

LEMMA FaultsType ==
  ASSUME faults \in Nat, NoFault \/ \E f \in FaultKinds : Fault(f)
  PROVE  faults' \in Nat
BY DEF NoFault, Fault

\* The worker's steps keep every type.
LEMMA SenderStep ==
  ASSUME TypeOK, NEW s \in Message, Sender(s)
  PROVE  TypeOK'
<1> USE ConstantFacts DEF TypeOK, SenderTypes
<1>1. CASE Send(s)
  <2>1. faults' \in Nat
    BY <1>1, FaultsType DEF Send, Early, LinkTypes, FaultKinds
  <2>2. wire' \in [Conn -> Seq(Message \cup {Resume})]
    BY <1>1, WriteType DEF Send
  <2>3. SenderTypes'
    BY <1>1 DEF Send, Assign, Message
  <2>4. QED
    BY <1>1, <2>1, <2>2, <2>3 DEF Send, LinkTypes, SchedulerTypes, linkVars, readVars
<1>2. CASE SendOffline(s)
  BY <1>2 DEF SendOffline, Assign, Message, Fault, LinkTypes, SchedulerTypes, linkVars, readVars
<1>3. CASE SendBreaks(s)
  <2>1. faults' \in Nat
    BY <1>3 DEF SendBreaks, Fault, LinkTypes
  <2>2. SenderTypes'
    BY <1>3 DEF SendBreaks, Assign, Message
  <2>3. up' \in BOOLEAN
    BY <1>3 DEF SendBreaks
  <2>4. QED
    BY <1>3, <2>1, <2>2, <2>3 DEF SendBreaks, LinkTypes, SchedulerTypes, readVars
<1>4. CASE SendRaises(s)
  <2>1. unacked' \subseteq Message /\ lost' \subseteq Message /\ failing' \subseteq Message
    BY <1>4 DEF SendRaises, Release
  <2>2. QED
    BY <1>4, <2>1 DEF SendRaises, LinkTypes, SchedulerTypes, linkVars, readVars
<1>5. CASE Resend(s)
  <2>1. faults' \in Nat
    BY <1>5, FaultsType DEF Resend, LinkTypes, FaultKinds
  <2>2. wire' \in [Conn -> Seq(Message \cup {Resume})]
    BY <1>5, WriteType DEF Resend
  <2>3. SenderTypes'
    BY <1>5 DEF Resend
  <2>4. QED
    BY <1>5, <2>1, <2>2, <2>3 DEF Resend, LinkTypes, SchedulerTypes, linkVars, readVars
<1>6. CASE ResendOffline(s)
  <2>1. unacked' \subseteq Message /\ lost' \subseteq Message
    BY <1>6 DEF ResendOffline, Release
  <2>2. attempts' \in [Message -> 0..MaxRetries]
    BY <1>6 DEF ResendOffline
  <2>3. QED
    BY <1>6, <2>1, <2>2 DEF ResendOffline, Fault, LinkTypes, SchedulerTypes, linkVars, readVars
<1>7. CASE ResendBreaks(s)
  <2>1. attempts' \in [Message -> 0..MaxRetries] /\ failing' \subseteq Message
    BY <1>7 DEF ResendBreaks
  <2>2. faults' \in Nat
    BY <1>7 DEF ResendBreaks, Fault, LinkTypes
  <2>3. up' \in BOOLEAN
    BY <1>7 DEF ResendBreaks
  <2>4. QED
    BY <1>7, <2>1, <2>2, <2>3 DEF ResendBreaks, LinkTypes, SchedulerTypes, readVars
<1>8. CASE GiveUp(s)
  <2>1. faults' \in Nat
    BY <1>8, FaultsType DEF GiveUp, LinkTypes, FaultKinds
  <2>2. unacked' \subseteq Message /\ lost' \subseteq Message
    BY <1>8 DEF GiveUp, Release
  <2>3. QED
    BY <1>8, <2>1, <2>2 DEF GiveUp, LinkTypes, SchedulerTypes, linkVars, readVars
<1>9. QED
  BY <1>1, <1>2, <1>3, <1>4, <1>5, <1>6, <1>7, <1>8 DEF Sender

\* So do acks, drops and reconnects.
LEMMA LinkStep ==
  ASSUME TypeOK, Link \/ \E a \in acks : HandleAck(a)
  PROVE  TypeOK'
<1> USE ConstantFacts DEF TypeOK, LinkTypes
<1>1. ASSUME NEW a \in acks, HandleAck(a)
      PROVE  TypeOK'
  <2>1. AckedBy(a) \subseteq Message
    BY DEF AckedBy, SenderTypes
  <2>2. QED
    BY <1>1, <2>1 DEF HandleAck, SenderTypes, SchedulerTypes, linkVars, readVars
<1>2. CASE Drop
  <2>1. acks' \subseteq AckType
    <3>1. acks' = {} \/ acks' = acks
      BY <1>2 DEF Drop
    <3>2. QED
      BY <3>1
  <2>2. faults' \in Nat
    BY <1>2 DEF Drop, Fault
  <2>3. up' \in BOOLEAN
    BY <1>2 DEF Drop
  <2>4. QED
    BY <1>2, <2>1, <2>2, <2>3 DEF Drop, SenderTypes, SchedulerTypes, senderVars, readVars
<1>3. CASE Connect
  BY <1>3 DEF Connect, Conn, SenderTypes, SchedulerTypes, senderVars, readVars
<1>4. CASE SendResume
  <2>1. wire' \in [Conn -> Seq(Message \cup {Resume})]
    BY <1>4, WriteType DEF SendResume
  <2>2. QED
    BY <1>4, <2>1 DEF SendResume, SenderTypes, SchedulerTypes, senderVars, readVars
<1>5. QED
  BY <1>1, <1>2, <1>3, <1>4 DEF Link

\* What a reader takes from a wire keeps the types of the link.
LEMMA ReadFrameTypes ==
  ASSUME TypeOK, SentOnly, NEW c \in Conn, NEW s, ReadFrame(c, s)
  PROVE  /\ s \in Message \cup {Resume} /\ s <= nextSeq - 1
         /\ wire' \in [Conn -> Seq(Message \cup {Resume})]
         /\ SenderTypes' /\ delivered' = delivered /\ acks' = acks
         /\ conn' = conn /\ up' = up /\ resuming' = resuming /\ nextSeq' = nextSeq
<1>1. Head(wire[c]) \in Message \cup {Resume} /\ Tail(wire[c]) \in Seq(Message \cup {Resume})
        /\ Head(wire[c]) \in 0..(nextSeq - 1)
  BY WireHead DEF ReadFrame
<1>2. wire' \in [Conn -> Seq(Message \cup {Resume})]
  BY <1>1 DEF ReadFrame, TypeOK, LinkTypes
<1>3. SenderTypes'
  BY DEF ReadFrame, TypeOK, SenderTypes, senderVars
<1>4. s \in Message \cup {Resume} /\ s <= nextSeq - 1
  BY <1>1, ConstantFacts DEF ReadFrame, TypeOK, SenderTypes
<1>5. QED
  BY <1>2, <1>3, <1>4 DEF ReadFrame, senderVars, linkVars

\* A reader that changes its state to a legal one keeps the readers well formed.
LEMMA ReaderUpdate ==
  ASSUME reader \in [Conn -> ReaderType], NEW c \in Conn, NEW r \in ReaderType,
         reader' = [reader EXCEPT ![c] = r]
  PROVE  /\ reader' \in [Conn -> ReaderType]
         /\ reader'[c] = r /\ \A d \in Conn \ {c} : reader'[d] = reader[d]
OBVIOUS

\* The readers' steps keep every type.
LEMMA ReaderStep ==
  ASSUME StreamInv, NEW c \in Conn, Reader(c)
  PROVE  TypeOK'
<1> USE ConstantFacts DEF StreamInv, TypeOK
<1>0. reader \in [Conn -> ReaderType] /\ reader[c] \in ReaderType
        /\ reader[c].ready \in Seq(Message) /\ reader[c].ack \in AckType \cup {None}
  BY DEF SchedulerTypes, ReaderType
<1>1. ASSUME NEW s \in Message, ReadMessage(c, s)
      PROVE  TypeOK'
  <2>1. ReadFrame(c, s) /\ s < nextSeq
    BY <1>1, ReadFrameTypes DEF ReadMessage, SenderTypes
  <2>2. Record(window, s) \in WindowType /\ Ready(window, s) \in Seq(Message)
    BY <2>1, RecordAssigned
  <2>3. WindowAck(s, Record(window, s)) \in AckType
    BY <2>2, AckTypes
  <2>4. Acking(Ready(window, s), WindowAck(s, Record(window, s))) \in ReaderType
    BY <2>2, <2>3, ReaderStates
  <2>5. faults' \in Nat
    BY <1>1, FaultsType DEF ReadMessage, LinkTypes, FaultKinds
  <2>6. reader' \in [Conn -> ReaderType]
    BY <1>0, <1>1, <2>4 DEF ReadMessage
  <2>7. SchedulerTypes'
    BY <1>1, <2>1, <2>2, <2>6, ReadFrameTypes DEF ReadMessage, SchedulerTypes
  <2>8. QED
    BY <2>1, <2>5, <2>7, ReadFrameTypes DEF LinkTypes
<1>2. ASSUME NEW s \in Message, ReadUnbound(c, s)
      PROVE  TypeOK'
  <2>1. ReadFrame(c, s)
    BY <1>2 DEF ReadUnbound
  <2>2. <<s>> \in Seq(Message) /\ PlainAck(s) \in AckType
    BY ConstantFacts DEF PlainAck, AckType
  <2>3. Acking(<<s>>, PlainAck(s)) \in ReaderType /\ Handing(<<s>>) \in ReaderType
    BY <2>2, ReaderStates
  <2>5. faults' \in Nat
    BY <1>2, FaultsType DEF ReadUnbound, LinkTypes, FaultKinds
  <2>6. reader' \in [Conn -> ReaderType]
    BY <1>0, <1>2, <2>3 DEF ReadUnbound
  <2>7. SchedulerTypes'
    BY <1>2, <2>1, <2>6, ReadFrameTypes DEF ReadUnbound, SchedulerTypes
  <2>8. QED
    BY <2>1, <2>5, <2>7, ReadFrameTypes DEF LinkTypes
<1>3. CASE ReadResume(c)
  <2>1. ReadFrame(c, Resume)
    BY <1>3 DEF ReadResume
  <2>2. QED
    BY <1>3, <2>1, ReadFrameTypes DEF ReadResume, LinkTypes, SchedulerTypes
<1>4. CASE SendAck(c)
  <2>1. reader[c].stage = "acking"
    BY <1>4 DEF SendAck
  <2>2. acks' \subseteq AckType
    <3>1. reader[c].ack \in AckType
      BY <2>1 DEF AcksTruthful
    <3>2. acks' = acks \/ acks' = acks \cup {reader[c].ack}
      BY <1>4 DEF SendAck
    <3>3. QED
      BY <3>1, <3>2 DEF LinkTypes
  <2>4. reader' \in [Conn -> ReaderType]
    BY <1>0, <1>4, ReaderStates DEF SendAck
  <2>5. QED
    BY <1>4, <2>2, <2>4 DEF SendAck, SenderTypes, LinkTypes, SchedulerTypes, senderVars, linkVars
<1>5. CASE AckRaises(c)
  <2>1. reader' \in [Conn -> ReaderType]
    BY <1>0, <1>5, ReaderStates DEF AckRaises
  <2>2. wire' \in [Conn -> Seq(Message \cup {Resume})]
    BY <1>5, EmptySeq DEF AckRaises, LinkTypes
  <2>3. faults' \in Nat
    BY <1>5 DEF AckRaises, Fault, LinkTypes
  <2>4. QED
    BY <1>5, <2>1, <2>2, <2>3 DEF AckRaises, SenderTypes, LinkTypes, SchedulerTypes, senderVars, linkVars
<1>6. CASE HandOver(c)
  <2>1. reader[c].ready # <<>>
    BY <1>6 DEF HandOver, HandsSomething
  <2>2. Head(reader[c].ready) \in Message /\ Tail(reader[c].ready) \in Seq(Message)
    BY <1>0, <2>1
  <2>3. delivered' \in Seq(Message)
    BY <1>6, <2>2 DEF HandOver, SchedulerTypes
  <2>5. reader' \in [Conn -> ReaderType]
    BY <1>0, <1>6, <2>2, ReaderStates DEF HandOver
  <2>6. QED
    BY <1>6, <2>3, <2>5 DEF HandOver, SenderTypes, LinkTypes, SchedulerTypes, senderVars, linkVars
<1>7. CASE CloseReader(c)
  <2>1. reader' \in [Conn -> ReaderType]
    BY <1>0, <1>7, ReaderStates DEF CloseReader
  <2>2. wire' \in [Conn -> Seq(Message \cup {Resume})]
    BY <1>7, EmptySeq DEF CloseReader, LinkTypes
  <2>3. QED
    BY <1>7, <2>1, <2>2 DEF CloseReader, SenderTypes, LinkTypes, SchedulerTypes, senderVars, linkVars
<1>8. QED
  BY <1>1, <1>2, <1>3, <1>4, <1>5, <1>6, <1>7 DEF Reader, Read

\* No step of the protocol takes a type away.
LEMMA TypeStep == StreamInv /\ [Next]_vars => TypeOK'
<1> SUFFICES ASSUME StreamInv, [Next]_vars
             PROVE  TypeOK'
  OBVIOUS
<1>1. CASE UNCHANGED vars
  BY <1>1 DEF StreamInv, TypeOK, SenderTypes, LinkTypes, SchedulerTypes, vars, senderVars,
              linkVars, readVars
<1>2. CASE Next
  BY <1>2, SenderStep, LinkStep, ReaderStep DEF Next, StreamInv
<1>3. QED
  BY <1>1, <1>2

---------------------------------------------------------------------------
(* The window. *)

\* Only the reader of a bound connection moves the window.
LEMMA WindowChanges ==
  ASSUME [Next]_vars
  PROVE  window' = window \/ \E c \in Conn, s \in Message : ReadMessage(c, s)
<1>1. CASE UNCHANGED vars
  BY <1>1 DEF vars, readVars
<1>2. ASSUME NEW s \in Message, Sender(s)
      PROVE  window' = window
  BY <1>2 DEF Sender, Send, SendOffline, SendBreaks, SendRaises, Resend, ResendOffline,
              ResendBreaks, GiveUp, readVars
<1>3. ASSUME NEW a \in acks, HandleAck(a)
      PROVE  window' = window
  BY <1>3 DEF HandleAck, readVars
<1>4. CASE Link
  BY <1>4 DEF Link, Drop, Connect, SendResume, readVars
<1>5. ASSUME NEW c \in Conn, Reader(c)
      PROVE  window' = window \/ \E s \in Message : ReadMessage(c, s)
  BY <1>5 DEF Reader, Read, ReadUnbound, ReadResume, SendAck, AckRaises, HandOver, CloseReader
<1>6. QED
  BY <1>1, <1>2, <1>3, <1>4, <1>5 DEF Next

\* The window stays coherent, and what it received it keeps.
LEMMA WindowStep ==
  ASSUME StreamInv, [Next]_vars
  PROVE  /\ WindowOK' /\ window' \in WindowType
         /\ window.base <= window'.base
         /\ Received(window) \subseteq Received(window')
         /\ Received(window') \subseteq 1..(nextSeq - 1)
<1>1. CASE window' = window
  BY <1>1 DEF StreamInv, TypeOK, SchedulerTypes, WindowOK, SentOnly, WindowType
<1>2. ASSUME NEW c \in Conn, NEW s \in Message, ReadMessage(c, s)
      PROVE  /\ WindowOK' /\ window' \in WindowType
             /\ window.base <= window'.base
             /\ Received(window) \subseteq Received(window')
             /\ Received(window') \subseteq 1..(nextSeq - 1)
  <2>1. s < nextSeq
    BY <1>2, ReadFrameTypes, ConstantFacts DEF ReadMessage, StreamInv, TypeOK, SenderTypes
  <2>2. window' = Record(window, s)
    BY <1>2 DEF ReadMessage
  <2>3. QED
    BY <2>1, <2>2, RecordAssigned DEF StreamInv, WindowOK
<1>3. QED
  BY <1>1, <1>2, WindowChanges

---------------------------------------------------------------------------
(* Only assigned numbers travel. *)

\* Numbers are never taken back, and only assigned ones are tracked.
LEMMA SeqStep ==
  ASSUME StreamInv, [Next]_vars
  PROVE  nextSeq <= nextSeq' /\ unacked' \subseteq 1..(nextSeq' - 1)
<1> DEFINE Goal == nextSeq <= nextSeq' /\ unacked' \subseteq 1..(nextSeq' - 1)
<1> SUFFICES Goal
  OBVIOUS
<1>a. nextSeq \in Nat \ {0} /\ unacked \subseteq 1..(nextSeq - 1)
  BY ConstantFacts DEF StreamInv, TypeOK, SenderTypes, SentOnly
<1>b. ASSUME nextSeq' = nextSeq, unacked' \subseteq unacked
      PROVE  Goal
  BY <1>a, <1>b
<1>c. ASSUME NEW s, s = nextSeq, nextSeq' = nextSeq + 1, unacked' \subseteq unacked \cup {s}
      PROVE  Goal
  BY <1>a, <1>c
<1> HIDE DEF Goal
<1>1. CASE UNCHANGED vars
  BY <1>1, <1>b DEF vars, senderVars
<1>2. ASSUME NEW s \in Message, Sender(s)
      PROVE  Goal
  <2>1. CASE Send(s) \/ SendBreaks(s) \/ SendOffline(s)
    BY <1>c, <2>1 DEF Send, SendBreaks, SendOffline, Assign
  <2>2. CASE SendRaises(s) \/ Resend(s) \/ ResendBreaks(s) \/ GiveUp(s) \/ ResendOffline(s)
    BY <1>b, <2>2 DEF SendRaises, Resend, ResendBreaks, GiveUp, ResendOffline, Release
  <2>3. QED
    BY <1>2, <2>1, <2>2 DEF Sender
<1>3. ASSUME NEW a \in acks, HandleAck(a)
      PROVE  Goal
  BY <1>3, <1>b DEF HandleAck
<1>4. CASE Link
  BY <1>4, <1>b DEF Link, Drop, Connect, SendResume, senderVars
<1>5. ASSUME NEW c \in Conn, Reader(c)
      PROVE  Goal
  BY <1>5, <1>b DEF Reader, Read, ReadMessage, ReadUnbound, ReadResume, ReadFrame, SendAck,
              AckRaises, HandOver, CloseReader, senderVars
<1>6. QED
  BY <1>1, <1>2, <1>3, <1>4, <1>5 DEF Next

AssignedWire(w, n) == \A c \in Conn : \A i \in DOMAIN w[c] : w[c][i] \in 0..(n - 1)

\* Writing an assigned number.
LEMMA WriteAssigned ==
  ASSUME TypeOK, AssignedWire(wire, nextSeq), NEW n \in Nat, nextSeq <= n,
         NEW s \in 0..(n - 1), Write(s)
  PROVE  AssignedWire(wire', n)
<1>1. wire \in [Conn -> Seq(Message \cup {Resume})] /\ conn \in Conn /\ nextSeq \in Nat
  BY ConstantFacts DEF TypeOK, LinkTypes, SenderTypes
<1>2. wire' = [wire EXCEPT ![conn] = Append(wire[conn], s)]
  BY DEF Write
<1>3. ASSUME NEW c \in Conn, NEW i \in DOMAIN wire'[c]
      PROVE  wire'[c][i] \in 0..(n - 1)
  <2>1. wire[c] \in Seq(Message \cup {Resume}) /\ \A j \in DOMAIN wire[c] : wire[c][j] \in 0..(nextSeq - 1)
    BY <1>1 DEF AssignedWire
  <2>2. CASE c # conn
    BY <1>1, <1>2, <1>3, <2>1, <2>2
  <2>3. CASE c = conn
    <3>1. wire'[c] = Append(wire[c], s)
      BY <1>1, <1>2, <2>3
    <3>2. i \in 1..(Len(wire[c]) + 1)
      BY <1>3, <2>1, <3>1
    <3>3. QED
      BY <1>1, <2>1, <3>1, <3>2
  <2>4. QED
    BY <2>2, <2>3
<1>4. QED
  BY <1>3 DEF AssignedWire

\* Emptying, or shortening, a wire.
LEMMA WireShrinks ==
  ASSUME TypeOK, SentOnly, NEW c \in Conn,
         \/ wire' = wire
         \/ wire' = [wire EXCEPT ![c] = <<>>]
         \/ wire[c] # <<>> /\ wire' = [wire EXCEPT ![c] = Tail(@)]
  PROVE  AssignedWire(wire', nextSeq)
<1>1. wire \in [Conn -> Seq(Message \cup {Resume})] /\ AssignedWire(wire, nextSeq)
  BY DEF TypeOK, LinkTypes, SentOnly, AssignedWire
<1>2. CASE wire' = wire
  BY <1>1, <1>2
<1>3. CASE wire' = [wire EXCEPT ![c] = <<>>]
  BY <1>1, <1>3 DEF AssignedWire
<1>4. CASE wire[c] # <<>> /\ wire' = [wire EXCEPT ![c] = Tail(@)]
  <2>1. \A i \in DOMAIN Tail(wire[c]) : Tail(wire[c])[i] \in 0..(nextSeq - 1)
    BY <1>4, WireHead
  <2>2. QED
    BY <1>1, <1>4, <2>1 DEF AssignedWire
<1>5. QED
  BY <1>2, <1>3, <1>4

\* Every frame on a wire carries an assigned number or is control.resume.
LEMMA SentOnlyStep ==
  ASSUME StreamInv, [Next]_vars
  PROVE  SentOnly'
<1>0. TypeOK /\ SentOnly /\ nextSeq \in Nat \ {0} /\ AssignedWire(wire, nextSeq)
        /\ unacked \subseteq 1..(nextSeq - 1)
  <2>1. TypeOK /\ SentOnly
    BY DEF StreamInv
  <2>2. nextSeq \in Nat \ {0}
    BY <2>1, ConstantFacts DEF TypeOK, SenderTypes
  <2>3. AssignedWire(wire, nextSeq)
    BY <2>1 DEF SentOnly, AssignedWire
  <2>4. unacked \subseteq 1..(nextSeq - 1)
    BY <2>1 DEF SentOnly
  <2>5. QED
    BY <2>1, <2>2, <2>3, <2>4
<1>1. nextSeq <= nextSeq' /\ unacked' \subseteq 1..(nextSeq' - 1)
  BY SeqStep
<1>2. nextSeq' \in Nat
  BY TypeStep, ConstantFacts DEF TypeOK, SenderTypes
<1>3. Received(window') \subseteq 1..(nextSeq' - 1)
  BY <1>0, <1>1, <1>2, WindowStep
<1>4. wire' = wire => AssignedWire(wire', nextSeq')
  BY <1>0, <1>1, <1>2 DEF AssignedWire
<1>5. AssignedWire(wire', nextSeq')
  <2>1. CASE UNCHANGED vars
    BY <1>4, <2>1 DEF vars
  <2>2. ASSUME NEW s \in Message, Sender(s)
        PROVE  AssignedWire(wire', nextSeq')
    <3>1. CASE Send(s)
      <4>1. s \in 0..(nextSeq' - 1) /\ Write(s)
        BY <1>0, <3>1 DEF Send, Assign
      <4>2. QED
        BY <1>0, <1>1, <1>2, <4>1, WriteAssigned
    <3>2. CASE Resend(s)
      <4>1. s \in 0..(nextSeq' - 1) /\ Write(s)
        BY <1>0, <1>1, <1>2, <3>2 DEF Resend
      <4>2. QED
        BY <1>0, <1>1, <1>2, <4>1, WriteAssigned
    <3>3. CASE SendOffline(s) \/ SendBreaks(s) \/ SendRaises(s) \/ ResendOffline(s)
                 \/ ResendBreaks(s) \/ GiveUp(s)
      BY <1>4, <3>3 DEF SendOffline, SendBreaks, SendRaises, ResendOffline, ResendBreaks, GiveUp
    <3>4. QED
      BY <2>2, <3>1, <3>2, <3>3 DEF Sender
  <2>3. ASSUME NEW a \in acks, HandleAck(a)
        PROVE  AssignedWire(wire', nextSeq')
    BY <1>4, <2>3 DEF HandleAck
  <2>4. CASE Link
    <3>1. CASE SendResume
      <4>1. Resume \in 0..(nextSeq' - 1)
        <5>1. nextSeq \in Nat /\ nextSeq >= 1 /\ nextSeq <= nextSeq'
          BY <1>0, <1>1
        <5>2. nextSeq' >= 1
          BY <1>2, <5>1
        <5>3. \A n \in Nat : n >= 1 => 0 \in 0..(n - 1)
          OBVIOUS
        <5>4. 0 \in 0..(nextSeq' - 1)
          BY <1>2, <5>2, <5>3
        <5>5. QED
          BY <5>4 DEF Resume
      <4>2. Write(Resume)
        BY <3>1 DEF SendResume
      <4>3. QED
        BY <1>0, <1>1, <1>2, <4>1, <4>2, WriteAssigned
    <3>2. CASE Drop \/ Connect
      BY <1>4, <3>2 DEF Drop, Connect
    <3>3. QED
      BY <2>4, <3>1, <3>2 DEF Link
  <2>5. ASSUME NEW c \in Conn, Reader(c)
        PROVE  AssignedWire(wire', nextSeq')
    <3>1. nextSeq' = nextSeq
      BY <2>5 DEF Reader, Read, ReadMessage, ReadUnbound, ReadResume, ReadFrame, SendAck, AckRaises,
                  HandOver, CloseReader, senderVars
    <3>2. \/ wire' = wire
          \/ wire' = [wire EXCEPT ![c] = <<>>]
          \/ wire[c] # <<>> /\ wire' = [wire EXCEPT ![c] = Tail(@)]
      BY <2>5 DEF Reader, Read, ReadMessage, ReadUnbound, ReadResume, ReadFrame, SendAck, AckRaises,
                  HandOver, CloseReader
    <3>3. QED
      BY <1>0, <3>1, <3>2, WireShrinks
  <2>6. QED
    BY <2>1, <2>2, <2>3, <2>4, <2>5 DEF Next
<1>6. QED
  BY <1>1, <1>3, <1>5 DEF SentOnly, AssignedWire

---------------------------------------------------------------------------
(* The readers and their acks. *)

\* What a step does to the readers: it leaves them all alone, or changes one.
LEMMA ReaderChange ==
  ASSUME StreamInv, [Next]_vars
  PROVE  \/ reader' = reader
         \/ \E c \in Conn, s \in Message :
              /\ ReadMessage(c, s)
              /\ reader' = [reader EXCEPT ![c] = Acking(Ready(window, s), WindowAck(s, window'))]
         \/ \E c \in Conn, s \in Message :
              reader' = [reader EXCEPT ![c] = Acking(<<s>>, PlainAck(s))]
         \/ \E c \in Conn, s \in Message : reader' = [reader EXCEPT ![c] = Handing(<<s>>)]
         \/ \E c \in Conn : /\ reader[c].ready # <<>>
                            /\ reader' = [reader EXCEPT ![c] = Handing(reader[c].ready)]
         \/ \E c \in Conn : /\ Len(reader[c].ready) # 1 /\ reader[c].stage = "handing"
                            /\ reader' = [reader EXCEPT ![c] = Handing(Tail(reader[c].ready))]
         \/ \E c \in Conn : reader' = [reader EXCEPT ![c] = Waiting]
         \/ \E c \in Conn : reader' = [reader EXCEPT ![c] = Closed]
<1> DEFINE Goal ==
         \/ reader' = reader
         \/ \E c \in Conn, s \in Message :
              /\ ReadMessage(c, s)
              /\ reader' = [reader EXCEPT ![c] = Acking(Ready(window, s), WindowAck(s, window'))]
         \/ \E c \in Conn, s \in Message :
              reader' = [reader EXCEPT ![c] = Acking(<<s>>, PlainAck(s))]
         \/ \E c \in Conn, s \in Message : reader' = [reader EXCEPT ![c] = Handing(<<s>>)]
         \/ \E c \in Conn : /\ reader[c].ready # <<>>
                            /\ reader' = [reader EXCEPT ![c] = Handing(reader[c].ready)]
         \/ \E c \in Conn : /\ Len(reader[c].ready) # 1 /\ reader[c].stage = "handing"
                            /\ reader' = [reader EXCEPT ![c] = Handing(Tail(reader[c].ready))]
         \/ \E c \in Conn : reader' = [reader EXCEPT ![c] = Waiting]
         \/ \E c \in Conn : reader' = [reader EXCEPT ![c] = Closed]
<1> SUFFICES Goal
  OBVIOUS
<1>0. reader \in [Conn -> ReaderType]
  BY DEF StreamInv, TypeOK, SchedulerTypes
<1>1. reader' = reader => Goal
  OBVIOUS
<1>2. ASSUME NEW c \in Conn, NEW s \in Message, ReadMessage(c, s)
      PROVE  Goal
  BY <1>2 DEF ReadMessage
<1>3. ASSUME NEW c \in Conn, NEW s \in Message, ReadUnbound(c, s)
      PROVE  Goal
  <2>1. CASE s \in Requested
    BY <1>0, <1>3, <2>1 DEF ReadUnbound
  <2>2. CASE s \notin Requested
    BY <1>0, <1>3, <2>2 DEF ReadUnbound
  <2>3. QED
    BY <2>1, <2>2
<1>4. ASSUME NEW c \in Conn, SendAck(c)
      PROVE  Goal
  <2>1. CASE reader[c].ready = <<>>
    BY <1>0, <1>4, <2>1 DEF SendAck
  <2>2. CASE reader[c].ready # <<>>
    BY <1>0, <1>4, <2>2 DEF SendAck
  <2>3. QED
    BY <2>1, <2>2
<1>5. ASSUME NEW c \in Conn, HandOver(c)
      PROVE  Goal
  <2>1. CASE Len(reader[c].ready) = 1
    BY <1>0, <1>5, <2>1 DEF HandOver
  <2>2. CASE Len(reader[c].ready) # 1
    BY <1>0, <1>5, <2>2 DEF HandOver
  <2>3. QED
    BY <2>1, <2>2
<1>6. ASSUME NEW c \in Conn, AckRaises(c) \/ CloseReader(c)
      PROVE  Goal
  BY <1>6 DEF AckRaises, CloseReader
<1> HIDE DEF Goal
<1>7. ASSUME NEW c \in Conn, Reader(c)
      PROVE  Goal
  <2>1. CASE ReadResume(c)
    BY <1>1, <2>1 DEF ReadResume
  <2>2. QED
    BY <1>2, <1>3, <1>4, <1>5, <1>6, <1>7, <2>1 DEF Reader, Read
<1>8. ASSUME NEW s \in Message, Sender(s)
      PROVE  Goal
  BY <1>1, <1>8 DEF Sender, Send, SendOffline, SendBreaks, SendRaises, Resend, ResendOffline,
                    ResendBreaks, GiveUp, readVars
<1>9. ASSUME NEW a \in acks, HandleAck(a)
      PROVE  Goal
  BY <1>1, <1>9 DEF HandleAck, readVars
<1>10. CASE Link
  BY <1>1, <1>10 DEF Link, Drop, Connect, SendResume, readVars
<1>11. CASE UNCHANGED vars
  BY <1>1, <1>11 DEF vars, readVars
<1>12. QED
  BY <1>7, <1>8, <1>9, <1>10, <1>11 DEF Next

\* A reader that hands over keeps having something to hand over.
LEMMA HandsStep ==
  ASSUME StreamInv, [Next]_vars
  PROVE  HandsSomething'
<1>0. /\ reader \in [Conn -> ReaderType]
      /\ \A c \in Conn : reader[c].ready \in Seq(Message)
      /\ HandsSomething
  BY DEF StreamInv, TypeOK, SchedulerTypes, ReaderType
<1> DEFINE Keeps(r) == r.stage = "handing" => r.ready # <<>>
<1>1. ASSUME NEW c \in Conn, NEW r, reader' = [reader EXCEPT ![c] = r], Keeps(r)
      PROVE  HandsSomething'
  BY <1>0, <1>1 DEF HandsSomething
<1>2. Keeps(Waiting) /\ Keeps(Closed) /\ \A q, a : Keeps(Acking(q, a))
  BY DEF Waiting, Closed, Acking
<1>3. \A q : q # <<>> => Keeps(Handing(q))
  BY DEF Handing
<1>4. \A s \in Message : <<s>> # <<>>
  OBVIOUS
<1>5. ASSUME NEW c \in Conn, Len(reader[c].ready) # 1, reader[c].stage = "handing"
      PROVE  Tail(reader[c].ready) # <<>>
  <2>1. reader[c].ready \in Seq(Message) /\ reader[c].ready # <<>>
    BY <1>0, <1>5 DEF HandsSomething
  <2>2. QED
    BY <1>5, <2>1, TailNotEmpty
<1>6. reader' = reader => HandsSomething'
  BY <1>0 DEF HandsSomething
<1> HIDE DEF Keeps
<1>7. QED
  BY <1>1, <1>2, <1>3, <1>4, <1>5, <1>6, ReaderChange

\* An ack that was truthful stays so: the window only ever gains.
LEMMA TruthfulStays ==
  ASSUME StreamInv, [Next]_vars, NEW a \in AckType, Truthful(a)
  PROVE  Truthful(a)'
<1>1. /\ window.base <= window'.base /\ Received(window) \subseteq Received(window')
      /\ window.base \in Nat /\ window'.base \in Nat
  BY WindowStep DEF StreamInv, TypeOK, SchedulerTypes, WindowType
<1>2. a.base \in Nat \cup {None}
  BY DEF AckType
<1>3. QED
  BY <1>1, <1>2 DEF Truthful

\* A fresh ack tells the truth: every bit of the bitmap stands for a buffered
\* envelope.
LEMMA FreshAckTruthful ==
  ASSUME window' \in WindowType, WindowOK', NEW s \in Message, NEW a,
         a = WindowAck(s, window') \/ a = PlainAck(s)
  PROVE  Truthful(a)'
<1>1. WindowCoherent(window') /\ window'.base \in Nat /\ window'.buffer \subseteq Nat \ {0}
  BY DEF WindowOK, WindowType
<1>2. ASSUME NEW o \in window'.bits
      PROVE  window'.base + 1 + o \in Received(window')
  <2>1. PICK x \in window'.buffer : o = x - window'.base - 1
    BY <1>1 DEF WindowCoherent
  <2>2. window'.base + 1 + o = x
    BY <1>1, <2>1
  <2>3. QED
    BY <2>2 DEF Received
<1>3. QED
  BY <1>1, <1>2 DEF Truthful, WindowAck, PlainAck

\* Every ack on its way, or about to be sent, is truthful.
LEMMA AcksStep ==
  ASSUME StreamInv, [Next]_vars
  PROVE  AcksTruthful'
<1>0. /\ reader \in [Conn -> ReaderType] /\ AcksTruthful /\ acks \subseteq AckType
      /\ window' \in WindowType /\ WindowOK'
  BY WindowStep DEF StreamInv, TypeOK, SchedulerTypes, LinkTypes
<1>1. \A a \in acks : Truthful(a)'
  BY <1>0, TruthfulStays DEF AcksTruthful
<1>2. \A c \in Conn : reader[c].stage = "acking" =>
        reader[c].ack \in AckType /\ Truthful(reader[c].ack)
  BY <1>0 DEF AcksTruthful
<1>3. ASSUME NEW a \in acks'
      PROVE  Truthful(a)'
  <2>1. a \in acks \/ \E c \in Conn : SendAck(c) /\ a = reader[c].ack
    <3>1. CASE UNCHANGED vars
      BY <1>3, <3>1 DEF vars
    <3>2. ASSUME NEW s \in Message, Sender(s)
          PROVE  acks' = acks
      BY <3>2 DEF Sender, Send, SendOffline, SendBreaks, SendRaises, Resend, ResendOffline,
                  ResendBreaks, GiveUp
    <3>3. ASSUME NEW b \in acks, HandleAck(b)
          PROVE  a \in acks
      BY <1>3, <3>3 DEF HandleAck
    <3>4. CASE Link
      BY <1>3, <3>4 DEF Link, Drop, Connect, SendResume
    <3>5. ASSUME NEW c \in Conn, Reader(c)
          PROVE  a \in acks \/ (SendAck(c) /\ a = reader[c].ack)
      <4>1. CASE SendAck(c)
        BY <1>3, <4>1 DEF SendAck
      <4>2. CASE Read(c)
        BY <1>3, <4>2 DEF Read, ReadMessage, ReadUnbound, ReadResume, ReadFrame
      <4>3. CASE AckRaises(c) \/ HandOver(c) \/ CloseReader(c)
        BY <1>3, <4>3 DEF AckRaises, HandOver, CloseReader
      <4>4. QED
        BY <3>5, <4>1, <4>2, <4>3 DEF Reader
    <3>6. QED
      BY <1>3, <3>1, <3>2, <3>3, <3>4, <3>5 DEF Next
  <2>2. ASSUME NEW c \in Conn, SendAck(c), a = reader[c].ack
        PROVE  Truthful(a)'
    <3>1. a \in AckType /\ Truthful(a)
      BY <1>2, <2>2 DEF SendAck
    <3>2. QED
      BY <3>1, TruthfulStays
  <2>3. QED
    BY <1>1, <2>1, <2>2
<1>4. ASSUME NEW c \in Conn, reader'[c].stage = "acking", NEW a, a = reader'[c].ack
      PROVE  a \in AckType /\ Truthful(a)'
  <2>1. CASE reader'[c] = reader[c]
    <3>1. a \in AckType /\ Truthful(a)
      BY <1>2, <1>4, <2>1
    <3>2. QED
      BY <3>1, TruthfulStays
  <2>2. CASE \E s \in Message : a = WindowAck(s, window') \/ a = PlainAck(s)
    <3>1. PICK s \in Message : a = WindowAck(s, window') \/ a = PlainAck(s)
      BY <2>2
    <3>2. QED
      BY <1>0, <3>1, AckTypes, FreshAckTruthful
  <2>3. reader'[c] = reader[c] \/ \E s \in Message : a = WindowAck(s, window') \/ a = PlainAck(s)
    <3> DEFINE Fresh(r) == r.stage = "acking" =>
                             \E s \in Message : r.ack = WindowAck(s, window') \/ r.ack = PlainAck(s)
    <3>1. \A q : Fresh(Handing(q))
      BY DEF Handing
    <3>2. Fresh(Waiting) /\ Fresh(Closed)
      BY DEF Waiting, Closed
    <3>3. \A q, s : s \in Message => /\ Fresh(Acking(q, WindowAck(s, window')))
                                     /\ Fresh(Acking(q, PlainAck(s)))
      BY DEF Acking
    <3>4. ASSUME NEW d \in Conn, NEW r, reader' = [reader EXCEPT ![d] = r], Fresh(r)
          PROVE  reader'[c] = reader[c]
                 \/ \E s \in Message : a = WindowAck(s, window') \/ a = PlainAck(s)
      <4>1. reader'[c] = reader[c] \/ reader'[c] = r
        BY <1>0, <3>4
      <4>2. QED
        BY <1>4, <3>4, <4>1
    <3> HIDE DEF Fresh
    <3>5. QED
      BY <3>1, <3>2, <3>3, <3>4, ReaderChange
  <2>4. QED
    BY <2>1, <2>2, <2>3
<1>5. QED
  BY <1>3, <1>4 DEF AcksTruthful

---------------------------------------------------------------------------
(* The theorems that hold under every fault. *)

LEMMA StreamInvInit == Init => StreamInv
<1> SUFFICES ASSUME Init
             PROVE  StreamInv
  OBVIOUS
<1> USE ConstantFacts DEF Init
<1>1. EmptyWindow \in WindowType /\ WindowCoherent(EmptyWindow) /\ Received(EmptyWindow) = {}
  BY SizeAssumption DEF EmptyWindow, WindowType, WindowCoherent, Received
<1>2. SenderTypes
  BY DEF SenderTypes
<1>3. LinkTypes
  BY EmptySeq DEF LinkTypes
<1>4. SchedulerTypes
  BY <1>1, ReaderStates, EmptySeq DEF SchedulerTypes
<1>5. SentOnly
  BY <1>1 DEF SentOnly
<1>6. WindowOK
  BY <1>1 DEF WindowOK
<1>7. HandsSomething /\ AcksTruthful
  BY DEF HandsSomething, AcksTruthful, Waiting
<1>8. QED
  BY <1>2, <1>3, <1>4, <1>5, <1>6, <1>7 DEF StreamInv, TypeOK

LEMMA StreamInvStep == StreamInv /\ [Next]_vars => StreamInv'
BY TypeStep, SentOnlyStep, WindowStep, HandsStep, AcksStep DEF StreamInv

\* The strengthened invariant holds throughout.
THEOREM Inductive == Spec => []StreamInv
BY StreamInvInit, StreamInvStep, PTL DEF Spec

\* Every variable of the stream keeps its type, whatever fails.
THEOREM TypeCorrect == Spec => []TypeOK
<1>1. StreamInv => TypeOK
  BY DEF StreamInv
<1>2. QED
  BY <1>1, Inductive, PTL

\* The bitmap, the buffer and the base of the receive window agree at all times
\* (ReceiveWindow.record), whatever is lost, resent or repeated.
THEOREM WindowAlwaysCoherent == Spec => []WindowOK
<1>1. StreamInv => WindowOK
  BY DEF StreamInv
<1>2. QED
  BY <1>1, Inductive, PTL

\* No ack ever claims, through its window part, a message that was not received,
\* however late it arrives.
THEOREM WindowAcksAlwaysTruthful == Spec => []WindowAcksTruthful
<1>1. StreamInv => WindowAcksTruthful
  <2> SUFFICES ASSUME StreamInv, NEW a \in acks, a.base # None,
                      NEW s \in 1..(a.base + Size), IsSeqAcked(s, a.base, a.bits)
               PROVE  s \in Received(window)
    BY DEF WindowAcksTruthful
  <2>1. a.base \in Nat /\ a.bits \subseteq 0..(Size - 1) /\ window.base \in Nat /\ Size \in Nat
    BY SizeAssumption DEF StreamInv, TypeOK, LinkTypes, SchedulerTypes, AckType, WindowType
  <2>2. Truthful(a)
    BY DEF StreamInv, AcksTruthful
  <2>3. CASE s <= a.base
    BY <2>1, <2>2, <2>3 DEF Truthful, Received
  <2>4. CASE s - a.base - 1 \in a.bits
    <3>1. a.base + 1 + (s - a.base - 1) = s
      BY <2>1
    <3>2. QED
      BY <2>2, <2>4, <3>1 DEF Truthful
  <2>5. QED
    BY <2>3, <2>4 DEF IsSeqAcked
<1>2. QED
  BY <1>1, Inductive, PTL

---------------------------------------------------------------------------
(* Delivery at most once, under every fault. *)

\* What HeldOnce and DeliveredOnce need to know about the readers.
LEMMA OnceTypes ==
  ASSUME OnceInv
  PROVE  /\ reader \in [Conn -> ReaderType] /\ \A c \in Conn : reader[c].ready \in Seq(Message)
         /\ delivered \in Seq(Message) /\ window.base \in Nat /\ unwindowed \subseteq Message
         /\ Message \subseteq Nat
BY ConstantFacts DEF OnceInv, StreamInv, TypeOK, SchedulerTypes, ReaderType, WindowType

\* Everything delivered, and everything in hand, came through the window or bypassed it.
LEMMA Accounted ==
  ASSUME OnceInv
  PROVE  /\ \A i \in DOMAIN delivered : delivered[i] \in unwindowed \cup 1..window.base
         /\ \A c \in Conn : \A i \in DOMAIN reader[c].ready :
              reader[c].ready[i] \in InHand /\ reader[c].ready[i] \in unwindowed \cup 1..window.base
BY DEF OnceInv, HeldOnce, Handled, InHand

\* The same, one reader at a time.
OnceParts ==
  /\ \A i \in DOMAIN delivered : delivered[i] \in unwindowed \cup 1..window.base
  /\ \A c \in Conn : \A i \in DOMAIN reader[c].ready :
       reader[c].ready[i] \in unwindowed \cup 1..window.base
  /\ \A c, d \in Conn : \A i \in DOMAIN reader[c].ready, j \in DOMAIN reader[d].ready :
       reader[c].ready[i] = reader[d].ready[j] /\ reader[c].ready[i] \notin unwindowed
         => c = d /\ i = j
  /\ \A i, j \in DOMAIN delivered :
       delivered[i] = delivered[j] /\ delivered[i] \notin unwindowed => i = j
  /\ \A i \in DOMAIN delivered : \A c \in Conn : \A j \in DOMAIN reader[c].ready :
       delivered[i] = reader[c].ready[j] => delivered[i] \in unwindowed

LEMMA OnceFromParts == OnceParts => HeldOnce /\ DeliveredOnce
<1> SUFFICES ASSUME OnceParts
             PROVE  HeldOnce /\ DeliveredOnce
  OBVIOUS
<1>1. HeldOnce
  BY DEF OnceParts, HeldOnce, Handled, InHand
<1>2. DeliveredOnce
  BY DEF OnceParts, DeliveredOnce, InHand
<1>3. QED
  BY <1>1, <1>2

\* Nothing changes hands.
LEMMA HeldAsBefore ==
  ASSUME OnceInv, \A c \in Conn : reader'[c].ready = reader[c].ready,
         delivered' = delivered, unwindowed' = unwindowed, window' = window
  PROVE  HeldOnce' /\ DeliveredOnce'
BY DEF OnceInv, HeldOnce, DeliveredOnce, Handled, InHand

\* A reader takes a list in hand whose messages bypassed the window or that the
\* window just moved past, each once.
LEMMA NewInHand ==
  ASSUME OnceInv, NEW c \in Conn, NEW q \in Seq(Message),
         reader'[c].ready = q, \A d \in Conn \ {c} : reader'[d].ready = reader[d].ready,
         delivered' = delivered, unwindowed \subseteq unwindowed',
         window'.base \in Nat, window.base <= window'.base,
         \A i \in DOMAIN q : q[i] \in unwindowed' \cup ((window.base + 1)..window'.base),
         \A i, j \in DOMAIN q : q[i] = q[j] /\ q[i] \notin unwindowed' => i = j
  PROVE  HeldOnce' /\ DeliveredOnce'
<1>0. /\ reader \in [Conn -> ReaderType] /\ \A d \in Conn : reader[d].ready \in Seq(Message)
      /\ delivered \in Seq(Message) /\ window.base \in Nat
  BY OnceTypes
<1>1. /\ \A i \in DOMAIN delivered : delivered[i] \in unwindowed \cup 1..window.base
      /\ \A d \in Conn : \A i \in DOMAIN reader[d].ready :
              reader[d].ready[i] \in InHand /\ reader[d].ready[i] \in unwindowed \cup 1..window.base
  BY Accounted
<1>2. 1..window.base \subseteq 1..window'.base /\ (window.base + 1)..window'.base \subseteq 1..window'.base
      /\ (1..window.base) \cap ((window.base + 1)..window'.base) = {}
  BY <1>0
<1>3. \A d \in Conn : d = c \/ d \in Conn \ {c}
  OBVIOUS
<1>4. \A i \in DOMAIN delivered' : delivered'[i] \in unwindowed' \cup 1..window'.base
  BY <1>1, <1>2
<1>5. \A d \in Conn : \A i \in DOMAIN reader'[d].ready :
           reader'[d].ready[i] \in unwindowed' \cup 1..window'.base
  BY <1>1, <1>2, <1>3
<1>6. ASSUME NEW d \in Conn, NEW e \in Conn,
             NEW i \in DOMAIN reader'[d].ready, NEW j \in DOMAIN reader'[e].ready,
             reader'[d].ready[i] = reader'[e].ready[j], reader'[d].ready[i] \notin unwindowed'
      PROVE  d = e /\ i = j
  <2>1. CASE d = c /\ e = c
    BY <1>6, <2>1
  <2>2. CASE d = c /\ e # c
    BY <1>1, <1>2, <1>6, <2>2
  <2>3. CASE d # c /\ e = c
    BY <1>1, <1>2, <1>6, <2>3
  <2>4. CASE d # c /\ e # c
    BY <1>6, <2>4 DEF OnceInv, HeldOnce
  <2>5. QED
    BY <2>1, <2>2, <2>3, <2>4
<1>7. \A i, j \in DOMAIN delivered' :
        delivered'[i] = delivered'[j] /\ delivered'[i] \notin unwindowed' => i = j
  BY DEF OnceInv, DeliveredOnce
<1>8. ASSUME NEW i \in DOMAIN delivered', NEW d \in Conn, NEW j \in DOMAIN reader'[d].ready,
             delivered'[i] = reader'[d].ready[j]
      PROVE  delivered'[i] \in unwindowed'
  <2>1. CASE d = c
    BY <1>1, <1>2, <1>8, <2>1
  <2>2. CASE d # c
    BY <1>1, <1>8, <2>2 DEF OnceInv, DeliveredOnce
  <2>3. QED
    BY <2>1, <2>2
<1>9. OnceParts'
  BY <1>4, <1>5, <1>6, <1>7, <1>8 DEF OnceParts
<1>10. QED
  BY <1>9, OnceFromParts, PTL

\* The first message in hand is handed over.
LEMMA OnceHandedOver ==
  ASSUME OnceInv, NEW c \in Conn, HandOver(c)
  PROVE  HeldOnce' /\ DeliveredOnce'
<1> DEFINE q == reader[c].ready
           r == IF Len(q) = 1 THEN <<>> ELSE Tail(q)
           n == Len(delivered)
<1>0. /\ reader \in [Conn -> ReaderType] /\ \A d \in Conn : reader[d].ready \in Seq(Message)
      /\ delivered \in Seq(Message) /\ window.base \in Nat
  BY OnceTypes
<1>1. /\ \A i \in DOMAIN delivered : delivered[i] \in unwindowed \cup 1..window.base
      /\ \A d \in Conn : \A i \in DOMAIN reader[d].ready :
              reader[d].ready[i] \in InHand /\ reader[d].ready[i] \in unwindowed \cup 1..window.base
  BY Accounted
<1>2. q \in Seq(Message) /\ q # <<>>
  BY <1>0 DEF HandOver, OnceInv, StreamInv, HandsSomething
<1>3. Len(q) \in Nat /\ Len(q) >= 1 /\ Head(q) = q[1] /\ DOMAIN q = 1..Len(q) /\ q[1] \in Message
  BY <1>2
<1>4. /\ DOMAIN r = 1..(Len(q) - 1)
      /\ \A i \in DOMAIN r : i + 1 \in DOMAIN q /\ i + 1 # 1 /\ r[i] = q[i + 1]
  <2>1. CASE Len(q) = 1
    <3>1. r = <<>> /\ DOMAIN <<>> = {} /\ 1..(1 - 1) = {}
      BY <2>1
    <3>2. QED
      BY <2>1, <3>1
  <2>2. CASE Len(q) # 1
    <3>1. r = Tail(q)
      BY <2>2
    <3>2. /\ DOMAIN Tail(q) = 1..(Len(q) - 1)
          /\ \A i \in 1..(Len(q) - 1) : Tail(q)[i] = q[i + 1]
      BY <1>2, <1>3
    <3>3. \A i \in 1..(Len(q) - 1) : i + 1 \in 1..Len(q) /\ i + 1 # 1
      BY <1>3
    <3>4. QED
      BY <1>3, <3>1, <3>2, <3>3
  <2>3. QED
    BY <2>1, <2>2
<1>5. /\ reader'[c].ready = r
      /\ \A d \in Conn \ {c} : reader'[d].ready = reader[d].ready
      /\ unwindowed' = unwindowed /\ window' = window
  BY <1>0 DEF HandOver, Waiting, Handing
<1>6. /\ n \in Nat /\ DOMAIN delivered = 1..n /\ DOMAIN delivered' = 1..(n + 1)
      /\ \A i \in 1..n : delivered'[i] = delivered[i]
      /\ delivered'[n + 1] = q[1]
  BY <1>0, <1>3 DEF HandOver
<1> HIDE DEF q, r, n
<1>7. \A i \in DOMAIN delivered' : i \in DOMAIN delivered \/ i = n + 1
  BY <1>6
<1>8. /\ 1 \in DOMAIN q /\ q[1] \in InHand /\ q[1] \in unwindowed \cup 1..window.base
      /\ \A i \in DOMAIN q : q[i] \in InHand
  BY <1>1, <1>3 DEF q
<1>9. \A i \in DOMAIN delivered' : delivered'[i] \in unwindowed' \cup 1..window'.base
  BY <1>1, <1>5, <1>6, <1>7, <1>8
<1>10. \A d \in Conn : \A i \in DOMAIN reader'[d].ready :
         reader'[d].ready[i] \in unwindowed' \cup 1..window'.base
  <2>1. \A i \in DOMAIN r : r[i] \in unwindowed \cup 1..window.base
    BY <1>1, <1>4 DEF q
  <2>2. QED
    BY <1>1, <1>5, <2>1
<1>11. ASSUME NEW d \in Conn, NEW e \in Conn,
              NEW i \in DOMAIN reader'[d].ready, NEW j \in DOMAIN reader'[e].ready,
              reader'[d].ready[i] = reader'[e].ready[j], reader'[d].ready[i] \notin unwindowed'
       PROVE  d = e /\ i = j
  <2>0. \A f, g \in Conn : \A k \in DOMAIN reader[f].ready, l \in DOMAIN reader[g].ready :
         reader[f].ready[k] = reader[g].ready[l] /\ reader[f].ready[k] \notin unwindowed
             => f = g /\ k = l
    BY DEF OnceInv, HeldOnce
  <2>1. CASE d = c /\ e = c
    <3>1. i \in DOMAIN r /\ j \in DOMAIN r /\ r[i] = r[j] /\ r[i] \notin unwindowed
      BY <1>5, <1>11, <2>1
    <3>2. i + 1 = j + 1
      BY <1>4, <2>0, <3>1 DEF q
    <3>3. i \in Nat /\ j \in Nat
      BY <1>3, <1>4, <3>1
    <3>4. QED
      BY <2>1, <3>2, <3>3
  <2>2. CASE d = c /\ e # c
    BY <1>4, <1>5, <1>11, <2>0, <2>2 DEF q
  <2>3. CASE d # c /\ e = c
    BY <1>4, <1>5, <1>11, <2>0, <2>3 DEF q
  <2>4. CASE d # c /\ e # c
    BY <1>5, <1>11, <2>0, <2>4
  <2>5. QED
    BY <2>1, <2>2, <2>3, <2>4
<1>12. ASSUME NEW i \in DOMAIN delivered', NEW j \in DOMAIN delivered',
              delivered'[i] = delivered'[j], delivered'[i] \notin unwindowed'
       PROVE  i = j
  <2>1. \A k, l \in DOMAIN delivered :
           delivered[k] = delivered[l] /\ delivered[k] \notin unwindowed => k = l
    BY DEF OnceInv, DeliveredOnce
  <2>2. \A k \in DOMAIN delivered : delivered[k] = q[1] => delivered[k] \in unwindowed
    BY <1>8 DEF OnceInv, DeliveredOnce
  <2>3. QED
    BY <1>5, <1>6, <1>7, <1>12, <2>1, <2>2
<1>13. ASSUME NEW i \in DOMAIN delivered', NEW d \in Conn, NEW j \in DOMAIN reader'[d].ready,
              delivered'[i] = reader'[d].ready[j]
       PROVE  delivered'[i] \in unwindowed'
  <2>1. \E k \in DOMAIN reader[d].ready :
           reader'[d].ready[j] = reader[d].ready[k] /\ (d = c => k # 1)
    BY <1>4, <1>5 DEF q
  <2>2. PICK k \in DOMAIN reader[d].ready :
           reader'[d].ready[j] = reader[d].ready[k] /\ (d = c => k # 1)
    BY <2>1
  <2>3. CASE i = n + 1
    <3>1. reader[c].ready[1] = reader[d].ready[k] /\ 1 \in DOMAIN reader[c].ready
      BY <1>6, <1>8, <1>13, <2>2, <2>3 DEF q
    <3>2. reader[c].ready[1] \in unwindowed
      BY <2>2, <3>1 DEF OnceInv, HeldOnce
    <3>3. QED
      BY <1>5, <1>6, <2>3, <3>2 DEF q
  <2>4. CASE i \in DOMAIN delivered
    <3>1. delivered[i] \in InHand
      BY <1>1, <1>6, <1>13, <2>2, <2>4
    <3>2. QED
      BY <1>5, <1>6, <2>4, <3>1 DEF OnceInv, DeliveredOnce
  <2>5. QED
    BY <1>7, <2>3, <2>4
<1>14. OnceParts'
  BY <1>9, <1>10, <1>11, <1>12, <1>13 DEF OnceParts
<1>15. QED
  BY <1>14, OnceFromParts, PTL

LEMMA OnceStep == OnceInv /\ [Next]_vars => OnceInv'
<1> SUFFICES ASSUME OnceInv, [Next]_vars
             PROVE  HeldOnce' /\ DeliveredOnce'
  BY StreamInvStep DEF OnceInv
<1>0. /\ reader \in [Conn -> ReaderType] /\ \A d \in Conn : reader[d].ready \in Seq(Message)
      /\ delivered \in Seq(Message) /\ window.base \in Nat
      /\ StreamInv /\ TypeOK /\ SentOnly /\ WindowOK
  BY OnceTypes DEF OnceInv, StreamInv
<1>a. <<>> \in Seq(Message) /\ DOMAIN <<>> = {}
  OBVIOUS
<1>1. ASSUME readVars' = readVars
      PROVE  HeldOnce' /\ DeliveredOnce'
  BY <1>1, HeldAsBefore DEF readVars
<1>2. ASSUME NEW c \in Conn, NEW s \in Message, ReadMessage(c, s)
      PROVE  HeldOnce' /\ DeliveredOnce'
  <2> DEFINE q == Ready(window, s)
  <2>1. ReadFrame(c, s) /\ s < nextSeq
    BY <1>0, <1>2, ReadFrameTypes, ConstantFacts DEF ReadMessage, TypeOK, SenderTypes
  <2>2. /\ Record(window, s) \in WindowType
        /\ window.base <= Record(window, s).base
        /\ q \in Seq(Message)
        /\ Len(q) = Record(window, s).base - window.base
        /\ \A i \in DOMAIN q : q[i] = window.base + i
    BY <1>0, <2>1, RecordAssigned
  <2>3. window'.base = Record(window, s).base /\ unwindowed' = unwindowed /\ delivered' = delivered
    BY <1>2 DEF ReadMessage, ReadFrame
  <2>4. /\ reader'[c].ready = q
        /\ \A d \in Conn \ {c} : reader'[d].ready = reader[d].ready
    BY <1>0, <1>2 DEF ReadMessage, Acking
  <2> HIDE DEF q
  <2>5. Record(window, s).base \in Nat /\ DOMAIN q = 1..Len(q)
    BY <2>2 DEF WindowType
  <2>6. \A i \in DOMAIN q : q[i] \in (window.base + 1)..window'.base
    BY <1>0, <2>2, <2>3, <2>5
  <2>7. \A i, j \in DOMAIN q : q[i] = q[j] => i = j
    BY <1>0, <2>2, <2>5
  <2>8. window'.base \in Nat /\ window.base <= window'.base
    BY <2>2, <2>3, <2>5
  <2>9. QED
    BY <2>2, <2>3, <2>4, <2>6, <2>7, <2>8, NewInHand
<1>3. ASSUME NEW c \in Conn, NEW s \in Message, ReadUnbound(c, s)
      PROVE  HeldOnce' /\ DeliveredOnce'
  <2>1. window' = window /\ unwindowed' = unwindowed \cup {s} /\ delivered' = delivered
    BY <1>3 DEF ReadUnbound, ReadFrame
  <2>2. /\ reader'[c].ready = <<s>>
        /\ \A d \in Conn \ {c} : reader'[d].ready = reader[d].ready
    BY <1>0, <1>3 DEF ReadUnbound, Acking, Handing
  <2>3. <<s>> \in Seq(Message) /\ \A i \in DOMAIN <<s>> : <<s>>[i] = s
    OBVIOUS
  <2>4. window'.base \in Nat /\ window.base <= window'.base
    BY <1>0, <2>1
  <2>5. /\ \A i \in DOMAIN <<s>> : <<s>>[i] \in unwindowed'
        /\ unwindowed \subseteq unwindowed'
    BY <2>1, <2>3
  <2>6. QED
    BY <2>1, <2>2, <2>3, <2>4, <2>5, NewInHand
<1>4. ASSUME NEW c \in Conn, SendAck(c)
      PROVE  HeldOnce' /\ DeliveredOnce'
  <2>1. delivered' = delivered /\ unwindowed' = unwindowed /\ window' = window
    BY <1>4 DEF SendAck
  <2>2. \A d \in Conn : reader'[d].ready = reader[d].ready
    BY <1>0, <1>4 DEF SendAck, Waiting, Handing
  <2>3. QED
    BY <2>1, <2>2, HeldAsBefore
<1>5. ASSUME NEW c \in Conn, AckRaises(c) \/ CloseReader(c)
      PROVE  HeldOnce' /\ DeliveredOnce'
  <2>1. delivered' = delivered /\ unwindowed' = unwindowed /\ window' = window
    BY <1>5 DEF AckRaises, CloseReader
  <2>2. /\ reader'[c].ready = <<>>
        /\ \A d \in Conn \ {c} : reader'[d].ready = reader[d].ready
    BY <1>0, <1>5 DEF AckRaises, CloseReader, Closed
  <2>3. window'.base \in Nat /\ window.base <= window'.base
    BY <1>0, <2>1
  <2>4. QED
    BY <1>a, <2>1, <2>2, <2>3, NewInHand
<1>6. ASSUME NEW c \in Conn, Reader(c)
      PROVE  HeldOnce' /\ DeliveredOnce'
  <2>1. CASE ReadResume(c)
    BY <2>1, HeldAsBefore DEF ReadResume, ReadFrame
  <2>2. QED
    BY <1>2, <1>3, <1>4, <1>5, <1>6, <2>1, OnceHandedOver DEF Reader, Read
<1>7. ASSUME NEW s \in Message, Sender(s)
      PROVE  HeldOnce' /\ DeliveredOnce'
  BY <1>1, <1>7 DEF Sender, Send, SendOffline, SendBreaks, SendRaises, Resend, ResendOffline,
                    ResendBreaks, GiveUp
<1>8. ASSUME NEW a \in acks, HandleAck(a)
      PROVE  HeldOnce' /\ DeliveredOnce'
  BY <1>1, <1>8 DEF HandleAck
<1>9. CASE Link
  BY <1>1, <1>9 DEF Link, Drop, Connect, SendResume
<1>10. CASE UNCHANGED vars
  BY <1>1, <1>10 DEF vars
<1>11. QED
  BY <1>6, <1>7, <1>8, <1>9, <1>10 DEF Next

LEMMA OnceInit == Init => OnceInv
<1> SUFFICES ASSUME Init
             PROVE  HeldOnce /\ DeliveredOnce
  BY StreamInvInit DEF OnceInv
<1>1. DOMAIN delivered = {} /\ \A c \in Conn : DOMAIN reader[c].ready = {}
  BY DEF Init, Waiting
<1>2. OnceParts
  BY <1>1 DEF OnceParts
<1>3. QED
  BY <1>2, OnceFromParts

\* Whatever is lost, resent, repeated after a reconnect or read by two readers at
\* once: no message reaches the handlers twice, unless a copy of it was read on a
\* connection that was not bound to the session yet (session.py window.record,
\* server.py).
THEOREM NothingDeliveredTwice == Spec => []DeliveredOnce
<1>1. OnceInv => DeliveredOnce
  BY DEF OnceInv
<1>2. QED
  BY <1>1, OnceInit, OnceStep, PTL DEF Spec

---------------------------------------------------------------------------
(* The order of the stream, under the faults that respect it.              *)

\* The excluded faults do not happen.
LEMMA NoDisorder ==
  ASSUME OrderlyFaults
  PROVE  /\ ~Fault("early_frame") /\ ~Fault("overlap") /\ ~Fault("ack_error")
BY DEF OrderlyFaults, Fault

\* The worker's sends keep control.resume the first frame of its connection.
LEMMA ResumeFirstSender ==
  ASSUME OrderlyFaults, TypeOK, ResumeFirst, NEW s \in Message, Sender(s)
  PROVE  ResumeFirst'
<1>0. /\ wire \in [Conn -> Seq(Message \cup {Resume})] /\ conn \in Conn
      /\ Conn \subseteq Nat
  BY ConstantFacts DEF TypeOK, LinkTypes
<1>1. ASSUME ~resuming, up, Write(s), linkVars' = linkVars, bound' = bound
      PROVE  ResumeFirst'
  <2>1. wire' = [wire EXCEPT ![conn] = Append(wire[conn], s)]
    BY <1>1 DEF Write
  <2>2. \A c \in Conn : c # conn => wire'[c] = wire[c]
    BY <1>0, <2>1
  <2>3. conn \notin bound => wire'[conn] # <<>> /\ Head(wire'[conn]) = Resume
    <3>1. SUFFICES ASSUME conn \notin bound
                   PROVE  wire'[conn] # <<>> /\ Head(wire'[conn]) = Resume
      OBVIOUS
    <3>2. wire[conn] # <<>> /\ Head(wire[conn]) = Resume
      BY <1>1, <3>1 DEF ResumeFirst
    <3>3. wire'[conn] = Append(wire[conn], s) /\ wire[conn] \in Seq(Message \cup {Resume})
            /\ s \in Message \cup {Resume}
      BY <1>0, <2>1
    <3>4. QED
      BY <3>2, <3>3
  <2>4. QED
    BY <1>0, <1>1, <2>2, <2>3 DEF ResumeFirst, linkVars
<1>2. CASE Send(s)
  <2>1. ~resuming
    BY <1>2, NoDisorder DEF Send, Early
  <2>2. QED
    BY <1>1, <1>2, <2>1 DEF Send, readVars
<1>3. CASE Resend(s)
  <2>1. ~resuming
    BY <1>3, NoDisorder DEF Resend
  <2>2. QED
    BY <1>1, <1>3, <2>1 DEF Resend, readVars
<1>4. CASE SendBreaks(s) \/ ResendBreaks(s)
  BY <1>4 DEF SendBreaks, ResendBreaks, ResumeFirst, readVars
<1>5. CASE SendOffline(s) \/ SendRaises(s) \/ ResendOffline(s) \/ GiveUp(s)
  <2>1. linkVars' = linkVars /\ wire' = wire /\ bound' = bound
    BY <1>5 DEF SendOffline, SendRaises, ResendOffline, GiveUp, readVars
  <2>2. QED
    BY <2>1 DEF ResumeFirst, linkVars
<1>6. QED
  BY <1>2, <1>3, <1>4, <1>5 DEF Sender

\* Connecting opens a connection nobody has written to; control.resume is the
\* first frame written on it.
LEMMA ResumeFirstLink ==
  ASSUME TypeOK, ResumeFirst, Link \/ \E a \in acks : HandleAck(a)
  PROVE  ResumeFirst'
<1>0. /\ wire \in [Conn -> Seq(Message \cup {Resume})] /\ conn \in Conn
      /\ Conn \subseteq Nat
  BY ConstantFacts DEF TypeOK, LinkTypes
<1>1. ASSUME NEW a \in acks, HandleAck(a)
      PROVE  ResumeFirst'
  <2>1. linkVars' = linkVars /\ wire' = wire /\ bound' = bound
    BY <1>1 DEF HandleAck, readVars
  <2>2. QED
    BY <2>1 DEF ResumeFirst, linkVars
<1>2. CASE Drop
  BY <1>2 DEF Drop, ResumeFirst, readVars
<1>3. CASE Connect
  <2>1. conn \in bound /\ ~up
    BY <1>3 DEF Connect, ResumeFirst
  <2>2. conn' = conn + 1 /\ up' = TRUE /\ resuming' = TRUE /\ wire' = wire /\ bound' = bound
    BY <1>3 DEF Connect, readVars
  <2>3. conn' \in Conn
    BY <1>0, <1>3, ConstantFacts DEF Connect, Conn
  <2>4. wire[conn'] = <<>> /\ conn' \notin bound
    BY <1>0, <2>2, <2>3 DEF ResumeFirst
  <2>5. \A c \in Conn : c < conn' => c \in bound
    BY <1>0, <2>1, <2>2 DEF ResumeFirst
  <2>6. \A c \in Conn : c > conn' => wire[c] = <<>> /\ c \notin bound
    BY <1>0, <2>2 DEF ResumeFirst
  <2>7. QED
    BY <2>2, <2>4, <2>5, <2>6 DEF ResumeFirst
<1>4. CASE SendResume
  <2>1. conn \notin bound /\ wire[conn] = <<>>
    BY <1>4 DEF SendResume, ResumeFirst
  <2>2. wire' = [wire EXCEPT ![conn] = Append(<<>>, Resume)]
    BY <1>4, <2>1 DEF SendResume, Write
  <2>3. wire'[conn] # <<>> /\ Head(wire'[conn]) = Resume
          /\ \A c \in Conn : c # conn => wire'[c] = wire[c]
    BY <1>0, <2>2
  <2>4. conn' = conn /\ up' = up /\ up /\ resuming' = FALSE /\ bound' = bound
    BY <1>4 DEF SendResume, readVars
  <2>5. QED
    BY <1>0, <2>3, <2>4 DEF ResumeFirst
<1>5. QED
  BY <1>1, <1>2, <1>3, <1>4 DEF Link

\* A reader with no session to use finds control.resume first.
LEMMA UnboundReadsResume ==
  ASSUME TypeOK, ResumeFirst, NEW c \in Conn, NEW s, ReadFrame(c, s), c \notin bound
  PROVE  c = conn /\ ~resuming /\ s = Resume
<1>1. conn \in Conn /\ Conn \subseteq Nat
  BY ConstantFacts DEF TypeOK, LinkTypes
<1>2. c = conn
  BY <1>1 DEF ReadFrame, ResumeFirst
<1>3. ~resuming
  BY <1>2 DEF ReadFrame, ResumeFirst
<1>4. QED
  BY <1>2, <1>3 DEF ReadFrame, ResumeFirst

\* Reading and closing respect control.resume.
LEMMA ResumeFirstReader ==
  ASSUME OrderlyFaults, TypeOK, ResumeFirst, NEW c \in Conn, Reader(c)
  PROVE  ResumeFirst'
<1>0. /\ wire \in [Conn -> Seq(Message \cup {Resume})] /\ conn \in Conn
      /\ Conn \subseteq Nat
  BY ConstantFacts DEF TypeOK, LinkTypes
<1>1. ASSUME linkVars' = linkVars, bound' = bound, c \in bound,
             \A d \in Conn : d # c => wire'[d] = wire[d]
      PROVE  ResumeFirst'
  BY <1>0, <1>1 DEF ResumeFirst, linkVars
<1>2. ASSUME NEW s \in Message, ReadMessage(c, s)
      PROVE  ResumeFirst'
  BY <1>0, <1>1, <1>2 DEF ReadMessage, ReadFrame
<1>3. ASSUME NEW s \in Message, ReadUnbound(c, s)
      PROVE  FALSE
  BY <1>3, UnboundReadsResume DEF ReadUnbound
<1>4. CASE ReadResume(c)
  <2>1. ReadFrame(c, Resume) /\ bound' = bound \cup {c}
    BY <1>4 DEF ReadResume
  <2>2. linkVars' = linkVars /\ \A d \in Conn : d # c => wire'[d] = wire[d]
    BY <1>0, <2>1 DEF ReadFrame
  <2>3. c <= conn
    BY <1>0, <2>1 DEF ReadFrame, ResumeFirst
  <2>4. c = conn => ~resuming
    BY <2>1, UnboundReadsResume DEF ResumeFirst
  <2>5. QED
    BY <1>0, <2>1, <2>2, <2>3, <2>4 DEF ResumeFirst, linkVars
<1>5. CASE CloseReader(c)
  <2>1. c <= conn /\ (c = conn => ~up)
    BY <1>0, <1>5 DEF CloseReader, Alive
  <2>2. c \in bound
    BY <1>0, <2>1 DEF ResumeFirst
  <2>3. QED
    BY <1>0, <1>1, <1>5, <2>2 DEF CloseReader
<1>6. CASE SendAck(c) \/ HandOver(c)
  <2>1. linkVars' = linkVars /\ wire' = wire /\ bound' = bound
    BY <1>6 DEF SendAck, HandOver
  <2>2. QED
    BY <2>1 DEF ResumeFirst, linkVars
<1>7. ~AckRaises(c)
  BY NoDisorder DEF AckRaises
<1>8. QED
  BY <1>2, <1>3, <1>4, <1>5, <1>6, <1>7 DEF Reader, Read

LEMMA ResumeFirstStep ==
  ASSUME OrderlyFaults, TypeOK, ResumeFirst, [Next]_vars
  PROVE  ResumeFirst'
<1>1. CASE UNCHANGED vars
  BY <1>1 DEF vars, linkVars, readVars, ResumeFirst
<1>2. CASE Next
  BY <1>2, ResumeFirstSender, ResumeFirstLink, ResumeFirstReader DEF Next
<1>3. QED
  BY <1>1, <1>2

\* The envelopes between the last one handed over and the base of the window are
\* in the hands of one reader, in order.
HandsOnAll(c) ==
  /\ Len(delivered) + Len(reader[c].ready) = window.base
  /\ \A i \in DOMAIN reader[c].ready : reader[c].ready[i] = Len(delivered) + i

LEMMA OrderTypes ==
  ASSUME StreamInv
  PROVE  /\ reader \in [Conn -> ReaderType] /\ \A c \in Conn : reader[c].ready \in Seq(Message)
         /\ delivered \in Seq(Message) /\ Len(delivered) \in Nat /\ window.base \in Nat
BY DEF StreamInv, TypeOK, SchedulerTypes, ReaderType, WindowType

\* When one reader takes envelopes in hand and the others have none, the order
\* holds if it does for that reader.
LEMMA OneBusyReader ==
  ASSUME NEW c \in Conn, \A d \in Conn \ {c} : ~Busy(d)', Busy(c)', HandsOnAll(c)',
         \A i \in DOMAIN delivered' : delivered'[i] = i
  PROVE  HandedInOrder'
BY DEF HandedInOrder, HandsOnAll

LEMMA NoBusyReader ==
  ASSUME \A d \in Conn : ~Busy(d)', Len(delivered') = window'.base,
         \A i \in DOMAIN delivered' : delivered'[i] = i
  PROVE  HandedInOrder'
BY DEF HandedInOrder

\* What is left of a run of consecutive messages after its first one was handed on.
LEMMA TailCounts ==
  ASSUME NEW q \in Seq(Message), NEW n \in Nat, Len(q) >= 1, \A i \in DOMAIN q : q[i] = n + i
  PROVE  /\ Len(Tail(q)) = Len(q) - 1
         /\ \A i \in DOMAIN Tail(q) : Tail(q)[i] = (n + 1) + i
         /\ (n + 1) + Len(Tail(q)) = n + Len(q)
<1>1. Len(q) \in Nat /\ DOMAIN q = 1..Len(q)
  OBVIOUS
<1>2. /\ q # <<>> /\ Len(Tail(q)) = Len(q) - 1
      /\ DOMAIN Tail(q) = 1..(Len(q) - 1)
      /\ \A i \in 1..(Len(q) - 1) : Tail(q)[i] = q[i + 1]
  BY <1>1
<1>3. ASSUME NEW i \in 1..(Len(q) - 1)
      PROVE  Tail(q)[i] = (n + 1) + i
  <2>1. i + 1 \in DOMAIN q
    BY <1>1
  <2>2. q[i + 1] = n + (i + 1)
    BY <2>1
  <2>3. QED
    BY <1>2, <2>2
<1>4. QED
  BY <1>1, <1>2, <1>3

\* The readers keep the order.
LEMMA InOrderReader ==
  ASSUME OrderlyFaults, StreamInv, ResumeFirst, HandedInOrder, NEW c \in Conn, Reader(c)
  PROVE  HandedInOrder'
<1>0. /\ reader \in [Conn -> ReaderType] /\ \A d \in Conn : reader[d].ready \in Seq(Message)
      /\ delivered \in Seq(Message) /\ Len(delivered) \in Nat /\ window.base \in Nat
      /\ \A i \in DOMAIN delivered : delivered[i] = i
  BY OrderTypes DEF HandedInOrder
<1>a. \A d \in Conn : Busy(d) =>
        /\ Len(delivered) + Len(reader[d].ready) = window.base
        /\ \A i \in DOMAIN reader[d].ready : reader[d].ready[i] = Len(delivered) + i
        /\ \A e \in Conn \ {d} : ~Busy(e)
  BY DEF HandedInOrder
<1>1. ASSUME NEW s \in Message, ReadMessage(c, s)
      PROVE  HandedInOrder'
  <2>1. ReadFrame(c, s) /\ Alone(c) /\ reader[c].stage = "idle"
    BY <1>1, NoDisorder DEF ReadMessage, ReadFrame
  <2>2. \A d \in Conn : ~Busy(d)
    BY <2>1 DEF Alone, Busy
  <2>3. Len(delivered) = window.base /\ delivered' = delivered
    BY <2>1, <2>2 DEF HandedInOrder, ReadFrame
  <2>4. TypeOK /\ SentOnly /\ WindowOK
    BY DEF StreamInv
  <2>5. s < nextSeq
    BY <2>1, <2>4, ReadFrameTypes, ConstantFacts DEF TypeOK, SenderTypes
  <2>6. /\ Record(window, s).base \in Nat /\ Ready(window, s) \in Seq(Message)
        /\ Len(Ready(window, s)) = Record(window, s).base - window.base
        /\ \A i \in DOMAIN Ready(window, s) : Ready(window, s)[i] = window.base + i
    BY <2>4, <2>5, RecordAssigned DEF WindowType
  <2>7. /\ reader'[c].stage = "acking" /\ reader'[c].ready = Ready(window, s)
        /\ \A d \in Conn \ {c} : reader'[d] = reader[d]
    BY <1>0, <1>1 DEF ReadMessage, Acking
  <2>8. window'.base = Record(window, s).base
    BY <1>1 DEF ReadMessage
  <2>9. Busy(c)' /\ \A d \in Conn \ {c} : ~Busy(d)'
    BY <2>2, <2>7 DEF Busy
  <2>10. HandsOnAll(c)'
    BY <1>0, <2>3, <2>6, <2>7, <2>8 DEF HandsOnAll
  <2>11. QED
    BY <1>0, <2>3, <2>9, <2>10, OneBusyReader
<1>2. ASSUME NEW s \in Message, ReadUnbound(c, s)
      PROVE  FALSE
  BY <1>2, UnboundReadsResume, ConstantFacts DEF ReadUnbound, StreamInv, Resume
<1>3. ASSUME reader' = reader, window' = window, delivered' = delivered
      PROVE  HandedInOrder'
  BY <1>3 DEF HandedInOrder, Busy
<1>4. CASE ReadResume(c)
  BY <1>3, <1>4 DEF ReadResume, ReadFrame
<1>5. CASE SendAck(c)
  <2>1. Busy(c) /\ window' = window /\ delivered' = delivered
    BY <1>5 DEF SendAck, Busy
  <2>2. \A d \in Conn \ {c} : ~Busy(d)'
    BY <1>0, <1>a, <1>5, <2>1 DEF SendAck, Busy
  <2>3. CASE reader[c].ready = <<>>
    <3>1. reader'[c] = Waiting
      BY <1>0, <1>5, <2>3 DEF SendAck
    <3>2. ~Busy(c)'
      BY <3>1 DEF Busy, Waiting
    <3>3. Len(reader[c].ready) = 0
      BY <2>3
    <3>4. Len(delivered') = window'.base
      BY <1>0, <1>a, <2>1, <3>3
    <3>5. QED
      BY <1>0, <2>1, <2>2, <3>2, <3>4, NoBusyReader
  <2>4. CASE reader[c].ready # <<>>
    <3>1. reader'[c].stage = "handing" /\ reader'[c].ready = reader[c].ready
      BY <1>0, <1>5, <2>4 DEF SendAck, Handing
    <3>2. Busy(c)'
      BY <3>1 DEF Busy
    <3>3. HandsOnAll(c)'
      BY <1>a, <2>1, <3>1 DEF HandsOnAll
    <3>4. QED
      BY <1>0, <2>1, <2>2, <3>2, <3>3, OneBusyReader
  <2>5. QED
    BY <2>3, <2>4
<1>6. CASE HandOver(c)
  <2> DEFINE q == reader[c].ready
  <2>1. Busy(c) /\ window' = window /\ q \in Seq(Message) /\ q # <<>>
    BY <1>0, <1>6 DEF HandOver, Busy, StreamInv, HandsSomething
  <2>2. /\ Len(delivered) + Len(q) = window.base
        /\ \A i \in DOMAIN q : q[i] = Len(delivered) + i
    BY <1>a, <2>1
  <2>3. Len(q) \in Nat /\ Len(q) >= 1 /\ Head(q) = q[1] /\ DOMAIN q = 1..Len(q)
    BY <2>1
  <2>4. Head(q) = Len(delivered) + 1
    BY <2>2, <2>3
  <2>5. delivered' = Append(delivered, Len(delivered) + 1)
    BY <1>6, <2>4 DEF HandOver
  <2>6. Len(delivered') = Len(delivered) + 1 /\ \A i \in DOMAIN delivered' : delivered'[i] = i
    <3>1. Len(delivered) + 1 \in Nat
      BY <1>0
    <3>2. delivered \in Seq(Nat)
      BY <1>0, ConstantFacts, SeqMonotonic
    <3>3. QED
      BY <1>0, <2>5, <3>1, <3>2
  <2>7. \A d \in Conn \ {c} : ~Busy(d)'
    BY <1>0, <1>a, <1>6, <2>1 DEF HandOver, Busy
  <2>8. CASE Len(q) = 1
    <3>1. reader'[c] = Waiting
      BY <1>0, <1>6, <2>8 DEF HandOver
    <3>2. ~Busy(c)'
      BY <3>1 DEF Busy, Waiting
    <3>3. Len(delivered') = window'.base
      BY <1>0, <2>1, <2>2, <2>6, <2>8
    <3>4. QED
      BY <2>6, <2>7, <3>2, <3>3, NoBusyReader
  <2>9. CASE Len(q) # 1
    <3>1. reader'[c].stage = "handing" /\ reader'[c].ready = Tail(q)
      BY <1>0, <1>6, <2>9 DEF HandOver, Handing
    <3>2. Busy(c)'
      BY <3>1 DEF Busy
    <3>3. /\ Len(Tail(q)) = Len(q) - 1
          /\ \A i \in DOMAIN Tail(q) : Tail(q)[i] = (Len(delivered) + 1) + i
          /\ (Len(delivered) + 1) + Len(Tail(q)) = Len(delivered) + Len(q)
      <4>1. Len(delivered) \in Nat
        BY <1>0
      <4>2. QED
        BY <2>1, <2>2, <2>3, <4>1, TailCounts
    <3>4. \A i \in DOMAIN Tail(q) : Tail(q)[i] = Len(delivered') + i
      BY <2>6, <3>3
    <3>5. Len(delivered') + Len(Tail(q)) = window'.base
      BY <2>1, <2>2, <2>6, <3>3
    <3>6. HandsOnAll(c)'
      BY <3>1, <3>4, <3>5 DEF HandsOnAll
    <3>7. QED
      BY <2>6, <2>7, <3>2, <3>6, OneBusyReader
  <2>10. QED
    BY <2>8, <2>9
<1>7. CASE CloseReader(c)
  <2>1. /\ ~Busy(c) /\ ~Busy(c)' /\ \A d \in Conn \ {c} : reader'[d] = reader[d]
        /\ window' = window /\ delivered' = delivered
    BY <1>0, <1>7 DEF CloseReader, Busy, Closed
  <2>2. QED
    BY <2>1 DEF HandedInOrder, Busy
<1>8. ~AckRaises(c)
  BY NoDisorder DEF AckRaises
<1>9. QED
  BY <1>1, <1>2, <1>4, <1>5, <1>6, <1>7, <1>8 DEF Reader, Read

LEMMA InOrderStep ==
  ASSUME OrderlyFaults, StreamInv, ResumeFirst, HandedInOrder, [Next]_vars
  PROVE  HandedInOrder'
<1>1. ASSUME readVars' = readVars
      PROVE  HandedInOrder'
  BY <1>1 DEF readVars, HandedInOrder, Busy
<1>2. CASE UNCHANGED vars
  BY <1>1, <1>2 DEF vars
<1>3. ASSUME NEW s \in Message, Sender(s)
      PROVE  HandedInOrder'
  BY <1>1, <1>3 DEF Sender, Send, SendOffline, SendBreaks, SendRaises, Resend, ResendOffline,
                    ResendBreaks, GiveUp
<1>4. ASSUME NEW a \in acks, HandleAck(a)
      PROVE  HandedInOrder'
  BY <1>1, <1>4 DEF HandleAck
<1>5. CASE Link
  BY <1>1, <1>5 DEF Link, Drop, Connect, SendResume
<1>6. QED
  BY <1>2, <1>3, <1>4, <1>5, InOrderReader DEF Next

LEMMA OrderInvInit == Init => OrderInv
<1> SUFFICES ASSUME Init
             PROVE  OrderInv
  OBVIOUS
<1>1. ResumeFirst
  BY ConstantFacts DEF Init, ResumeFirst
<1>2. HandedInOrder
  BY EmptySeq DEF Init, HandedInOrder, Busy, Waiting, EmptyWindow
<1>3. QED
  BY <1>1, <1>2, StreamInvInit DEF OrderInv

\* As long as frames do not overtake control.resume, the readers of two
\* connections do not overlap and acks do not raise, the order invariant holds.
THEOREM OrderInductive == ASSUME OrderlyFaults PROVE Spec => []OrderInv
<1>1. OrderInv /\ [Next]_vars => OrderInv'
  BY StreamInvStep, ResumeFirstStep, InOrderStep DEF OrderInv, StreamInv
<1>2. QED
  BY <1>1, OrderInvInit, PTL DEF Spec

\* Every step of the stream is a send, a delivery of the next message, or none of
\* the abstract specification's business.
LEMMA StepRefines ==
  ASSUME OrderInv, [Next]_vars
  PROVE  [Ordered!Next]_<<nextSeq - 1, delivered>>
<1>0. /\ reader \in [Conn -> ReaderType] /\ \A c \in Conn : reader[c].ready \in Seq(Message)
      /\ delivered \in Seq(Message) /\ Len(delivered) \in Nat /\ window.base \in Nat
      /\ nextSeq \in Nat \ {0}
  BY OrderTypes, ConstantFacts DEF OrderInv, StreamInv, TypeOK, SenderTypes
<1>1. ASSUME nextSeq' = nextSeq, delivered' = delivered
      PROVE  [Ordered!Next]_<<nextSeq - 1, delivered>>
  BY <1>1
<1>2. ASSUME nextSeq' = nextSeq + 1, delivered' = delivered
      PROVE  [Ordered!Next]_<<nextSeq - 1, delivered>>
  BY <1>0, <1>2 DEF Ordered!Next, Ordered!Send
<1>3. CASE UNCHANGED vars
  BY <1>1, <1>3 DEF vars, senderVars, readVars
<1>4. ASSUME NEW s \in Message, Sender(s)
      PROVE  [Ordered!Next]_<<nextSeq - 1, delivered>>
  <2>1. CASE Send(s) \/ SendBreaks(s) \/ SendOffline(s)
    BY <1>2, <2>1 DEF Send, SendBreaks, SendOffline, Assign, readVars
  <2>2. CASE SendRaises(s) \/ Resend(s) \/ ResendBreaks(s) \/ GiveUp(s) \/ ResendOffline(s)
    BY <1>1, <2>2 DEF SendRaises, Resend, ResendBreaks, GiveUp, ResendOffline, readVars
  <2>3. QED
    BY <1>4, <2>1, <2>2 DEF Sender
<1>5. ASSUME NEW a \in acks, HandleAck(a)
      PROVE  [Ordered!Next]_<<nextSeq - 1, delivered>>
  BY <1>1, <1>5 DEF HandleAck, readVars
<1>6. CASE Link
  BY <1>1, <1>6 DEF Link, Drop, Connect, SendResume, senderVars, readVars
<1>7. ASSUME NEW c \in Conn, Reader(c)
      PROVE  [Ordered!Next]_<<nextSeq - 1, delivered>>
  <2>1. CASE Read(c) \/ SendAck(c) \/ AckRaises(c) \/ CloseReader(c)
    BY <1>1, <2>1 DEF Read, ReadMessage, ReadUnbound, ReadResume, ReadFrame, SendAck, AckRaises,
                      CloseReader, senderVars
  <2>2. CASE HandOver(c)
    <3> DEFINE q == reader[c].ready
    <3>1. q \in Seq(Message) /\ q # <<>> /\ nextSeq' = nextSeq
      BY <1>0, <2>2 DEF HandOver, OrderInv, StreamInv, HandsSomething, senderVars
    <3>2. /\ Len(delivered) + Len(q) = window.base
          /\ \A i \in DOMAIN q : q[i] = Len(delivered) + i
      BY <2>2 DEF HandOver, OrderInv, HandedInOrder, Busy
    <3>3. Len(q) \in Nat /\ Len(q) >= 1 /\ Head(q) = q[1] /\ DOMAIN q = 1..Len(q)
      BY <3>1
    <3>4. delivered' = Append(delivered, Len(delivered) + 1)
      BY <2>2, <3>2, <3>3 DEF HandOver
    <3>5. window.base <= nextSeq - 1
      <4>1. window.base \in Received(window)
        BY <1>0, <3>2, <3>3 DEF Received
      <4>2. QED
        BY <1>0, <4>1 DEF OrderInv, StreamInv, SentOnly
    <3>6. Len(delivered) < nextSeq - 1
      BY <1>0, <3>2, <3>3, <3>5
    <3>7. QED
      BY <3>1, <3>4, <3>6 DEF Ordered!Next, Ordered!Deliver
  <2>3. QED
    BY <1>7, <2>1, <2>2 DEF Reader
<1>8. QED
  BY <1>3, <1>4, <1>5, <1>6, <1>7 DEF Next

\* The stream implements the ordered delivery of its session: drops, broken and
\* offline sends, retries early or late cost messages, but never their order and
\* never a second delivery.
THEOREM StreamKeepsOrder == ASSUME OrderlyFaults PROVE Spec => ImplementsOrderedDelivery
<1>1. Init => Ordered!Init
  BY DEF Init, Ordered!Init
<1>2. OrderInv /\ [Next]_vars => [Ordered!Next]_<<nextSeq - 1, delivered>>
  BY StepRefines
<1>3. Spec => []OrderInv
  BY OrderInductive
<1>4. QED
  BY <1>1, <1>2, <1>3, PTL DEF Spec, ImplementsOrderedDelivery, Ordered!Spec
=============================================================================
