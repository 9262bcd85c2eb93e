------------------------- MODULE EventStream_proofs -------------------------
(***************************************************************************)
(* Reconnecting clients are sent exactly what they miss, and the dashboard  *)
(* shows what is so, whatever the capacity of the store, the number of runs *)
(* and changes, drops and restarts.  The argument follows two ids per run:  *)
(* that of the last event that carried the run's record and that of the     *)
(* last one that carried its node's.  As long as one of them is owed to the *)
(* client nothing is claimed; once it is got, what the dashboard shows is   *)
(* what it said, and only chunks of the node's log can still come.          *)
(***************************************************************************)
EXTENDS EventStream, SequenceTheorems, TLAPS

Kinds == {"status", "snapshot", "result", "chunk", "worker"}

MessageType ==
  {e \in [kind : Kinds, run : Runs \cup {NoRun}, status : Statuses, ver : Nat] :
     e.run = NoRun <=> e.kind = "worker"}

SentType ==
  {e \in [kind : Kinds, run : Runs \cup {NoRun}, status : Statuses, ver : Nat,
          id : Nat \ {0}] : e.run = NoRun <=> e.kind = "worker"}

About(batch, r) == batch[1].run = r

Carries(batch) == batch[Len(batch)].kind = "snapshot"

\* The events of one change: they are about one run, and the last one carries
\* the run's record unless they are feedback of a node.
Batches == {b \in Seq(MessageType) :
  /\ Len(b) \in 1..3
  /\ \A i \in 1..Len(b) :
       b[i].run = b[1].run /\ b[i].ver = b[1].ver /\ b[i].status = b[1].status
  /\ b[1].run \in Runs => \/ Carries(b)
                          \/ Len(b) = 2 /\ b[1].kind = "result" /\ b[2].kind = "chunk"}

AnswerKinds == {"none", "get", "start", "cancel"}

ReplyType ==
  {a \in [kind : AnswerKinds, status : Statuses \cup {"unknown"}, ver : Nat, over : BOOLEAN] :
     a.kind = "none" => a = NoAnswer}

RecordType == [status : Statuses, ver : Nat]

ViewType == [status : Statuses \cup {"unknown"}, ver : Nat, log : Seq(Nat)]

Types ==
  /\ run \in [Runs -> RecordType]
  /\ outbox \in Seq(Batches)
  /\ buffer \in Seq(SentType) /\ counter \in Nat
  /\ conn \in [open : BOOLEAN, stream : Seq(SentType), from : Nat]
  /\ shown \in [Runs -> ViewType]
  /\ mark \in [Runs -> Nat]
  /\ answer \in [Runs -> ReplyType]
  /\ lastId \in Nat /\ keepsId \in BOOLEAN /\ restarted \in BOOLEAN
  /\ noise \in 0..MaxNoise /\ faults \in 0..MaxFaults
  /\ news \in [Runs -> [run : Nat, node : Nat, chunk : BOOLEAN]]

\* The store holds the last events, numbered without a gap.
StoreCoherent ==
  /\ Len(buffer) <= Capacity /\ Len(buffer) <= counter
  /\ \A i \in 1..Len(buffer) : buffer[i].id = counter - Len(buffer) + i

\* What is on its way was given an id in this life of the scheduler, in order.
StreamCoherent ==
  /\ Increasing(conn.stream)
  /\ \A i \in 1..Len(conn.stream) : conn.stream[i].id <= counter
  /\ conn.open => conn.from \in 1..Oldest
  /\ ~conn.open => conn.stream = <<>>

\* The last id of a client is one of this life, and nothing it has comes again.
ResumeCoherent ==
  /\ ~keepsId => lastId = 0
  /\ keepsId /\ IdsMeanOne =>
       /\ lastId <= counter
       /\ \A i \in 1..Len(conn.stream) : conn.stream[i].id > lastId
       /\ conn.open => \A i \in 1..Len(buffer) :
            Matches(buffer[i]) /\ buffer[i].id > lastId =>
              \E j \in 1..Len(conn.stream) : conn.stream[j] = buffer[i]

DeliveryInv == Types /\ StoreCoherent /\ StreamCoherent /\ ResumeCoherent

-----------------------------------------------------------------------------
(* The events of a change.                                                  *)

\* The two forms a change takes.
IsChange(b, r, record) ==
  /\ b \in Batches /\ b # <<>>
  /\ About(b, r) /\ b[1].ver = record.ver /\ b[1].status = record.status

LEMMA PairIsBatch ==
  ASSUME NEW r \in Runs, NEW record \in RecordType, NEW k1 \in Kinds, NEW k2 \in Kinds,
         k1 # "worker", k2 = "snapshot" \/ (k1 = "result" /\ k2 = "chunk"), NoRun \notin Runs
  PROVE  IsChange(<<Event(k1, r, record), Event(k2, r, record)>>, r, record)
<1> DEFINE b == <<Event(k1, r, record), Event(k2, r, record)>>
<1>1. Event(k1, r, record) \in MessageType /\ Event(k2, r, record) \in MessageType
  BY DEF Event, MessageType, RecordType
<1>2. b \in Seq(MessageType) /\ Len(b) = 2 /\ b[1] = Event(k1, r, record)
        /\ b[2] = Event(k2, r, record)
  BY <1>1
<1>3. r # NoRun /\ k2 # "worker"
  OBVIOUS
<1>4. \A i \in 1..Len(b) :
       b[i].run = b[1].run /\ b[i].ver = b[1].ver /\ b[i].status = b[1].status
  BY <1>2, <1>3 DEF Event
<1>5. \/ Carries(b)
      \/ Len(b) = 2 /\ b[1].kind = "result" /\ b[2].kind = "chunk"
  BY <1>2 DEF Event, Carries
<1> HIDE DEF b
<1>6. b \in Batches
  <2>1. Len(b) \in 1..3
    BY <1>2
  <2>2. QED
    BY <1>2, <1>4, <1>5, <2>1, Zenon DEF Batches
<1>7. About(b, r) /\ b[1].ver = record.ver /\ b[1].status = record.status
  BY <1>2 DEF About, Event
<1> QED
  BY <1>2, <1>6, <1>7 DEF IsChange, b

LEMMA OneIsBatch ==
  ASSUME NEW r \in Runs, NEW record \in RecordType, NoRun \notin Runs
  PROVE  IsChange(<<Event("snapshot", r, record)>>, r, record)
<1> DEFINE b == <<Event("snapshot", r, record)>>
<1>1. Event("snapshot", r, record) \in MessageType
  BY DEF Event, MessageType, RecordType, Kinds
<1>2. b \in Seq(MessageType) /\ Len(b) = 1 /\ b[1] = Event("snapshot", r, record)
  BY <1>1
<1>3. \A i \in 1..Len(b) :
       b[i].run = b[1].run /\ b[i].ver = b[1].ver /\ b[i].status = b[1].status
  BY <1>2 DEF Event
<1>4. Carries(b) /\ About(b, r) /\ b[1].ver = record.ver /\ b[1].status = record.status
  BY <1>2 DEF Event, Carries, About
<1> HIDE DEF b
<1> QED
  BY <1>2, <1>3, <1>4 DEF Batches, IsChange, b

LEMMA ResultIsBatch ==
  ASSUME NEW r \in Runs, NEW record \in RecordType, NoRun \notin Runs
  PROVE  IsChange(<<Event("result", r, record), Event("status", r, record),
                    Event("snapshot", r, record)>>, r, record)
<1> DEFINE b == <<Event("result", r, record), Event("status", r, record),
                  Event("snapshot", r, record)>>
<1>1. /\ Event("result", r, record) \in MessageType /\ Event("status", r, record) \in MessageType
      /\ Event("snapshot", r, record) \in MessageType
  BY DEF Event, MessageType, RecordType, Kinds
<1>2. /\ b \in Seq(MessageType) /\ Len(b) = 3 /\ b[1] = Event("result", r, record)
      /\ b[2] = Event("status", r, record) /\ b[3] = Event("snapshot", r, record)
  BY <1>1
<1>3. \A i \in 1..Len(b) :
       b[i].run = b[1].run /\ b[i].ver = b[1].ver /\ b[i].status = b[1].status
  BY <1>2 DEF Event
<1>4. Carries(b) /\ About(b, r) /\ b[1].ver = record.ver /\ b[1].status = record.status
  BY <1>2 DEF Event, Carries, About
<1> HIDE DEF b
<1> QED
  BY <1>2, <1>3, <1>4 DEF Batches, IsChange, b

LEMMA WorkerIsBatch ==
  ASSUME NoRun \notin Runs
  PROVE  LET b == <<Event("worker", NoRun, [status |-> "none", ver |-> 0])>>
         IN  b \in Batches /\ \A r \in Runs : ~About(b, r)
<1> DEFINE e == Event("worker", NoRun, [status |-> "none", ver |-> 0])
           b == <<e>>
<1>1. e \in MessageType /\ e.run = NoRun /\ e.kind = "worker"
  BY DEF Event, MessageType, Kinds, Statuses
<1> HIDE DEF e
<1>2. b \in Seq(MessageType) /\ Len(b) = 1 /\ b[1] = e
  BY <1>1
<1>3. \A i \in 1..Len(b) :
       b[i].run = b[1].run /\ b[i].ver = b[1].ver /\ b[i].status = b[1].status
  BY <1>1, <1>2
<1>4. b[1].run \notin Runs
  BY <1>1, <1>2
<1>5. \A r \in Runs : ~About(b, r)
  BY <1>4 DEF About
<1>6. Len(b) \in 1..3
  BY <1>2
<1> HIDE DEF b
<1>7. b \in Batches
  BY <1>2, <1>3, <1>4, <1>6, Zenon DEF Batches
<1> QED
  BY <1>5, <1>7 DEF b, e

\* What every change of a run puts into the outbox is one batch about it.
LEMMA ChangeBatches ==
  ASSUME NEW r \in Runs, NEW before, NEW record \in RecordType, NoRun \notin Runs
  PROVE  /\ IsChange(RunState(r, record), r, record) /\ Carries(RunState(r, record))
         /\ IsChange(NodeState(r, before, record), r, record)
         /\ Carries(NodeState(r, before, record))
         /\ IsChange(RecordResult(r, before, record), r, record)
         /\ Carries(RecordResult(r, before, record))
         /\ IsChange(Feedback(r, record), r, record) /\ ~Carries(Feedback(r, record))
<1> DEFINE s == Event("status", r, record)
           p == Event("snapshot", r, record)
           t == Event("result", r, record)
           c == Event("chunk", r, record)
<1>1. "status" \in Kinds /\ "snapshot" \in Kinds /\ "result" \in Kinds /\ "chunk" \in Kinds
  BY DEF Kinds
<1>2. /\ IsChange(<<s, p>>, r, record) /\ IsChange(<<t, p>>, r, record)
      /\ IsChange(<<t, c>>, r, record)
  BY <1>1, PairIsBatch
<1>3. p.kind = "snapshot" /\ c.kind = "chunk"
  BY DEF Event
<1> HIDE DEF s, p, t, c
<1>4. Carries(<<s, p>>) /\ Carries(<<t, p>>) /\ ~Carries(<<t, c>>) /\ Carries(<<p>>)
        /\ Carries(<<t, s, p>>)
  BY <1>3 DEF Carries
<1>5. IsChange(<<p>>, r, record) /\ IsChange(<<t, s, p>>, r, record)
  BY OneIsBatch, ResultIsBatch DEF p, t, s
<1>6. RunState(r, record) = <<s, p>>
  BY DEF RunState, s, p
<1>7. \/ NodeState(r, before, record) = <<s, p>>
      \/ NodeState(r, before, record) = <<p>>
  BY <1>6 DEF NodeState, p
<1>8. <<t>> \o <<s, p>> = <<t, s, p>> /\ <<t>> \o <<p>> = <<t, p>>
  <2> DEFINE S == {s, p, t}
  <2>1. /\ <<t>> \in Seq(S) /\ <<p>> \in Seq(S) /\ <<s, p>> \in Seq(S)
        /\ <<t, p>> \in Seq(S) /\ <<t, s, p>> \in Seq(S)
    OBVIOUS
  <2>2. /\ <<t>> \o <<p>> \in Seq(S) /\ Len(<<t>> \o <<p>>) = 2
        /\ \A i \in 1..2 : (<<t>> \o <<p>>)[i] = <<t, p>>[i]
    BY <2>1, ConcatProperties
  <2>3. /\ <<t>> \o <<s, p>> \in Seq(S) /\ Len(<<t>> \o <<s, p>>) = 3
        /\ \A i \in 1..3 : (<<t>> \o <<s, p>>)[i] = <<t, s, p>>[i]
    BY <2>1, ConcatProperties
  <2>4. Len(<<t, p>>) = 2 /\ Len(<<t, s, p>>) = 3
    OBVIOUS
  <2> HIDE DEF S
  <2>5. QED
    BY <2>1, <2>2, <2>3, <2>4, SeqEqual
<1>9. \/ RecordResult(r, before, record) = <<t, s, p>>
      \/ RecordResult(r, before, record) = <<t, p>>
  BY <1>7, <1>8 DEF RecordResult, t
<1>10. Feedback(r, record) = <<t, c>>
  BY DEF Feedback, t, c
<1> QED
  BY <1>2, <1>4, <1>5, <1>6, <1>7, <1>9, <1>10

-----------------------------------------------------------------------------
(* The store and the publisher.                                             *)

\* Appending to the outbox.
LEMMA AppendToOutbox ==
  ASSUME NEW q \in Seq(Batches), NEW b \in Batches
  PROVE  /\ Append(q, b) \in Seq(Batches) /\ Len(Append(q, b)) = Len(q) + 1
         /\ \A i \in 1..Len(q) : Append(q, b)[i] = q[i]
         /\ Append(q, b)[Len(q) + 1] = b
BY AppendProperties

LEMMA TakenFromOutbox ==
  ASSUME NEW q \in Seq(Batches), q # <<>>
  PROVE  /\ Len(q) \in Nat \ {0} /\ q[1] = Head(q) /\ q[1] \in Batches
         /\ Tail(q) \in Seq(Batches) /\ Len(Tail(q)) = Len(q) - 1
         /\ \A i \in 1..Len(Tail(q)) : Tail(q)[i] = q[i + 1]
<1>1. Len(q) \in Nat /\ Len(q) # 0
  BY EmptySeq, LenProperties
<1> QED
  BY <1>1, HeadTailProperties, ElementOfSeq

\* An event of a change as it is sent.
IsSent(n, b) ==
  /\ n \in Seq(SentType) /\ n # <<>> /\ Len(n) = Len(b)
  /\ Head(n) = n[1] /\ Last(n) = n[Len(n)]
  /\ \A i \in 1..Len(n) :
       /\ n[i].id = counter + i /\ n[i].kind = b[i].kind /\ n[i].run = b[1].run
       /\ n[i].ver = b[1].ver /\ n[i].status = b[1].status

LEMMA NumberedIsSent ==
  ASSUME NEW b \in Batches, counter \in Nat
  PROVE  IsSent(Numbered(b), b)
<1> DEFINE n == Numbered(b)
<1>1. /\ b \in Seq(MessageType) /\ Len(b) \in 1..3
      /\ \A i \in 1..Len(b) : /\ b[i].run = b[1].run /\ b[i].ver = b[1].ver
                              /\ b[i].status = b[1].status
  BY DEF Batches
<1>2. DOMAIN b = 1..Len(b) /\ \A i \in 1..Len(b) : b[i] \in MessageType
  BY <1>1, ElementOfSeq
<1>3. \A i \in 1..Len(b) : n[i] \in SentType /\ n[i].id = counter + i
         /\ n[i].kind = b[i].kind /\ n[i].run = b[i].run /\ n[i].ver = b[i].ver
         /\ n[i].status = b[i].status
  BY <1>1, <1>2 DEF Numbered, MessageType, SentType
<1>4. n = [i \in 1..Len(b) |-> n[i]]
  BY <1>2 DEF Numbered
<1> HIDE DEF n
<1>5. n \in Seq(SentType) /\ Len(n) = Len(b)
  BY <1>1, <1>3, <1>4, IsASeq
<1>6. n # <<>> /\ Head(n) = n[1] /\ Last(n) = n[Len(n)]
  BY <1>1, <1>5, EmptySeq DEF Last
<1>7. 1 \in 1..Len(b)
  BY <1>1
<1> QED
  BY <1>1, <1>3, <1>5, <1>6, <1>7 DEF IsSent, n

LEMMA TrimmedProps ==
  ASSUME NEW s \in Seq(SentType)
  PROVE  LET k == IF Len(s) > Capacity THEN Len(s) - Capacity ELSE 0
         IN  /\ Trimmed(s) \in Seq(SentType) /\ k \in 0..Len(s)
             /\ Len(Trimmed(s)) = Len(s) - k /\ Len(Trimmed(s)) <= Capacity
             /\ \A i \in 1..(Len(s) - k) : Trimmed(s)[i] = s[i + k]
<1> DEFINE k == IF Len(s) > Capacity THEN Len(s) - Capacity ELSE 0
<1>1. Capacity \in Nat /\ Len(s) \in Nat
  BY EventStreamAssumption, LenProperties
<1>2. k \in 0..Len(s) /\ Len(s) - k <= Capacity
  BY <1>1
<1>3. Trimmed(s) = SubSeq(s, k + 1, Len(s))
  BY <1>1 DEF Trimmed
<1> HIDE DEF k
<1>4. \A i \in (k + 1)..Len(s) : s[i] \in SentType
  BY <1>1, <1>2, ElementOfSeq
<1>5. /\ SubSeq(s, k + 1, Len(s)) \in Seq(SentType)
      /\ Len(SubSeq(s, k + 1, Len(s))) = IF k + 1 <= Len(s) THEN Len(s) - (k + 1) + 1 ELSE 0
      /\ \A i \in 1..(Len(s) - (k + 1) + 1) : SubSeq(s, k + 1, Len(s))[i] = s[(k + 1) + i - 1]
  BY <1>1, <1>2, <1>4, SubSeqProperties
<1>6. Len(s) - (k + 1) + 1 = Len(s) - k /\ (~(k + 1 <= Len(s)) => Len(s) - k = 0)
        /\ \A i \in 1..(Len(s) - k) : (k + 1) + i - 1 = i + k
  BY <1>1, <1>2
<1>7. Len(SubSeq(s, k + 1, Len(s))) = Len(s) - k
  BY <1>5, <1>6
<1> QED
  BY <1>2, <1>3, <1>5, <1>6, <1>7 DEF k

\* What publishing the oldest change does to the store, its numbers and the
\* stream: the k oldest events are forgotten.
IsPublished(b, n, k) ==
  /\ b \in Batches /\ outbox # <<>> /\ outbox[1] = b /\ IsSent(n, b) /\ k \in Nat
  /\ outbox' \in Seq(Batches) /\ Len(outbox') = Len(outbox) - 1
  /\ \A i \in 1..Len(outbox') : outbox'[i] = outbox[i + 1]
  /\ buffer' \in Seq(SentType) /\ Len(buffer') <= Capacity
  /\ Len(buffer') = Len(buffer) + Len(n) - k
  /\ \A i \in 1..Len(buffer') :
       buffer'[i] = IF i + k <= Len(buffer) THEN buffer[i + k] ELSE n[i + k - Len(buffer)]
  /\ counter' = counter + Len(n)
  /\ conn' = IF conn.open /\ b[1].run \in Own \cup {NoRun}
             THEN [conn EXCEPT !.stream = @ \o n] ELSE conn
  /\ news' = IF b[1].run = NoRun THEN news
             ELSE [news EXCEPT ![b[1].run] = Told(@, n)]

LEMMA PublishEffect ==
  ASSUME Types, Publish
  PROVE  \E b \in Batches, n \in Seq(SentType), k \in Nat : IsPublished(b, n, k)
<1> DEFINE b == Head(outbox)
           n == Numbered(b)
           s == buffer \o n
           k == IF Len(s) > Capacity THEN Len(s) - Capacity ELSE 0
<1>1. outbox # <<>> /\ outbox \in Seq(Batches) /\ buffer \in Seq(SentType) /\ counter \in Nat
        /\ conn \in [open : BOOLEAN, stream : Seq(SentType), from : Nat]
  BY DEF Types, Publish
<1>2. /\ b \in Batches /\ outbox[1] = b /\ Tail(outbox) \in Seq(Batches)
      /\ Len(Tail(outbox)) = Len(outbox) - 1
      /\ \A i \in 1..Len(Tail(outbox)) : Tail(outbox)[i] = outbox[i + 1]
  BY <1>1, TakenFromOutbox
<1>3. /\ outbox' = Tail(outbox) /\ buffer' = Trimmed(buffer \o Numbered(Head(outbox)))
      /\ counter' = counter + Len(Numbered(Head(outbox)))
      /\ conn' = IF conn.open
                    THEN [conn EXCEPT !.stream = @ \o Scoped(Numbered(Head(outbox)))]
                    ELSE conn
      /\ news' = IF Head(Numbered(Head(outbox))).run = NoRun THEN news
                 ELSE [news EXCEPT ![Head(Numbered(Head(outbox))).run]
                         = Told(@, Numbered(Head(outbox)))]
  BY DEF Publish
<1> HIDE DEF b
<1>4. IsSent(n, b)
  BY <1>1, <1>2, NumberedIsSent
<1>5. /\ buffer' = Trimmed(s) /\ counter' = counter + Len(n)
      /\ conn' = IF conn.open THEN [conn EXCEPT !.stream = @ \o Scoped(n)] ELSE conn
      /\ news' = IF Head(n).run = NoRun THEN news ELSE [news EXCEPT ![Head(n).run] = Told(@, n)]
  BY <1>3 DEF b
<1> HIDE DEF n
<1>6. n \in Seq(SentType) /\ n # <<>> /\ Head(n) = n[1] /\ Len(n) = Len(b) /\ Len(n) \in 1..3
        /\ n[1].run = b[1].run
  BY <1>2, <1>4 DEF IsSent, Batches
<1>7. /\ s \in Seq(SentType) /\ Len(s) = Len(buffer) + Len(n)
      /\ \A i \in 1..(Len(buffer) + Len(n)) :
           s[i] = IF i <= Len(buffer) THEN buffer[i] ELSE n[i - Len(buffer)]
  <2>1. buffer \in Seq(SentType) /\ n \in Seq(SentType)
    BY <1>1, <1>6
  <2>2. QED
    BY <2>1, ConcatProperties
<1> HIDE DEF s
<1>8. /\ buffer' \in Seq(SentType) /\ k \in 0..Len(s) /\ Len(buffer') = Len(s) - k
      /\ Len(buffer') <= Capacity
      /\ \A i \in 1..(Len(s) - k) : buffer'[i] = s[i + k]
  BY <1>5, <1>7, TrimmedProps
<1> HIDE DEF k
<1>9. Len(buffer) \in Nat /\ Len(n) \in Nat /\ k \in Nat
  BY <1>1, <1>6, <1>7, <1>8, LenProperties
<1>10. \A i \in 1..Len(buffer') :
       buffer'[i] = IF i + k <= Len(buffer) THEN buffer[i + k] ELSE n[i + k - Len(buffer)]
  BY <1>7, <1>8, <1>9
<1>11. conn' = IF conn.open /\ b[1].run \in Own \cup {NoRun}
               THEN [conn EXCEPT !.stream = @ \o n] ELSE conn
  <2>1. CASE b[1].run \in Own \cup {NoRun}
    <3>1. Scoped(n) = n
      BY <2>1, <1>6 DEF Scoped, Matches
    <3>2. QED
      BY <1>5, <2>1, <3>1
  <2>2. CASE b[1].run \notin Own \cup {NoRun}
    <3>1. Scoped(n) = <<>> /\ conn.stream \o <<>> = conn.stream
      BY <2>2, <1>1, <1>6, ConcatEmptySeq DEF Scoped, Matches
    <3>2. [conn EXCEPT !.stream = @ \o <<>>] = conn
      BY <1>1, <3>1
    <3>3. QED
      BY <1>5, <2>2, <3>1, <3>2
  <2>3. QED
    BY <2>1, <2>2
<1>12. news' = IF b[1].run = NoRun THEN news ELSE [news EXCEPT ![b[1].run] = Told(@, n)]
  BY <1>5, <1>6
<1>13. Len(buffer') = Len(buffer) + Len(n) - k
  BY <1>7, <1>8
<1>14. IsPublished(b, n, k)
  BY <1>1, <1>2, <1>3, <1>4, <1>5, <1>8, <1>9, <1>10, <1>11, <1>12, <1>13 DEF IsPublished
<1> QED
  BY <1>2, <1>6, <1>9, <1>14

-----------------------------------------------------------------------------
(* The steps.  A change of a run, whatever its cause, is one kind of step.  *)

IsChanged(r, b, record) ==
  /\ IsChange(b, r, record) /\ record.ver = run[r].ver + 1
  /\ run' = [run EXCEPT ![r] = record]
  /\ outbox' = Append(outbox, b)
  /\ ~Carries(b) => record.status = run[r].status
  /\ record.status # "none"
  /\ run[r].status = "cancelled" => record.status = "cancelled"
  /\ \/ answer' = answer
     \/ run[r].status = "none" /\ answer' = [answer EXCEPT ![r] = Reply("start", record)]
     \/ record.status = "cancelled" /\ answer' = [answer EXCEPT ![r] = Reply("cancel", record)]
  /\ noise' \in 0..MaxNoise /\ faults' = faults
  /\ UNCHANGED <<buffer, counter, conn, shown, mark, lastId, keepsId, restarted, news>>

LEMMA ChangeEffect ==
  ASSUME Types, NEW r \in Runs,
         \/ StartRun(r) \/ NodeMoves(r) \/ ResultRecorded(r) \/ FeedbackRecorded(r)
         \/ CancelRun(r) /\ run[r].status \notin Final
  PROVE  \E b \in Batches, record \in RecordType : IsChanged(r, b, record)
<1>1. NoRun \notin Runs /\ MaxNoise \in Nat
  BY EventStreamAssumption
<1>2. run[r].status \in Statuses /\ run[r].ver \in Nat /\ noise \in 0..MaxNoise
  BY DEF Types, RecordType
<1>3. ASSUME NEW status \in Statuses, NEW b, MayChange(r), Change(r, status, b),
             IsChange(b, r, Next1(r, status)), ~Carries(b) => status = run[r].status,
             status # "none", run[r].status = "cancelled" => status = "cancelled", faults' = faults,
             \/ answer' = answer
             \/ run[r].status = "none"
                /\ answer' = [answer EXCEPT ![r] = Reply("start", Next1(r, status))]
             \/ status = "cancelled"
                /\ answer' = [answer EXCEPT ![r] = Reply("cancel", Next1(r, status))]
      PROVE  \E bb \in Batches, record \in RecordType : IsChanged(r, bb, record)
  <2> DEFINE record == Next1(r, status)
  <2>1. record \in RecordType /\ record.status = status /\ record.ver = run[r].ver + 1
    BY <1>2 DEF Next1, RecordType
  <2>2. run' = [run EXCEPT ![r] = record]
    BY <1>3 DEF Change, Next1
  <2>3. noise' \in 0..MaxNoise
    BY <1>1, <1>2, <1>3 DEF Change, MayChange
  <2>4. b \in Batches
    BY <1>3 DEF IsChange
  <2>5. IsChanged(r, b, record)
    BY <1>3, <2>1, <2>2, <2>3 DEF Change, IsChanged
  <2>6. QED
    BY <2>1, <2>4, <2>5
<1>4. \A status \in Statuses : Next1(r, status) \in RecordType
  BY <1>2 DEF Next1, RecordType
<1>5. "queued" \in Statuses /\ "running" \in Statuses /\ "succeeded" \in Statuses
        /\ "failed" \in Statuses /\ "cancelled" \in Statuses
  BY DEF Statuses, Known, Final
<1>6. CASE StartRun(r)
  <2>1. IsChange(RunState(r, Next1(r, "queued")), r, Next1(r, "queued"))
          /\ Carries(RunState(r, Next1(r, "queued")))
    BY <1>1, <1>4, <1>5, ChangeBatches
  <2>2. /\ run[r].status = "none" /\ MayChange(r) /\ faults' = faults
        /\ Change(r, "queued", RunState(r, Next1(r, "queued")))
        /\ \/ answer' = answer
           \/ answer' = [answer EXCEPT ![r] = Reply("start", Next1(r, "queued"))]
    BY <1>6 DEF StartRun
  <2>3. QED
    BY <1>3, <1>5, <2>1, <2>2
<1>7. CASE NodeMoves(r)
  <2>1. IsChange(NodeState(r, run[r], Next1(r, "running")), r, Next1(r, "running"))
          /\ Carries(NodeState(r, run[r], Next1(r, "running")))
    BY <1>1, <1>4, <1>5, ChangeBatches
  <2>2. /\ run[r].status # "cancelled" /\ MayChange(r) /\ faults' = faults /\ answer' = answer
        /\ Change(r, "running", NodeState(r, run[r], Next1(r, "running")))
    BY <1>7 DEF NodeMoves
  <2>3. QED
    BY <1>3, <1>5, <2>1, <2>2
<1>8. CASE ResultRecorded(r)
  <2>1. PICK status \in {"running", "succeeded", "failed"} :
          Change(r, status, RecordResult(r, run[r], Next1(r, status)))
    BY <1>8 DEF ResultRecorded
  <2>2. status \in Statuses
    BY <1>5
  <2>3. IsChange(RecordResult(r, run[r], Next1(r, status)), r, Next1(r, status))
          /\ Carries(RecordResult(r, run[r], Next1(r, status)))
    BY <1>1, <1>4, <2>2, ChangeBatches
  <2>4. run[r].status # "cancelled" /\ MayChange(r) /\ faults' = faults /\ answer' = answer
    BY <1>8 DEF ResultRecorded
  <2>5. QED
    BY <1>3, <2>1, <2>2, <2>3, <2>4
<1>9. CASE FeedbackRecorded(r)
  <2>1. IsChange(Feedback(r, Next1(r, run[r].status)), r, Next1(r, run[r].status))
    BY <1>1, <1>2, <1>4, ChangeBatches
  <2>2. /\ MayChange(r) /\ faults' = faults /\ answer' = answer /\ run[r].status # "none"
        /\ Change(r, run[r].status, Feedback(r, Next1(r, run[r].status)))
    BY <1>9 DEF FeedbackRecorded, Final
  <2>3. QED
    BY <1>2, <1>3, <2>1, <2>2
<1>10. CASE CancelRun(r) /\ run[r].status \notin Final
  <2>1. IsChange(RunState(r, Next1(r, "cancelled")), r, Next1(r, "cancelled"))
          /\ Carries(RunState(r, Next1(r, "cancelled")))
    BY <1>1, <1>4, <1>5, ChangeBatches
  <2>2. /\ MayChange(r) /\ faults' = faults
        /\ Change(r, "cancelled", RunState(r, Next1(r, "cancelled")))
        /\ answer' = [answer EXCEPT ![r] = Reply("cancel", Next1(r, "cancelled"))]
    BY <1>10 DEF CancelRun
  <2>3. QED
    BY <1>3, <1>5, <2>1, <2>2
<1> QED
  BY <1>6, <1>7, <1>8, <1>9, <1>10

\* A request to cancel a run that is over.
CancelDone(r) ==
  /\ run[r].status \in Final
  /\ IF run[r].status = "cancelled" THEN UNCHANGED faults ELSE Fault("late_cancel")
  /\ answer' = [answer EXCEPT ![r] = Reply("cancel", run[r])]
  /\ UNCHANGED <<run, outbox, buffer, counter, conn, shown, mark, lastId,
                 keepsId, restarted, noise, news>>

LEMMA NextSteps ==
  ASSUME Types, Next
  PROVE  \/ \E r \in Runs, b \in Batches, record \in RecordType : IsChanged(r, b, record)
         \/ \E r \in Runs : CancelDone(r) \/ Ask(r) \/ AnswerArrives(r)
         \/ WorkerEvent \/ Publish \/ Restart \/ Connect \/ Drop \/ Receive
<1>1. ASSUME NEW r \in Runs, CancelRun(r)
      PROVE  CancelDone(r) \/ run[r].status \notin Final
  BY <1>1 DEF CancelRun, CancelDone, Final
<1>2. QED
  BY <1>1, ChangeEffect DEF Next, Scheduler, Dashboard

\* The event at the head of the stream is read.
IsReceived(e) ==
  /\ e \in SentType /\ conn.stream # <<>> /\ Len(conn.stream) >= 1 /\ e = conn.stream[1]
  /\ conn' = [conn EXCEPT !.stream = conn'.stream]
  /\ conn'.stream \in Seq(SentType) /\ Len(conn'.stream) = Len(conn.stream) - 1
  /\ \A i \in 1..Len(conn'.stream) : conn'.stream[i] = conn.stream[i + 1]
  /\ lastId' = IF keepsId THEN e.id ELSE lastId
  /\ e.kind # "worker" => e.run \in Runs
  /\ IF e.kind = "worker" THEN UNCHANGED <<shown, mark, answer>>
     ELSE /\ shown' = [shown EXCEPT ![e.run] = Applied(e)]
          /\ mark' = IF e.kind = "status" /\ ~Late(e) THEN [mark EXCEPT ![e.run] = e.id] ELSE mark
          /\ answer' = [answer EXCEPT ![e.run].over = @ \/ Overtakes(e, answer[e.run])]
  /\ UNCHANGED <<run, outbox, buffer, counter, keepsId, restarted, noise, news, faults>>

LEMMA ReceiveEffect ==
  ASSUME Types, Receive
  PROVE  \E e \in SentType : IsReceived(e)
<1> DEFINE e == Head(conn.stream)
<1>1. conn.stream \in Seq(SentType) /\ conn.stream # <<>> /\ Len(conn.stream) \in Nat
        /\ conn \in [open : BOOLEAN, stream : Seq(SentType), from : Nat]
  BY LenProperties DEF Types, Receive
<1>2. /\ e \in SentType /\ e = conn.stream[1] /\ Tail(conn.stream) \in Seq(SentType)
      /\ Len(Tail(conn.stream)) = Len(conn.stream) - 1
      /\ \A i \in 1..Len(Tail(conn.stream)) : Tail(conn.stream)[i] = conn.stream[i + 1]
  BY <1>1, HeadTailProperties
<1>3. Len(conn.stream) >= 1
  BY <1>1, EmptySeq
<1>4. conn'.stream = Tail(conn.stream) /\ conn' = [conn EXCEPT !.stream = Tail(conn.stream)]
  BY <1>1 DEF Receive
<1>5. e.kind # "worker" => e.run \in Runs
  BY <1>2 DEF SentType
<1>6. /\ lastId' = IF keepsId THEN e.id ELSE lastId
      /\ IF e.kind = "worker" THEN UNCHANGED <<shown, mark, answer>>
         ELSE /\ shown' = [shown EXCEPT ![e.run] = Applied(e)]
              /\ mark' = IF e.kind = "status" /\ ~Late(e)
                         THEN [mark EXCEPT ![e.run] = e.id] ELSE mark
              /\ answer' = [answer EXCEPT ![e.run].over = @ \/ Overtakes(e, answer[e.run])]
      /\ UNCHANGED <<run, outbox, buffer, counter, keepsId, restarted, noise, news, faults>>
  BY DEF Receive
<1> HIDE DEF e
<1>7. IsReceived(e)
  BY <1>1, <1>2, <1>3, <1>4, <1>5, <1>6 DEF IsReceived
<1> QED
  BY <1>2, <1>7

LEMMA AppliedType ==
  ASSUME NEW e \in SentType, e.run \in Runs, shown[e.run] \in ViewType
  PROVE  Applied(e) \in ViewType
<1> DEFINE v == shown[e.run]
<1>1. v \in ViewType /\ e.status \in Statuses /\ e.ver \in Nat /\ <<>> \in Seq(Nat)
        /\ e.kind \in {"status", "snapshot", "result", "chunk"}
  BY EventStreamAssumption DEF SentType, Kinds
<1>2. Append(v.log, e.ver) \in Seq(Nat)
  BY <1>1, AppendProperties DEF ViewType
<1>3. /\ UpdateStatus(v, e) \in ViewType /\ MergeSnapshot(e) \in ViewType
      /\ UpdateNode(v, e) \in ViewType /\ ApplyDelta(v, e) \in ViewType
  BY <1>1, <1>2 DEF ViewType, UpdateStatus, MergeSnapshot, UpdateNode, ApplyDelta
<1>4. \/ Applied(e) = v \/ Applied(e) = UpdateStatus(v, e) \/ Applied(e) = MergeSnapshot(e)
      \/ Applied(e) = UpdateNode(v, e) \/ Applied(e) = ApplyDelta(v, e)
  BY <1>1 DEF Applied
<1> QED
  BY <1>1, <1>3, <1>4

LEMMA AnsweredType ==
  ASSUME NEW v \in ViewType, NEW reply \in ReplyType, reply.kind # "none"
  PROVE  Answered(v, reply) \in ViewType
<1>1. <<>> \in Seq(Nat) /\ "cancelled" \in Statuses /\ reply.kind \in {"get", "start", "cancel"}
  BY DEF Statuses, Known, Final, ReplyType, AnswerKinds
<1>2. /\ [status |-> reply.status, ver |-> reply.ver, log |-> <<>>] \in ViewType
      /\ [status |-> reply.status, ver |-> 0, log |-> <<>>] \in ViewType
      /\ [v EXCEPT !.status = "cancelled"] \in ViewType
  BY <1>1 DEF ViewType, ReplyType
<1> QED
  BY <1>1, <1>2 DEF Answered

LEMMA ReplyTypes ==
  /\ NoAnswer \in ReplyType
  /\ \A kind \in AnswerKinds \ {"none"}, record \in RecordType : Reply(kind, record) \in ReplyType
BY DEF NoAnswer, Reply, ReplyType, RecordType, AnswerKinds

LEMMA OldestType ==
  ASSUME Types
  PROVE  Oldest \in Nat \ {0}
<1>1. buffer \in Seq(SentType) /\ counter \in Nat
  BY DEF Types
<1>2. buffer # <<>> => Head(buffer).id \in Nat \ {0}
  BY <1>1, HeadTailProperties DEF SentType
<1> QED
  BY <1>1, <1>2 DEF Oldest

\* What is replayed: all of the store, or what follows the event with that id.
IsReplay(s, last, k) ==
  /\ s \in Seq(SentType) /\ Len(s) = Len(buffer) - k
  /\ \A i \in 1..(Len(buffer) - k) : s[i] = buffer[i + k]
  /\ k > 0 => buffer[k].id = last
  /\ k = 0 => ~Holds(last)

LEMMA ReplayProps ==
  ASSUME Types, NEW last \in Nat
  PROVE  \E k \in 0..Len(buffer) : IsReplay(Replay(last), last, k)
<1>1. buffer \in Seq(SentType) /\ Len(buffer) \in Nat /\ DOMAIN buffer = 1..Len(buffer)
  BY LenProperties DEF Types
<1>2. CASE Holds(last)
  <2>1. Place(last) \in 1..Len(buffer) /\ buffer[Place(last)].id = last
    BY <1>1, <1>2 DEF Holds, Place
  <2>2. PICK k \in 1..Len(buffer) : k = Place(last)
    BY <2>1
  <2>3. Replay(last) = SubSeq(buffer, k + 1, Len(buffer))
    BY <1>2, <2>2 DEF Replay
  <2>4. \A i \in (k + 1)..Len(buffer) : buffer[i] \in SentType
    BY <1>1, <2>2, ElementOfSeq
  <2>5. /\ Replay(last) \in Seq(SentType)
        /\ Len(Replay(last)) = IF k + 1 <= Len(buffer) THEN Len(buffer) - (k + 1) + 1 ELSE 0
        /\ \A i \in 1..(Len(buffer) - (k + 1) + 1) : Replay(last)[i] = buffer[(k + 1) + i - 1]
    BY <1>1, <2>2, <2>3, <2>4, SubSeqProperties
  <2>6. /\ Len(buffer) - (k + 1) + 1 = Len(buffer) - k
        /\ ~(k + 1 <= Len(buffer)) => Len(buffer) - k = 0
        /\ \A i \in 1..(Len(buffer) - k) : (k + 1) + i - 1 = i + k
    BY <1>1, <2>2
  <2>7. Len(Replay(last)) = Len(buffer) - k
    BY <2>5, <2>6
  <2>8. k \in 0..Len(buffer) /\ k > 0 /\ buffer[k].id = last
    BY <1>1, <2>1, <2>2
  <2>9. \A i \in 1..(Len(buffer) - k) : Replay(last)[i] = buffer[i + k]
    BY <2>5, <2>6
  <2> HIDE DEF IsReplay
  <2>10. IsReplay(Replay(last), last, k)
    <3>1. Replay(last) \in Seq(SentType) /\ (k = 0 => ~Holds(last))
      BY <2>5, <2>8
    <3>2. QED
      BY <2>7, <2>8, <2>9, <3>1, Zenon DEF IsReplay
  <2>11. QED
    BY <2>8, <2>10
<1>3. CASE ~Holds(last)
  <2>1. Replay(last) = buffer
    BY <1>3 DEF Replay
  <2>2. 0 \in 0..Len(buffer) /\ \A i \in 1..(Len(buffer) - 0) : i + 0 = i
    BY <1>1
  <2>3. IsReplay(Replay(last), last, 0)
    BY <1>1, <1>3, <2>1, <2>2 DEF IsReplay
  <2>4. QED
    BY <2>2, <2>3
<1> QED
  BY <1>2, <1>3

-----------------------------------------------------------------------------
(* Types.                                                                   *)

LEMMA TypesInit == Init => Types
<1> SUFFICES ASSUME Init PROVE Types
  OBVIOUS
<1>1. /\ MaxNoise \in Nat /\ MaxFaults \in Nat
      /\ [status |-> "none", ver |-> 0] \in RecordType
      /\ Unknown \in ViewType
      /\ NoAnswer \in ReplyType
      /\ NoConn \in [open : BOOLEAN, stream : Seq(SentType), from : Nat]
      /\ [run |-> 0, node |-> 0, chunk |-> FALSE] \in [run : Nat, node : Nat, chunk : BOOLEAN]
      /\ <<>> \in Seq(Batches) /\ <<>> \in Seq(SentType)
  BY EventStreamAssumption, ReplyTypes DEF Statuses, Unknown, NoConn, RecordType, ViewType
<1>2. /\ run \in [Runs -> RecordType] /\ outbox \in Seq(Batches)
      /\ buffer \in Seq(SentType) /\ counter \in Nat
      /\ conn \in [open : BOOLEAN, stream : Seq(SentType), from : Nat]
  BY <1>1 DEF Init
<1>3. shown \in [Runs -> ViewType] /\ mark \in [Runs -> Nat] /\ answer \in [Runs -> ReplyType]
  BY <1>1 DEF Init
<1>4. /\ lastId \in Nat /\ keepsId \in BOOLEAN /\ restarted \in BOOLEAN
      /\ noise \in 0..MaxNoise /\ faults \in 0..MaxFaults
      /\ news \in [Runs -> [run : Nat, node : Nat, chunk : BOOLEAN]]
  <2>1. 0 \in 0..MaxNoise /\ 0 \in 0..MaxFaults
    BY <1>1
  <2>2. news \in [Runs -> [run : Nat, node : Nat, chunk : BOOLEAN]]
    BY <1>1 DEF Init
  <2>3. QED
    BY <2>1, <2>2 DEF Init
<1> QED
  BY <1>2, <1>3, <1>4 DEF Types

LEMMA TypesChanged ==
  ASSUME Types, NEW r \in Runs, NEW b \in Batches, NEW record \in RecordType,
         IsChanged(r, b, record)
  PROVE  Types'
<1>1. run' \in [Runs -> RecordType]
  BY DEF Types, IsChanged, RecordType
<1>2. outbox' \in Seq(Batches)
  BY AppendToOutbox DEF Types, IsChanged
<1>3. Reply("start", record) \in ReplyType /\ Reply("cancel", record) \in ReplyType
  BY ReplyTypes DEF AnswerKinds
<1>4. answer' \in [Runs -> ReplyType]
  BY <1>3 DEF Types, IsChanged, ReplyType
<1>5. UNCHANGED <<buffer, counter, conn, shown, mark, lastId, keepsId, restarted, news, faults>>
        /\ noise' \in 0..MaxNoise
  BY DEF IsChanged
<1> QED
  BY <1>1, <1>2, <1>4, <1>5 DEF Types

LEMMA TypesPublish ==
  ASSUME Types, Publish
  PROVE  Types'
<1>1. PICK b \in Batches, n \in Seq(SentType), k \in Nat : IsPublished(b, n, k)
  BY PublishEffect
<1>2. UNCHANGED <<run, shown, mark, answer, lastId, keepsId, restarted, noise, faults>>
  BY DEF Publish
<1>3. outbox' \in Seq(Batches) /\ buffer' \in Seq(SentType) /\ counter' \in Nat
  BY <1>1, LenProperties DEF IsPublished, Types
<1>4. conn' \in [open : BOOLEAN, stream : Seq(SentType), from : Nat]
  <2>1. conn.stream \o n \in Seq(SentType)
    BY <1>1, ConcatProperties DEF Types
  <2>2. QED
    BY <1>1, <2>1 DEF IsPublished, Types
<1>5. news' \in [Runs -> [run : Nat, node : Nat, chunk : BOOLEAN]]
  <2>1. n[1] \in SentType /\ n[Len(n)] \in SentType /\ Head(n) = n[1] /\ Last(n) = n[Len(n)]
    <3>1. Len(n) \in 1..3
      BY <1>1 DEF IsPublished, IsSent, Batches
    <3>2. QED
      BY <1>1, <3>1, ElementOfSeq DEF IsPublished, IsSent
  <2>2. n[1].id \in Nat /\ n[Len(n)].id \in Nat /\ b[1].run \in Runs \cup {NoRun}
    <3>1. n[1].run = b[1].run
      BY <1>1 DEF IsPublished, IsSent, Batches
    <3>2. QED
      BY <2>1, <3>1 DEF SentType
  <2>3. \A old \in [run : Nat, node : Nat, chunk : BOOLEAN] :
          Told(old, n) \in [run : Nat, node : Nat, chunk : BOOLEAN]
    BY <2>1, <2>2 DEF Told
  <2>4. news' = IF b[1].run = NoRun THEN news ELSE [news EXCEPT ![b[1].run] = Told(@, n)]
    BY <1>1 DEF IsPublished
  <2>5. QED
    BY <2>2, <2>3, <2>4 DEF Types
<1> QED
  BY <1>2, <1>3, <1>4, <1>5 DEF Types

LEMMA TypesReceive ==
  ASSUME Types, Receive
  PROVE  Types'
<1>1. PICK e \in SentType : IsReceived(e)
  BY ReceiveEffect
<1>2. conn' \in [open : BOOLEAN, stream : Seq(SentType), from : Nat]
  BY <1>1 DEF IsReceived, Types
<1>3. lastId' \in Nat
  BY <1>1 DEF IsReceived, Types, SentType
<1>4. CASE e.kind = "worker"
  BY <1>1, <1>2, <1>3, <1>4 DEF IsReceived, Types
<1>5. CASE e.kind # "worker"
  <2>1. e.run \in Runs /\ e.id \in Nat
    BY <1>1, <1>5 DEF IsReceived, SentType
  <2>2. Applied(e) \in ViewType
    BY <2>1, AppliedType DEF Types
  <2>3. shown' \in [Runs -> ViewType] /\ mark' \in [Runs -> Nat]
    BY <1>1, <1>5, <2>1, <2>2 DEF IsReceived, Types
  <2>4. answer' \in [Runs -> ReplyType]
    <3> DEFINE a == answer[e.run]
    <3>1. a \in ReplyType /\ a.over \in BOOLEAN /\ Overtakes(e, a) \in BOOLEAN
      BY <2>1 DEF Overtakes, Types, ReplyType
    <3>2. a.kind = "none" => ~Overtakes(e, a) /\ a.over = FALSE
      BY <3>1 DEF Overtakes, ReplyType, NoAnswer
    <3> HIDE DEF a
    <3>3. (a.over \/ Overtakes(e, a)) \in BOOLEAN /\ a.over \in BOOLEAN
      BY <3>1
    <3>4. a.kind = "none" => (a.over \/ Overtakes(e, a)) = a.over
      BY <3>2, <3>1
    <3>5. [a EXCEPT !.over = a.over \/ Overtakes(e, a)] \in ReplyType
      BY <3>1, <3>3, <3>4 DEF ReplyType
    <3>6. QED
      BY <1>1, <1>5, <2>1, <3>5 DEF IsReceived, Types, a
  <2>5. QED
    BY <1>1, <1>2, <1>3, <2>3, <2>4 DEF IsReceived, Types
<1> QED
  BY <1>4, <1>5

LEMMA TypesOthers ==
  ASSUME Types,
         \/ \E r \in Runs : CancelDone(r) \/ Ask(r) \/ AnswerArrives(r)
         \/ WorkerEvent \/ Restart \/ Connect \/ Drop
  PROVE  Types'
<1>1. \A kind \in FaultKinds : Fault(kind) => faults' \in 0..MaxFaults
  BY EventStreamAssumption DEF Fault, Types
<1>2. ASSUME NEW r \in Runs, CancelDone(r) PROVE Types'
  <2>1. Reply("cancel", run[r]) \in ReplyType
    BY ReplyTypes DEF AnswerKinds, Types
  <2>2. faults' \in 0..MaxFaults
    BY <1>1, <1>2 DEF CancelDone, FaultKinds, Types
  <2>3. QED
    BY <1>2, <2>1, <2>2 DEF CancelDone, Types
<1>3. ASSUME NEW r \in Runs, Ask(r) PROVE Types'
  <2>1. Reply("get", run[r]) \in ReplyType
    BY ReplyTypes DEF AnswerKinds, Types
  <2>2. QED
    BY <1>3, <2>1 DEF Ask, Types
<1>4. ASSUME NEW r \in Runs, AnswerArrives(r) PROVE Types'
  <2>1. faults' \in 0..MaxFaults
    BY <1>1, <1>4 DEF AnswerArrives, FaultKinds, Types
  <2>2. answer[r] \in ReplyType /\ shown[r] \in ViewType
    BY DEF Types, ViewType
  <2>3. Answered(shown[r], answer[r]) \in ViewType
    <3>1. answer[r].kind # "none"
      BY <1>4, <2>2 DEF AnswerArrives, ReplyType
    <3>2. QED
      BY <2>2, <3>1, AnsweredType
  <2>4. shown' \in [Runs -> ViewType] /\ answer' \in [Runs -> ReplyType]
    BY <1>4, <2>3, ReplyTypes DEF AnswerArrives, Types
  <2>5. QED
    BY <1>4, <2>1, <2>4 DEF AnswerArrives, Types
<1>5. CASE WorkerEvent
  <2>1. <<Event("worker", NoRun, [status |-> "none", ver |-> 0])>> \in Batches
    BY WorkerIsBatch, EventStreamAssumption
  <2>2. outbox' \in Seq(Batches)
    BY <1>5, <2>1, AppendToOutbox DEF WorkerEvent, Types
  <2>3. noise' \in 0..MaxNoise
    BY <1>5, EventStreamAssumption DEF WorkerEvent, Types
  <2>4. QED
    BY <1>5, <2>2, <2>3 DEF WorkerEvent, Types
<1>6. CASE Restart
  <2>1. faults' \in 0..MaxFaults
    BY <1>1, <1>6 DEF Restart, FaultKinds
  <2>2. /\ \A r \in Runs : run'[r] \in RecordType
        /\ run' = [r \in Runs |-> run'[r]]
    BY <1>6 DEF Restart, Types, RecordType, Statuses
  <2>3. /\ NoAnswer \in ReplyType
        /\ NoConn \in [open : BOOLEAN, stream : Seq(SentType), from : Nat]
        /\ [run |-> 0, node |-> 0, chunk |-> FALSE] \in [run : Nat, node : Nat, chunk : BOOLEAN]
        /\ <<>> \in Seq(Batches) /\ <<>> \in Seq(SentType)
    BY ReplyTypes DEF NoConn
  <2>4. QED
    BY <1>6, <2>1, <2>2, <2>3 DEF Restart, Types, ReplyType
<1>7. CASE Connect
  <2>1. Replay(lastId) \in Seq(SentType)
    BY ReplayProps DEF IsReplay, Types
  <2>2. Oldest \in Nat
    BY OldestType
  <2>3. QED
    BY <1>7, <2>1, <2>2 DEF Connect, Types
<1>8. CASE Drop
  <2>1. NoConn \in [open : BOOLEAN, stream : Seq(SentType), from : Nat]
    BY DEF NoConn
  <2>2. faults' \in 0..MaxFaults
    BY <1>1, <1>8 DEF Drop, FaultKinds
  <2>3. QED
    BY <1>8, <2>1, <2>2 DEF Drop, Types
<1> QED
  BY <1>2, <1>3, <1>4, <1>5, <1>6, <1>7, <1>8

LEMMA TypesStep ==
  ASSUME Types, [Next]_vars
  PROVE  Types'
<1>1. CASE UNCHANGED vars
  BY <1>1 DEF vars, Types
<1>2. CASE Next
  BY <1>2, NextSteps, TypesChanged, TypesPublish, TypesReceive, TypesOthers
<1> QED
  BY <1>1, <1>2

-----------------------------------------------------------------------------
(* What a client is sent.                                                   *)

\* The store holds a run of ids that ends with the last one given out.
StoreIdsOK ==
  /\ Len(buffer) \in Nat /\ Oldest = counter - Len(buffer) + 1 /\ Oldest \in Nat \ {0}
  /\ \A n \in Nat : n >= Oldest /\ n <= counter =>
       n - Oldest + 1 \in 1..Len(buffer) /\ buffer[n - Oldest + 1].id = n
  /\ \A i \in 1..Len(buffer) : buffer[i].id = Oldest + i - 1

LEMMA StoreIds == Types /\ StoreCoherent => StoreIdsOK
<1> SUFFICES ASSUME Types, StoreCoherent PROVE StoreIdsOK
  OBVIOUS
<1>1. buffer \in Seq(SentType) /\ Len(buffer) \in Nat /\ counter \in Nat
  BY LenProperties DEF Types
<1>2. Oldest = counter - Len(buffer) + 1
  <2>1. CASE buffer = <<>>
    <3>1. Len(buffer) = 0
      BY <2>1, <1>1, EmptySeq
    <3>2. QED
      BY <1>1, <2>1, <3>1 DEF Oldest
  <2>2. CASE buffer # <<>>
    <3>1. Len(buffer) >= 1 /\ Head(buffer) = buffer[1]
      BY <1>1, <2>2, EmptySeq
    <3>2. buffer[1].id = counter - Len(buffer) + 1
      BY <1>1, <3>1 DEF StoreCoherent
    <3>3. QED
      BY <2>2, <3>1, <3>2 DEF Oldest
  <2>3. QED
    BY <2>1, <2>2
<1>3. \A i \in 1..Len(buffer) : buffer[i].id = counter - Len(buffer) + i
  BY DEF StoreCoherent
<1>4. Oldest \in Nat \ {0}
  BY OldestType
<1>5. \A n \in Nat : n >= Oldest /\ n <= counter => n - Oldest + 1 \in 1..Len(buffer)
  BY <1>1, <1>2
<1> QED
  BY <1>1, <1>2, <1>3, <1>4, <1>5 DEF StoreIdsOK

LEMMA StoreIdsNext == Types' /\ StoreCoherent' => StoreIdsOK'
BY StoreIds, PTL

LEMMA StoreStep ==
  ASSUME Types, StoreCoherent, [Next]_vars
  PROVE  StoreCoherent'
<1>1. Len(buffer) \in Nat /\ counter \in Nat /\ Len(<<>>) = 0 /\ Capacity \in Nat
  BY LenProperties, EventStreamAssumption DEF Types
<1>2. CASE UNCHANGED <<buffer, counter>>
  BY <1>2 DEF StoreCoherent
<1>3. CASE Publish
  <2>1. PICK b \in Batches, n \in Seq(SentType), k \in Nat : IsPublished(b, n, k)
    BY <1>3, PublishEffect
  <2>2. /\ Len(n) \in Nat /\ Len(buffer') = Len(buffer) + Len(n) - k /\ Len(buffer') <= Capacity
        /\ counter' = counter + Len(n)
        /\ \A i \in 1..Len(n) : n[i].id = counter + i
        /\ \A i \in 1..Len(buffer') :
             buffer'[i] = IF i + k <= Len(buffer) THEN buffer[i + k] ELSE n[i + k - Len(buffer)]
    BY <2>1, LenProperties DEF IsPublished, IsSent
  <2>3. /\ \A i \in 1..Len(buffer) : buffer[i].id = counter - Len(buffer) + i
        /\ Len(buffer) <= counter
    BY DEF StoreCoherent
  <2>4. ASSUME NEW i \in 1..Len(buffer')
        PROVE  buffer'[i].id = counter' - Len(buffer') + i
    <3>1. CASE i + k <= Len(buffer)
      <4>1. i + k \in 1..Len(buffer) /\ buffer'[i] = buffer[i + k]
        BY <1>1, <2>1, <2>2, <2>4, <3>1
      <4>2. buffer[i + k].id = counter - Len(buffer) + (i + k)
        BY <2>3, <4>1
      <4>3. QED
        BY <1>1, <2>2, <4>1, <4>2
    <3>2. CASE ~(i + k <= Len(buffer))
      <4>1. i + k - Len(buffer) \in 1..Len(n) /\ buffer'[i] = n[i + k - Len(buffer)]
        BY <1>1, <2>1, <2>2, <2>4, <3>2
      <4>2. n[i + k - Len(buffer)].id = counter + (i + k - Len(buffer))
        BY <2>2, <4>1
      <4>3. QED
        BY <1>1, <2>2, <4>1, <4>2
    <3>3. QED
      BY <3>1, <3>2
  <2>5. Len(buffer') <= counter'
    BY <1>1, <2>2, <2>3
  <2>6. QED
    BY <2>2, <2>4, <2>5 DEF StoreCoherent
<1>4. CASE Restart
  BY <1>1, <1>4 DEF Restart, StoreCoherent
<1>5. \/ UNCHANGED <<buffer, counter>> \/ Publish \/ Restart
  <2>1. CASE UNCHANGED vars
    BY <2>1 DEF vars
  <2>2. CASE Next
    <3>1. ASSUME NEW r \in Runs, CancelDone(r) \/ Ask(r) \/ AnswerArrives(r)
          PROVE  UNCHANGED <<buffer, counter>>
      BY <3>1 DEF CancelDone, Ask, AnswerArrives
    <3>2. ASSUME WorkerEvent \/ Connect \/ Drop \/ Receive
          PROVE  UNCHANGED <<buffer, counter>>
      BY <3>2 DEF WorkerEvent, Connect, Drop, Receive
    <3>3. ASSUME NEW r \in Runs, NEW b \in Batches, NEW record \in RecordType,
                 IsChanged(r, b, record)
          PROVE  UNCHANGED <<buffer, counter>>
      BY <3>3 DEF IsChanged
    <3>4. QED
      BY <2>2, <3>1, <3>2, <3>3, NextSteps
  <2>3. QED
    BY <2>1, <2>2
<1> QED
  BY <1>2, <1>3, <1>4, <1>5

\* An event sent is put at the end of the stream, if the client is to have it.
IsSentOn(n, b) ==
  \/ UNCHANGED conn /\ ~(conn.open /\ b[1].run \in Own \cup {NoRun})
  \/ /\ conn.open /\ conn'.open /\ conn'.from = conn.from
     /\ Len(conn'.stream) = Len(conn.stream) + Len(n)
     /\ \A i \in 1..Len(conn.stream) : conn'.stream[i] = conn.stream[i]
     /\ \A i \in 1..Len(n) : conn'.stream[Len(conn.stream) + i] = n[i]
     /\ \A i \in 1..Len(conn'.stream) :
          \/ i <= Len(conn.stream)
          \/ \E j \in 1..Len(n) : i = Len(conn.stream) + j

LEMMA SentOn ==
  ASSUME Types, NEW b, NEW n \in Seq(SentType), NEW k, IsPublished(b, n, k)
  PROVE  IsSentOn(n, b)
<1>1. /\ conn \in [open : BOOLEAN, stream : Seq(SentType), from : Nat]
      /\ Len(conn.stream) \in Nat /\ Len(n) \in Nat
  BY LenProperties DEF Types
<1>2. conn' = IF conn.open /\ b[1].run \in Own \cup {NoRun}
              THEN [conn EXCEPT !.stream = @ \o n] ELSE conn
  BY DEF IsPublished
<1>3. CASE ~(conn.open /\ b[1].run \in Own \cup {NoRun})
  BY <1>2, <1>3 DEF IsSentOn
<1>4. CASE conn.open /\ b[1].run \in Own \cup {NoRun}
  <2>1. conn'.open /\ conn'.from = conn.from /\ conn'.stream = conn.stream \o n
    BY <1>1, <1>2, <1>4
  <2>2. /\ Len(conn'.stream) = Len(conn.stream) + Len(n)
        /\ \A i \in 1..(Len(conn.stream) + Len(n)) :
             conn'.stream[i] = IF i <= Len(conn.stream) THEN conn.stream[i]
                               ELSE n[i - Len(conn.stream)]
    BY <1>1, <2>1, ConcatProperties
  <2>3. \A i \in 1..Len(conn.stream) : conn'.stream[i] = conn.stream[i]
    BY <1>1, <2>2
  <2>4. ASSUME NEW i \in 1..Len(n)
        PROVE  conn'.stream[Len(conn.stream) + i] = n[i]
    <3>1. PICK m \in 1..(Len(conn.stream) + Len(n)) : m = Len(conn.stream) + i
      BY <1>1, <2>4
    <3>2. ~(m <= Len(conn.stream)) /\ m - Len(conn.stream) = i
      BY <1>1, <3>1
    <3>3. QED
      BY <2>2, <3>1, <3>2
  <2>5. ASSUME NEW i \in 1..Len(conn'.stream), ~(i <= Len(conn.stream))
        PROVE  \E j \in 1..Len(n) : i = Len(conn.stream) + j
    <3>1. i - Len(conn.stream) \in 1..Len(n) /\ i = Len(conn.stream) + (i - Len(conn.stream))
      BY <1>1, <2>2, <2>5
    <3>2. QED
      BY <3>1
  <2>6. QED
    BY <1>4, <2>1, <2>2, <2>3, <2>4, <2>5 DEF IsSentOn
<1> QED
  BY <1>3, <1>4

\* What each step does to the connection.
LEMMA ConnSteps ==
  ASSUME Types, [Next]_vars
  PROVE  \/ UNCHANGED <<buffer, counter, conn, lastId, keepsId, restarted>>
         \/ Publish \/ Restart \/ Connect \/ Drop \/ Receive
<1>1. CASE UNCHANGED vars
  BY <1>1 DEF vars
<1>2. CASE Next
  <2>1. ASSUME NEW r \in Runs, CancelDone(r) \/ Ask(r) \/ AnswerArrives(r)
        PROVE  UNCHANGED <<buffer, counter, conn, lastId, keepsId, restarted>>
    BY <2>1 DEF CancelDone, Ask, AnswerArrives
  <2>2. WorkerEvent => UNCHANGED <<buffer, counter, conn, lastId, keepsId, restarted>>
    BY DEF WorkerEvent
  <2>3. ASSUME NEW r \in Runs, NEW b \in Batches, NEW record \in RecordType,
               IsChanged(r, b, record)
        PROVE  UNCHANGED <<buffer, counter, conn, lastId, keepsId, restarted>>
    BY <2>3 DEF IsChanged
  <2>4. QED
    BY <1>2, <2>1, <2>2, <2>3, NextSteps
<1> QED
  BY <1>1, <1>2

StreamTypesOK ==
  /\ conn.stream \in Seq(SentType) /\ Len(conn.stream) \in Nat
  /\ DOMAIN conn.stream = 1..Len(conn.stream)
  /\ \A i \in 1..Len(conn.stream) :
       conn.stream[i] \in SentType /\ conn.stream[i].id \in Nat \ {0}
  /\ buffer \in Seq(SentType) /\ Len(buffer) \in Nat /\ DOMAIN buffer = 1..Len(buffer)
  /\ \A i \in 1..Len(buffer) : buffer[i] \in SentType /\ buffer[i].id \in Nat \ {0}
  /\ counter \in Nat /\ lastId \in Nat /\ conn.from \in Nat

LEMMA StreamTypes == Types => StreamTypesOK
<1>1. \A e \in SentType : e.id \in Nat \ {0}
  BY DEF SentType
<1>2. Types => conn.stream \in Seq(SentType) /\ buffer \in Seq(SentType)
  BY DEF Types
<1> QED
  BY <1>1, <1>2, LenProperties, ElementOfSeq DEF Types, StreamTypesOK

LEMMA StreamTypesNext == Types' => StreamTypesOK'
BY StreamTypes, PTL

LEMMA StreamPublish ==
  ASSUME Types, StoreCoherent, StreamCoherent, Publish
  PROVE  StreamCoherent'
<1>1. PICK b \in Batches, n \in Seq(SentType), k \in Nat : IsPublished(b, n, k)
  BY PublishEffect
<1>2. IsSentOn(n, b) /\ Len(n) \in Nat /\ \A i \in 1..Len(n) : n[i].id = counter + i
  BY <1>1, SentOn, LenProperties DEF IsPublished, IsSent
<1>3. counter' = counter + Len(n)
  BY <1>1 DEF IsPublished
<1>4. Types' /\ StoreCoherent'
  BY TypesPublish, StoreStep DEF Next, Scheduler
<1>5. Oldest <= Oldest'
  <2>1. Oldest = counter - Len(buffer) + 1 /\ Oldest' = counter' - Len(buffer') + 1
    BY <1>4, StoreIds, StoreIdsNext DEF StoreIdsOK
  <2>2. Len(buffer') = Len(buffer) + Len(n) - k
    BY <1>1 DEF IsPublished
  <2>3. QED
    BY <1>1, <1>2, <1>3, <2>1, <2>2, StreamTypes DEF StreamTypesOK
<1>6. Oldest \in Nat /\ Oldest' \in Nat
  BY <1>4, StoreIds, StoreIdsNext DEF StoreIdsOK
<1>7. CASE UNCHANGED conn
  <2>1. \A i \in 1..Len(conn.stream) : conn.stream[i].id <= counter'
    BY <1>2, <1>3, StreamTypes DEF StreamCoherent, StreamTypesOK
  <2>2. conn.open => conn.from \in 1..Oldest'
    BY <1>5, <1>6, StreamTypes DEF StreamCoherent, StreamTypesOK
  <2>3. QED
    BY <1>7, <2>1, <2>2 DEF StreamCoherent, Increasing
<1>8. CASE ~UNCHANGED conn
  <2>1. /\ conn.open /\ conn'.open /\ conn'.from = conn.from
        /\ Len(conn'.stream) = Len(conn.stream) + Len(n)
        /\ \A i \in 1..Len(conn.stream) : conn'.stream[i] = conn.stream[i]
        /\ \A i \in 1..Len(n) : conn'.stream[Len(conn.stream) + i] = n[i]
        /\ \A i \in 1..Len(conn'.stream) :
             \/ i <= Len(conn.stream)
             \/ \E j \in 1..Len(n) : i = Len(conn.stream) + j
    BY <1>2, <1>8 DEF IsSentOn
  <2>2. /\ Len(conn.stream) \in Nat /\ counter \in Nat /\ Len(conn'.stream) \in Nat
        /\ counter' \in Nat
        /\ \A i \in 1..Len(conn'.stream) : conn'.stream[i].id \in Nat
    BY <1>4, StreamTypes, StreamTypesNext DEF StreamTypesOK
  <2>3. \A i \in 1..Len(conn.stream) : conn'.stream[i].id <= counter
    BY <2>1 DEF StreamCoherent
  <2>4. \A i \in 1..Len(n) : conn'.stream[Len(conn.stream) + i].id = counter + i
    BY <1>2, <2>1
  <2>7. ASSUME NEW i \in 1..Len(conn'.stream), NEW j \in 1..Len(conn'.stream), i < j
        PROVE  conn'.stream[i].id < conn'.stream[j].id
    <3>1. CASE j <= Len(conn.stream)
      <4>1. i \in 1..Len(conn.stream) /\ j \in 1..Len(conn.stream)
        BY <2>2, <2>7, <3>1
      <4>2. conn.stream[i].id < conn.stream[j].id
        BY <2>7, <4>1, StreamTypes DEF StreamCoherent, Increasing, StreamTypesOK
      <4>3. QED
        BY <2>1, <4>1, <4>2
    <3>2. CASE ~(j <= Len(conn.stream))
      <4>1. PICK y \in 1..Len(n) : j = Len(conn.stream) + y
        BY <2>1, <3>2
      <4>2. conn'.stream[j].id = counter + y
        BY <2>4, <4>1
      <4>3. CASE i <= Len(conn.stream)
        <5>1. i \in 1..Len(conn.stream)
          BY <2>2, <4>3
        <5>2. conn'.stream[i].id <= counter
          BY <2>3, <5>1
        <5>3. QED
          BY <1>2, <2>2, <2>7, <4>1, <4>2, <5>2
      <4>4. CASE ~(i <= Len(conn.stream))
        <5>1. PICK x \in 1..Len(n) : i = Len(conn.stream) + x
          BY <2>1, <4>4
        <5>2. conn'.stream[i].id = counter + x
          BY <2>4, <5>1
        <5>3. x < y
          BY <1>2, <2>2, <2>7, <4>1, <5>1
        <5>4. QED
          BY <1>2, <2>2, <4>2, <5>2, <5>3
      <4>5. QED
        BY <4>3, <4>4
    <3>3. QED
      BY <3>1, <3>2
  <2>8. ASSUME NEW i \in 1..Len(conn'.stream)
        PROVE  conn'.stream[i].id <= counter'
    <3>1. CASE i <= Len(conn.stream)
      <4>1. conn'.stream[i].id <= counter
        BY <2>2, <2>3, <3>1
      <4>2. QED
        BY <1>2, <1>3, <2>2, <4>1
    <3>2. CASE ~(i <= Len(conn.stream))
      <4>1. PICK x \in 1..Len(n) : i = Len(conn.stream) + x
        BY <2>1, <3>2
      <4>2. conn'.stream[i].id = counter + x
        BY <2>4, <4>1
      <4>3. QED
        BY <1>2, <1>3, <2>2, <4>2
    <3>3. QED
      BY <3>1, <3>2
  <2>5. conn'.from \in 1..Oldest'
    BY <1>5, <1>6, <2>1, StreamTypes DEF StreamCoherent, StreamTypesOK
  <2>6. DOMAIN conn'.stream = 1..Len(conn'.stream)
    BY <1>4, StreamTypesNext DEF StreamTypesOK
  <2>9. QED
    BY <2>1, <2>5, <2>6, <2>7, <2>8 DEF StreamCoherent, Increasing
<1> QED
  BY <1>7, <1>8

LEMMA StreamStep ==
  ASSUME Types, StoreCoherent, StreamCoherent, [Next]_vars
  PROVE  StreamCoherent'
<1>1. CASE UNCHANGED <<buffer, counter, conn, lastId, keepsId, restarted>>
  BY <1>1 DEF StreamCoherent, Increasing, Oldest
<1>2. CASE Restart \/ Drop
  <2>1. conn' = NoConn
    BY <1>2 DEF Restart, Drop
  <2>2. conn'.stream = <<>> /\ ~conn'.open /\ Len(<<>>) = 0 /\ DOMAIN <<>> = {}
    BY <2>1 DEF NoConn
  <2>3. QED
    BY <2>2 DEF StreamCoherent, Increasing
<1>3. CASE Connect
  <2>1. conn' = [open |-> TRUE, from |-> Oldest, stream |-> Replay(lastId)]
          /\ UNCHANGED <<buffer, counter>>
    BY <1>3 DEF Connect
  <2>2. PICK k \in 0..Len(buffer) : IsReplay(Replay(lastId), lastId, k)
    BY ReplayProps, StreamTypes DEF StreamTypesOK
  <2> DEFINE s == Replay(lastId)
  <2>3. /\ s \in Seq(SentType) /\ Len(s) = Len(buffer) - k /\ Len(s) \in Nat
        /\ \A i \in 1..(Len(buffer) - k) : s[i] = buffer[i + k]
        /\ DOMAIN s = 1..Len(s)
    BY <2>2, LenProperties DEF IsReplay
  <2> HIDE DEF s
  <2>4. ASSUME NEW i \in 1..Len(s)
        PROVE  s[i].id = Oldest + (i + k) - 1 /\ s[i].id <= counter
    <3>1. i + k \in 1..Len(buffer) /\ s[i] = buffer[i + k]
      BY <2>3, <2>4, StreamTypes DEF StreamTypesOK
    <3>2. buffer[i + k].id = Oldest + (i + k) - 1 /\ Oldest = counter - Len(buffer) + 1
      BY <3>1, StoreIds DEF StoreIdsOK
    <3>3. QED
      BY <3>1, <3>2, StreamTypes DEF StreamTypesOK
  <2>5. Oldest \in Nat \ {0} /\ Oldest' = Oldest
    BY <2>1, OldestType DEF Oldest
  <2>6. \A i, j \in DOMAIN s : i < j => s[i].id < s[j].id
    BY <2>3, <2>4, <2>5
  <2>7. conn'.stream = s /\ conn'.open /\ conn'.from = Oldest
    BY <2>1 DEF s
  <2>8. QED
    BY <2>1, <2>3, <2>4, <2>5, <2>6, <2>7 DEF StreamCoherent, Increasing
<1>4. CASE Receive
  <2>1. PICK e \in SentType : IsReceived(e)
    BY <1>4, ReceiveEffect
  <2>2. /\ conn'.open = conn.open /\ conn'.from = conn.from /\ conn.stream # <<>>
        /\ Len(conn'.stream) = Len(conn.stream) - 1
        /\ \A i \in 1..Len(conn'.stream) : conn'.stream[i] = conn.stream[i + 1]
        /\ conn'.stream \in Seq(SentType) /\ UNCHANGED <<buffer, counter>>
    BY <2>1 DEF IsReceived, Types
  <2>3. DOMAIN conn'.stream = 1..Len(conn'.stream)
    BY <2>2, LenProperties
  <2>4. \A i \in 1..Len(conn'.stream) : i + 1 \in DOMAIN conn.stream
    BY <2>2, StreamTypes DEF StreamTypesOK
  <2>5. \A i, j \in 1..Len(conn'.stream) : i < j => i + 1 < j + 1
    BY <2>2, StreamTypes DEF StreamTypesOK
  <2>6. Increasing(conn'.stream)
    BY <2>2, <2>3, <2>4, <2>5 DEF Increasing, StreamCoherent
  <2>7. \A i \in 1..Len(conn'.stream) : conn'.stream[i].id <= counter'
    BY <2>2, <2>4, StreamTypes DEF StreamCoherent, StreamTypesOK
  <2>8. Oldest' = Oldest
    BY <2>2 DEF Oldest
  <2>9. QED
    BY <2>2, <2>6, <2>7, <2>8 DEF StreamCoherent
<1>5. CASE Publish
  BY <1>5, StreamPublish
<1> QED
  BY <1>1, <1>2, <1>3, <1>4, <1>5, ConnSteps

\* What is replayed to a client that presents an id of this life is what it has
\* not received: if the store does not hold that id it is older than all it holds.
LEMMA ResumeConnect ==
  ASSUME Types, StoreCoherent, keepsId, lastId <= counter,
         NEW k \in 0..Len(buffer), IsReplay(Replay(lastId), lastId, k)
  PROVE  LET s == Replay(lastId)
         IN  /\ \A i \in 1..Len(s) : s[i].id > lastId
             /\ \A i \in 1..Len(buffer) : buffer[i].id > lastId =>
                  \E j \in 1..Len(s) : s[j] = buffer[i]
<1> DEFINE s == Replay(lastId)
<1>1. /\ Len(buffer) \in Nat /\ counter \in Nat /\ lastId \in Nat /\ Oldest \in Nat \ {0}
      /\ Oldest = counter - Len(buffer) + 1
      /\ \A i \in 1..Len(buffer) : buffer[i].id = Oldest + i - 1
  BY StreamTypes, StoreIds DEF StreamTypesOK, StoreIdsOK
<1>2. /\ Len(s) = Len(buffer) - k /\ \A i \in 1..(Len(buffer) - k) : s[i] = buffer[i + k]
      /\ k > 0 => buffer[k].id = lastId /\ k \in 1..Len(buffer)
      /\ k = 0 => ~Holds(lastId)
  BY DEF IsReplay
<1> HIDE DEF s
<1>3. lastId < Oldest + k
  <2>1. CASE k > 0
    <3>1. lastId = Oldest + k - 1
      BY <1>1, <1>2, <2>1
    <3>2. QED
      BY <1>1, <3>1
  <2>2. CASE k = 0
    <3>1. \A i \in 1..Len(buffer) : buffer[i].id # lastId
      BY <1>2, <2>2, StreamTypes DEF Holds, StreamTypesOK
    <3>2. SUFFICES ASSUME lastId >= Oldest PROVE FALSE
      BY <1>1, <2>2
    <3>3. lastId - Oldest + 1 \in 1..Len(buffer) /\ buffer[lastId - Oldest + 1].id = lastId
      BY <1>1, <3>2, StoreIds DEF StoreIdsOK
    <3>4. QED
      BY <3>1, <3>3
  <2>3. QED
    BY <2>1, <2>2
<1>4. ASSUME NEW i \in 1..Len(s)
      PROVE  s[i].id > lastId
  <2>1. i + k \in 1..Len(buffer) /\ s[i] = buffer[i + k]
    BY <1>1, <1>2
  <2>2. s[i].id = Oldest + (i + k) - 1
    BY <1>1, <2>1
  <2>3. i \in Nat /\ i >= 1
    BY <1>1, <1>2
  <2>4. QED
    BY <1>1, <1>3, <2>2, <2>3
<1>5. ASSUME NEW i \in 1..Len(buffer), buffer[i].id > lastId
      PROVE  \E j \in 1..Len(s) : s[j] = buffer[i]
  <2>1. i > k
    <3>1. CASE k > 0
      <4>1. buffer[i].id = Oldest + i - 1 /\ lastId = Oldest + k - 1
        BY <1>1, <1>2, <3>1
      <4>2. QED
        BY <1>1, <1>5, <4>1
    <3>2. QED
      BY <3>1
  <2>2. i - k \in 1..Len(s) /\ (i - k) + k = i
    BY <1>1, <1>2, <2>1
  <2>3. s[i - k] = buffer[(i - k) + k]
    BY <1>2, <2>2
  <2>4. s[i - k] = buffer[i]
    BY <2>2, <2>3
  <2>5. QED
    BY <2>2, <2>4
<1> QED
  BY <1>4, <1>5 DEF s

LEMMA ResumePublish ==
  ASSUME DeliveryInv, Publish, keepsId, IdsMeanOne
  PROVE  /\ lastId <= counter'
         /\ \A i \in 1..Len(conn'.stream) : conn'.stream[i].id > lastId
         /\ conn'.open => \A i \in 1..Len(buffer') :
              Matches(buffer'[i]) /\ buffer'[i].id > lastId =>
                \E j \in 1..Len(conn'.stream) : conn'.stream[j] = buffer'[i]
<1>1. PICK b \in Batches, n \in Seq(SentType), k \in Nat : IsPublished(b, n, k)
  BY PublishEffect DEF DeliveryInv
<1>2. /\ IsSentOn(n, b) /\ Len(n) \in Nat
      /\ \A i \in 1..Len(n) : n[i].id = counter + i /\ n[i].run = b[1].run
  BY <1>1, SentOn, LenProperties DEF IsPublished, IsSent, DeliveryInv
<1>3. /\ counter' = counter + Len(n) /\ Len(buffer') = Len(buffer) + Len(n) - k
      /\ \A i \in 1..Len(buffer') :
           buffer'[i] = IF i + k <= Len(buffer) THEN buffer[i + k] ELSE n[i + k - Len(buffer)]
  BY <1>1 DEF IsPublished
<1>4. /\ counter \in Nat /\ lastId \in Nat /\ lastId <= counter /\ Len(buffer) \in Nat
      /\ Len(conn.stream) \in Nat
      /\ \A i \in 1..Len(conn.stream) : conn.stream[i].id > lastId
  BY StreamTypes DEF StreamTypesOK, DeliveryInv, ResumeCoherent
<1>5. lastId <= counter'
  BY <1>2, <1>3, <1>4
<1>6. ASSUME NEW i \in 1..Len(n)
      PROVE  n[i].id > lastId
  BY <1>2, <1>4
<1>7. CASE UNCHANGED conn /\ ~(conn.open /\ b[1].run \in Own \cup {NoRun})
  <2>1. ASSUME conn.open, NEW i \in 1..Len(buffer'), Matches(buffer'[i]), buffer'[i].id > lastId
        PROVE  \E j \in 1..Len(conn.stream) : conn.stream[j] = buffer'[i]
    <3>1. i + k <= Len(buffer)
      <4>1. SUFFICES ASSUME ~(i + k <= Len(buffer)) PROVE FALSE
        OBVIOUS
      <4>2. i + k - Len(buffer) \in 1..Len(n) /\ buffer'[i] = n[i + k - Len(buffer)]
        BY <1>1, <1>2, <1>3, <1>4, <2>1, <4>1
      <4>3. buffer'[i].run = b[1].run
        BY <1>2, <4>2
      <4>4. QED
        BY <1>7, <2>1, <4>3 DEF Matches
    <3>2. i + k \in 1..Len(buffer) /\ buffer'[i] = buffer[i + k]
      BY <1>1, <1>2, <1>3, <1>4, <2>1, <3>1
    <3>3. QED
      BY <2>1, <3>2 DEF DeliveryInv, ResumeCoherent
  <2>2. QED
    BY <1>4, <1>5, <1>7, <2>1
<1>8. CASE ~(UNCHANGED conn /\ ~(conn.open /\ b[1].run \in Own \cup {NoRun}))
  <2>1. /\ conn.open /\ conn'.open
        /\ Len(conn'.stream) = Len(conn.stream) + Len(n)
        /\ \A i \in 1..Len(conn.stream) : conn'.stream[i] = conn.stream[i]
        /\ \A i \in 1..Len(n) : conn'.stream[Len(conn.stream) + i] = n[i]
        /\ \A i \in 1..Len(conn'.stream) :
             \/ i <= Len(conn.stream)
             \/ \E j \in 1..Len(n) : i = Len(conn.stream) + j
    BY <1>2, <1>8 DEF IsSentOn
  <2>2. ASSUME NEW i \in 1..Len(conn'.stream)
        PROVE  conn'.stream[i].id > lastId
    <3>1. CASE i <= Len(conn.stream)
      <4>1. i \in 1..Len(conn.stream)
        BY <1>2, <1>4, <2>1, <3>1
      <4>2. QED
        BY <1>4, <2>1, <4>1
    <3>2. CASE ~(i <= Len(conn.stream))
      BY <1>6, <2>1, <3>2
    <3>3. QED
      BY <3>1, <3>2
  <2>3. ASSUME NEW i \in 1..Len(buffer'), Matches(buffer'[i]), buffer'[i].id > lastId
        PROVE  \E j \in 1..Len(conn'.stream) : conn'.stream[j] = buffer'[i]
    <3>1. CASE i + k <= Len(buffer)
      <4>1. i + k \in 1..Len(buffer) /\ buffer'[i] = buffer[i + k]
        BY <1>1, <1>2, <1>3, <1>4, <2>3, <3>1
      <4>2. PICK j \in 1..Len(conn.stream) : conn.stream[j] = buffer[i + k]
        BY <2>1, <2>3, <4>1 DEF DeliveryInv, ResumeCoherent
      <4>3. j \in 1..Len(conn'.stream) /\ conn'.stream[j] = buffer'[i]
        BY <1>2, <1>4, <2>1, <4>1, <4>2
      <4>4. QED
        BY <4>3
    <3>2. CASE ~(i + k <= Len(buffer))
      <4>0. i \in Nat /\ i <= Len(buffer') /\ Len(buffer') \in Int
        BY <1>2, <1>3, <1>4
      <4>1. i + k - Len(buffer) \in 1..Len(n) /\ buffer'[i] = n[i + k - Len(buffer)]
        BY <1>2, <1>3, <1>4, <3>2, <4>0
      <4>2. PICK y \in 1..Len(n) : y = i + k - Len(buffer)
        BY <4>1
      <4>3. Len(conn.stream) + y \in 1..Len(conn'.stream)
              /\ conn'.stream[Len(conn.stream) + y] = n[y]
        <5>1. y \in Nat /\ Len(conn'.stream) \in Nat
          BY <1>2, <1>4, <2>1, <4>2
        <5>2. Len(conn.stream) + y \in 1..Len(conn'.stream)
          <6>1. /\ Len(conn'.stream) = Len(conn.stream) + Len(n) /\ Len(n) \in Nat
                /\ Len(conn.stream) \in Nat /\ y \in 1..Len(n)
            BY <1>2, <1>4, <2>1, <4>2
          <6>2. QED
            BY <5>1, <6>1
        <5>3. conn'.stream[Len(conn.stream) + y] = n[y]
          BY <2>1, <4>2
        <5>4. QED
          BY <5>2, <5>3
      <4>4. QED
        BY <4>1, <4>2, <4>3
    <3>3. QED
      BY <3>1, <3>2
  <2>4. QED
    BY <1>5, <2>2, <2>3
<1> QED
  BY <1>7, <1>8

LEMMA ResumeReceive ==
  ASSUME DeliveryInv, Receive, keepsId, IdsMeanOne
  PROVE  /\ lastId' <= counter
         /\ \A i \in 1..Len(conn'.stream) : conn'.stream[i].id > lastId'
         /\ conn'.open => \A i \in 1..Len(buffer) :
              Matches(buffer[i]) /\ buffer[i].id > lastId' =>
                \E j \in 1..Len(conn'.stream) : conn'.stream[j] = buffer[i]
<1>1. PICK e \in SentType : IsReceived(e)
  BY ReceiveEffect DEF DeliveryInv
<1>2. /\ conn'.open = conn.open /\ Len(conn.stream) >= 1 /\ e = conn.stream[1]
      /\ Len(conn'.stream) = Len(conn.stream) - 1 /\ lastId' = e.id
      /\ \A i \in 1..Len(conn'.stream) : conn'.stream[i] = conn.stream[i + 1]
  BY <1>1 DEF IsReceived, DeliveryInv, Types
<1>3. /\ Len(conn.stream) \in Nat /\ lastId \in Nat /\ counter \in Nat
      /\ \A i \in 1..Len(conn.stream) : conn.stream[i].id \in Nat /\ conn.stream[i].id <= counter
      /\ \A i \in 1..Len(buffer) : buffer[i].id \in Nat
      /\ \A i, j \in 1..Len(conn.stream) : i < j => conn.stream[i].id < conn.stream[j].id
      /\ \A i \in 1..Len(conn.stream) : conn.stream[i].id > lastId
  BY StreamTypes DEF StreamTypesOK, DeliveryInv, StreamCoherent, Increasing, ResumeCoherent
<1>4. 1 \in 1..Len(conn.stream)
  BY <1>2, <1>3
<1>5. lastId' <= counter /\ lastId' > lastId
  BY <1>2, <1>3, <1>4
<1>6. ASSUME NEW i \in 1..Len(conn'.stream)
      PROVE  conn'.stream[i].id > lastId'
  <2>1. i + 1 \in 1..Len(conn.stream) /\ 1 < i + 1
    BY <1>2, <1>3
  <2>2. conn.stream[1].id < conn.stream[i + 1].id
    BY <1>3, <1>4, <2>1
  <2>3. conn.stream[1].id \in Nat /\ conn.stream[i + 1].id \in Nat
    BY <1>3, <1>4, <2>1
  <2>4. QED
    BY <1>2, <2>2, <2>3
<1>7. ASSUME conn.open, NEW i \in 1..Len(buffer), Matches(buffer[i]), buffer[i].id > lastId'
      PROVE  \E j \in 1..Len(conn'.stream) : conn'.stream[j] = buffer[i]
  <2>0. buffer[i].id \in Nat /\ lastId' \in Nat
    BY <1>2, <1>3, <1>4
  <2>1. buffer[i].id > lastId
    BY <1>3, <1>5, <1>7, <2>0
  <2>2. PICK j \in 1..Len(conn.stream) : conn.stream[j] = buffer[i]
    BY <1>7, <2>1 DEF DeliveryInv, ResumeCoherent
  <2>3. j # 1
    BY <1>2, <1>7, <2>0, <2>2
  <2>4. j - 1 \in 1..Len(conn'.stream) /\ (j - 1) + 1 = j
    BY <1>2, <1>3, <2>2, <2>3
  <2>5. conn'.stream[j - 1] = conn.stream[j]
    BY <1>2, <2>4
  <2>6. QED
    BY <2>2, <2>4, <2>5
<1> QED
  BY <1>2, <1>5, <1>6, <1>7

LEMMA ResumeStep ==
  ASSUME DeliveryInv, [Next]_vars
  PROVE  ResumeCoherent'
<1>1. CASE UNCHANGED <<buffer, counter, conn, lastId, keepsId, restarted>>
  <2>1. \A i \in 1..Len(buffer) : Matches(buffer'[i]) = Matches(buffer[i])
    BY <1>1
  <2>2. QED
    BY <1>1, <2>1 DEF DeliveryInv, ResumeCoherent, IdsMeanOne, Matches
<1>2. CASE Publish
  <2>1. UNCHANGED <<lastId, keepsId, restarted>>
    BY <1>2 DEF Publish
  <2>2. QED
    BY <1>2, <2>1, ResumePublish DEF DeliveryInv, ResumeCoherent, IdsMeanOne, Matches
<1>3. CASE Restart
  BY <1>3 DEF Restart, DeliveryInv, ResumeCoherent, IdsMeanOne
<1>4. CASE Drop
  <2>1. conn' = NoConn /\ UNCHANGED <<buffer, counter, lastId, keepsId, restarted>>
    BY <1>4 DEF Drop
  <2>2. conn'.stream = <<>> /\ ~conn'.open /\ Len(<<>>) = 0
    BY <2>1 DEF NoConn
  <2>3. QED
    BY <2>1, <2>2 DEF DeliveryInv, ResumeCoherent, IdsMeanOne
<1>5. CASE Connect
  <2>1. /\ conn' = [open |-> TRUE, from |-> Oldest, stream |-> Replay(lastId)]
        /\ UNCHANGED <<buffer, counter, lastId, keepsId, restarted>>
    BY <1>5 DEF Connect
  <2>2. conn'.stream = Replay(lastId)
    BY <2>1
  <2>3. PICK k \in 0..Len(buffer) : IsReplay(Replay(lastId), lastId, k)
    BY ReplayProps, StreamTypes DEF StreamTypesOK, DeliveryInv
  <2>4. QED
    BY <2>1, <2>2, <2>3, ResumeConnect DEF DeliveryInv, ResumeCoherent, IdsMeanOne, Matches
<1>6. CASE Receive
  <2>1. PICK e \in SentType : IsReceived(e)
    BY <1>6, ReceiveEffect DEF DeliveryInv
  <2>2. UNCHANGED <<buffer, counter, keepsId, restarted>> /\ (~keepsId => lastId' = lastId)
    BY <2>1 DEF IsReceived
  <2>3. QED
    BY <1>6, <2>2, ResumeReceive DEF DeliveryInv, ResumeCoherent, IdsMeanOne, Matches
<1> QED
  BY <1>1, <1>2, <1>3, <1>4, <1>5, <1>6, ConnSteps DEF DeliveryInv

LEMMA DeliveryInit == Init => DeliveryInv
<1> SUFFICES ASSUME Init PROVE DeliveryInv
  OBVIOUS
<1>1. Types
  BY TypesInit
<1>2. /\ buffer = <<>> /\ counter = 0 /\ conn.stream = <<>> /\ ~conn.open /\ lastId = 0
      /\ Len(<<>>) = 0 /\ DOMAIN <<>> = {} /\ Capacity \in Nat
  BY EventStreamAssumption DEF Init, NoConn
<1>3. StoreCoherent
  BY <1>2 DEF StoreCoherent
<1>4. StreamCoherent
  BY <1>2 DEF StreamCoherent, Increasing
<1>5. ResumeCoherent
  BY <1>2 DEF ResumeCoherent
<1> QED
  BY <1>1, <1>3, <1>4, <1>5 DEF DeliveryInv

LEMMA DeliveryStep ==
  ASSUME DeliveryInv, [Next]_vars
  PROVE  DeliveryInv'
BY TypesStep, StoreStep, StreamStep, ResumeStep DEF DeliveryInv

LEMMA DeliveryAlways == Spec => []DeliveryInv
<1>1. DeliveryInv /\ [Next]_vars => DeliveryInv'
  BY DeliveryStep
<1> QED
  BY <1>1, DeliveryInit, PTL DEF Spec

\* The shape of the state; the store keeps at most Capacity events, and they are
\* the last ones, numbered without a gap (store.py).
THEOREM TypeCorrect == Spec => []TypeOK
<1>1. DeliveryInv => TypeOK
  <2> SUFFICES ASSUME DeliveryInv PROVE TypeOK
    OBVIOUS
  <2>1. \A i \in DOMAIN outbox : \A j \in DOMAIN outbox[i] : EventOK(outbox[i][j])
    <3> SUFFICES ASSUME NEW i \in DOMAIN outbox, NEW j \in DOMAIN outbox[i]
                 PROVE  EventOK(outbox[i][j])
      OBVIOUS
    <3>1. outbox \in Seq(Batches) /\ DOMAIN outbox = 1..Len(outbox)
      BY LenProperties DEF DeliveryInv, Types
    <3>2. outbox[i] \in Seq(MessageType)
      BY <3>1, ElementOfSeq DEF Batches
    <3>3. outbox[i][j] \in MessageType
      BY <3>2, LenProperties, ElementOfSeq
    <3>4. QED
      BY <3>3 DEF MessageType, EventOK, Kinds
  <2>2. \A i \in DOMAIN buffer : EventOK(buffer[i]) /\ buffer[i].id = counter - Len(buffer) + i
    <3>1. \A e \in SentType : EventOK(e)
      BY DEF SentType, EventOK, Kinds
    <3>2. QED
      BY <3>1, StreamTypes DEF StreamTypesOK, DeliveryInv, StoreCoherent
  <2>3. \A r \in Runs : run[r].status \in Statuses /\ run[r].ver \in Nat
                        /\ shown[r].ver \in Nat /\ mark[r] \in Nat
    BY DEF DeliveryInv, Types, RecordType, ViewType
  <2>4. QED
    BY <2>1, <2>2, <2>3 DEF DeliveryInv, Types, StoreCoherent, TypeOK
<1> QED
  BY <1>1, DeliveryAlways, PTL

\* A client that presents its last id is sent every event of its session that
\* the store still holds and that it has not received, once and in order: if the
\* store no longer holds that id, everything it holds is newer (store.py, replay).
THEOREM ReconnectsExactly == Spec => []ResumesExactly
<1>1. DeliveryInv => ResumesExactly
  <2> SUFFICES ASSUME DeliveryInv, keepsId, IdsMeanOne, conn.open
               PROVE  /\ Increasing(conn.stream)
                      /\ \A e \in ToSet(conn.stream) : e.id > lastId
                      /\ \A e \in ToSet(buffer) :
                           Matches(e) /\ e.id > lastId => e \in ToSet(conn.stream)
    BY DEF ResumesExactly
  <2>1. /\ ToSet(conn.stream) = {conn.stream[i] : i \in 1..Len(conn.stream)}
        /\ ToSet(buffer) = {buffer[i] : i \in 1..Len(buffer)}
    BY StreamTypes DEF StreamTypesOK, DeliveryInv, ToSet
  <2>2. QED
    BY <2>1 DEF DeliveryInv, StreamCoherent, ResumeCoherent
<1> QED
  BY <1>1, DeliveryAlways, PTL

-----------------------------------------------------------------------------
(* What the dashboard shows.                                                *)

\* Changes of a run still to be published are in order, and the last one
\* carries what the record is now.
OutboxCoherent ==
  \A i \in 1..Len(outbox) : \A r \in Runs : About(outbox[i], r) =>
    /\ outbox[i][1].ver <= run[r].ver
    /\ \A j \in 1..Len(outbox) :
         i < j /\ About(outbox[j], r) => outbox[i][1].ver < outbox[j][1].ver
    /\ (\A j \in 1..Len(outbox) : i < j => ~About(outbox[j], r))
         => outbox[i][1].ver = run[r].ver
    /\ (\A j \in 1..Len(outbox) :
          i < j => ~(About(outbox[j], r) /\ Carries(outbox[j])))
         => outbox[i][1].status = run[r].status

Quiet(r) == \A i \in 1..Len(outbox) : ~About(outbox[i], r)

RecordQuiet(r) == \A i \in 1..Len(outbox) : ~(About(outbox[i], r) /\ Carries(outbox[i]))

Given(e) == \/ \E i \in 1..Len(buffer) : buffer[i] = e
            \/ \E i \in 1..Len(conn.stream) : conn.stream[i] = e

Bounds(r) ==
  /\ news[r].run <= news[r].node
  /\ news[r].node + (IF news[r].chunk THEN 1 ELSE 0) <= counter

\* The events named by the newest of a run, and those after them.
NewsOf(e, r) ==
  /\ e.id = news[r].run =>
       e.run = r /\ e.kind = "snapshot" /\ (RecordQuiet(r) => e.status = run[r].status)
  /\ e.id = news[r].node =>
       e.run = r /\ e.kind = (IF news[r].chunk THEN "result" ELSE "snapshot")
       /\ (Quiet(r) => e.ver = run[r].ver)
  /\ news[r].chunk /\ e.id = news[r].node + 1 =>
       e.run = r /\ e.kind = "chunk" /\ (Quiet(r) => e.ver = run[r].ver)
  /\ e.run = r /\ e.id > news[r].run => e.kind \in {"result", "chunk"}
  /\ e.run = r /\ e.id > news[r].node => news[r].chunk /\ e.id = news[r].node + 1

NewsFor(r) == Bounds(r) /\ \A e \in SentType : Given(e) => NewsOf(e, r)

NewsCoherent == \A r \in Runs : NewsFor(r)

\* An event of this life is owed to the client: it is on its way, or will be
\* when the client connects.
Held(n) == n >= IF conn.open THEN conn.from ELSE Oldest

Owed(n) == IF conn.open THEN \E i \in 1..Len(conn.stream) : conn.stream[i].id = n
           ELSE keepsId => n > lastId

Got(n) == Held(n) /\ ~Owed(n)

Points(r) == {news[r].run, news[r].node}
             \cup IF news[r].chunk THEN {news[r].node + 1} ELSE {}

\* What was got is not overtaken by what is still on its way.
Covered ==
  \A r \in Own : \A n \in Points(r) : conn.open /\ Got(n) =>
    \A i \in 1..Len(conn.stream) : conn.stream[i].id > n

StatusKnown(r) == Got(news[r].run) /\ RecordQuiet(r) => shown[r].status = run[r].status

NodeKnown(r) ==
  Got(news[r].node) /\ Quiet(r) /\ HasNodes(shown[r]) =>
    /\ shown[r].ver = run[r].ver
    /\ \/ shown[r].log = <<>>
       \/ news[r].chunk /\ Got(news[r].node + 1) /\ shown[r].log = <<run[r].ver>>

Newer(r, n) ==
  /\ ~Got(n)
  /\ \A e \in SentType : Given(e) /\ e.id = n => e.ver > answer[r].ver
  /\ \A i \in 1..Len(outbox) : About(outbox[i], r) => outbox[i][1].ver > answer[r].ver

\* An answer that nothing newer has come before is right when it arrives, or
\* what makes it wrong is still to come.
AnswerTruthful(r) ==
  /\ answer[r].kind = "get" => answer[r].ver <= run[r].ver
  /\ answer[r].kind = "get" /\ ~answer[r].over =>
       /\ \/ answer[r].status = run[r].status
          \/ Newer(r, news[r].run)
          \/ \E i \in 1..Len(outbox) : /\ About(outbox[i], r) /\ Carries(outbox[i])
                                      /\ outbox[i][1].ver > answer[r].ver
       /\ \/ answer[r].ver = run[r].ver
          \/ Newer(r, news[r].node)
          \/ \E i \in 1..Len(outbox) : About(outbox[i], r) /\ outbox[i][1].ver > answer[r].ver
  /\ answer[r].kind = "start" /\ ~answer[r].over => ~Got(news[r].run)
  /\ answer[r].kind = "cancel" => run[r].status = "cancelled"

NoLogAlone(r) == ~HasNodes(shown[r]) => shown[r].log = <<>>

ViewFor(r) == StatusKnown(r) /\ NodeKnown(r) /\ AnswerTruthful(r)

\* Nothing was said of a run that was not started.
Unstarted(r) == run[r].status = "none" => news[r].run = 0 /\ Quiet(r)

ShownFor(r) == NoLogAlone(r) /\ Unstarted(r) /\ (IdsMeanOne => ViewFor(r))

TruthInv ==
  /\ DeliveryInv /\ OutboxCoherent /\ NewsCoherent
  /\ IdsMeanOne => Covered
  /\ \A r \in Own : ShownFor(r)

-----------------------------------------------------------------------------
(* What the client has got.                                                 *)

\* The step gives the client nothing new.
GotKept(n) == Got(n)' => Got(n)

LEMMA GotNone ==
  ASSUME DeliveryInv
  PROVE  ~Got(0)
<1>1. Oldest \in Nat \ {0} /\ (conn.open => conn.from \in 1..Oldest) /\ conn.from \in Nat
  BY OldestType DEF DeliveryInv, StreamCoherent, Types
<1> QED
  BY <1>1 DEF Got, Held

LEMMA GotPublish ==
  ASSUME DeliveryInv, Publish, NEW n \in 0..counter
  PROVE  /\ GotKept(n)
         /\ Got(n) /\ Held(n)' => Got(n)'
<1>1. PICK b \in Batches, m \in Seq(SentType), k \in Nat : IsPublished(b, m, k)
  BY PublishEffect DEF DeliveryInv
<1>2. /\ IsSentOn(m, b) /\ Len(m) \in Nat
      /\ \A i \in 1..Len(m) : m[i].id = counter + i
      /\ UNCHANGED <<lastId, keepsId>>
  BY <1>1, SentOn, LenProperties DEF IsPublished, IsSent, DeliveryInv, Publish
<1>3. counter \in Nat /\ Len(conn.stream) \in Nat /\ Len(buffer) \in Nat /\ n \in Nat
  BY StreamTypes DEF StreamTypesOK, DeliveryInv
<1>4. CASE ~conn.open
  <2>1. ~conn'.open /\ (Owed(n)' <=> Owed(n))
    BY <1>2, <1>4 DEF Owed, IsSentOn
  <2>2. Held(n)' => Held(n)
    <3>1. Oldest = counter - Len(buffer) + 1
      BY StoreIds DEF StoreIdsOK, DeliveryInv
    <3>2. Oldest' = counter' - Len(buffer') + 1
      <4>1. DeliveryInv'
        BY DeliveryStep DEF Next, Scheduler
      <4>2. QED
        BY <4>1, StoreIdsNext DEF StoreIdsOK, DeliveryInv
    <3>3. counter' = counter + Len(m) /\ Len(buffer') = Len(buffer) + Len(m) - k
      BY <1>1 DEF IsPublished
    <3>4. Oldest' = Oldest + k
      BY <1>2, <1>3, <3>1, <3>2, <3>3
    <3>5. Oldest \in Nat
      BY OldestType DEF DeliveryInv
    <3>6. QED
      BY <1>3, <1>4, <2>1, <3>4, <3>5 DEF Held
  <2>3. QED
    BY <2>1, <2>2 DEF Got, GotKept
<1>5. CASE conn.open
  <2>1. conn'.open /\ conn'.from = conn.from
    BY <1>2, <1>5 DEF IsSentOn
  <2>2. Owed(n) => Owed(n)'
    <3> SUFFICES ASSUME NEW i \in 1..Len(conn.stream), conn.stream[i].id = n
                 PROVE  \E j \in 1..Len(conn'.stream) : conn'.stream[j].id = n
      BY <1>5, <2>1 DEF Owed
    <3>1. i \in 1..Len(conn'.stream) /\ conn'.stream[i] = conn.stream[i]
      BY <1>2, <1>3 DEF IsSentOn
    <3>2. QED
      BY <3>1
  <2>3. Owed(n)' => Owed(n)
    <3> SUFFICES ASSUME NEW i \in 1..Len(conn'.stream), conn'.stream[i].id = n
                 PROVE  \E j \in 1..Len(conn.stream) : conn.stream[j].id = n
      BY <1>5, <2>1 DEF Owed
    <3>1. CASE i \in 1..Len(conn.stream)
      BY <1>2, <3>1 DEF IsSentOn
    <3>2. CASE i \notin 1..Len(conn.stream)
      <4>1. PICK j \in 1..Len(m) : conn'.stream[i] = m[j]
        <5>1. Len(conn'.stream) \in Nat
          BY <2>1, <1>2, <1>3 DEF IsSentOn
        <5>2. i \in Nat /\ i >= 1 /\ ~(i <= Len(conn.stream))
          BY <1>3, <3>2, <5>1
        <5>3. i <= Len(conn'.stream) /\ conn' # conn
          BY <5>1, <5>2
        <5>4. QED
          BY <1>2, <5>2, <5>3 DEF IsSentOn
      <4>2. m[j].id = counter + j /\ j \in Nat /\ j >= 1
        BY <1>2, <4>1
      <4>3. QED
        BY <1>3, <4>1, <4>2
    <3>3. QED
      BY <3>1, <3>2
  <2>4. Held(n)' <=> Held(n)
    BY <1>5, <2>1 DEF Held
  <2>5. QED
    BY <2>2, <2>3, <2>4 DEF Got, GotKept
<1> QED
  BY <1>4, <1>5

\* Every event of the store that the client does not have is replayed.
LEMMA ReplaySends ==
  ASSUME DeliveryInv, IdsMeanOne
  PROVE  LET s == Replay(lastId)
         IN  /\ s \in Seq(SentType) /\ Len(s) \in Nat
             /\ \A i \in 1..Len(s) : (keepsId => s[i].id > lastId)
                                     /\ \E j \in 1..Len(buffer) : s[i] = buffer[j]
             /\ \A i \in 1..Len(buffer) : (keepsId => buffer[i].id > lastId) =>
                  \E j \in 1..Len(s) : s[j] = buffer[i]
<1> DEFINE s == Replay(lastId)
<1>1. PICK k \in 0..Len(buffer) : IsReplay(s, lastId, k)
  BY ReplayProps, StreamTypes DEF StreamTypesOK, DeliveryInv
<1>2. /\ s \in Seq(SentType) /\ Len(s) = Len(buffer) - k /\ Len(buffer) \in Nat
      /\ \A i \in 1..(Len(buffer) - k) : s[i] = buffer[i + k]
      /\ k > 0 => buffer[k].id = lastId
      /\ lastId \in Nat /\ \A i \in 1..Len(buffer) : buffer[i].id \in Nat \ {0}
  BY <1>1, StreamTypes DEF IsReplay, StreamTypesOK, DeliveryInv
<1>3. CASE keepsId
  BY <1>1, <1>2, <1>3, ResumeConnect DEF DeliveryInv, ResumeCoherent
<1>4. CASE ~keepsId
  <2>1. lastId = 0
    BY <1>4 DEF DeliveryInv, ResumeCoherent
  <2>2. k = 0
    BY <1>2, <2>1
  <2>3. Len(s) = Len(buffer) /\ \A i \in 1..Len(buffer) : s[i] = buffer[i]
    BY <1>2, <2>2
  <2>4. QED
    BY <1>2, <1>4, <2>3
<1>5. ASSUME NEW i \in 1..Len(s)
      PROVE  \E j \in 1..Len(buffer) : s[i] = buffer[j]
  <2>1. i + k \in 1..Len(buffer) /\ s[i] = buffer[i + k]
    BY <1>2
  <2>2. QED
    BY <2>1
<1> QED
  BY <1>2, <1>3, <1>4, <1>5

LEMMA GotConnect ==
  ASSUME DeliveryInv, IdsMeanOne, Connect, NEW n \in 0..counter
  PROVE  /\ Got(n)' <=> Got(n)
         /\ Got(n) => \A i \in 1..Len(conn'.stream) : conn'.stream[i].id > n
<1> DEFINE s == Replay(lastId)
<1>1. /\ conn' = [open |-> TRUE, from |-> Oldest, stream |-> s] /\ ~conn.open
      /\ UNCHANGED <<buffer, counter, lastId, keepsId>>
  BY DEF Connect, CanConnect
<1>2. conn'.open /\ conn'.from = Oldest /\ conn'.stream = s
  BY <1>1
<1>3. /\ s \in Seq(SentType) /\ Len(s) \in Nat
      /\ \A i \in 1..Len(s) : (keepsId => s[i].id > lastId)
                              /\ \E j \in 1..Len(buffer) : s[i] = buffer[j]
      /\ \A i \in 1..Len(buffer) : (keepsId => buffer[i].id > lastId) =>
           \E j \in 1..Len(s) : s[j] = buffer[i]
  BY ReplaySends
<1>4. /\ lastId \in Nat /\ counter \in Nat /\ n \in Nat /\ Oldest \in Nat
      /\ \A i \in 1..Len(buffer) : buffer[i].id \in Nat
  BY StreamTypes, OldestType DEF StreamTypesOK, DeliveryInv
<1> HIDE DEF s
<1>5. Held(n)' <=> Held(n)
  BY <1>1, <1>2 DEF Held
<1>6. ASSUME Held(n), ~Owed(n)
      PROVE  keepsId /\ n <= lastId /\ \A i \in 1..Len(s) : s[i].id > n
  <2>1. keepsId /\ n <= lastId
    BY <1>1, <1>4, <1>6 DEF Owed
  <2>2. ASSUME NEW i \in 1..Len(s) PROVE s[i].id > n
    <3>1. s[i].id \in Nat /\ s[i].id > lastId
      BY <1>3, <1>4, <2>1
    <3>2. QED
      BY <1>4, <2>1, <3>1
  <2>3. QED
    BY <2>1, <2>2
<1>7. ASSUME Held(n), Owed(n)
      PROVE  \E i \in 1..Len(s) : s[i].id = n
  <2>1. keepsId => n > lastId
    BY <1>1, <1>7 DEF Owed
  <2>2. n >= Oldest /\ n <= counter
    BY <1>1, <1>7 DEF Held
  <2>3. PICK i \in 1..Len(buffer) : buffer[i].id = n
    BY <1>4, <2>2, StoreIds DEF StoreIdsOK, DeliveryInv
  <2>4. QED
    BY <1>3, <2>1, <2>3
<1>8. Owed(n)' <=> \E i \in 1..Len(s) : s[i].id = n
  BY <1>2 DEF Owed
<1>9. ASSUME \A i \in 1..Len(s) : s[i].id > n, \E i \in 1..Len(s) : s[i].id = n
      PROVE  FALSE
  BY <1>4, <1>9
<1> QED
  BY <1>2, <1>5, <1>6, <1>7, <1>8, <1>9 DEF Got

LEMMA GotDrop ==
  ASSUME DeliveryInv, IdsMeanOne, Drop, NEW n \in 0..counter
  PROVE  /\ GotKept(n)
         /\ Got(n) /\ keepsId /\ n >= Oldest
            /\ (\A i \in 1..Len(buffer) : buffer[i].id = n => Matches(buffer[i])) => Got(n)'
<1>1. /\ conn' = [open |-> FALSE, stream |-> <<>>, from |-> 0] /\ conn.open
      /\ UNCHANGED <<buffer, counter, lastId, keepsId>>
  BY DEF Drop, NoConn
<1>2. /\ ~conn'.open /\ Oldest' = Oldest
  BY <1>1 DEF Oldest
<1>3. /\ lastId \in Nat /\ counter \in Nat /\ n \in Nat /\ Oldest \in Nat /\ conn.from \in Nat
      /\ \A i \in 1..Len(conn.stream) : conn.stream[i].id \in Nat
      /\ conn.from <= Oldest
  BY <1>1, StreamTypes, OldestType DEF StreamTypesOK, DeliveryInv, StreamCoherent
<1>4. /\ Held(n)' <=> n >= Oldest
      /\ Owed(n)' <=> (keepsId => n > lastId)
      /\ Held(n) <=> n >= conn.from
      /\ Owed(n) <=> \E i \in 1..Len(conn.stream) : conn.stream[i].id = n
  BY <1>1, <1>2 DEF Held, Owed
<1>5. ASSUME keepsId
      PROVE  /\ \A i \in 1..Len(conn.stream) : conn.stream[i].id > lastId
             /\ \A i \in 1..Len(buffer) : Matches(buffer[i]) /\ buffer[i].id > lastId =>
                  \E j \in 1..Len(conn.stream) : conn.stream[j] = buffer[i]
  BY <1>1, <1>5 DEF DeliveryInv, ResumeCoherent
<1>6. GotKept(n)
  <2>1. ASSUME n >= Oldest, keepsId, ~(n > lastId), NEW i \in 1..Len(conn.stream),
               conn.stream[i].id = n
        PROVE  FALSE
    BY <1>5, <2>1
  <2>2. n >= Oldest => n >= conn.from
    BY <1>3
  <2>3. QED
    BY <1>4, <2>1, <2>2 DEF Got, GotKept
<1>7. ASSUME Got(n), keepsId, n >= Oldest,
             \A i \in 1..Len(buffer) : buffer[i].id = n => Matches(buffer[i])
      PROVE  Got(n)'
  <2>1. PICK i \in 1..Len(buffer) : buffer[i].id = n
    <3>1. n \in Nat /\ n >= Oldest /\ n <= counter
      BY <1>3, <1>7
    <3>2. QED
      BY <3>1, StoreIds DEF StoreIdsOK, DeliveryInv
  <2>2. ~(n > lastId)
    BY <1>4, <1>5, <1>7, <2>1 DEF Got
  <2>3. QED
    BY <1>4, <1>7, <2>2 DEF Got
<1> QED
  BY <1>6, <1>7

LEMMA GotReceive ==
  ASSUME DeliveryInv, NEW e, IsReceived(e), NEW n \in 0..counter
  PROVE  /\ conn.open /\ conn'.open
         /\ Got(n) => Got(n)'
         /\ Got(n)' => Got(n) \/ n = e.id
         /\ e.id >= conn.from => Got(e.id)'
         /\ \A i \in 1..Len(conn'.stream) : conn'.stream[i].id > e.id
         /\ Owed(e.id)
<1>1. /\ conn'.open = conn.open /\ conn'.from = conn.from /\ e = conn.stream[1]
      /\ conn.stream # <<>> /\ Len(conn.stream) >= 1
      /\ Len(conn'.stream) = Len(conn.stream) - 1
      /\ \A i \in 1..Len(conn'.stream) : conn'.stream[i] = conn.stream[i + 1]
      /\ UNCHANGED buffer
  BY DEF IsReceived, DeliveryInv, Types
<1>2. conn.open
  BY <1>1 DEF DeliveryInv, StreamCoherent
<1>3. /\ Len(conn.stream) \in Nat /\ n \in Nat /\ Len(conn'.stream) \in Nat
      /\ \A i \in 1..Len(conn.stream) : conn.stream[i].id \in Nat
      /\ \A i, j \in 1..Len(conn.stream) : i < j => conn.stream[i].id < conn.stream[j].id
  <2>1. /\ Len(conn.stream) \in Nat /\ counter \in Nat
        /\ \A i \in 1..Len(conn.stream) : conn.stream[i].id \in Nat
        /\ \A i, j \in 1..Len(conn.stream) : i < j => conn.stream[i].id < conn.stream[j].id
    BY StreamTypes DEF StreamTypesOK, DeliveryInv, StreamCoherent, Increasing
  <2>2. Len(conn'.stream) \in Nat
    BY <1>1, <2>1
  <2>3. n \in Nat
    BY <2>1
  <2>4. QED
    BY <2>1, <2>2, <2>3
<1>4. ASSUME NEW i \in 1..Len(conn'.stream)
      PROVE  conn'.stream[i].id > e.id
  <2>1. i + 1 \in 1..Len(conn.stream) /\ 1 \in 1..Len(conn.stream) /\ 1 < i + 1
    BY <1>1, <1>3
  <2>2. conn.stream[1].id < conn.stream[i + 1].id /\ conn.stream[1].id \in Nat
          /\ conn.stream[i + 1].id \in Nat
    BY <1>3, <2>1
  <2>3. QED
    BY <1>1, <2>2
<1>5. /\ \A x : Held(x)' <=> x >= conn.from
      /\ \A x : Held(x) <=> x >= conn.from
      /\ \A x : Owed(x)' <=> \E i \in 1..Len(conn'.stream) : conn'.stream[i].id = x
      /\ \A x : Owed(x) <=> \E i \in 1..Len(conn.stream) : conn.stream[i].id = x
  BY <1>1, <1>2 DEF Held, Owed
<1>6. ASSUME NEW i \in 1..Len(conn'.stream), conn'.stream[i].id = n
      PROVE  \E j \in 1..Len(conn.stream) : conn.stream[j].id = n
  <2>1. i + 1 \in 1..Len(conn.stream) /\ conn.stream[i + 1].id = n
    BY <1>1, <1>3, <1>6
  <2>2. QED
    BY <2>1
<1>7. ASSUME NEW i \in 1..Len(conn.stream), conn.stream[i].id = n, n # e.id
      PROVE  \E j \in 1..Len(conn'.stream) : conn'.stream[j].id = n
  <2>1. i # 1
    BY <1>1, <1>7
  <2>2. i - 1 \in 1..Len(conn'.stream) /\ (i - 1) + 1 = i
    BY <1>1, <1>3, <1>7, <2>1
  <2>3. conn'.stream[i - 1] = conn.stream[i]
    BY <1>1, <2>2
  <2>4. QED
    BY <1>7, <2>2, <2>3
<1>8. Owed(e.id) /\ ~Owed(e.id)'
  <2>1. 1 \in 1..Len(conn.stream) /\ e.id \in Nat
    BY <1>1, <1>3
  <2>2. ASSUME NEW i \in 1..Len(conn'.stream), conn'.stream[i].id = e.id
        PROVE  FALSE
    BY <1>4, <2>1, <2>2
  <2>3. QED
    BY <1>1, <1>5, <2>1, <2>2
<1> QED
  BY <1>1, <1>2, <1>4, <1>5, <1>6, <1>7, <1>8 DEF Got

-----------------------------------------------------------------------------
(* The outbox.                                                              *)

OutboxTypesOK ==
  /\ Len(outbox) \in Nat
  /\ \A i \in 1..Len(outbox) :
       outbox[i] \in Batches /\ outbox[i][1].ver \in Nat /\ outbox[i][1] \in MessageType
  /\ \A r \in Runs : run[r].ver \in Nat /\ run[r] \in RecordType

LEMMA BatchHead ==
  ASSUME NEW b \in Batches
  PROVE  /\ Len(b) \in 1..3 /\ b[1] \in MessageType /\ b[1].ver \in Nat
         /\ b[1].run \in Runs \cup {NoRun}
<1>1. b \in Seq(MessageType) /\ Len(b) \in 1..3
  BY DEF Batches
<1>2. 1 \in 1..Len(b)
  <2>1. \A n \in 1..3 : 1 \in 1..n
    OBVIOUS
  <2>2. QED
    BY <1>1, <2>1, Zenon
<1>3. b[1] \in MessageType
  BY <1>1, <1>2, ElementOfSeq
<1> QED
  BY <1>1, <1>3 DEF MessageType

LEMMA OutboxTypes == Types => OutboxTypesOK
<1>1. ASSUME Types, NEW i \in 1..Len(outbox)
      PROVE  outbox[i] \in Batches
  BY <1>1, ElementOfSeq DEF Types
<1> QED
  BY <1>1, LenProperties, BatchHead DEF Types, RecordType, OutboxTypesOK

\* The four things that happen to the outbox.
IsAppended(b) ==
  /\ Len(outbox') = Len(outbox) + 1 /\ outbox'[Len(outbox) + 1] = b
  /\ \A i \in 1..Len(outbox) : outbox'[i] = outbox[i]

IsTaken(b) ==
  /\ Len(outbox) >= 1 /\ Len(outbox') = Len(outbox) - 1 /\ outbox[1] = b
  /\ \A i \in 1..Len(outbox') : outbox'[i] = outbox[i + 1]

LEMMA OutboxTaken ==
  ASSUME Types, NEW b, NEW n, NEW k, IsPublished(b, n, k)
  PROVE  IsTaken(b)
<1>1. outbox \in Seq(Batches) /\ outbox # <<>>
  BY DEF Types, IsPublished
<1>2. Len(outbox) \in Nat \ {0}
  BY <1>1, TakenFromOutbox
<1> QED
  BY <1>2 DEF IsPublished, IsTaken

LEMMA OutboxAppended ==
  ASSUME Types, NEW b \in Batches, outbox' = Append(outbox, b)
  PROVE  IsAppended(b)
BY AppendToOutbox DEF Types, IsAppended

\* The changes of a run still to be published stay the same.
SameOutbox(r) ==
  /\ \A i \in 1..Len(outbox) : About(outbox[i], r) =>
       \E j \in 1..Len(outbox') : outbox'[j] = outbox[i]
  /\ \A i \in 1..Len(outbox') : outbox'[i][1].run = r =>
       \E j \in 1..Len(outbox) : outbox[j] = outbox'[i]

LEMMA AppendedSame ==
  ASSUME Types, NEW b, IsAppended(b), NEW r, ~About(b, r)
  PROVE  SameOutbox(r)
<1>1. Len(outbox) \in Nat
  BY OutboxTypes DEF OutboxTypesOK
<1>2. \A i \in 1..Len(outbox') : i \in 1..Len(outbox) \/ outbox'[i] = b
  BY <1>1 DEF IsAppended
<1>3. \A i \in 1..Len(outbox) : i \in 1..Len(outbox')
  BY <1>1 DEF IsAppended
<1> QED
  BY <1>2, <1>3 DEF IsAppended, SameOutbox, About

LEMMA TakenSame ==
  ASSUME Types, NEW b, IsTaken(b), NEW r, ~About(b, r)
  PROVE  SameOutbox(r)
<1>1. Len(outbox) \in Nat
  BY OutboxTypes DEF OutboxTypesOK
<1>2. ASSUME NEW i \in 1..Len(outbox), About(outbox[i], r)
      PROVE  \E j \in 1..Len(outbox') : outbox'[j] = outbox[i]
  <2>1. i # 1
    BY <1>2 DEF IsTaken
  <2>2. i - 1 \in 1..Len(outbox') /\ (i - 1) + 1 = i
    BY <1>1, <1>2, <2>1 DEF IsTaken
  <2>3. outbox'[i - 1] = outbox[i]
    BY <2>2 DEF IsTaken
  <2>4. QED
    BY <2>2, <2>3
<1>3. \A i \in 1..Len(outbox') : i + 1 \in 1..Len(outbox)
  BY <1>1 DEF IsTaken
<1> QED
  BY <1>2, <1>3 DEF IsTaken, SameOutbox

LEMMA OutboxChanged ==
  ASSUME Types, OutboxCoherent, NEW r \in Runs, NEW b \in Batches, NEW record \in RecordType,
         IsChanged(r, b, record)
  PROVE  OutboxCoherent'
<1>1. IsAppended(b)
  BY OutboxAppended DEF IsChanged
<1>2. OutboxTypesOK
  BY OutboxTypes
<1>3. /\ run' = [run EXCEPT ![r] = record] /\ run \in [Runs -> RecordType]
      /\ b[1].run = r /\ b[1].ver = record.ver /\ b[1].status = record.status
      /\ record.ver = run[r].ver + 1 /\ record.ver \in Nat
      /\ (~(b[Len(b)].kind = "snapshot") => record.status = run[r].status)
  BY DEF Types, IsChanged, IsChange, About, Carries, RecordType
<1>4. SUFFICES ASSUME NEW i \in 1..Len(outbox'), NEW q \in Runs, outbox'[i][1].run = q
               PROVE  /\ outbox'[i][1].ver <= run'[q].ver
                      /\ \A j \in 1..Len(outbox') :
                           i < j /\ outbox'[j][1].run = q => outbox'[i][1].ver < outbox'[j][1].ver
                      /\ (\A j \in 1..Len(outbox') : i < j => ~(outbox'[j][1].run = q))
                           => outbox'[i][1].ver = run'[q].ver
                      /\ (\A j \in 1..Len(outbox') :
                           i < j => ~(outbox'[j][1].run = q
                                      /\ outbox'[j][Len(outbox'[j])].kind = "snapshot"))
                           => outbox'[i][1].status = run'[q].status
  BY Zenon DEF OutboxCoherent, About, Carries
<1>5. /\ Len(outbox) \in Nat /\ i \in Nat /\ i >= 1
      /\ i <= Len(outbox) + 1
      /\ Len(outbox') = Len(outbox) + 1 /\ outbox'[Len(outbox) + 1] = b
      /\ \A j \in 1..Len(outbox) : outbox'[j] = outbox[j]
      /\ Len(outbox) + 1 \in 1..Len(outbox')
      /\ \A j \in 1..Len(outbox) : j \in 1..Len(outbox')
      /\ \A j \in 1..Len(outbox') : j \in 1..Len(outbox) \/ j = Len(outbox) + 1
  <2>1. Len(outbox) \in Nat /\ Len(outbox') = Len(outbox) + 1
    BY <1>1, <1>2 DEF OutboxTypesOK, IsAppended
  <2>2. i \in Nat /\ i >= 1 /\ i <= Len(outbox) + 1 /\ Len(outbox) + 1 \in 1..Len(outbox')
    BY <2>1
  <2>3. /\ \A j \in 1..Len(outbox) : j \in 1..Len(outbox')
        /\ \A j \in 1..Len(outbox') : j \in 1..Len(outbox) \/ j = Len(outbox) + 1
    BY <2>1
  <2>4. QED
    BY <1>1, <2>1, <2>2, <2>3 DEF IsAppended
<1>6. CASE i = Len(outbox) + 1
  <2>1. outbox'[i] = b /\ q = r
    BY <1>3, <1>4, <1>5, <1>6
  <2>2. \A j \in 1..Len(outbox') : ~(i < j)
    BY <1>5, <1>6
  <2>3. run'[q] = record
    BY <1>3, <2>1
  <2>4. QED
    BY <1>3, <2>1, <2>2, <2>3
<1>7. CASE i \in 1..Len(outbox)
  <2>1. outbox'[i] = outbox[i] /\ outbox[i][1].run = q /\ i < Len(outbox) + 1
    BY <1>4, <1>5, <1>7
  <2>2. /\ outbox[i][1].ver <= run[q].ver
        /\ \A j \in 1..Len(outbox) :
             i < j /\ outbox[j][1].run = q => outbox[i][1].ver < outbox[j][1].ver
        /\ (\A j \in 1..Len(outbox) : i < j => ~(outbox[j][1].run = q))
             => outbox[i][1].ver = run[q].ver
        /\ (\A j \in 1..Len(outbox) :
             i < j => ~(outbox[j][1].run = q /\ outbox[j][Len(outbox[j])].kind = "snapshot"))
             => outbox[i][1].status = run[q].status
    BY <1>7, <2>1 DEF OutboxCoherent, About, Carries
  <2>3. outbox[i][1].ver \in Nat /\ run[q].ver \in Nat
    BY <1>2, <1>7 DEF OutboxTypesOK
  <2>4. CASE q # r
    <3>1. run'[q] = run[q] /\ b[1].run # q
      BY <1>3, <2>4
    <3>2. \A j \in 1..Len(outbox') : outbox'[j][1].run = q =>
            j \in 1..Len(outbox) /\ outbox'[j] = outbox[j]
      BY <1>5, <3>1
    <3>3. QED
      BY <1>5, <2>1, <2>2, <3>1, <3>2
  <2>5. CASE q = r
    <3>1. run'[q] = record /\ outbox[i][1].ver <= run[r].ver
      BY <1>3, <2>2, <2>5
    <3>2. outbox[i][1].ver < record.ver
      BY <1>3, <2>3, <2>5, <3>1
    <3>3. ASSUME NEW j \in 1..Len(outbox'), i < j, outbox'[j][1].run = q
          PROVE  outbox'[i][1].ver < outbox'[j][1].ver
      <4>1. CASE j \in 1..Len(outbox)
        BY <1>5, <2>1, <2>2, <3>3, <4>1
      <4>2. CASE j = Len(outbox) + 1
        BY <1>3, <1>5, <2>1, <3>2, <4>2
      <4>3. QED
        BY <1>5, <4>1, <4>2
    <3>4. ~(\A j \in 1..Len(outbox') : i < j => ~(outbox'[j][1].run = q))
      BY <1>3, <1>5, <2>1, <2>5
    <3>5. ASSUME \A j \in 1..Len(outbox') :
                   i < j => ~(outbox'[j][1].run = q
                              /\ outbox'[j][Len(outbox'[j])].kind = "snapshot")
          PROVE  outbox'[i][1].status = run'[q].status
      <4>1. ~(b[Len(b)].kind = "snapshot")
        BY <1>3, <1>5, <2>1, <2>5, <3>5
      <4>2. \A j \in 1..Len(outbox) :
             i < j => ~(outbox[j][1].run = q /\ outbox[j][Len(outbox[j])].kind = "snapshot")
        BY <1>5, <3>5
      <4>3. QED
        BY <1>3, <2>1, <2>2, <2>5, <3>1, <4>1, <4>2
    <3>6. outbox'[i][1].ver <= run'[q].ver
      BY <1>3, <2>1, <2>3, <3>1, <3>2
    <3>7. QED
      BY <3>3, <3>4, <3>5, <3>6
  <2>6. QED
    BY <2>4, <2>5
<1> QED
  BY <1>5, <1>6, <1>7

LEMMA OutboxPublished ==
  ASSUME Types, OutboxCoherent, NEW b, IsTaken(b), run' = run
  PROVE  OutboxCoherent'
<1>1. OutboxTypesOK
  BY OutboxTypes
<1>2. SUFFICES ASSUME NEW i \in 1..Len(outbox'), NEW q \in Runs, outbox'[i][1].run = q
               PROVE  /\ outbox'[i][1].ver <= run'[q].ver
                      /\ \A j \in 1..Len(outbox') :
                           i < j /\ outbox'[j][1].run = q => outbox'[i][1].ver < outbox'[j][1].ver
                      /\ (\A j \in 1..Len(outbox') : i < j => ~(outbox'[j][1].run = q))
                           => outbox'[i][1].ver = run'[q].ver
                      /\ (\A j \in 1..Len(outbox') :
                           i < j => ~(outbox'[j][1].run = q
                                      /\ outbox'[j][Len(outbox'[j])].kind = "snapshot"))
                           => outbox'[i][1].status = run'[q].status
  BY Zenon DEF OutboxCoherent, About, Carries
<1>3. /\ Len(outbox) \in Nat /\ Len(outbox') = Len(outbox) - 1
      /\ \A j \in 1..Len(outbox') : outbox'[j] = outbox[j + 1]
      /\ \A j \in 1..Len(outbox') : j + 1 \in 1..Len(outbox)
  BY <1>1 DEF OutboxTypesOK, IsTaken
<1>4. \A j \in 1..Len(outbox') : i < j => i + 1 < j + 1
  BY <1>3
<1>5. ASSUME NEW j \in 1..Len(outbox), i + 1 < j
      PROVE  j - 1 \in 1..Len(outbox') /\ i < j - 1 /\ outbox'[j - 1] = outbox[j]
  <2>1. j - 1 \in 1..Len(outbox') /\ i < j - 1 /\ (j - 1) + 1 = j
    BY <1>3, <1>5
  <2>2. QED
    BY <1>3, <2>1
<1>6. i + 1 \in 1..Len(outbox) /\ outbox'[i] = outbox[i + 1] /\ outbox[i + 1][1].run = q
  BY <1>2, <1>3
<1>7. /\ outbox[i + 1][1].ver <= run[q].ver
      /\ \A j \in 1..Len(outbox) :
           i + 1 < j /\ outbox[j][1].run = q => outbox[i + 1][1].ver < outbox[j][1].ver
      /\ (\A j \in 1..Len(outbox) : i + 1 < j => ~(outbox[j][1].run = q))
           => outbox[i + 1][1].ver = run[q].ver
      /\ (\A j \in 1..Len(outbox) :
           i + 1 < j => ~(outbox[j][1].run = q /\ outbox[j][Len(outbox[j])].kind = "snapshot"))
           => outbox[i + 1][1].status = run[q].status
  BY <1>6 DEF OutboxCoherent, About, Carries
<1>8. \A j \in 1..Len(outbox') :
        i < j /\ outbox'[j][1].run = q => outbox'[i][1].ver < outbox'[j][1].ver
  BY <1>3, <1>4, <1>6, <1>7
<1>9. (\A j \in 1..Len(outbox') : i < j => ~(outbox'[j][1].run = q))
        => \A j \in 1..Len(outbox) : i + 1 < j => ~(outbox[j][1].run = q)
  BY <1>5
<1>10. (\A j \in 1..Len(outbox') :
          i < j => ~(outbox'[j][1].run = q /\ outbox'[j][Len(outbox'[j])].kind = "snapshot"))
         => \A j \in 1..Len(outbox) :
              i + 1 < j => ~(outbox[j][1].run = q /\ outbox[j][Len(outbox[j])].kind = "snapshot")
  <2> SUFFICES ASSUME NEW j \in 1..Len(outbox), i + 1 < j, outbox[j][1].run = q,
                      outbox[j][Len(outbox[j])].kind = "snapshot"
               PROVE  \E x \in 1..Len(outbox') : i < x /\ outbox'[x][1].run = q
                        /\ outbox'[x][Len(outbox'[x])].kind = "snapshot"
    OBVIOUS
  <2>1. j - 1 \in 1..Len(outbox') /\ i < j - 1 /\ outbox'[j - 1] = outbox[j]
    BY <1>5
  <2>2. QED
    BY <2>1
<1> QED
  BY <1>6, <1>7, <1>8, <1>9, <1>10

LEMMA OutboxStep ==
  ASSUME Types, OutboxCoherent, [Next]_vars
  PROVE  OutboxCoherent'
<1>1. ASSUME UNCHANGED <<run, outbox>>
      PROVE  OutboxCoherent'
  BY <1>1 DEF OutboxCoherent, About, Carries
<1>2. CASE UNCHANGED vars
  BY <1>1, <1>2 DEF vars
<1>3. ASSUME NEW r \in Runs, NEW b \in Batches, NEW record \in RecordType, IsChanged(r, b, record)
      PROVE  OutboxCoherent'
  BY <1>3, OutboxChanged
<1>4. ASSUME NEW r \in Runs, CancelDone(r) \/ Ask(r) \/ AnswerArrives(r)
      PROVE  OutboxCoherent'
  <2>1. UNCHANGED <<run, outbox>>
    BY <1>4 DEF CancelDone, Ask, AnswerArrives
  <2>2. QED
    BY <1>1, <2>1
<1>5. CASE WorkerEvent
  <2>1. PICK b \in Batches : outbox' = Append(outbox, b) /\ \A r \in Runs : ~About(b, r)
    BY <1>5, WorkerIsBatch, EventStreamAssumption DEF WorkerEvent
  <2>2. IsAppended(b) /\ run' = run /\ Len(outbox) \in Nat
    BY <1>5, <2>1, OutboxAppended, OutboxTypes DEF WorkerEvent, OutboxTypesOK
  <2>3. ASSUME NEW i \in 1..Len(outbox'), NEW r \in Runs, About(outbox'[i], r)
        PROVE  i \in 1..Len(outbox) /\ outbox'[i] = outbox[i]
    <3>1. i \in 1..Len(outbox) \/ i = Len(outbox) + 1
      BY <2>2 DEF IsAppended
    <3>2. i # Len(outbox) + 1
      BY <2>1, <2>2, <2>3 DEF IsAppended
    <3>3. QED
      BY <2>2, <3>1, <3>2 DEF IsAppended
  <2>4. \A i \in 1..Len(outbox) : i \in 1..Len(outbox') /\ outbox'[i] = outbox[i]
    BY <2>2 DEF IsAppended
  <2>5. ASSUME NEW i \in 1..Len(outbox'), NEW r \in Runs, outbox'[i][1].run = r
        PROVE  /\ outbox'[i][1].ver <= run'[r].ver
               /\ \A j \in 1..Len(outbox') :
                    i < j /\ outbox'[j][1].run = r => outbox'[i][1].ver < outbox'[j][1].ver
               /\ (\A j \in 1..Len(outbox') : i < j => ~(outbox'[j][1].run = r))
                    => outbox'[i][1].ver = run'[r].ver
               /\ (\A j \in 1..Len(outbox') :
                    i < j => ~(outbox'[j][1].run = r
                               /\ outbox'[j][Len(outbox'[j])].kind = "snapshot"))
                    => outbox'[i][1].status = run'[r].status
    <3>1. i \in 1..Len(outbox) /\ outbox'[i] = outbox[i] /\ outbox[i][1].run = r
      BY <2>3, <2>5 DEF About
    <3>2. /\ outbox[i][1].ver <= run[r].ver
          /\ \A j \in 1..Len(outbox) :
               i < j /\ outbox[j][1].run = r => outbox[i][1].ver < outbox[j][1].ver
          /\ (\A j \in 1..Len(outbox) : i < j => ~(outbox[j][1].run = r))
               => outbox[i][1].ver = run[r].ver
          /\ (\A j \in 1..Len(outbox) :
               i < j => ~(outbox[j][1].run = r /\ outbox[j][Len(outbox[j])].kind = "snapshot"))
               => outbox[i][1].status = run[r].status
      BY <3>1 DEF OutboxCoherent, About, Carries
    <3>3. \A j \in 1..Len(outbox') : outbox'[j][1].run = r =>
            j \in 1..Len(outbox) /\ outbox'[j] = outbox[j]
      BY <2>3 DEF About
    <3>4. QED
      BY <2>2, <2>4, <3>1, <3>2, <3>3
  <2>6. QED
    BY <2>5, Zenon DEF OutboxCoherent, About, Carries
<1>6. CASE Publish
  <2>1. PICK b \in Batches, n \in Seq(SentType), k \in Nat : IsPublished(b, n, k)
    BY <1>6, PublishEffect
  <2>2. IsTaken(b) /\ run' = run
    BY <1>6, <2>1, OutboxTaken DEF Publish
  <2>3. QED
    BY <2>2, OutboxPublished
<1>7. CASE Restart
  <2>1. Len(outbox') = 0
    BY <1>7 DEF Restart
  <2>2. QED
    BY <2>1 DEF OutboxCoherent
<1>8. CASE Connect \/ Drop
  BY <1>1, <1>8 DEF Connect, Drop
<1>9. CASE Receive
  BY <1>1, <1>9 DEF Receive
<1> QED
  BY <1>2, <1>3, <1>4, <1>5, <1>6, <1>7, <1>8, <1>9, NextSteps

LEMMA SameQuiet ==
  ASSUME NEW r, SameOutbox(r)
  PROVE  /\ Quiet(r)' <=> Quiet(r)
         /\ RecordQuiet(r)' <=> RecordQuiet(r)
BY DEF SameOutbox, Quiet, RecordQuiet, About, Carries

-----------------------------------------------------------------------------
(* The events that carry the newest of a run.                               *)

LEMMA GivenPublished ==
  ASSUME Types, NEW b, NEW n \in Seq(SentType), NEW k \in Nat, IsPublished(b, n, k),
         NEW e, Given(e)'
  PROVE  Given(e) \/ \E i \in 1..Len(n) : e = n[i]
<1>1. /\ Len(buffer) \in Nat /\ Len(conn.stream) \in Nat /\ Len(n) \in Nat
      /\ Len(buffer') = Len(buffer) + Len(n) - k
      /\ \A i \in 1..Len(buffer') :
           buffer'[i] = IF i + k <= Len(buffer) THEN buffer[i + k] ELSE n[i + k - Len(buffer)]
  BY StreamTypes, LenProperties DEF StreamTypesOK, IsPublished
<1>2. IsSentOn(n, b)
  BY SentOn
<1>3. ASSUME NEW i \in 1..Len(buffer'), buffer'[i] = e
      PROVE  Given(e) \/ \E j \in 1..Len(n) : e = n[j]
  <2>0. i \in Nat /\ i >= 1 /\ i <= Len(buffer) + Len(n) - k
    BY <1>1, <1>3
  <2>1. CASE i + k <= Len(buffer)
    <3>1. i + k \in 1..Len(buffer) /\ buffer[i + k] = e
      BY <1>1, <1>3, <2>0, <2>1
    <3>2. QED
      BY <3>1 DEF Given
  <2>2. CASE ~(i + k <= Len(buffer))
    <3>1. i + k - Len(buffer) \in 1..Len(n) /\ n[i + k - Len(buffer)] = e
      BY <1>1, <1>3, <2>0, <2>2
    <3>2. QED
      BY <3>1
  <2>3. QED
    BY <2>1, <2>2
<1>4. ASSUME NEW i \in 1..Len(conn'.stream), conn'.stream[i] = e
      PROVE  Given(e) \/ \E j \in 1..Len(n) : e = n[j]
  <2>1. CASE UNCHANGED conn
    BY <1>4, <2>1 DEF Given
  <2>2. CASE ~UNCHANGED conn
    <3>1. /\ Len(conn'.stream) = Len(conn.stream) + Len(n)
          /\ \A j \in 1..Len(conn.stream) : conn'.stream[j] = conn.stream[j]
          /\ \A j \in 1..Len(n) : conn'.stream[Len(conn.stream) + j] = n[j]
          /\ i <= Len(conn.stream) \/ \E j \in 1..Len(n) : i = Len(conn.stream) + j
      BY <1>2, <2>2 DEF IsSentOn
    <3>2. Len(conn'.stream) \in Nat
      BY <1>1, <3>1
    <3>3. i \in 1..Len(conn.stream) \/ \E j \in 1..Len(n) : i = Len(conn.stream) + j
      BY <1>1, <3>1, <3>2
    <3>4. QED
      BY <1>4, <3>1, <3>3 DEF Given
  <2>3. QED
    BY <2>1, <2>2
<1> QED
  BY <1>3, <1>4 DEF Given

LEMMA GivenOthers ==
  ASSUME Types, [Next]_vars, NEW e, Given(e)'
  PROVE  Publish \/ Given(e)
<1>1. CASE UNCHANGED <<buffer, conn>>
  BY <1>1 DEF Given
<1>2. CASE Restart \/ Drop
  <2>1. Len(conn'.stream) = 0 /\ (buffer' = buffer \/ Len(buffer') = 0)
    BY <1>2 DEF Restart, Drop, NoConn
  <2>2. QED
    BY <2>1 DEF Given
<1>3. CASE Connect
  <2>1. conn'.stream = Replay(lastId) /\ buffer' = buffer
    BY <1>3 DEF Connect
  <2>2. PICK k \in 0..Len(buffer) : IsReplay(Replay(lastId), lastId, k)
    BY ReplayProps, StreamTypes DEF StreamTypesOK
  <2>3. ASSUME NEW i \in 1..Len(conn'.stream)
        PROVE  \E j \in 1..Len(buffer) : conn'.stream[i] = buffer[j]
    <3>1. Len(buffer) \in Nat /\ i \in 1..(Len(buffer) - k)
      BY <2>1, <2>2, <2>3, StreamTypes DEF IsReplay, StreamTypesOK
    <3>2. i + k \in 1..Len(buffer) /\ conn'.stream[i] = buffer[i + k]
      BY <2>1, <2>2, <3>1 DEF IsReplay
    <3>3. QED
      BY <3>2
  <2>4. QED
    BY <2>1, <2>3 DEF Given
<1>4. CASE Receive
  <2>1. PICK x \in SentType : IsReceived(x)
    BY <1>4, ReceiveEffect
  <2>2. Len(conn.stream) \in Nat /\ buffer' = buffer
    BY <2>1, StreamTypes DEF StreamTypesOK, IsReceived
  <2>3. \A i \in 1..Len(conn'.stream) :
          i + 1 \in 1..Len(conn.stream) /\ conn'.stream[i] = conn.stream[i + 1]
    BY <2>1, <2>2 DEF IsReceived
  <2>4. QED
    BY <2>2, <2>3 DEF Given
<1> QED
  BY <1>1, <1>2, <1>3, <1>4, ConnSteps

\* A step that is not about this run.
Distant(r) ==
  /\ run'[r] = run[r] /\ news'[r] = news[r] /\ SameOutbox(r)
  /\ counter' \in Nat /\ counter' >= counter
  /\ \A e \in SentType : Given(e)' => Given(e) \/ (e.id > counter /\ e.run # r)

LEMMA DistantNews ==
  ASSUME Types, NEW r \in Runs, NewsFor(r), Distant(r)
  PROVE  NewsFor(r)'
<1>1. news[r].run \in Nat /\ news[r].node \in Nat /\ news[r].chunk \in BOOLEAN /\ counter \in Nat
  BY DEF Types
<1>2. Bounds(r)'
  BY <1>1 DEF NewsFor, Bounds, Distant
<1>3. (Quiet(r)' <=> Quiet(r)) /\ (RecordQuiet(r)' <=> RecordQuiet(r))
  BY SameQuiet DEF Distant
<1>4. ASSUME NEW e \in SentType, Given(e)'
      PROVE  NewsOf(e, r)'
  <2>1. e.id \in Nat
    BY DEF SentType
  <2>2. CASE Given(e)
    <3>1. NewsOf(e, r)
      BY <2>2 DEF NewsFor
    <3>2. QED
      BY <1>3, <3>1 DEF NewsOf, Distant
  <2>3. CASE e.id > counter /\ e.run # r
    <3>1. e.id # news[r].run /\ e.id # news[r].node /\ (news[r].chunk => e.id # news[r].node + 1)
      BY <1>1, <2>1, <2>3 DEF NewsFor, Bounds
    <3>2. QED
      BY <2>3, <3>1 DEF NewsOf, Distant
  <2>4. QED
    BY <1>4, <2>2, <2>3 DEF Distant
<1> QED
  BY <1>2, <1>4 DEF NewsFor

LEMMA ChangedNews ==
  ASSUME Types, NEW r \in Runs, NEW b \in Batches, NEW record \in RecordType,
         IsChanged(r, b, record), NewsFor(r)
  PROVE  NewsFor(r)'
<1>1. /\ IsAppended(b) /\ Len(outbox) \in Nat /\ news' = news /\ counter' = counter
      /\ b[1].run = r /\ UNCHANGED <<buffer, conn>>
      /\ b[Len(b)].kind # "snapshot" => record.status = run[r].status
      /\ run'[r] = record
  BY OutboxAppended, OutboxTypes
  DEF IsChanged, OutboxTypesOK, IsChange, About, Carries, Types
<1>2. ~Quiet(r)'
  <2>1. Len(outbox) + 1 \in 1..Len(outbox') /\ outbox'[Len(outbox) + 1][1].run = r
    BY <1>1 DEF IsAppended
  <2>2. QED
    BY <2>1 DEF Quiet, About
<1>3. RecordQuiet(r)' => RecordQuiet(r) /\ record.status = run[r].status
  <2>1. Len(outbox) + 1 \in 1..Len(outbox') /\ outbox'[Len(outbox) + 1] = b
    BY <1>1 DEF IsAppended
  <2>2. RecordQuiet(r)' => b[Len(b)].kind # "snapshot"
    BY <1>1, <2>1 DEF RecordQuiet, About, Carries
  <2>3. \A i \in 1..Len(outbox) : i \in 1..Len(outbox') /\ outbox'[i] = outbox[i]
    BY <1>1 DEF IsAppended
  <2>4. RecordQuiet(r)' => RecordQuiet(r)
    BY <2>3 DEF RecordQuiet, About, Carries
  <2>5. QED
    BY <1>1, <2>2, <2>4
<1>4. ASSUME NEW e \in SentType, Given(e)'
      PROVE  NewsOf(e, r)'
  <2>1. NewsOf(e, r)
    BY <1>1, <1>4 DEF Given, NewsFor
  <2>2. QED
    BY <1>1, <1>2, <1>3, <2>1 DEF NewsOf
<1> QED
  BY <1>1, <1>4 DEF NewsFor, Bounds

\* The events of the change that is published are the newest of its run.
LEMMA ToldNews ==
  ASSUME Types, NEW r \in Runs, NEW b \in Batches, NEW n \in Seq(SentType), NEW k \in Nat,
         IsPublished(b, n, k), b[1].run = r
  PROVE  /\ Len(n) = Len(b) /\ Len(n) \in 1..3 /\ counter \in Nat /\ counter' = counter + Len(n)
         /\ Carries(b) =>
              news'[r].run = counter' /\ news'[r].node = counter' /\ news'[r].chunk = FALSE
         /\ ~Carries(b) =>
              /\ news'[r].run = news[r].run /\ news'[r].node = counter + 1
              /\ news'[r].chunk = TRUE
              /\ Len(n) = 2 /\ b[1].kind = "result" /\ b[2].kind = "chunk"
<1>1. /\ IsSent(n, b) /\ counter' = counter + Len(n) /\ counter \in Nat
      /\ news' = [news EXCEPT ![r] = Told(@, n)]
  BY EventStreamAssumption DEF IsPublished, Types
<1>2. /\ Len(n) = Len(b) /\ Len(b) \in 1..3 /\ Head(n) = n[1] /\ Last(n) = n[Len(n)]
      /\ \A i \in 1..Len(n) : n[i].id = counter + i /\ n[i].kind = b[i].kind
  BY <1>1 DEF IsSent, Batches
<1>3. news'[r] = Told(news[r], n)
  BY <1>1 DEF Types
<1>4. 1 \in 1..Len(n) /\ Len(n) \in 1..Len(n)
  BY <1>2
<1>5. /\ Last(n).kind = b[Len(b)].kind /\ Last(n).id = counter + Len(n)
      /\ Head(n).id = counter + 1
  BY <1>2, <1>4
<1>6. ~Carries(b) => Len(b) = 2 /\ b[1].kind = "result" /\ b[2].kind = "chunk"
  BY DEF Batches
<1> QED
  BY <1>1, <1>2, <1>3, <1>5, <1>6 DEF Told, Carries

LEMMA TakenRecordQuiet ==
  ASSUME Types, NEW r, NEW b, IsTaken(b), RecordQuiet(r)', ~Carries(b)
  PROVE  RecordQuiet(r)
<1> SUFFICES ASSUME NEW j \in 1..Len(outbox)
             PROVE  ~(About(outbox[j], r) /\ Carries(outbox[j]))
  BY DEF RecordQuiet
<1>1. Len(outbox) \in Nat
  BY OutboxTypes DEF OutboxTypesOK
<1>2. CASE j = 1
  BY <1>2 DEF IsTaken
<1>3. CASE j # 1
  <2>1. j - 1 \in 1..Len(outbox') /\ (j - 1) + 1 = j
    BY <1>1, <1>3 DEF IsTaken
  <2>2. outbox'[j - 1] = outbox[j]
    BY <2>1 DEF IsTaken
  <2>3. QED
    BY <2>1, <2>2 DEF RecordQuiet, About, Carries
<1> QED
  BY <1>2, <1>3

LEMMA PublishedNews ==
  ASSUME Types, OutboxCoherent, NEW r \in Runs, NEW b \in Batches, NEW n \in Seq(SentType),
         NEW k \in Nat, IsPublished(b, n, k), b[1].run = r, run' = run, NewsFor(r),
         \A e \in SentType : Given(e) => e.id <= counter
  PROVE  NewsFor(r)'
<1>1. /\ IsTaken(b) /\ Len(n) = Len(b) /\ Len(n) \in 1..3 /\ Len(outbox) \in Nat
      /\ counter \in Nat /\ counter' = counter + Len(n)
      /\ news[r].run \in Nat /\ news[r].node \in Nat /\ news[r].chunk \in BOOLEAN
      /\ \A i \in 1..Len(n) : n[i].id = counter + i /\ n[i].kind = b[i].kind /\ n[i].run = r
                              /\ n[i].ver = b[1].ver /\ n[i].status = b[1].status
  <2>1. /\ Len(n) = Len(b) /\ Len(n) \in 1..3 /\ counter \in Nat /\ counter' = counter + Len(n)
    BY ToldNews
  <2>2. IsTaken(b)
    BY OutboxTaken
  <2>3. Len(outbox) \in Nat
    BY OutboxTypes DEF OutboxTypesOK
  <2>4. news[r].run \in Nat /\ news[r].node \in Nat /\ news[r].chunk \in BOOLEAN
    BY DEF Types
  <2>5. \A i \in 1..Len(n) : n[i].id = counter + i /\ n[i].kind = b[i].kind /\ n[i].run = r
                            /\ n[i].ver = b[1].ver /\ n[i].status = b[1].status
    BY DEF IsPublished, IsSent
  <2>6. QED
    BY <2>1, <2>2, <2>3, <2>4, <2>5
<1>2. Quiet(r)' => b[1].ver = run[r].ver
  <2>1. 1 \in 1..Len(outbox) /\ outbox[1] = b
    BY <1>1 DEF IsTaken
  <2>2. (\A j \in 1..Len(outbox) : 1 < j => ~About(outbox[j], r)) => b[1].ver = run[r].ver
    BY <2>1 DEF OutboxCoherent, About
  <2>3. Quiet(r)' => \A j \in 1..Len(outbox) : 1 < j => ~About(outbox[j], r)
    <3> SUFFICES ASSUME Quiet(r)', NEW j \in 1..Len(outbox), 1 < j
                 PROVE  ~About(outbox[j], r)
      OBVIOUS
    <3>1. j - 1 \in 1..Len(outbox') /\ (j - 1) + 1 = j
      BY <1>1 DEF IsTaken
    <3>2. outbox'[j - 1] = outbox[j]
      BY <1>1, <3>1 DEF IsTaken
    <3>3. QED
      BY <3>1, <3>2 DEF Quiet, About
  <2>4. QED
    BY <2>2, <2>3
<1>3. RecordQuiet(r)' => b[1].status = run[r].status
  <2>1. 1 \in 1..Len(outbox) /\ outbox[1] = b
    BY <1>1 DEF IsTaken
  <2>2. (\A j \in 1..Len(outbox) : 1 < j => ~(About(outbox[j], r) /\ Carries(outbox[j])))
          => b[1].status = run[r].status
    BY <2>1 DEF OutboxCoherent, About
  <2>3. RecordQuiet(r)' =>
          \A j \in 1..Len(outbox) : 1 < j => ~(About(outbox[j], r) /\ Carries(outbox[j]))
    <3> SUFFICES ASSUME RecordQuiet(r)', NEW j \in 1..Len(outbox), 1 < j
                 PROVE  ~(About(outbox[j], r) /\ Carries(outbox[j]))
      OBVIOUS
    <3>1. j - 1 \in 1..Len(outbox') /\ (j - 1) + 1 = j
      BY <1>1 DEF IsTaken
    <3>2. outbox'[j - 1] = outbox[j]
      BY <1>1, <3>1 DEF IsTaken
    <3>3. QED
      BY <3>1, <3>2 DEF RecordQuiet, About, Carries
  <2>4. QED
    BY <2>2, <2>3
<1>4. RecordQuiet(r)' /\ ~Carries(b) => RecordQuiet(r)
  BY <1>1, TakenRecordQuiet
<1>5. CASE Carries(b)
  <2>1. news'[r].run = counter' /\ news'[r].node = counter' /\ ~news'[r].chunk
    BY <1>5, ToldNews
  <2>2. Bounds(r)'
    BY <1>1, <2>1 DEF Bounds
  <2>3. ASSUME NEW e \in SentType, Given(e)'
        PROVE  NewsOf(e, r)'
    <3>1. e.id \in Nat
      BY DEF SentType
    <3>2. CASE Given(e)
      <4>1. e.id < counter'
        BY <1>1, <3>1, <3>2
      <4>2. QED
        BY <1>1, <2>1, <3>1, <4>1 DEF NewsOf
    <3>3. ASSUME NEW i \in 1..Len(n), e = n[i]
          PROVE  NewsOf(e, r)'
      <4>1. e.run = r /\ e.id = counter + i /\ e.ver = b[1].ver /\ e.status = b[1].status
        BY <1>1, <3>3
      <4>2. e.id = counter' => e.kind = "snapshot"
        BY <1>1, <1>5, <3>3, <4>1 DEF Carries
      <4>3. ~(e.id > counter')
        BY <1>1, <4>1
      <4>4. QED
        BY <1>2, <1>3, <2>1, <4>1, <4>2, <4>3 DEF NewsOf
    <3>4. QED
      BY <2>3, <3>2, <3>3, GivenPublished
  <2>4. QED
    BY <2>2, <2>3 DEF NewsFor
<1>6. CASE ~Carries(b)
  <2>1. /\ news'[r].run = news[r].run /\ news'[r].node = counter + 1 /\ news'[r].chunk
        /\ Len(n) = 2 /\ b[1].kind = "result" /\ b[2].kind = "chunk"
    BY <1>6, ToldNews
  <2>2. news[r].run <= news[r].node /\ news[r].node <= counter /\ news[r].run <= counter
    BY <1>1 DEF NewsFor, Bounds
  <2>3. Bounds(r)'
    BY <1>1, <2>1, <2>2 DEF Bounds
  <2>4. ASSUME NEW e \in SentType, Given(e)'
        PROVE  NewsOf(e, r)'
    <3>1. e.id \in Nat
      BY DEF SentType
    <3>2. CASE Given(e)
      <4>1. e.id < counter + 1
        BY <1>1, <3>1, <3>2
      <4>2. /\ e.id = news[r].run =>
                 e.run = r /\ e.kind = "snapshot" /\ (RecordQuiet(r) => e.status = run[r].status)
            /\ e.run = r /\ e.id > news[r].run => e.kind \in {"result", "chunk"}
        BY <3>2 DEF NewsFor, NewsOf
      <4>3. e.id # counter + 1 /\ e.id # counter + 1 + 1 /\ ~(e.id > counter + 1)
        BY <1>1, <3>1, <4>1
      <4>4. QED
        BY <1>4, <1>6, <2>1, <4>2, <4>3 DEF NewsOf
    <3>3. ASSUME NEW i \in 1..Len(n), e = n[i]
          PROVE  NewsOf(e, r)'
      <4>1. /\ e.run = r /\ e.id = counter + i /\ e.ver = b[1].ver /\ e.kind = b[i].kind
            /\ i = 1 \/ i = 2
        BY <1>1, <2>1, <3>3
      <4>2. /\ e.id # news[r].run
            /\ e.id = counter + 1 => e.kind = "result"
            /\ e.id = counter + 1 + 1 => e.kind = "chunk"
            /\ e.kind \in {"result", "chunk"}
            /\ e.id > counter + 1 => e.id = counter + 1 + 1
        BY <1>1, <2>1, <2>2, <4>1
      <4>3. QED
        BY <1>2, <2>1, <4>1, <4>2 DEF NewsOf
    <3>4. QED
      BY <2>4, <3>2, <3>3, GivenPublished
  <2>5. QED
    BY <2>3, <2>4 DEF NewsFor
<1> QED
  BY <1>5, <1>6

LEMMA StillOutbox ==
  ASSUME NEW r, outbox' = outbox
  PROVE  SameOutbox(r)
BY DEF SameOutbox, About

LEMMA DistantSteps ==
  ASSUME Types, [Next]_vars, NEW r \in Runs
  PROVE  \/ Distant(r)
         \/ \E b \in Batches, record \in RecordType : IsChanged(r, b, record)
         \/ Publish /\ \E b \in Batches, n \in Seq(SentType), k \in Nat :
                         IsPublished(b, n, k) /\ b[1].run = r
         \/ Restart
<1> USE DEF About
<1>1. counter \in Nat
  BY DEF Types
<1>2. ASSUME ~Publish, run'[r] = run[r], news'[r] = news[r], SameOutbox(r), counter' = counter
      PROVE  Distant(r)
  BY <1>1, <1>2, GivenOthers DEF Distant
<1>3. CASE UNCHANGED vars /\ ~Publish
  BY <1>2, <1>3, StillOutbox DEF vars
<1>4. ASSUME NEW q \in Runs, NEW b \in Batches, NEW record \in RecordType,
             IsChanged(q, b, record), q # r, ~Publish
      PROVE  Distant(r)
  <2>1. IsAppended(b) /\ b[1].run = q
    BY <1>4, OutboxAppended DEF IsChanged, IsChange
  <2>2. SameOutbox(r)
    BY <1>4, <2>1, AppendedSame
  <2>3. run'[r] = run[r] /\ news'[r] = news[r] /\ counter' = counter
    BY <1>4 DEF IsChanged, Types
  <2>4. QED
    BY <1>2, <1>4, <2>2, <2>3
<1>5. ASSUME NEW q \in Runs, CancelDone(q) \/ Ask(q) \/ AnswerArrives(q), ~Publish
      PROVE  Distant(r)
  <2>1. UNCHANGED <<run, outbox, counter, news>>
    BY <1>5 DEF CancelDone, Ask, AnswerArrives
  <2>2. QED
    BY <1>2, <1>5, <2>1, StillOutbox
<1>6. CASE WorkerEvent /\ ~Publish
  <2>1. PICK b \in Batches : outbox' = Append(outbox, b) /\ ~About(b, r)
    BY <1>6, WorkerIsBatch, EventStreamAssumption DEF WorkerEvent
  <2>2. SameOutbox(r)
    BY <2>1, OutboxAppended, AppendedSame
  <2>3. QED
    BY <1>2, <1>6, <2>2 DEF WorkerEvent
<1>7. CASE (Connect \/ Drop \/ Receive) /\ ~Publish
  BY <1>2, <1>7, StillOutbox DEF Connect, Drop, Receive
<1>8. CASE Publish
  <2>1. PICK b \in Batches, n \in Seq(SentType), k \in Nat : IsPublished(b, n, k)
    BY <1>8, PublishEffect
  <2>2. CASE b[1].run = r
    BY <1>8, <2>1, <2>2
  <2>3. CASE b[1].run # r
    <3>1. SameOutbox(r)
      BY <2>1, <2>3, OutboxTaken, TakenSame
    <3>2. run' = run
      BY <1>8 DEF Publish
    <3>3. news'[r] = news[r]
      BY <2>1, <2>3 DEF IsPublished, Types
    <3>4. /\ Len(n) \in Nat /\ counter' = counter + Len(n)
          /\ \A i \in 1..Len(n) : n[i].id = counter + i /\ n[i].run # r
      BY <2>1, <2>3, LenProperties DEF IsPublished, IsSent
    <3>5. counter' \in Nat /\ counter' >= counter
      BY <1>1, <3>4
    <3>6. \A i \in 1..Len(n) : n[i].id > counter
      BY <1>1, <3>4
    <3>7. \A e \in SentType : Given(e)' => Given(e) \/ (e.id > counter /\ e.run # r)
      BY <2>1, <3>4, <3>6, GivenPublished
    <3>8. QED
      BY <3>1, <3>2, <3>3, <3>5, <3>7 DEF Distant
  <2>4. QED
    BY <2>2, <2>3
<1> QED
  BY <1>3, <1>4, <1>5, <1>6, <1>7, <1>8, NextSteps

LEMMA GivenIds ==
  ASSUME DeliveryInv, NEW e \in SentType, Given(e)
  PROVE  e.id <= counter
<1>1. \A i \in 1..Len(buffer) : buffer[i].id <= counter
  <2>1. \A i \in 1..Len(buffer) : buffer[i].id = counter - Len(buffer) + i
    BY DEF DeliveryInv, StoreCoherent
  <2>2. Len(buffer) \in Nat /\ counter \in Nat
    BY StreamTypes DEF StreamTypesOK, DeliveryInv
  <2>3. QED
    BY <2>1, <2>2
<1>2. \A i \in 1..Len(conn.stream) : conn.stream[i].id <= counter
  BY DEF DeliveryInv, StreamCoherent
<1> QED
  BY <1>1, <1>2 DEF Given

LEMMA NewsStep ==
  ASSUME DeliveryInv, OutboxCoherent, NewsCoherent, [Next]_vars
  PROVE  NewsCoherent'
<1> SUFFICES ASSUME NEW r \in Runs PROVE NewsFor(r)'
  BY DEF NewsCoherent, NewsFor
<1>1. NewsFor(r) /\ Types
  BY DEF NewsCoherent, NewsFor, DeliveryInv
<1>2. CASE Distant(r)
  BY <1>1, <1>2, DistantNews
<1>3. ASSUME NEW b \in Batches, NEW record \in RecordType, IsChanged(r, b, record)
      PROVE  NewsFor(r)'
  BY <1>1, <1>3, ChangedNews
<1>4. ASSUME NEW b \in Batches, NEW n \in Seq(SentType), NEW k \in Nat,
             IsPublished(b, n, k), b[1].run = r, Publish
      PROVE  NewsFor(r)'
  <2>1. run' = run
    BY <1>4 DEF Publish
  <2>2. QED
    BY <1>1, <1>4, <2>1, PublishedNews, GivenIds
<1>5. CASE Restart
  <2>1. /\ news'[r] = [run |-> 0, node |-> 0, chunk |-> FALSE] /\ counter' = 0
        /\ Len(buffer') = 0 /\ Len(conn'.stream) = 0
    BY <1>5 DEF Restart, NoConn
  <2>2. QED
    BY <2>1 DEF NewsFor, Bounds, Given
<1> QED
  BY <1>1, <1>2, <1>3, <1>4, <1>5, DistantSteps

-----------------------------------------------------------------------------
(* What is got covers what is still on its way.                             *)

LEMMA GotStill ==
  ASSUME UNCHANGED <<buffer, counter, conn, lastId, keepsId>>, NEW n
  PROVE  Got(n)' <=> Got(n)
BY DEF Got, Held, Owed, Oldest

LEMMA OneLife ==
  ASSUME Types, [Next]_vars, IdsMeanOne'
  PROVE  IdsMeanOne
<1>1. keepsId' = keepsId /\ (restarted => restarted')
  <2>1. (Publish \/ Connect \/ Drop \/ Receive) => UNCHANGED <<keepsId, restarted>>
    BY DEF Publish, Connect, Drop, Receive
  <2>2. Restart => keepsId' = keepsId /\ restarted'
    BY DEF Restart
  <2>3. QED
    BY <2>1, <2>2, ConnSteps
<1> QED
  BY <1>1 DEF IdsMeanOne

LEMMA PointsBound ==
  ASSUME Types, NEW r \in Runs, Bounds(r), NEW n \in Points(r)
  PROVE  n \in 0..counter
<1>1. news[r].run \in Nat /\ news[r].node \in Nat /\ counter \in Nat /\ news[r].chunk \in BOOLEAN
  BY DEF Types
<1> QED
  BY <1>1 DEF Bounds, Points

\* What is just published for the client is still to be got.
LEMMA NewIsOwed ==
  ASSUME DeliveryInv, IdsMeanOne, Publish, NEW b, NEW m \in Seq(SentType), NEW k \in Nat,
         IsPublished(b, m, k), b[1].run \in Own, NEW n \in Nat, n > counter, n <= counter'
  PROVE  ~Got(n)'
<1>1. /\ IsSentOn(m, b) /\ Len(m) \in Nat /\ counter' = counter + Len(m) /\ counter \in Nat
      /\ \A i \in 1..Len(m) : m[i].id = counter + i
      /\ UNCHANGED <<lastId, keepsId>>
  <2>1. IsSentOn(m, b)
    BY SentOn DEF DeliveryInv
  <2>2. UNCHANGED <<lastId, keepsId>>
    BY DEF Publish
  <2>3. Len(m) \in Nat /\ counter \in Nat
    BY LenProperties DEF DeliveryInv, Types
  <2>4. counter' = counter + Len(m) /\ \A i \in 1..Len(m) : m[i].id = counter + i
    BY DEF IsPublished, IsSent
  <2>5. QED
    BY <2>1, <2>2, <2>3, <2>4
<1>2. CASE ~conn.open
  <2>1. ~conn'.open
    BY <1>1, <1>2 DEF IsSentOn
  <2>2. lastId \in Nat /\ (keepsId => lastId <= counter)
    BY DEF DeliveryInv, ResumeCoherent, Types
  <2>3. keepsId => n > lastId
    BY <1>1, <2>2
  <2>4. QED
    BY <1>1, <2>1, <2>3 DEF Got, Owed
<1>3. CASE conn.open
  <2>1. /\ conn'.open /\ Len(conn'.stream) = Len(conn.stream) + Len(m)
        /\ \A i \in 1..Len(m) : conn'.stream[Len(conn.stream) + i] = m[i]
    BY <1>1, <1>3 DEF IsSentOn
  <2>2. n - counter \in 1..Len(m)
    BY <1>1
  <2>3. PICK i \in 1..Len(m) : i = n - counter
    BY <2>2
  <2>4. m[i].id = n
    BY <1>1, <2>3
  <2>5. Len(conn.stream) + i \in 1..Len(conn'.stream)
    BY <1>1, <2>1, StreamTypes DEF StreamTypesOK, DeliveryInv
  <2>6. QED
    BY <2>1, <2>4, <2>5 DEF Got, Owed
<1> QED
  BY <1>2, <1>3

CoveredFor(n) == conn.open /\ Got(n) => \A i \in 1..Len(conn.stream) : conn.stream[i].id > n

LEMMA CoveredStill ==
  ASSUME DeliveryInv, IdsMeanOne, [Next]_vars, ~Restart, NEW n \in 0..counter, CoveredFor(n)
  PROVE  CoveredFor(n)'
<1>1. CASE UNCHANGED <<buffer, counter, conn, lastId, keepsId>>
  BY <1>1, GotStill DEF CoveredFor
<1>2. CASE Publish
  <2>1. PICK b \in Batches, m \in Seq(SentType), k \in Nat : IsPublished(b, m, k)
    BY <1>2, PublishEffect DEF DeliveryInv
  <2>2. /\ IsSentOn(m, b) /\ Len(m) \in Nat /\ counter \in Nat /\ Len(conn.stream) \in Nat
        /\ \A i \in 1..Len(m) : m[i].id = counter + i
    BY <2>1, SentOn, LenProperties, StreamTypes
    DEF IsPublished, IsSent, DeliveryInv, StreamTypesOK
  <2>3. SUFFICES ASSUME conn'.open, Got(n)', NEW i \in 1..Len(conn'.stream)
                 PROVE  conn'.stream[i].id > n
    BY DEF CoveredFor
  <2>4. conn.open /\ Got(n)
    BY <1>2, <2>2, <2>3, GotPublish DEF GotKept, IsSentOn
  <2>5. \A j \in 1..Len(conn.stream) : conn.stream[j].id > n
    BY <2>4 DEF CoveredFor
  <2>6. CASE conn' = conn
    BY <2>3, <2>5, <2>6
  <2>7. CASE conn' # conn
    <3>1. /\ Len(conn'.stream) = Len(conn.stream) + Len(m)
          /\ \A j \in 1..Len(conn.stream) : conn'.stream[j] = conn.stream[j]
          /\ \A j \in 1..Len(m) : conn'.stream[Len(conn.stream) + j] = m[j]
          /\ i <= Len(conn.stream) \/ \E j \in 1..Len(m) : i = Len(conn.stream) + j
      BY <2>2, <2>3, <2>7 DEF IsSentOn
    <3>2. Len(conn'.stream) \in Nat
      BY <2>2, <3>1
    <3>3. CASE i <= Len(conn.stream)
      <4>1. i \in 1..Len(conn.stream)
        BY <2>2, <2>3, <3>2, <3>3
      <4>2. QED
        BY <2>5, <3>1, <4>1
    <3>4. CASE ~(i <= Len(conn.stream))
      <4>1. PICK j \in 1..Len(m) : conn'.stream[i] = m[j]
        BY <3>1, <3>4
      <4>2. m[j].id = counter + j /\ counter + j > n
        BY <2>2, <4>1
      <4>3. QED
        BY <4>1, <4>2
    <3>5. QED
      BY <3>3, <3>4
  <2>8. QED
    BY <2>6, <2>7
<1>3. CASE Connect
  BY <1>3, GotConnect DEF CoveredFor
<1>4. CASE Drop
  <2>1. ~conn'.open
    BY <1>4 DEF Drop, NoConn
  <2>2. QED
    BY <2>1 DEF CoveredFor
<1>5. CASE Receive
  <2>1. PICK e \in SentType : IsReceived(e)
    BY <1>5, ReceiveEffect DEF DeliveryInv
  <2>2. /\ conn.open /\ (Got(n)' => Got(n) \/ n = e.id)
        /\ \A i \in 1..Len(conn'.stream) : conn'.stream[i].id > e.id
    BY <2>1, GotReceive
  <2>3. \A i \in 1..Len(conn'.stream) :
          i + 1 \in 1..Len(conn.stream) /\ conn'.stream[i] = conn.stream[i + 1]
    BY <2>1, StreamTypes DEF IsReceived, StreamTypesOK, DeliveryInv
  <2>4. QED
    BY <2>2, <2>3 DEF CoveredFor
<1> QED
  BY <1>1, <1>2, <1>3, <1>4, <1>5, ConnSteps DEF DeliveryInv

\* The points of a run move only when a change of it is published.
LEMMA PointsStep ==
  ASSUME DeliveryInv, NewsCoherent, [Next]_vars, ~Restart, IdsMeanOne, Own \subseteq Runs,
         NEW r \in Own, NEW n, n \in Points(r)'
  PROVE  n \in Points(r) \/ (n \in Nat /\ n > counter /\ ~Got(n)')
<1>1. r \in Runs /\ Types /\ Bounds(r)
  BY DEF DeliveryInv, NewsCoherent, NewsFor
<1>2. CASE news'[r] = news[r]
  BY <1>2 DEF Points
<1>3. ASSUME NEW b \in Batches, NEW m \in Seq(SentType), NEW k \in Nat,
             IsPublished(b, m, k), b[1].run = r, Publish
      PROVE  n \in Points(r) \/ (n \in Nat /\ n > counter /\ ~Got(n)')
  <2>1. /\ Len(m) \in 1..3 /\ counter \in Nat /\ counter' = counter + Len(m)
        /\ Carries(b) =>
             news'[r].run = counter' /\ news'[r].node = counter' /\ news'[r].chunk = FALSE
        /\ ~Carries(b) =>
              /\ news'[r].run = news[r].run /\ news'[r].node = counter + 1
              /\ news'[r].chunk = TRUE /\ Len(m) = 2
    BY <1>1, <1>3, ToldNews
  <2>2. n \in Points(r) \/ (n \in Nat /\ n > counter /\ n <= counter')
    <3>1. n \in {news'[r].run, news'[r].node}
                \cup IF news'[r].chunk THEN {news'[r].node + 1} ELSE {}
      BY DEF Points
    <3>2. CASE Carries(b)
      <4>1. n = counter'
        BY <2>1, <3>1, <3>2
      <4>2. PICK x \in 1..3 : counter' = counter + x
        BY <2>1
      <4>3. counter \in Nat
        BY <2>1
      <4>4. QED
        BY <4>1, <4>2, <4>3
    <3>3. CASE ~Carries(b)
      <4>1. n = news[r].run \/ n = counter + 1 \/ n = counter + 1 + 1
        BY <2>1, <3>1, <3>3
      <4>2. counter' = counter + 2
        BY <2>1, <3>3
      <4>3. news[r].run \in Points(r)
        BY DEF Points
      <4>4. QED
        BY <2>1, <4>1, <4>2, <4>3
    <3>4. QED
      BY <3>2, <3>3
  <2>3. QED
    BY <1>3, <2>2, NewIsOwed
<1>4. CASE Distant(r)
  BY <1>2, <1>4 DEF Distant
<1>5. ASSUME NEW b \in Batches, NEW record \in RecordType, IsChanged(r, b, record)
      PROVE  n \in Points(r)
  BY <1>2, <1>5 DEF IsChanged, Points
<1> QED
  BY <1>1, <1>3, <1>4, <1>5, <1>2, DistantSteps

LEMMA CoveredStep ==
  ASSUME DeliveryInv, NewsCoherent, IdsMeanOne => Covered, [Next]_vars
  PROVE  (IdsMeanOne => Covered)'
<1>1. Own \subseteq Runs
  BY EventStreamAssumption
<1>2. CASE Restart
  <2>1. ~conn'.open
    BY <1>2 DEF Restart, NoConn
  <2>2. QED
    BY <2>1 DEF Covered
<1>3. CASE ~Restart
  <2> SUFFICES ASSUME IdsMeanOne', NEW r \in Own, NEW n, n \in Points(r)'
               PROVE  CoveredFor(n)'
    BY DEF Covered, CoveredFor
  <2>1. IdsMeanOne /\ Covered
    BY OneLife DEF DeliveryInv
  <2>2. CASE n \in Points(r)
    <3>1. n \in 0..counter
      BY <1>1, <2>2, PointsBound DEF DeliveryInv, NewsCoherent, NewsFor
    <3>2. CoveredFor(n)
      BY <2>1, <2>2 DEF Covered, CoveredFor
    <3>3. QED
      BY <1>3, <2>1, <3>1, <3>2, CoveredStill
  <2>3. CASE ~Got(n)'
    BY <2>3 DEF CoveredFor
  <2>4. QED
    BY <1>1, <1>3, <2>1, <2>2, <2>3, PointsStep
<1> QED
  BY <1>2, <1>3

-----------------------------------------------------------------------------
(* What is shown.                                                           *)

\* A step that changes nothing of a run, of what is shown of it and of what is
\* got of it.
Calm(r) ==
  /\ Distant(r) /\ shown'[r] = shown[r] /\ answer'[r] = answer[r]
  /\ \A n \in Points(r) : GotKept(n)
  /\ news[r].chunk /\ Got(news[r].node + 1) /\ Got(news[r].node)' => Got(news[r].node + 1)'

ViewTypesOK ==
  /\ counter \in Nat
  /\ \A r \in Runs :
       /\ news[r].run \in Nat /\ news[r].node \in Nat /\ news[r].chunk \in BOOLEAN
       /\ run[r] \in RecordType /\ run[r].ver \in Nat
       /\ shown[r] \in ViewType /\ shown[r].ver \in Nat
       /\ answer[r] \in ReplyType /\ answer[r].ver \in Nat /\ answer[r].over \in BOOLEAN

LEMMA ViewTypes == Types => ViewTypesOK
BY DEF Types, RecordType, ViewType, ReplyType, ViewTypesOK

\* An answer that is older than the news stays so.
LEMMA NewerStays ==
  ASSUME Types, NEW r \in Runs, NewsFor(r), Distant(r), answer'[r].ver = answer[r].ver,
         NEW n \in 0..counter, Newer(r, n), ~Got(n)'
  PROVE  Newer(r, n)'
<1>1. counter \in Nat
  BY DEF Types
<1>2. ASSUME NEW e \in SentType, Given(e)', e.id = n
      PROVE  e.ver > answer'[r].ver
  <2>1. e.id \in Nat
    BY DEF SentType
  <2>2. Given(e)
    BY <1>1, <1>2, <2>1 DEF Distant
  <2>3. QED
    BY <1>2, <2>2 DEF Newer, Distant
<1>3. ASSUME NEW i \in 1..Len(outbox'), outbox'[i][1].run = r
      PROVE  outbox'[i][1].ver > answer'[r].ver
  BY <1>3 DEF Newer, Distant, SameOutbox, About
<1> QED
  BY <1>2, <1>3 DEF Newer, About

LEMMA CalmView ==
  ASSUME Types, NEW r \in Runs, NewsFor(r), Calm(r), ViewFor(r)
  PROVE  ViewFor(r)'
<1> DEFINE p == news[r].run
           q == news[r].node
<1>1. /\ p \in Points(r) /\ q \in Points(r) /\ p \in 0..counter /\ q \in 0..counter
      /\ GotKept(p) /\ GotKept(q)
  <2>1. p \in Points(r) /\ q \in Points(r)
    BY DEF Points
  <2>2. QED
    BY <2>1, PointsBound DEF Calm, NewsFor
<1>2. /\ news'[r] = news[r] /\ run'[r] = run[r] /\ shown'[r] = shown[r] /\ answer'[r] = answer[r]
      /\ (Quiet(r)' <=> Quiet(r)) /\ (RecordQuiet(r)' <=> RecordQuiet(r)) /\ SameOutbox(r)
  BY SameQuiet DEF Calm, Distant
<1>3. StatusKnown(r)'
  BY <1>1, <1>2 DEF ViewFor, StatusKnown, GotKept
<1>4. NodeKnown(r)'
  BY <1>1, <1>2 DEF ViewFor, NodeKnown, HasNodes, GotKept, Calm
<1>5. AnswerTruthful(r)'
  <2>1. Newer(r, p) => Newer(r, p)'
    BY <1>1, <1>2, NewerStays DEF Calm, Newer, GotKept
  <2>2. Newer(r, q) => Newer(r, q)'
    BY <1>1, <1>2, NewerStays DEF Calm, Newer, GotKept
  <2>3. (\E i \in 1..Len(outbox) : /\ About(outbox[i], r) /\ Carries(outbox[i])
                                  /\ outbox[i][1].ver > answer[r].ver)
          => \E i \in 1..Len(outbox') : /\ About(outbox'[i], r) /\ Carries(outbox'[i])
                                        /\ outbox'[i][1].ver > answer'[r].ver
    BY <1>2 DEF SameOutbox
  <2>4. (\E i \in 1..Len(outbox) : About(outbox[i], r) /\ outbox[i][1].ver > answer[r].ver)
          => \E i \in 1..Len(outbox') : About(outbox'[i], r) /\ outbox'[i][1].ver > answer'[r].ver
    BY <1>2 DEF SameOutbox
  <2>5. QED
    BY <1>1, <1>2, <2>1, <2>2, <2>3, <2>4 DEF ViewFor, AnswerTruthful, GotKept, About, Carries
<1> QED
  BY <1>3, <1>4, <1>5 DEF ViewFor

LEMMA ChangedView ==
  ASSUME DeliveryInv, NEW r \in Runs, NEW b \in Batches, NEW record \in RecordType,
         IsChanged(r, b, record), ViewFor(r), Unstarted(r)
  PROVE  ViewFor(r)'
<1>1. /\ Types /\ ViewTypesOK /\ Len(outbox) \in Nat /\ IsAppended(b)
      /\ UNCHANGED <<buffer, counter, conn, shown, mark, lastId, keepsId, news>>
      /\ b[1].run = r /\ b[1].ver = record.ver /\ record.ver = run[r].ver + 1
      /\ run'[r] = record
      /\ b[Len(b)].kind # "snapshot" => record.status = run[r].status
  BY ViewTypes, OutboxAppended, OutboxTypes
  DEF DeliveryInv, IsChanged, OutboxTypesOK, IsChange, About, Carries, Types
<1>2. /\ \A n : Got(n)' <=> Got(n)
      /\ \A e : Given(e)' <=> Given(e)
  BY <1>1, GotStill DEF Given
<1>3. /\ Len(outbox) + 1 \in 1..Len(outbox') /\ outbox'[Len(outbox) + 1] = b
      /\ \A i \in 1..Len(outbox) : i \in 1..Len(outbox') /\ outbox'[i] = outbox[i]
      /\ \A i \in 1..Len(outbox') : i \in 1..Len(outbox) \/ outbox'[i] = b
  BY <1>1 DEF IsAppended
<1>4. ~Quiet(r)'
  BY <1>1, <1>3 DEF Quiet, About
<1>5. RecordQuiet(r)' => RecordQuiet(r) /\ record.status = run[r].status
                         /\ b[Len(b)].kind # "snapshot"
  <2>1. RecordQuiet(r)' => b[Len(b)].kind # "snapshot"
    BY <1>1, <1>3 DEF RecordQuiet, About, Carries
  <2>2. RecordQuiet(r)' => RecordQuiet(r)
    BY <1>3 DEF RecordQuiet, About, Carries
  <2>3. QED
    BY <1>1, <2>1, <2>2
<1>6. StatusKnown(r)'
  BY <1>1, <1>2, <1>5 DEF ViewFor, StatusKnown
<1>7. NodeKnown(r)'
  BY <1>4 DEF NodeKnown
<1>8. ASSUME answer' = answer PROVE AnswerTruthful(r)'
  <2> DEFINE a == answer[r]
  <2>1. a.ver \in Nat /\ run[r].ver \in Nat /\ answer'[r] = a
    BY <1>1, <1>8 DEF ViewTypesOK
  <2>2. a.kind = "get" => a.ver <= run[r].ver /\ a.ver <= record.ver /\ record.ver > a.ver
    <3>1. a.kind = "get" => a.ver <= run[r].ver
      BY DEF ViewFor, AnswerTruthful
    <3>2. QED
      BY <1>1, <2>1, <3>1
  <2>3. ASSUME a.kind = "get", NEW n, Newer(r, n)
        PROVE  Newer(r, n)'
    <3>1. \A i \in 1..Len(outbox') : outbox'[i][1].run = r => outbox'[i][1].ver > a.ver
      BY <1>1, <1>3, <2>2, <2>3 DEF Newer, About
    <3>2. QED
      BY <1>2, <2>1, <2>3, <3>1 DEF Newer, About
  <2>4. a.kind = "get" => \E i \in 1..Len(outbox') : outbox'[i][1].run = r
                                                    /\ outbox'[i][1].ver > a.ver
    BY <1>1, <1>3, <2>2
  <2>5. ASSUME a.kind = "get", ~a.over
        PROVE  \/ a.status = record.status
               \/ Newer(r, news[r].run)'
               \/ \E i \in 1..Len(outbox') : /\ outbox'[i][1].run = r
                                             /\ outbox'[i][Len(outbox'[i])].kind = "snapshot"
                                             /\ outbox'[i][1].ver > a.ver
    <3>1. CASE b[Len(b)].kind = "snapshot"
      BY <1>1, <1>3, <2>2, <2>5, <3>1
    <3>2. CASE b[Len(b)].kind # "snapshot"
      <4>1. \/ a.status = run[r].status
            \/ Newer(r, news[r].run)
            \/ \E i \in 1..Len(outbox) : /\ About(outbox[i], r) /\ Carries(outbox[i])
                                         /\ outbox[i][1].ver > a.ver
        BY <2>5 DEF ViewFor, AnswerTruthful
      <4>2. Newer(r, news[r].run) => Newer(r, news[r].run)'
        BY <1>1, <2>3, <2>5
      <4>3. QED
        BY <1>1, <1>3, <3>2, <4>1, <4>2 DEF About, Carries
    <3>3. QED
      BY <3>1, <3>2
  <2>6. a.kind = "start" /\ ~a.over => ~Got(news[r].run)'
    BY <1>1, <1>2 DEF ViewFor, AnswerTruthful
  <2>7. a.kind = "cancel" => record.status = "cancelled"
    BY DEF ViewFor, AnswerTruthful, IsChanged
  <2>8. a.kind = "get" /\ ~a.over =>
          /\ \/ answer'[r].status = run'[r].status
             \/ Newer(r, news[r].run)'
             \/ \E i \in 1..Len(outbox') : /\ About(outbox[i], r)' /\ Carries(outbox[i])'
                                           /\ outbox'[i][1].ver > answer'[r].ver
          /\ \/ answer'[r].ver = run'[r].ver
             \/ Newer(r, news[r].node)'
             \/ \E i \in 1..Len(outbox') :
                  About(outbox[i], r)' /\ outbox'[i][1].ver > answer'[r].ver
    <3>1. run'[r] = record
      BY <1>1
    <3>2. QED
      BY <2>1, <2>4, <2>5, <3>1 DEF About, Carries
  <2>9. run'[r] = record
    BY <1>1
  <2>10. QED
    BY <2>1, <2>2, <2>6, <2>7, <2>8, <2>9 DEF AnswerTruthful
<1>9. ASSUME run[r].status = "none", answer' = [answer EXCEPT ![r] = Reply("start", record)]
      PROVE  AnswerTruthful(r)'
  <2>1. news'[r].run = 0 /\ answer'[r].kind = "start"
    BY <1>1, <1>9 DEF Unstarted, Reply, Types
  <2>2. ~Got(news[r].run)'
    <3>1. ~Got(news[r].run)
      BY <1>1, <2>1, GotNone
    <3>2. QED
      BY <1>1, <1>2, <3>1
  <2>3. QED
    BY <2>1, <2>2 DEF AnswerTruthful
<1>10. ASSUME record.status = "cancelled", answer' = [answer EXCEPT ![r] = Reply("cancel", record)]
       PROVE  AnswerTruthful(r)'
  <2>1. answer'[r].kind = "cancel"
    BY <1>1, <1>10 DEF Reply, Types
  <2>2. run'[r].status = "cancelled"
    BY <1>1, <1>10
  <2>3. QED
    BY <2>1, <2>2 DEF AnswerTruthful
<1>11. \/ answer' = answer
       \/ run[r].status = "none" /\ answer' = [answer EXCEPT ![r] = Reply("start", record)]
       \/ record.status = "cancelled" /\ answer' = [answer EXCEPT ![r] = Reply("cancel", record)]
  BY DEF IsChanged
<1>12. AnswerTruthful(r)'
  BY <1>8, <1>9, <1>10, <1>11
<1> QED
  BY <1>6, <1>7, <1>12 DEF ViewFor

\* The dashboard asks, is told that a run is over, and reads the answers.
LEMMA AskedView ==
  ASSUME DeliveryInv, NEW r \in Runs, ViewFor(r), Ask(r) \/ CancelDone(r),
         Faults \cap {"stale_answer", "late_cancel"} = {}
  PROVE  ViewFor(r)'
<1>1. /\ Types /\ ViewTypesOK
      /\ UNCHANGED <<run, outbox, buffer, counter, conn, shown, lastId, keepsId, news>>
  BY ViewTypes DEF DeliveryInv, Ask, CancelDone
<1>2. \A n : Got(n)' <=> Got(n)
  BY <1>1, GotStill
<1>3. StatusKnown(r)'
  BY <1>1, <1>2 DEF ViewFor, StatusKnown, RecordQuiet, About, Carries
<1>4. NodeKnown(r)'
  BY <1>1, <1>2 DEF ViewFor, NodeKnown, Quiet, HasNodes, About
<1>5. CASE Ask(r)
  <2>1. answer'[r].kind = "get" /\ answer'[r].ver = run[r].ver /\ answer'[r].status = run[r].status
    BY <1>1, <1>5 DEF Ask, Reply, Types
  <2>2. QED
    BY <1>1, <1>3, <1>4, <2>1 DEF ViewFor, AnswerTruthful, ViewTypesOK
<1>6. CASE CancelDone(r)
  <2>1. run[r].status = "cancelled" /\ answer'[r].kind = "cancel"
    BY <1>1, <1>6 DEF CancelDone, Fault, Reply, Types
  <2>2. QED
    BY <1>1, <1>3, <1>4, <2>1 DEF ViewFor, AnswerTruthful
<1> QED
  BY <1>5, <1>6

LEMMA AnsweredView ==
  ASSUME DeliveryInv, NEW r \in Runs, ViewFor(r), AnswerArrives(r),
         Faults \cap {"stale_answer", "late_cancel"} = {}
  PROVE  ViewFor(r)'
<1> DEFINE a == answer[r]
           v == shown[r]
<1>1. /\ Types /\ ViewTypesOK /\ a # NoAnswer /\ a.over = FALSE
      /\ UNCHANGED <<run, outbox, buffer, counter, conn, lastId, keepsId, news>>
      /\ shown'[r] = Answered(v, a) /\ answer'[r] = NoAnswer
  BY ViewTypes DEF DeliveryInv, AnswerArrives, Fault, Types, ViewTypesOK
<1>2. /\ \A n : Got(n)' <=> Got(n)
      /\ Quiet(r)' <=> Quiet(r)
      /\ RecordQuiet(r)' <=> RecordQuiet(r)
  BY <1>1, GotStill DEF RecordQuiet, Quiet, About, Carries
<1>3. AnswerTruthful(r)'
  BY <1>1 DEF AnswerTruthful, NoAnswer
<1>4. CASE a.kind = "get"
  <2>1. shown'[r] = [status |-> a.status, ver |-> a.ver, log |-> <<>>]
    BY <1>1, <1>4 DEF Answered
  <2>2. /\ \/ a.status = run[r].status
           \/ Newer(r, news[r].run)
           \/ \E i \in 1..Len(outbox) : /\ About(outbox[i], r) /\ Carries(outbox[i])
                                       /\ outbox[i][1].ver > a.ver
        /\ \/ a.ver = run[r].ver
           \/ Newer(r, news[r].node)
           \/ \E i \in 1..Len(outbox) : About(outbox[i], r) /\ outbox[i][1].ver > a.ver
    BY <1>1, <1>4 DEF ViewFor, AnswerTruthful
  <2>3. Got(news[r].run) /\ RecordQuiet(r) => a.status = run[r].status
    BY <2>2 DEF Newer, RecordQuiet
  <2>4. Got(news[r].node) /\ Quiet(r) => a.ver = run[r].ver
    BY <2>2 DEF Newer, Quiet
  <2>5. QED
    BY <1>1, <1>2, <1>3, <2>1, <2>3, <2>4 DEF ViewFor, StatusKnown, NodeKnown
<1>5. CASE a.kind = "start"
  <2>1. shown'[r] = [status |-> a.status, ver |-> 0, log |-> <<>>]
    BY <1>1, <1>5 DEF Answered
  <2>2. ~Got(news[r].run)
    BY <1>1, <1>5 DEF ViewFor, AnswerTruthful
  <2>3. QED
    BY <1>1, <1>2, <1>3, <2>1, <2>2 DEF ViewFor, StatusKnown, NodeKnown, HasNodes
<1>6. CASE a.kind = "cancel"
  <2>1. run[r].status = "cancelled"
    BY <1>6 DEF ViewFor, AnswerTruthful
  <2>2. CASE v.status = "unknown"
    <3>1. shown'[r] = v
      BY <1>1, <1>6, <2>2 DEF Answered
    <3>2. QED
      BY <1>1, <1>2, <1>3, <3>1 DEF ViewFor, StatusKnown, NodeKnown, HasNodes
  <2>3. CASE v.status # "unknown"
    <3>1. shown'[r] = [v EXCEPT !.status = "cancelled"]
      BY <1>1, <1>6, <2>3 DEF Answered
    <3>2. shown'[r].status = "cancelled" /\ shown'[r].ver = v.ver /\ shown'[r].log = v.log
      BY <1>1, <3>1 DEF ViewTypesOK, ViewType
    <3>3. QED
      BY <1>1, <1>2, <1>3, <2>1, <3>2 DEF ViewFor, StatusKnown, NodeKnown, HasNodes
  <2>4. QED
    BY <2>2, <2>3
<1>7. a.kind \in {"get", "start", "cancel"}
  BY <1>1 DEF ViewTypesOK, ReplyType, AnswerKinds
<1> QED
  BY <1>4, <1>5, <1>6, <1>7

\* What is published next is newer than what is already known to be newer.
LEMMA PublishedNewer ==
  ASSUME DeliveryInv, IdsMeanOne, OutboxCoherent, NEW r \in Own, r \in Runs, NEW b \in Batches,
         NEW m \in Seq(SentType), NEW k \in Nat, IsPublished(b, m, k), b[1].run = r, Publish,
         b[1].ver > answer[r].ver, NEW n \in Nat, n > counter, n <= counter'
  PROVE  Newer(r, n)'
<1>1. ~Got(n)'
  BY NewIsOwed
<1>2. IsTaken(b) /\ Len(outbox) \in Nat /\ counter \in Nat /\ answer' = answer
  BY OutboxTaken, OutboxTypes DEF DeliveryInv, OutboxTypesOK, Types, Publish
<1>3. ASSUME NEW e \in SentType, Given(e)', e.id = n
      PROVE  e.ver > answer[r].ver
  <2>1. ~Given(e)
    BY <1>2, <1>3, GivenIds
  <2>2. PICK i \in 1..Len(m) : e = m[i]
    BY <1>3, <2>1, GivenPublished DEF DeliveryInv
  <2>3. e.ver = b[1].ver
    BY <2>2 DEF IsPublished, IsSent
  <2>4. QED
    BY <2>3
<1>4. ASSUME NEW i \in 1..Len(outbox'), outbox'[i][1].run = r
      PROVE  outbox'[i][1].ver > answer[r].ver
  <2>1. i + 1 \in 1..Len(outbox) /\ 1 \in 1..Len(outbox) /\ 1 < i + 1
    BY <1>2 DEF IsTaken
  <2>2. outbox'[i] = outbox[i + 1] /\ outbox[1] = b
    BY <1>2, <1>4 DEF IsTaken
  <2>3. b[1].ver < outbox[i + 1][1].ver
    BY <1>4, <2>1, <2>2 DEF OutboxCoherent, About
  <2>4. outbox[i + 1][1].ver \in Nat /\ b[1].ver \in Nat /\ answer[r].ver \in Nat
    BY <2>1, <2>2, OutboxTypes, ViewTypes DEF DeliveryInv, OutboxTypesOK, ViewTypesOK
  <2>5. QED
    BY <2>2, <2>3, <2>4
<1> QED
  BY <1>1, <1>2, <1>3, <1>4 DEF Newer, About

LEMMA PublishedView ==
  ASSUME DeliveryInv, IdsMeanOne, OutboxCoherent, NEW r \in Own, r \in Runs, NEW b \in Batches,
         NEW m \in Seq(SentType), NEW k \in Nat, IsPublished(b, m, k), b[1].run = r, Publish,
         NewsFor(r), ViewFor(r)
  PROVE  ViewFor(r)'
<1> DEFINE a == answer[r]
           p == news[r].run
           q == news[r].node
<1>1. /\ Types /\ IsTaken(b) /\ Len(outbox) \in Nat /\ counter \in Nat
      /\ UNCHANGED <<run, shown, answer>>
      /\ p \in Nat /\ q \in Nat /\ a.ver \in Nat /\ p \in 0..counter
  <2>1. Types /\ IsTaken(b) /\ Len(outbox) \in Nat /\ UNCHANGED <<run, shown, answer>>
    BY OutboxTaken, OutboxTypes DEF DeliveryInv, OutboxTypesOK, Publish
  <2>2. p \in Nat /\ q \in Nat /\ a.ver \in Nat /\ counter \in Nat
    BY <2>1, ViewTypes DEF ViewTypesOK
  <2>3. p \in Points(r) /\ Bounds(r)
    BY DEF Points, NewsFor
  <2>4. QED
    BY <2>1, <2>2, <2>3, PointsBound
<1>2. /\ Len(m) \in 1..3 /\ counter' = counter + Len(m)
      /\ Carries(b) =>
           news'[r].run = counter' /\ news'[r].node = counter' /\ news'[r].chunk = FALSE
      /\ ~Carries(b) =>
           /\ news'[r].run = p /\ news'[r].node = counter + 1
           /\ news'[r].chunk = TRUE
  BY <1>1, ToldNews
<1>3. /\ news'[r].node \in Nat /\ news'[r].node > counter /\ news'[r].node <= counter'
      /\ Carries(b) => news'[r].run = news'[r].node
  <2>1. counter' \in Nat /\ counter' > counter /\ counter + 1 <= counter'
    <3>1. PICK x \in 1..3 : counter' = counter + x
      BY <1>2
    <3>2. counter \in Nat
      BY <1>1
    <3>3. QED
      BY <3>1, <3>2
  <2>2. news'[r].node = counter' \/ news'[r].node = counter + 1
    BY <1>2
  <2>3. Carries(b) => news'[r].run = news'[r].node
    BY <1>2
  <2>4. counter \in Nat
    BY <1>1
  <2>5. QED
    BY <2>1, <2>2, <2>3, <2>4
<1>4. ~Got(news[r].node)'
  BY <1>3, NewIsOwed
<1>5. Got(news[r].run)' => ~Carries(b) /\ Got(p)
  <2>1. CASE Carries(b)
    BY <1>3, <1>4, <2>1
  <2>2. CASE ~Carries(b)
    BY <1>1, <1>2, <2>2, GotPublish DEF GotKept
  <2>3. QED
    BY <2>1, <2>2
<1>6. StatusKnown(r)'
  <2>1. RecordQuiet(r)' /\ ~Carries(b) => RecordQuiet(r)
    BY <1>1, TakenRecordQuiet
  <2>2. QED
    BY <1>1, <1>5, <2>1 DEF ViewFor, StatusKnown
<1>7. NodeKnown(r)'
  BY <1>4 DEF NodeKnown
<1>8. ASSUME b[1].ver > a.ver
      PROVE  Newer(r, news[r].node)' /\ (Carries(b) => Newer(r, news[r].run)')
  <2>1. Newer(r, news[r].node)'
    BY <1>3, <1>8, PublishedNewer
  <2>2. QED
    BY <1>3, <2>1
<1>9. 1 \in 1..Len(outbox) /\ outbox[1] = b /\ \A n : Newer(r, n) => b[1].ver > a.ver
  <2>1. 1 \in 1..Len(outbox) /\ outbox[1] = b
    BY <1>1 DEF IsTaken
  <2>2. QED
    BY <2>1 DEF Newer, About
<1>10. ASSUME NEW i \in 1..Len(outbox), i # 1
       PROVE  i - 1 \in 1..Len(outbox') /\ outbox'[i - 1] = outbox[i]
  <2>1. i - 1 \in 1..Len(outbox') /\ (i - 1) + 1 = i
    BY <1>1, <1>10 DEF IsTaken
  <2>2. QED
    BY <1>1, <2>1 DEF IsTaken
<1>11. ASSUME ~Carries(b), Newer(r, p)
       PROVE  Newer(r, news[r].run)'
  <2>1. news'[r].run = p /\ ~Got(news[r].run)'
    BY <1>2, <1>5, <1>11 DEF Newer
  <2>2. ASSUME NEW e \in SentType, Given(e)', e.id = p
        PROVE  e.ver > a.ver
    <3>1. \A i \in 1..Len(m) : m[i].id = counter + i /\ counter + i > p
      BY <1>1, <1>2 DEF IsPublished, IsSent
    <3>2. ~\E i \in 1..Len(m) : e = m[i]
      BY <1>1, <2>2, <3>1
    <3>3. Given(e)
      BY <1>1, <2>2, <3>2, GivenPublished
    <3>4. QED
      BY <1>11, <2>2, <3>3 DEF Newer
  <2>3. ASSUME NEW i \in 1..Len(outbox'), outbox'[i][1].run = r
        PROVE  outbox'[i][1].ver > a.ver
    <3>1. i + 1 \in 1..Len(outbox) /\ outbox'[i] = outbox[i + 1]
      BY <1>1 DEF IsTaken
    <3>2. QED
      BY <1>11, <2>3, <3>1 DEF Newer, About
  <2>4. answer'[r] = a
    BY <1>1
  <2>5. QED
    BY <2>1, <2>2, <2>3, <2>4 DEF Newer, About
<1>12. ASSUME a.kind = "get", ~a.over
       PROVE  /\ \/ a.status = run[r].status
                 \/ Newer(r, news[r].run)'
                 \/ \E i \in 1..Len(outbox') : /\ About(outbox[i], r)' /\ Carries(outbox[i])'
                                              /\ outbox'[i][1].ver > a.ver
              /\ \/ a.ver = run[r].ver
                 \/ Newer(r, news[r].node)'
                 \/ \E i \in 1..Len(outbox') : About(outbox[i], r)' /\ outbox'[i][1].ver > a.ver
  <2>1. /\ \/ a.status = run[r].status
           \/ Newer(r, p)
           \/ \E i \in 1..Len(outbox) : /\ About(outbox[i], r) /\ Carries(outbox[i])
                                       /\ outbox[i][1].ver > a.ver
        /\ \/ a.ver = run[r].ver
           \/ Newer(r, q)
           \/ \E i \in 1..Len(outbox) : About(outbox[i], r) /\ outbox[i][1].ver > a.ver
    BY <1>12 DEF ViewFor, AnswerTruthful
  <2>2. ASSUME NEW i \in 1..Len(outbox), About(outbox[i], r), outbox[i][1].ver > a.ver
        PROVE  \/ Newer(r, news[r].node)'
               \/ \E j \in 1..Len(outbox') : About(outbox[j], r)' /\ outbox'[j][1].ver > a.ver
    <3>1. CASE i = 1
      BY <1>8, <1>9, <2>2, <3>1
    <3>2. CASE i # 1
      BY <1>10, <2>2, <3>2 DEF About
    <3>3. QED
      BY <3>1, <3>2
  <2>3. ASSUME NEW i \in 1..Len(outbox), About(outbox[i], r), Carries(outbox[i]),
               outbox[i][1].ver > a.ver
        PROVE  \/ Newer(r, news[r].run)'
               \/ \E j \in 1..Len(outbox') : /\ About(outbox[j], r)' /\ Carries(outbox[j])'
                                            /\ outbox'[j][1].ver > a.ver
    <3>1. CASE i = 1
      BY <1>8, <1>9, <2>3, <3>1
    <3>2. CASE i # 1
      BY <1>10, <2>3, <3>2 DEF About, Carries
    <3>3. QED
      BY <3>1, <3>2
  <2>4. Newer(r, p) => Newer(r, news[r].run)'
    BY <1>8, <1>9, <1>11
  <2>5. Newer(r, q) => Newer(r, news[r].node)'
    BY <1>8, <1>9
  <2>6. QED
    BY <2>1, <2>2, <2>3, <2>4, <2>5
<1>13. AnswerTruthful(r)'
  <2>1. run'[r] = run[r] /\ answer'[r] = a
    BY <1>1
  <2>2. a.kind = "start" /\ ~a.over => ~Got(news[r].run)'
    BY <1>5 DEF ViewFor, AnswerTruthful
  <2>3. /\ a.kind = "get" => a.ver <= run[r].ver
        /\ a.kind = "cancel" => run[r].status = "cancelled"
    BY DEF ViewFor, AnswerTruthful
  <2>4. QED
    BY <1>12, <2>1, <2>2, <2>3 DEF AnswerTruthful
<1> QED
  BY <1>6, <1>7, <1>13 DEF ViewFor

\* What an event does to the record that is shown.
LEMMA AppliedEffect ==
  ASSUME NEW e \in SentType, e.run \in Runs, shown[e.run] \in ViewType
  PROVE  LET v == shown[e.run]
             w == Applied(e)
         IN  /\ e.kind = "snapshot" => w.status = e.status /\ w.ver = e.ver /\ w.log = <<>>
             /\ e.kind \in {"result", "chunk"} => w.status = v.status
             /\ e.kind \in {"result", "chunk"} /\ ~HasNodes(v) => w = v
             /\ e.kind = "result" /\ HasNodes(v) => w.ver = e.ver /\ w.log = <<>>
             /\ e.kind = "chunk" /\ HasNodes(v) => w.ver = v.ver /\ w.log = Append(v.log, e.ver)
             /\ e.kind = "status" => w.ver = v.ver /\ w.log = v.log
<1> DEFINE v == shown[e.run]
<1>1. e.kind = "snapshot" => Applied(e) = MergeSnapshot(e)
  BY DEF Applied
<1>2. e.kind = "result" => Applied(e) = UpdateNode(v, e)
  BY DEF Applied
<1>3. e.kind = "chunk" => Applied(e) = ApplyDelta(v, e)
  BY DEF Applied
<1>4. e.kind = "status" => Applied(e) = v \/ Applied(e) = UpdateStatus(v, e)
  BY DEF Applied
<1>5. v \in [status : Statuses \cup {"unknown"}, ver : Nat, log : Seq(Nat)]
  BY DEF ViewType
<1>6. /\ MergeSnapshot(e).status = e.status /\ MergeSnapshot(e).ver = e.ver
      /\ MergeSnapshot(e).log = <<>>
  BY DEF MergeSnapshot
<1>7. /\ UpdateNode(v, e).status = v.status
      /\ HasNodes(v) => UpdateNode(v, e).ver = e.ver /\ UpdateNode(v, e).log = <<>>
      /\ ~HasNodes(v) => UpdateNode(v, e) = v
  BY <1>5 DEF UpdateNode
<1>8. /\ ApplyDelta(v, e).status = v.status
      /\ HasNodes(v) => ApplyDelta(v, e).ver = v.ver /\ ApplyDelta(v, e).log = Append(v.log, e.ver)
      /\ ~HasNodes(v) => ApplyDelta(v, e) = v
  BY <1>5 DEF ApplyDelta
<1>9. UpdateStatus(v, e).ver = v.ver /\ UpdateStatus(v, e).log = v.log
  BY <1>5 DEF UpdateStatus
<1> QED
  BY <1>1, <1>2, <1>3, <1>4, <1>6, <1>7, <1>8, <1>9

LEMMA ReceivedView ==
  ASSUME DeliveryInv, IdsMeanOne, NEW r \in Own, r \in Runs, NEW e \in SentType, IsReceived(e),
         e.run = r, Covered, NewsFor(r), ViewFor(r)
  PROVE  ViewFor(r)'
<1> DEFINE a == answer[r]
           v == shown[r]
           w == Applied(e)
           p == news[r].run
           q == news[r].node
           c == news[r].chunk
<1>1. /\ Types /\ ViewTypesOK /\ e.kind # "worker" /\ e.id \in Nat /\ Given(e)
      /\ shown'[r] = w /\ answer'[r] = [a EXCEPT !.over = @ \/ Overtakes(e, a)]
      /\ UNCHANGED <<run, outbox, counter, news>>
  <2>1. Types /\ ViewTypesOK
    BY ViewTypes DEF DeliveryInv
  <2>2. e.kind # "worker" /\ e.id \in Nat
    BY EventStreamAssumption DEF SentType
  <2>3. Given(e)
    <3>1. 1 \in 1..Len(conn.stream) /\ conn.stream[1] = e
      BY StreamTypes DEF IsReceived, StreamTypesOK, DeliveryInv
    <3>2. QED
      BY <3>1 DEF Given
  <2>4. UNCHANGED <<run, outbox, counter, news>>
    BY DEF IsReceived
  <2>5. shown'[r] = w /\ answer'[r] = [a EXCEPT !.over = @ \/ Overtakes(e, a)]
    BY <2>1, <2>2 DEF IsReceived, Types
  <2>6. QED
    BY <2>1, <2>2, <2>3, <2>4, <2>5
<1>2. /\ p \in Points(r) /\ q \in Points(r) /\ (c => q + 1 \in Points(r))
      /\ \A n \in Points(r) : n \in 0..counter
      /\ p \in Nat /\ q \in Nat /\ c \in BOOLEAN
  <2>1. p \in Points(r) /\ q \in Points(r) /\ (c => q + 1 \in Points(r))
    BY DEF Points
  <2>2. \A n \in Points(r) : n \in 0..counter
    BY <1>1, PointsBound DEF NewsFor
  <2>3. p \in Nat /\ q \in Nat /\ c \in BOOLEAN
    BY <1>1 DEF ViewTypesOK
  <2>4. QED
    BY <2>1, <2>2, <2>3
<1>3. ASSUME NEW n \in Points(r)
      PROVE  /\ Got(n) => Got(n)'
             /\ Got(n)' => Got(n) \/ n = e.id
             /\ Got(n) => e.id > n
  <2>1. conn.open /\ (Got(n) => Got(n)') /\ (Got(n)' => Got(n) \/ n = e.id)
    BY <1>2, GotReceive
  <2>2. 1 \in 1..Len(conn.stream) /\ conn.stream[1] = e
    BY StreamTypes DEF IsReceived, StreamTypesOK, DeliveryInv
  <2>3. Got(n) => e.id > n
    BY <2>1, <2>2 DEF Covered
  <2>4. QED
    BY <2>1, <2>3
<1>4. NewsOf(e, r)
  BY <1>1 DEF NewsFor
<1>5. /\ e.kind = "snapshot" => w.status = e.status /\ w.ver = e.ver /\ w.log = <<>>
      /\ e.kind \in {"result", "chunk"} => w.status = v.status
      /\ e.kind \in {"result", "chunk"} /\ ~HasNodes(v) => w = v
      /\ e.kind = "result" /\ HasNodes(v) => w.ver = e.ver /\ w.log = <<>>
      /\ e.kind = "chunk" /\ HasNodes(v) => w.ver = v.ver /\ w.log = Append(v.log, e.ver)
  BY <1>1, AppliedEffect DEF ViewTypesOK
<1>6. (Quiet(r)' <=> Quiet(r)) /\ (RecordQuiet(r)' <=> RecordQuiet(r))
  BY <1>1, StillOutbox, SameQuiet
<1> HIDE DEF w
<1>7. StatusKnown(r)'
  <2> SUFFICES ASSUME Got(news[r].run)', RecordQuiet(r) PROVE w.status = run[r].status
    BY <1>1, <1>6 DEF StatusKnown
  <2>1. Got(p) \/ p = e.id
    BY <1>1, <1>2, <1>3
  <2>2. CASE p = e.id
    BY <1>4, <1>5, <2>2 DEF NewsOf
  <2>3. CASE Got(p)
    <3>1. e.id > p
      BY <1>2, <1>3, <2>3
    <3>2. e.kind \in {"result", "chunk"}
      BY <1>4, <3>1 DEF NewsOf
    <3>3. QED
      BY <1>5, <2>3, <3>2 DEF ViewFor, StatusKnown
  <2>4. QED
    BY <2>1, <2>2, <2>3
<1>8. NodeKnown(r)'
  <2> SUFFICES ASSUME Got(news[r].node)', Quiet(r), HasNodes(w)
               PROVE  /\ w.ver = run[r].ver
                      /\ \/ w.log = <<>>
                         \/ c /\ Got(q + 1)' /\ w.log = <<run[r].ver>>
    BY <1>1, <1>6 DEF NodeKnown, HasNodes
  <2>1. Got(q) \/ q = e.id
    BY <1>1, <1>2, <1>3
  <2>2. CASE q = e.id
    <3>1. e.ver = run[r].ver /\ e.kind = (IF c THEN "result" ELSE "snapshot")
      BY <1>4, <2>2 DEF NewsOf
    <3>2. CASE e.kind = "snapshot"
      BY <1>5, <3>1, <3>2
    <3>3. CASE e.kind = "result"
      <4>1. HasNodes(v)
        BY <1>5, <3>3
      <4>2. QED
        BY <1>5, <3>1, <3>3, <4>1
    <3>4. QED
      BY <3>1, <3>2, <3>3
  <2>3. CASE Got(q)
    <3>1. e.id > q
      BY <1>2, <1>3, <2>3
    <3>2. c /\ e.id = q + 1
      BY <1>4, <3>1 DEF NewsOf
    <3>3. e.kind = "chunk" /\ e.ver = run[r].ver
      BY <1>4, <3>2 DEF NewsOf
    <3>4. HasNodes(v)
      BY <1>5, <3>3
    <3>5. ~Got(q + 1)
      <4>1. Owed(e.id)
        BY <1>2, GotReceive
      <4>2. QED
        BY <3>2, <4>1 DEF Got
    <3>6. v.ver = run[r].ver /\ v.log = <<>>
      BY <2>3, <3>4, <3>5 DEF ViewFor, NodeKnown
    <3>7. w.ver = run[r].ver /\ w.log = Append(<<>>, run[r].ver)
      BY <1>5, <3>3, <3>4, <3>6
    <3>8. Append(<<>>, run[r].ver) = <<run[r].ver>>
      OBVIOUS
    <3>9. Got(q + 1)'
      <4>1. e.id >= conn.from
        <5>1. Held(q) /\ conn.open /\ conn.from \in Nat
          BY <1>2, <2>3, GotReceive, StreamTypes DEF Got, DeliveryInv, StreamTypesOK
        <5>2. QED
          BY <1>2, <3>2, <5>1 DEF Held
      <4>2. Got(e.id)'
        BY <1>2, <4>1, GotReceive
      <4>3. QED
        BY <1>1, <3>2, <4>2
    <3>10. QED
      BY <3>2, <3>7, <3>8, <3>9
  <2>4. QED
    BY <2>1, <2>2, <2>3
<1>9. AnswerTruthful(r)'
  <2>1. /\ answer'[r].kind = a.kind /\ answer'[r].ver = a.ver /\ answer'[r].status = a.status
        /\ (~answer'[r].over => ~a.over /\ ~Overtakes(e, a))
    BY <1>1 DEF ViewTypesOK, ReplyType
  <2>2. ASSUME a.kind = "get", ~answer'[r].over, NEW n \in Points(r), Newer(r, n),
               n = e.id => e.run = r
        PROVE  Newer(r, n)'
    <3>1. n # e.id
      BY <1>1, <2>1, <2>2 DEF Newer, Overtakes
    <3>2. ~Got(n)'
      BY <1>3, <2>2, <3>1 DEF Newer
    <3>3. \A x \in SentType : Given(x)' => Given(x)
      <4>1. Len(conn.stream) \in Nat /\ buffer' = buffer
        BY StreamTypes DEF StreamTypesOK, IsReceived, DeliveryInv
      <4>2. \A i \in 1..Len(conn'.stream) :
              i + 1 \in 1..Len(conn.stream) /\ conn'.stream[i] = conn.stream[i + 1]
        BY <4>1 DEF IsReceived
      <4>3. QED
        BY <4>1, <4>2 DEF Given
    <3>4. QED
      BY <1>1, <2>1, <2>2, <3>2, <3>3 DEF Newer, About
  <2>3. a.kind = "start" /\ ~answer'[r].over => ~Got(news[r].run)'
    <3>1. a.kind = "start" /\ ~answer'[r].over => FALSE
      BY <2>1 DEF Overtakes
    <3>2. QED
      BY <3>1
  <2>4. a.kind = "get" /\ ~answer'[r].over =>
          /\ \/ a.status = run[r].status
             \/ Newer(r, news[r].run)'
             \/ \E i \in 1..Len(outbox) : /\ About(outbox[i], r) /\ Carries(outbox[i])
                                          /\ outbox[i][1].ver > a.ver
          /\ \/ a.ver = run[r].ver
             \/ Newer(r, news[r].node)'
             \/ \E i \in 1..Len(outbox) : About(outbox[i], r) /\ outbox[i][1].ver > a.ver
    <3> SUFFICES ASSUME a.kind = "get", ~answer'[r].over
                 PROVE  /\ \/ a.status = run[r].status
                           \/ Newer(r, p)'
                           \/ \E i \in 1..Len(outbox) : /\ About(outbox[i], r)
                                                        /\ Carries(outbox[i])
                                                        /\ outbox[i][1].ver > a.ver
                        /\ \/ a.ver = run[r].ver
                           \/ Newer(r, q)'
                           \/ \E i \in 1..Len(outbox) : About(outbox[i], r)
                                                        /\ outbox[i][1].ver > a.ver
      BY <1>1
    <3>1. Newer(r, p) => Newer(r, news[r].run)'
      BY <1>1, <1>2, <2>2
    <3>2. Newer(r, q) => Newer(r, news[r].node)'
      BY <1>1, <1>2, <2>2
    <3>3. QED
      BY <2>1, <3>1, <3>2 DEF ViewFor, AnswerTruthful
  <2>5. /\ a.kind = "get" => a.ver <= run[r].ver
        /\ a.kind = "cancel" => run[r].status = "cancelled"
    BY DEF ViewFor, AnswerTruthful
  <2>6. QED
    BY <1>1, <2>1, <2>3, <2>4, <2>5 DEF AnswerTruthful, About, Carries
<1> QED
  BY <1>7, <1>8, <1>9 DEF ViewFor

LEMMA OldestNext == Types' => (Oldest \in Nat)'
<1>1. Types => Oldest \in Nat
  BY OldestType
<1> QED
  BY <1>1, PTL

LEMMA GotNoneAfter == DeliveryInv' => ~Got(0)'
<1>1. DeliveryInv => ~Got(0)
  BY GotNone
<1> QED
  BY <1>1, PTL

LEMMA RestartedView ==
  ASSUME DeliveryInv', Types, Restart, NEW r \in Runs
  PROVE  ViewFor(r)' /\ Unstarted(r)'
<1>1. /\ news'[r].run = 0 /\ news'[r].node = 0 /\ answer'[r].kind = "none" /\ Len(outbox') = 0
  BY DEF Restart, NoAnswer
<1>2. ~Got(0)'
  BY GotNoneAfter
<1>3. ~Got(news[r].run)' /\ ~Got(news[r].node)'
  BY <1>1, <1>2
<1>4. AnswerTruthful(r)'
  BY <1>1 DEF AnswerTruthful
<1>5. Unstarted(r)'
  BY <1>1 DEF Unstarted, Quiet
<1> QED
  BY <1>3, <1>4, <1>5 DEF ViewFor, StatusKnown, NodeKnown

\* What the steps about others leave of a run.
LEMMA CalmSteps ==
  ASSUME DeliveryInv, IdsMeanOne, NEW r \in Own, r \in Runs, NewsFor(r), Distant(r),
         shown'[r] = shown[r], answer'[r] = answer[r],
         \/ UNCHANGED <<buffer, counter, conn, lastId, keepsId>> \/ Publish \/ Connect \/ Drop
         \/ \E e \in SentType : IsReceived(e) /\ (e.kind = "worker" \/ e.run # r)
  PROVE  Calm(r)
<1> DEFINE q == news[r].node
           c == news[r].chunk
<1>1. /\ Types /\ (\A n \in Points(r) : n \in 0..counter)
      /\ q \in Points(r) /\ (c => q + 1 \in Points(r)) /\ q \in Nat /\ news'[r] = news[r]
  <2>1. Types /\ (\A n \in Points(r) : n \in 0..counter)
    BY PointsBound DEF NewsFor, DeliveryInv
  <2>2. q \in Points(r) /\ (c => q + 1 \in Points(r))
    BY DEF Points
  <2>3. q \in Nat /\ news'[r] = news[r]
    BY <2>1, ViewTypes DEF ViewTypesOK, Distant
  <2>4. QED
    BY <2>1, <2>2, <2>3
<1>2. SUFFICES /\ \A n \in Points(r) : GotKept(n)
               /\ c /\ Got(q + 1) /\ Got(q)' => Got(q + 1)'
  BY DEF Calm
<1>3. CASE UNCHANGED <<buffer, counter, conn, lastId, keepsId>>
  <2>1. \A n : Got(n)' <=> Got(n)
    BY <1>3, GotStill
  <2>2. QED
    BY <1>1, <2>1 DEF GotKept
<1>4. CASE Publish
  <2>1. \A n \in Points(r) : GotKept(n)
    BY <1>1, <1>4, GotPublish
  <2>2. ASSUME c, Got(q + 1), Got(q)'
        PROVE  Got(q + 1)'
    <3>1. Held(q)' => Held(q + 1)'
      <4>1. Oldest' \in Nat /\ conn'.from \in Nat
        <5>1. DeliveryInv'
          BY <1>4, DeliveryStep DEF Next, Scheduler
        <5>2. QED
          BY <5>1, OldestNext DEF DeliveryInv, Types
      <4>2. QED
        BY <1>1, <4>1 DEF Held
    <3>2. Held(q + 1)'
      BY <2>2, <3>1 DEF Got
    <3>3. q + 1 \in 0..counter
      BY <1>1, <2>2
    <3>4. PICK x \in 0..counter : x = q + 1
      BY <3>3
    <3>5. Got(x)'
      BY <1>1, <1>4, <2>2, <3>2, <3>4, GotPublish
    <3>6. QED
      BY <1>1, <3>4, <3>5
  <2>3. QED
    BY <2>1, <2>2
<1>5. CASE Connect
  <2>1. \A n \in Points(r) : Got(n)' <=> Got(n)
    BY <1>1, <1>5, GotConnect
  <2>2. c => (Got(q + 1)' <=> Got(q + 1))
    BY <1>1, <2>1
  <2>3. QED
    BY <2>1, <2>2 DEF GotKept
<1>6. CASE Drop
  <2>1. \A n \in Points(r) : GotKept(n)
    BY <1>1, <1>6, GotDrop
  <2>2. ASSUME c, Got(q + 1), Got(q)'
        PROVE  Got(q + 1)'
    <3>1. ~conn'.open /\ UNCHANGED <<buffer, counter, lastId, keepsId>>
      BY <1>6 DEF Drop, NoConn
    <3>2. q >= Oldest /\ keepsId
      BY <1>1, <2>2, <3>1 DEF Got, Held, Owed, Oldest
    <3>3. q + 1 >= Oldest
      BY <1>1, <3>2, OldestType
    <3>4. ASSUME NEW i \in 1..Len(buffer), buffer[i].id = q + 1
          PROVE  Matches(buffer[i])
      <4>1. buffer[i] \in SentType /\ Given(buffer[i])
        BY <1>1, StreamTypes DEF StreamTypesOK, Given
      <4>2. NewsOf(buffer[i], r)
        BY <4>1 DEF NewsFor
      <4>3. buffer[i].run = r
        BY <2>2, <3>4, <4>2 DEF NewsOf
      <4>4. QED
        BY <4>3 DEF Matches
    <3>5. PICK x \in 0..counter : x = q + 1
      BY <1>1, <2>2
    <3>6. Got(x)'
      BY <1>6, <2>2, <3>2, <3>3, <3>4, <3>5, GotDrop
    <3>7. QED
      BY <1>1, <3>5, <3>6
  <2>3. QED
    BY <2>1, <2>2
<1>7. ASSUME NEW e \in SentType, IsReceived(e), e.kind = "worker" \/ e.run # r
      PROVE  /\ \A n \in Points(r) : GotKept(n)
             /\ c /\ Got(q + 1) /\ Got(q)' => Got(q + 1)'
  <2>1. \A n \in Points(r) : (Got(n) => Got(n)') /\ (Got(n)' => Got(n) \/ n = e.id)
    BY <1>1, <1>7, GotReceive
  <2>2. Given(e)
    <3>1. 1 \in 1..Len(conn.stream) /\ conn.stream[1] = e
      BY <1>1, <1>7, StreamTypes DEF IsReceived, StreamTypesOK
    <3>2. QED
      BY <3>1 DEF Given
  <2>3. NewsOf(e, r)
    BY <2>2 DEF NewsFor
  <2>4. \A n \in Points(r) : n # e.id
    BY <1>7, <2>3 DEF NewsOf, Points
  <2>5. c /\ Got(q + 1) => Got(q + 1)'
    <3> SUFFICES ASSUME c, Got(q + 1) PROVE Got(q + 1)'
      OBVIOUS
    <3>1. PICK x \in Points(r) : x = q + 1
      BY <1>1
    <3>2. Got(x)'
      BY <2>1, <3>1
    <3>3. QED
      BY <1>1, <3>1, <3>2
  <2>6. QED
    BY <2>1, <2>4, <2>5 DEF GotKept
<1> QED
  BY <1>3, <1>4, <1>5, <1>6, <1>7

LEMMA ViewStep ==
  ASSUME TruthInv, [Next]_vars, IdsMeanOne', NEW r \in Own,
         Faults \cap {"stale_answer", "late_cancel"} = {}
  PROVE  ViewFor(r)'
<1>1. r \in Runs
  BY EventStreamAssumption
<1>2. /\ DeliveryInv /\ Types /\ OutboxCoherent /\ NewsFor(r) /\ Unstarted(r)
      /\ IdsMeanOne /\ Covered /\ ViewFor(r)
  <2>1. DeliveryInv /\ Types /\ IdsMeanOne
    BY OneLife DEF TruthInv, DeliveryInv
  <2>2. OutboxCoherent /\ NewsFor(r)
    BY <1>1 DEF TruthInv, NewsCoherent, NewsFor
  <2>3. Covered /\ Unstarted(r) /\ ViewFor(r)
    BY <2>1 DEF TruthInv, ShownFor
  <2>4. QED
    BY <2>1, <2>2, <2>3
<1>0. shown \in [Runs -> ViewType] /\ answer \in [Runs -> ReplyType]
  BY <1>2 DEF Types
<1>3. ASSUME NEW b \in Batches, NEW record \in RecordType, IsChanged(r, b, record)
      PROVE  ViewFor(r)'
  BY <1>1, <1>2, <1>3, ChangedView
<1>4. ASSUME NEW b \in Batches, NEW m \in Seq(SentType), NEW k \in Nat,
             IsPublished(b, m, k), b[1].run = r, Publish
      PROVE  ViewFor(r)'
  BY <1>1, <1>2, <1>4, PublishedView
<1>5. CASE Restart
  <2>1. DeliveryInv'
    BY <1>2, DeliveryStep
  <2>2. QED
    BY <1>1, <1>2, <1>5, <2>1, RestartedView
<1>6. ASSUME Distant(r), shown'[r] = shown[r], answer'[r] = answer[r],
             \/ UNCHANGED <<buffer, counter, conn, lastId, keepsId>> \/ Publish \/ Connect \/ Drop
             \/ \E e \in SentType : IsReceived(e) /\ (e.kind = "worker" \/ e.run # r)
      PROVE  ViewFor(r)'
  <2>1. Calm(r)
    BY <1>1, <1>2, <1>6, CalmSteps
  <2>2. QED
    BY <1>1, <1>2, <2>1, CalmView
<1>7. ASSUME Distant(r) PROVE ViewFor(r)'
  <2>1. CASE UNCHANGED vars
    BY <1>6, <1>7, <2>1 DEF vars
  <2>2. ASSUME NEW x \in Runs, NEW b \in Batches, NEW record \in RecordType,
               IsChanged(x, b, record)
        PROVE  ViewFor(r)'
    <3>1. CASE x = r
      BY <1>3, <2>2, <3>1
    <3>2. CASE x # r
      <4>1. shown'[r] = shown[r] /\ UNCHANGED <<buffer, counter, conn, lastId, keepsId>>
        BY <2>2 DEF IsChanged
      <4>2. answer'[r] = answer[r]
        BY <1>0, <1>1, <2>2, <3>2 DEF IsChanged
      <4>3. QED
        BY <1>6, <1>7, <4>1, <4>2
    <3>3. QED
      BY <3>1, <3>2
  <2>3. ASSUME NEW x \in Runs, CancelDone(x) \/ Ask(x) \/ AnswerArrives(x)
        PROVE  ViewFor(r)'
    <3>1. CASE x = r
      BY <1>1, <1>2, <2>3, <3>1, AskedView, AnsweredView
    <3>2. CASE x # r
      <4>1. UNCHANGED <<buffer, counter, conn, lastId, keepsId>>
        BY <2>3 DEF CancelDone, Ask, AnswerArrives
      <4>2. shown'[r] = shown[r] /\ answer'[r] = answer[r]
        BY <1>0, <1>1, <2>3, <3>2 DEF CancelDone, Ask, AnswerArrives
      <4>3. QED
        BY <1>6, <1>7, <4>1, <4>2
    <3>3. QED
      BY <3>1, <3>2
  <2>4. CASE WorkerEvent
    BY <1>6, <1>7, <2>4 DEF WorkerEvent
  <2>5. CASE Publish
    BY <1>6, <1>7, <2>5 DEF Publish
  <2>6. CASE Connect
    BY <1>6, <1>7, <2>6 DEF Connect
  <2>7. CASE Drop
    BY <1>6, <1>7, <2>7 DEF Drop
  <2>8. CASE Receive
    <3>1. PICK e \in SentType : IsReceived(e)
      BY <1>2, <2>8, ReceiveEffect
    <3>2. CASE e.run = r
      BY <1>1, <1>2, <3>1, <3>2, ReceivedView
    <3>3. CASE e.run # r
      <4>1. shown'[r] = shown[r] /\ answer'[r] = answer[r]
        BY <1>0, <1>1, <3>1, <3>3 DEF IsReceived
      <4>2. QED
        BY <1>6, <1>7, <3>1, <3>3, <4>1
    <3>4. QED
      BY <3>2, <3>3
  <2>9. QED
    BY <1>2, <1>5, <2>1, <2>2, <2>3, <2>4, <2>5, <2>6, <2>7, <2>8, NextSteps
<1> QED
  BY <1>1, <1>2, <1>3, <1>4, <1>5, <1>7, DistantSteps

LEMMA UnstartedStep ==
  ASSUME DeliveryInv, [Next]_vars, NEW r \in Runs, Unstarted(r)
  PROVE  Unstarted(r)'
<1>1. Types
  BY DEF DeliveryInv
<1>2. CASE Distant(r)
  BY <1>2, SameQuiet DEF Unstarted, Distant
<1>3. ASSUME NEW b \in Batches, NEW record \in RecordType, IsChanged(r, b, record)
      PROVE  Unstarted(r)'
  <2>1. run'[r].status # "none"
    BY <1>1, <1>3 DEF IsChanged, Types
  <2>2. QED
    BY <2>1 DEF Unstarted
<1>4. ASSUME NEW b \in Batches, NEW n \in Seq(SentType), NEW k \in Nat,
             IsPublished(b, n, k), b[1].run = r, Publish
      PROVE  Unstarted(r)'
  <2>1. IsTaken(b) /\ Len(outbox) \in Nat /\ run' = run
    BY <1>1, <1>4, OutboxTaken, OutboxTypes DEF OutboxTypesOK, Publish
  <2>2. 1 \in 1..Len(outbox) /\ outbox[1] = b
    BY <2>1 DEF IsTaken
  <2>3. ~Quiet(r)
    BY <1>4, <2>2 DEF Quiet, About
  <2>4. QED
    BY <2>1, <2>3 DEF Unstarted
<1>5. CASE Restart
  <2>1. news'[r].run = 0 /\ Len(outbox') = 0
    BY <1>5 DEF Restart
  <2>2. QED
    BY <2>1 DEF Unstarted, Quiet
<1> QED
  BY <1>1, <1>2, <1>3, <1>4, <1>5, DistantSteps

LEMMA LogStep ==
  ASSUME DeliveryInv, [Next]_vars, NEW r \in Runs, NoLogAlone(r)
  PROVE  NoLogAlone(r)'
<1>1. Types /\ ViewTypesOK
  BY ViewTypes DEF DeliveryInv
<1>2. ASSUME shown'[r] = shown[r] PROVE NoLogAlone(r)'
  BY <1>2 DEF NoLogAlone, HasNodes
<1>3. CASE UNCHANGED vars
  BY <1>2, <1>3 DEF vars
<1>4. ASSUME NEW x \in Runs, NEW b \in Batches, NEW record \in RecordType, IsChanged(x, b, record)
      PROVE  NoLogAlone(r)'
  BY <1>2, <1>4 DEF IsChanged
<1>5. ASSUME NEW x \in Runs, CancelDone(x) \/ Ask(x)
      PROVE  NoLogAlone(r)'
  BY <1>2, <1>5 DEF CancelDone, Ask
<1>6. ASSUME NEW x \in Runs, AnswerArrives(x)
      PROVE  NoLogAlone(r)'
  <2>1. CASE x # r
    BY <1>1, <1>2, <1>6, <2>1 DEF AnswerArrives, Types
  <2>2. CASE x = r
    <3> DEFINE w == Answered(shown[r], answer[r])
    <3>1. shown'[r] = w /\ answer[r] # NoAnswer
      BY <1>1, <1>6, <2>2 DEF AnswerArrives, Types
    <3>2. answer[r].kind \in {"get", "start", "cancel"}
      BY <1>1, <3>1 DEF ViewTypesOK, ReplyType, AnswerKinds
    <3>3. w.log = <<>> \/ (w.log = shown[r].log /\ w.ver = shown[r].ver)
      BY <1>1, <3>2 DEF Answered, ViewTypesOK, ViewType
    <3>4. QED
      BY <3>1, <3>3 DEF NoLogAlone, HasNodes
  <2>3. QED
    BY <2>1, <2>2
<1>7. CASE WorkerEvent \/ Publish \/ Restart \/ Connect \/ Drop
  BY <1>2, <1>7 DEF WorkerEvent, Publish, Restart, Connect, Drop
<1>8. CASE Receive
  <2>1. PICK e \in SentType : IsReceived(e)
    BY <1>1, <1>8, ReceiveEffect
  <2>2. CASE e.kind = "worker" \/ e.run # r
    BY <1>1, <1>2, <2>1, <2>2 DEF IsReceived, Types
  <2>3. CASE e.kind # "worker" /\ e.run = r
    <3> DEFINE v == shown[r]
               w == Applied(e)
    <3>1. shown'[r] = w
      BY <1>1, <2>1, <2>3 DEF IsReceived, Types
    <3>2. /\ e.kind = "snapshot" => w.log = <<>>
          /\ e.kind \in {"result", "chunk"} /\ ~HasNodes(v) => w = v
          /\ e.kind = "result" /\ HasNodes(v) => w.log = <<>>
          /\ e.kind = "chunk" /\ HasNodes(v) => w.ver = v.ver
          /\ e.kind = "status" => w.ver = v.ver /\ w.log = v.log
      BY <1>1, <2>3, AppliedEffect DEF ViewTypesOK
    <3>3. e.kind \in {"status", "snapshot", "result", "chunk"}
      BY <2>3 DEF SentType, Kinds
    <3> HIDE DEF w
    <3>4. QED
      BY <3>1, <3>2, <3>3 DEF NoLogAlone, HasNodes
  <2>4. QED
    BY <2>2, <2>3
<1> QED
  BY <1>1, <1>3, <1>4, <1>5, <1>6, <1>7, <1>8, NextSteps

LEMMA TruthInit == Init => TruthInv
<1> SUFFICES ASSUME Init PROVE TruthInv
  OBVIOUS
<1>1. DeliveryInv
  BY DeliveryInit
<1>2. /\ outbox = <<>> /\ buffer = <<>> /\ counter = 0 /\ conn.stream = <<>> /\ ~conn.open
      /\ Len(<<>>) = 0
      /\ \A r \in Runs : /\ news[r].run = 0 /\ news[r].node = 0 /\ news[r].chunk = FALSE
                         /\ answer[r].kind = "none" /\ shown[r].log = <<>>
  BY DEF Init, NoConn, NoAnswer, Unknown
<1>3. OutboxCoherent
  BY <1>2 DEF OutboxCoherent
<1>4. NewsCoherent
  BY <1>2 DEF NewsCoherent, NewsFor, Bounds, Given
<1>5. Covered
  BY <1>2 DEF Covered
<1>6. ASSUME NEW r \in Runs
      PROVE  ShownFor(r)
  <2>1. ~Got(news[r].run) /\ ~Got(news[r].node)
    BY <1>1, <1>2, GotNone
  <2>2. ViewFor(r)
    BY <1>2, <2>1 DEF ViewFor, StatusKnown, NodeKnown, AnswerTruthful
  <2>3. NoLogAlone(r) /\ Unstarted(r)
    BY <1>2 DEF NoLogAlone, Unstarted, Quiet
  <2>4. QED
    BY <2>2, <2>3 DEF ShownFor
<1> QED
  BY <1>1, <1>3, <1>4, <1>5, <1>6, EventStreamAssumption DEF TruthInv

LEMMA TruthStep ==
  ASSUME TruthInv, [Next]_vars, Faults \cap {"stale_answer", "late_cancel"} = {}
  PROVE  TruthInv'
<1>1. DeliveryInv' /\ Types
  BY DeliveryStep DEF TruthInv, DeliveryInv
<1>2. OutboxCoherent'
  BY <1>1, OutboxStep DEF TruthInv
<1>3. NewsCoherent'
  BY NewsStep DEF TruthInv
<1>4. (IdsMeanOne => Covered)'
  BY CoveredStep DEF TruthInv
<1>5. ASSUME NEW r \in Own
      PROVE  ShownFor(r)'
  <2>1. r \in Runs /\ ShownFor(r) /\ DeliveryInv
    BY EventStreamAssumption DEF TruthInv
  <2>2. NoLogAlone(r)'
    BY <2>1, LogStep DEF ShownFor
  <2>3. Unstarted(r)'
    BY <2>1, UnstartedStep DEF ShownFor
  <2>4. IdsMeanOne' => ViewFor(r)'
    BY ViewStep
  <2>5. QED
    BY <2>2, <2>3, <2>4 DEF ShownFor
<1> QED
  BY <1>1, <1>2, <1>3, <1>4, <1>5 DEF TruthInv

LEMMA TruthShows ==
  ASSUME TruthInv
  PROVE  ShownIsTrue
<1> SUFFICES ASSUME Drained, IdsMeanOne, NEW r \in Own, run[r].status \in Known
             PROVE  /\ news[r].run >= conn.from => shown[r].status = run[r].status
                    /\ news[r].node >= conn.from =>
                         /\ HasNodes(shown[r]) => shown[r].ver = run[r].ver
                         /\ shown[r].log # <<>> => news[r].chunk /\ shown[r].log = <<run[r].ver>>
  BY DEF ShownIsTrue, StatusShown, NodesShown
<1>1. conn.open /\ Len(conn.stream) = 0 /\ Len(outbox) = 0
  BY DEF Drained
<1>2. StatusKnown(r) /\ NodeKnown(r) /\ NoLogAlone(r)
  BY DEF TruthInv, ShownFor, ViewFor
<1>3. \A n : n >= conn.from => Got(n)
  BY <1>1 DEF Got, Held, Owed
<1>4. Quiet(r) /\ RecordQuiet(r)
  BY <1>1 DEF Quiet, RecordQuiet
<1> QED
  BY <1>2, <1>3, <1>4 DEF StatusKnown, NodeKnown, NoLogAlone

\* Whatever is replayed, dropped, restarted or answered out of order with the
\* events, once everything sent has been read the dashboard shows what the
\* scheduler has of every run of its session whose newest events the store still
\* held, unless a request was answered with what was overtaken before it came
\* (runEventHandlers.ts, nodeEventHandlers.ts, runsSlice.ts).
THEOREM ShowsTheTruth ==
  ASSUME Faults \cap {"stale_answer", "late_cancel"} = {}
  PROVE  Spec => []ShownIsTrue
<1>1. TruthInv /\ [Next]_vars => TruthInv'
  BY TruthStep
<1>2. TruthInv => ShownIsTrue
  BY TruthShows
<1> QED
  BY <1>1, <1>2, TruthInit, PTL DEF Spec
=============================================================================
