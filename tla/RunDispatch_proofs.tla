------------------------- MODULE RunDispatch_proofs -------------------------
(***************************************************************************)
(* What holds of RunDispatch for every set of runs, tasks and workers,     *)
(* every dependency graph, every combination of faults and every bound.    *)
(***************************************************************************)
EXTENDS RunDispatch, FiniteSetTheorems, SequenceTheorems, TLAPS

---------------------------------------------------------------------------
(* Facts about the operators. *)

\* Indices that were valid stay valid when a sequence has grown.
LEMMA WidenSeq ==
  ASSUME NEW m \in Nat, NEW n \in Nat, m <= n
  PROVE  Seq(1..m) \subseteq Seq(1..n)
<1>1. 1..m \subseteq 1..n
  OBVIOUS
<1>2. QED
  BY <1>1, SeqMonotonic

\* A function on 1..n is a sequence of length n.
LEMMA FunctionIsSeq ==
  ASSUME NEW S, NEW n \in Nat, NEW f \in [1..n -> S]
  PROVE  f \in Seq(S) /\ Len(f) = n /\ DOMAIN f = 1..n
OBVIOUS

\* The size of a ready list is a number.
LEMMA ReadyIsFinite ==
  ASSUME NEW S \in SUBSET Task
  PROVE  IsFiniteSet(S) /\ Cardinality(S) \in Nat
<1>1. IsFiniteSet(Task)
  BY ConstantsAssumption DEF ConstantsAssumption
<1>2. QED
  BY <1>1, FS_Subset, FS_CardinalityType

\* A rollup is one of the statuses a run may have.
LEMMA RollupType ==
  ASSUME NEW nodes, NEW r
  PROVE  Rollup(nodes, r) \in RunStatus
BY DEF Rollup, RunStatus

\* Adding the requests of a ready list keeps the list of requests well formed;
\* the ids handed out are the ones of the new requests.
LEMMA NewRequestsType ==
  ASSUME requests \in Seq(RequestType), NEW S \in SUBSET Task, NEW s \in Orderings(S)
  PROVE  /\ requests \o NewRequests(s) \in Seq(RequestType)
         /\ Len(requests \o NewRequests(s)) = Len(requests) + Len(s)
         /\ Len(requests) \in Nat /\ Len(s) \in Nat
         /\ NewRids(s) \in Seq(1..(Len(requests) + Len(s)))
         /\ \A q \in 1..Len(requests) : (requests \o NewRequests(s))[q] = requests[q]
         /\ \A q \in (Len(requests) + 1)..(Len(requests) + Len(s)) :
              (requests \o NewRequests(s))[q].attempts = 0
<1> DEFINE n == Cardinality(S)
<1>1. n \in Nat
  BY ReadyIsFinite
<1>2. s \in [1..n -> S]
  BY DEF Orderings
<1>3. s \in Seq(S) /\ Len(s) = n /\ DOMAIN s = 1..n
  BY <1>1, <1>2
<1>4. NewRequests(s) = [i \in 1..n |-> [task |-> s[i], attempts |-> 0]]
  BY <1>3 DEF NewRequests
<1>5. \A i \in 1..n : [task |-> s[i], attempts |-> 0] \in RequestType
  BY <1>2, ConstantsAssumption DEF RequestType, ConstantsAssumption
<1>6. NewRequests(s) \in Seq(RequestType) /\ Len(NewRequests(s)) = n
  BY <1>1, <1>4, <1>5
<1>7. Len(requests) \in Nat
  OBVIOUS
<1>8. NewRids(s) = [i \in 1..n |-> Len(requests) + i]
  BY <1>3 DEF NewRids
<1>9. NewRids(s) \in [1..n -> 1..(Len(requests) + n)]
  BY <1>1, <1>7, <1>8
<1>a. NewRids(s) \in Seq(1..(Len(requests) + n))
  BY <1>1, <1>9, FunctionIsSeq
<1>10. QED
  BY <1>1, <1>3, <1>4, <1>6, <1>7, <1>a, ConcatProperties

---------------------------------------------------------------------------
(* Type correctness.                                                       *)

\* The run of every request and dispatch exists.
LEMMA RunsExist ==
  ASSUME TypeOK
  PROVE  /\ \A q \in 1..Len(requests) : TaskOfRequest(q) \in Task /\ RunOfRequest(q) \in Run
         /\ \A d \in 1..Len(dispatches) :
              /\ dispatches[d].rid \in 1..Len(requests)
              /\ TaskOfDispatch(d) \in Task /\ RunOf[TaskOfDispatch(d)] \in Run
         /\ \A i \in DOMAIN queue : queue[i] \in 1..Len(requests)
<1>1. /\ requests \in Seq(RequestType) /\ queue \in Seq(1..Len(requests))
      /\ dispatches \in Seq(DispatchType)
  BY DEF TypeOK, DispatcherTypes
<1>2. \A q \in 1..Len(requests) : requests[q] \in RequestType
  BY <1>1, ElementOfSeq
<1>3. \A q \in 1..Len(requests) : TaskOfRequest(q) \in Task /\ RunOfRequest(q) \in Run
  BY <1>2, ConstantsAssumption DEF ConstantsAssumption, RequestType, TaskOfRequest, RunOfRequest
<1>4. \A d \in 1..Len(dispatches) : dispatches[d] \in DispatchType
  BY <1>1, ElementOfSeq
<1>5. \A d \in 1..Len(dispatches) : dispatches[d].rid \in 1..Len(requests)
  BY <1>4 DEF DispatchType
<1>6. \A d \in 1..Len(dispatches) : TaskOfDispatch(d) = TaskOfRequest(dispatches[d].rid)
  BY DEF TaskOfDispatch, TaskOfRequest
<1>7. \A i \in DOMAIN queue : queue[i] \in 1..Len(requests)
  BY <1>1, LenProperties
<1>8. QED
  BY <1>3, <1>5, <1>6, <1>7 DEF RunOfRequest

---------------------------------------------------------------------------
(* Nodes and records keep their type.                                      *)

\* Every update of a node yields a node.
LEMMA NodeUpdates ==
  ASSUME NEW n \in NodeType
  PROVE  /\ \A d \in Nat : Dispatched(n, d) \in NodeType
         /\ \A st \in Final : Reported(n, st) \in NodeType
         /\ AckTimedOut(n) \in NodeType /\ WorkerCancelled(n) \in NodeType
         /\ CommandFailed(n) \in NodeType /\ RunCancelled(n) \in NodeType
         /\ CountDown(n) \in NodeType
         /\ [n EXCEPT !.enqueued = TRUE] \in NodeType
         /\ [n EXCEPT !.pendingAck = FALSE] \in NodeType
<1> USE DEF NodeType, NodeStatus, Final
<1>1. \A d \in Nat : Dispatched(n, d) \in NodeType
  BY DEF Dispatched
<1>2. \A st \in Final : Reported(n, st) \in NodeType
  BY DEF Reported
<1>3. AckTimedOut(n) \in NodeType
  BY DEF AckTimedOut
<1>4. WorkerCancelled(n) \in NodeType
  BY DEF WorkerCancelled
<1>5. CommandFailed(n) \in NodeType
  BY DEF CommandFailed
<1>6. RunCancelled(n) \in NodeType
  BY DEF RunCancelled
<1>7. CountDown(n) \in NodeType
  BY DEF CountDown
<1>8. [n EXCEPT !.enqueued = TRUE] \in NodeType /\ [n EXCEPT !.pendingAck = FALSE] \in NodeType
  OBVIOUS
<1>9. QED
  BY <1>1, <1>2, <1>3, <1>4, <1>5, <1>6, <1>7, <1>8

\* A refreshed record is a record.
LEMMA RefreshType ==
  ASSUME RecordTypes, NEW nodes \in [Task -> NodeType], NEW r \in Run, Refresh(nodes, r)
  PROVE  node' \in [Task -> NodeType] /\ runStatus' \in [Run -> RunStatus]
BY RollupType DEF RecordTypes, Refresh

LEMMA CommandErrorType ==
  ASSUME RecordTypes, NEW r \in Run, NEW t \in Task \cup {None}, CommandError(r, t)
  PROVE  node' \in [Task -> NodeType] /\ runStatus' \in [Run -> RunStatus]
<1>1. node \in [Task -> NodeType] /\ runStatus \in [Run -> RunStatus]
  BY DEF RecordTypes
<1>2. CASE UNCHANGED <<node, runStatus>>
  BY <1>1, <1>2
<1>3. CASE Refresh(node, r)
  BY <1>1, <1>3, RefreshType
<1>4. CASE t # None /\ Refresh([node EXCEPT ![t] = CommandFailed(@)], r)
  <2>1. [node EXCEPT ![t] = CommandFailed(@)] \in [Task -> NodeType]
    BY <1>1, <1>4, NodeUpdates
  <2>2. QED
    BY <1>4, <2>1, RefreshType
<1>5. QED
  BY <1>2, <1>3, <1>4 DEF CommandError

LEMMA RecordStep ==
  ASSUME TypeOK, Next
  PROVE  RecordTypes'
<1> USE DEF stateVars, ackVars, readyVars, wireVars
<1>1. RecordTypes
  BY DEF TypeOK
<1>2. /\ runStatus \in [Run -> RunStatus] /\ lastNode \in [Run -> Task \cup {None}]
      /\ node \in [Task -> NodeType]
  BY <1>1 DEF RecordTypes
<1>3. ASSUME NEW q \in Rid, TakeRequest(q)
      PROVE  TaskOfRequest(q) \in Task /\ RunOfRequest(q) \in Run /\ UNCHANGED lastNode
  <2>1. q \in 1..Len(requests)
    BY <1>3, HeadTailProperties DEF TakeRequest, TypeOK, DispatcherTypes
  <2>2. QED
    BY <1>3, <2>1, RunsExist DEF TakeRequest
<1>4. ASSUME NEW q \in 1..Len(requests), HandleRetry(q), UNCHANGED lastNode
      PROVE  RecordTypes'
  <2>1. TaskOfRequest(q) \in Task /\ RunOfRequest(q) \in Run
    BY RunsExist
  <2>2. CASE UNCHANGED <<node, runStatus>>
    BY <1>2, <1>4, <2>2 DEF RecordTypes
  <2>3. CASE CommandError(RunOfRequest(q), TaskOfRequest(q))
    BY <1>1, <1>2, <1>4, <2>1, <2>3, CommandErrorType DEF RecordTypes
  <2>4. QED
    BY <1>4, <2>2, <2>3 DEF HandleRetry
<1>5. ASSUME NEW q \in Rid, NoWorker(q)
      PROVE  RecordTypes'
  <2>1. q \in 1..Len(requests)
    BY <1>5, HeadTailProperties DEF NoWorker, TakeRequest, TypeOK, DispatcherTypes
  <2>2. QED
    BY <1>3, <1>4, <1>5, <2>1 DEF NoWorker
<1>6. ASSUME NEW q \in Rid, InvalidPayload(q)
      PROVE  RecordTypes'
  BY <1>1, <1>2, <1>3, <1>6, CommandErrorType DEF InvalidPayload, RecordTypes
<1>7. ASSUME SendFails
      PROVE  RecordTypes'
  <2>1. runner.rid \in 1..Len(requests)
    BY <1>7 DEF SendFails, TypeOK, DispatcherTypes
  <2>2. QED
    BY <1>4, <1>7, <2>1 DEF SendFails
<1>8. ASSUME MarkDispatched
      PROVE  RecordTypes'
  <2> DEFINE t == TaskOfRequest(runner.rid)
             r == RunOf[t]
  <2>1. runner.rid \in 1..Len(requests) /\ runner.did \in Nat
    BY <1>8 DEF MarkDispatched, TypeOK, DispatcherTypes
  <2>2. t \in Task /\ r \in Run
    BY <2>1, RunsExist DEF RunOfRequest
  <2>3. CASE Live(r)
    <3>1. [node EXCEPT ![t] = Dispatched(@, runner.did)] \in [Task -> NodeType]
      BY <1>2, <2>1, <2>2, NodeUpdates
    <3>2. Refresh([node EXCEPT ![t] = Dispatched(@, runner.did)], r)
      BY <1>8, <2>3 DEF MarkDispatched
    <3>3. lastNode' = [lastNode EXCEPT ![r] = t]
      BY <1>8, <2>3 DEF MarkDispatched
    <3>4. lastNode' \in [Run -> Task \cup {None}]
      BY <1>2, <2>2, <3>3
    <3>5. QED
      BY <1>1, <2>2, <3>1, <3>2, <3>4, RefreshType DEF RecordTypes
  <2>4. CASE ~Live(r)
    BY <1>2, <1>8, <2>4 DEF MarkDispatched, RecordTypes
  <2>5. QED
    BY <2>3, <2>4
<1>9. ASSUME NEW d \in Did, MarkAcknowledged(d)
      PROVE  RecordTypes'
  <2>1. d \in 1..Len(dispatches)
    BY <1>9 DEF MarkAcknowledged, TypeOK, WireTypes
  <2>2. TaskOfDispatch(d) \in Task /\ RunOf[TaskOfDispatch(d)] \in Run
    BY <2>1, RunsExist
  <2>3. [node EXCEPT ![TaskOfDispatch(d)].pendingAck = FALSE] \in [Task -> NodeType]
    BY <1>2, <2>2, NodeUpdates
  <2>4. UNCHANGED lastNode
    BY <1>9 DEF MarkAcknowledged
  <2>5. CASE Refresh([node EXCEPT ![TaskOfDispatch(d)].pendingAck = FALSE], RunOf[TaskOfDispatch(d)])
    BY <1>1, <1>2, <2>2, <2>3, <2>4, <2>5, RefreshType DEF RecordTypes
  <2>6. CASE UNCHANGED <<node, runStatus>>
    BY <1>2, <2>4, <2>6 DEF RecordTypes
  <2>7. QED
    BY <1>9, <2>5, <2>6 DEF MarkAcknowledged
<1>10. ASSUME NEW d \in Did, AckTimeout(d)
       PROVE  RecordTypes'
  <2> DEFINE t == TaskOfDispatch(d)
             r == RunOf[t]
             new == [node EXCEPT ![t] = AckTimedOut(@)]
  <2>1. d \in 1..Len(dispatches)
    BY <1>10 DEF AckTimeout, TypeOK, WireTypes
  <2>2. t \in Task /\ r \in Run
    BY <2>1, RunsExist
  <2>3. new \in [Task -> NodeType]
    BY <1>2, <2>2, NodeUpdates
  <2>4. CASE Live(r) /\ node[t].did = d
    <3>1. Refresh(new, r) /\ lastNode' = [lastNode EXCEPT ![r] = IF @ = t THEN None ELSE @]
      BY <1>10, <2>4 DEF AckTimeout
    <3>2. lastNode' \in [Run -> Task \cup {None}]
      BY <1>2, <2>2, <3>1
    <3>3. QED
      BY <1>1, <2>2, <2>3, <3>1, <3>2, RefreshType DEF RecordTypes
  <2>5. CASE ~(Live(r) /\ node[t].did = d)
    BY <1>2, <1>10, <2>5 DEF AckTimeout, RecordTypes
  <2>6. QED
    BY <2>4, <2>5
<1>11. ASSUME NEW w \in retrying, RetryAfterTimeout(w)
       PROVE  RecordTypes'
  <2>1. dispatches[w.did].rid \in 1..Len(requests)
    BY RunsExist DEF TypeOK, WireTypes
  <2>2. QED
    BY <1>4, <1>11, <2>1 DEF RetryAfterTimeout
<1>12. \A S : Enqueued(node, S) \in [Task -> NodeType]
  BY <1>2, NodeUpdates DEF Enqueued
<1>13. ASSUME NEW r \in Run, CollectReady(r)
       PROVE  RecordTypes'
  BY <1>2, <1>12, <1>13 DEF CollectReady, RecordTypes
<1>14. ASSUME NEW m \in replies
       PROVE  /\ m.did \in 1..Len(dispatches) /\ m.status \in Final \cup {None}
              /\ TaskOfDispatch(m.did) \in Task /\ RunOf[TaskOfDispatch(m.did)] \in Run
  BY <1>14, RunsExist DEF TypeOK, WireTypes, ReplyType
<1>15. ASSUME NEW m \in replies, HandleResult(m)
       PROVE  RecordTypes'
  <2> DEFINE t == TaskOfDispatch(m.did)
  <2>1. UNCHANGED lastNode
    BY <1>15 DEF HandleResult
  <2>2. CASE UNCHANGED <<node, runStatus>>
    BY <1>2, <2>1, <2>2 DEF RecordTypes
  <2>3. CASE ApplyResult(t, m.status)
    <3> DEFINE reported == [node EXCEPT ![t] = Reported(@, m.status)]
               released == IF m.status \in Done THEN Released(reported, t) ELSE reported
               ready    == {u \in Dependents(t) : m.status \in Done /\ AutoDispatchable(released[u])}
    <3>1. m.status \in Final
      BY <1>15 DEF HandleResult, Deliver, TypeOK, WireTypes, ReplyType
    <3>2. reported \in [Task -> NodeType]
      BY <1>2, <1>14, <3>1, NodeUpdates
    <3>3. Released(reported, t) \in [Task -> NodeType]
      BY <3>2, NodeUpdates DEF Released
    <3>4. Enqueued(released, ready) \in [Task -> NodeType]
      BY <3>2, <3>3, NodeUpdates DEF Enqueued
    <3>5. Refresh(Enqueued(released, ready), RunOf[t])
      BY <2>3 DEF ApplyResult
    <3>6. QED
      BY <1>1, <1>2, <1>14, <2>1, <3>4, <3>5, RefreshType DEF RecordTypes
  <2>4. QED
    BY <1>15, <2>2, <2>3 DEF HandleResult
<1>16. ASSUME NEW m \in replies, HandleCancelled(m)
       PROVE  RecordTypes'
  <2> DEFINE t == TaskOfDispatch(m.did)
             new == [node EXCEPT ![t] = WorkerCancelled(@)]
  <2>1. new \in [Task -> NodeType]
    BY <1>2, <1>14, NodeUpdates
  <2>2. UNCHANGED lastNode
    BY <1>16 DEF HandleCancelled
  <2>3. CASE Refresh(new, RunOf[t])
    BY <1>1, <1>2, <1>14, <2>1, <2>2, <2>3, RefreshType DEF RecordTypes
  <2>4. CASE UNCHANGED <<node, runStatus>>
    BY <1>2, <2>2, <2>4 DEF RecordTypes
  <2>5. QED
    BY <1>16, <2>3, <2>4 DEF HandleCancelled
<1>17. ASSUME NEW m \in replies, HandleError(m)
       PROVE  RecordTypes'
  <2>1. ErrorTarget(m) \in Task \cup {None}
    BY <1>2, <1>14 DEF ErrorTarget
  <2>2. QED
    BY <1>1, <1>2, <1>14, <1>17, <2>1, CommandErrorType DEF HandleError, RecordTypes
<1>18. ASSUME NEW r \in Run, CancelRun(r)
       PROVE  RecordTypes'
  <2>1. node' \in [Task -> NodeType]
    BY <1>2, <1>18, NodeUpdates DEF CancelRun
  <2>2. runStatus' \in [Run -> RunStatus] /\ UNCHANGED lastNode
    BY <1>2, <1>18 DEF CancelRun, RunStatus
  <2>3. QED
    BY <1>2, <2>1, <2>2 DEF RecordTypes
<1>19. ASSUME UNCHANGED stateVars
       PROVE  RecordTypes'
  BY <1>2, <1>19 DEF RecordTypes
<1>20. CASE Dispatcher
  <2>1. ASSUME \/ SkipFinal \/ \E q \in Rid, w \in Worker : StartSend(q, w)
               \/ Transmit \/ BackoffOver \/ RegisterWaiter
        PROVE  UNCHANGED stateVars
    BY <2>1 DEF SkipFinal, StartSend, TakeRequest, Transmit, BackoffOver, RegisterWaiter
  <2>2. QED
    BY <1>5, <1>6, <1>7, <1>8, <1>19, <1>20, <2>1 DEF Dispatcher
<1>21. CASE AckHandling
  <2>1. ASSUME \/ \E d \in Did : HandleAck(d)
               \/ \E w \in retrying : RequeueAfterTimeout(w)
        PROVE  UNCHANGED stateVars
    BY <2>1 DEF HandleAck, RequeueAfterTimeout
  <2>2. QED
    BY <1>9, <1>10, <1>11, <1>19, <1>21, <2>1 DEF AckHandling
<1>22. CASE ResultHandling
  <2>1. ASSUME \E s \in handoff : EnqueueReady(s)
        PROVE  UNCHANGED stateVars
    BY <2>1 DEF EnqueueReady
  <2>2. QED
    BY <1>13, <1>15, <1>16, <1>17, <1>19, <1>22, <2>1 DEF ResultHandling
<1>23. CASE Cancellation
  <2>1. ASSUME \E r \in Run : FlushCancelled(r) \/ CancelFinalRun(r)
        PROVE  UNCHANGED stateVars
    BY <2>1 DEF FlushCancelled, CancelFinalRun
  <2>2. QED
    BY <1>18, <1>19, <1>23, <2>1 DEF Cancellation
<1>24. CASE Workers
  <2>1. UNCHANGED stateVars
    BY <1>24 DEF Workers, WorkerReceive, WorkerInterrupted, WorkerFails, LoseFrame, LoseAck,
       WorkerFinishes, WorkerReports, WorkerRepeats, WorkerCrashes, schedulerVars
  <2>2. QED
    BY <1>19, <2>1
<1>25. QED
  BY <1>20, <1>21, <1>22, <1>23, <1>24 DEF Next

---------------------------------------------------------------------------
(* The queues and the dispatcher keep their type.                          *)

\* A retry keeps the requests well formed: a request that may count one more
\* attempt has not used up MaxAttempts.
LEMMA HandleRetryType ==
  ASSUME TypeOK, GivenUpRunEnded, NEW q \in 1..Len(requests), HandleRetry(q)
  PROVE  /\ requests' \in Seq(RequestType) /\ Len(requests') = Len(requests)
         /\ \A p \in 1..Len(requests) : requests'[p].task = requests[p].task
         /\ \A p \in 1..Len(requests) : p # q => requests'[p] = requests[p]
<1>1. requests \in Seq(RequestType)
  BY DEF TypeOK, DispatcherTypes
<1>2. CASE UNCHANGED requests
  BY <1>1, <1>2
<1>3. CASE Live(RunOfRequest(q)) /\ requests' = [requests EXCEPT ![q].attempts = @ + 1]
  <2> DEFINE new == [requests[q] EXCEPT !.attempts = @ + 1]
  <2>1. requests[q] \in RequestType
    BY <1>1, ElementOfSeq
  <2>2. ~(requests[q].attempts > MaxAttempts)
    BY <1>3 DEF GivenUpRunEnded
  <2>3. new \in RequestType /\ new.task = requests[q].task
    BY <2>1, <2>2, ConstantsAssumption DEF RequestType, ConstantsAssumption
  <2>4. requests' = [requests EXCEPT ![q] = new]
    BY <1>3
  <2>5. QED
    BY <1>1, <2>3, <2>4, ExceptSeq
<1>4. QED
  BY <1>2, <1>3 DEF HandleRetry

\* New requests leave what refers to the old ones valid.
LEMMA MoreRequests ==
  ASSUME DispatcherTypes, requests' \in Seq(RequestType), Len(requests) <= Len(requests'),
         queue' \in Seq(1..Len(requests')), handoff' \subseteq Seq(1..Len(requests')),
         UNCHANGED <<dispatches, runner>>
  PROVE  DispatcherTypes'
<1>1. Len(requests) \in Nat /\ Len(requests') \in Nat
  BY LenProperties DEF DispatcherTypes
<1>2. 1..Len(requests) \subseteq 1..Len(requests')
  BY <1>1
<1>3. DispatchType \subseteq DispatchType'
  BY <1>2 DEF DispatchType
<1>4. dispatches' \in Seq(DispatchType')
  BY <1>3, SeqMonotonic DEF DispatcherTypes
<1>5. RequestType' = RequestType
  BY DEF RequestType
<1>6. QED
  BY <1>2, <1>4, <1>5 DEF DispatcherTypes

\* Dropping a run's requests from the queue leaves a queue.
LEMMA FlushType ==
  ASSUME TypeOK, NEW r \in Run, Flush(r)
  PROVE  queue' \in Seq(1..Len(requests)) /\ pendingAcks' \subseteq pendingAcks
<1> DEFINE I == {i \in DOMAIN queue : RunOfRequest(queue[i]) # r}
<1>1. queue \in Seq(1..Len(requests))
  BY DEF TypeOK, DispatcherTypes
<1>2. Len(queue) \in Nat /\ DOMAIN queue = 1..Len(queue)
  BY <1>1, LenProperties
<1>3. IsFiniteSet(1..Len(queue))
  BY <1>2, FS_Interval
<1>4. Cardinality(I) \in Nat
  BY <1>2, <1>3, FS_Subset, FS_CardinalityType
<1>5. PICK f \in Increasing(I) : queue' = [k \in DOMAIN f |-> queue[f[k]]]
  BY DEF Flush
<1>6. f \in [1..Cardinality(I) -> I]
  BY <1>5 DEF Increasing
<1>7. queue' \in [1..Cardinality(I) -> 1..Len(requests)]
  BY <1>5, <1>6, RunsExist
<1>8. queue' \in Seq(1..Len(requests))
  BY <1>4, <1>7, FunctionIsSeq
<1>9. QED
  BY <1>8 DEF Flush

LEMMA DispatcherStep ==
  ASSUME TypeOK, GivenUpRunEnded, Next
  PROVE  DispatcherTypes'
<1> USE DEF stateVars, ackVars, readyVars, wireVars
<1>1. DispatcherTypes
  BY DEF TypeOK
<1>2. /\ requests \in Seq(RequestType) /\ queue \in Seq(1..Len(requests))
      /\ dispatches \in Seq(DispatchType) /\ handoff \subseteq Seq(1..Len(requests))
      /\ Len(requests) \in Nat /\ Len(dispatches) \in Nat
  BY <1>1, LenProperties DEF DispatcherTypes
<1>3. ASSUME UNCHANGED <<requests, queue, runner, dispatches, handoff>>
      PROVE  DispatcherTypes'
  BY <1>1, <1>3 DEF DispatcherTypes, RequestType, DispatchType
<1>4. ASSUME queue # <<>>
      PROVE  Head(queue) \in 1..Len(requests) /\ Tail(queue) \in Seq(1..Len(requests))
  BY <1>2, <1>4, HeadTailProperties
\* The dispatcher's own steps.
<1>5. ASSUME SkipFinal
      PROVE  DispatcherTypes'
  BY <1>1, <1>4, <1>5 DEF SkipFinal, DispatcherTypes, RequestType, DispatchType
<1>6. ASSUME requests' \in Seq(RequestType), Len(requests') = Len(requests),
             queue' \in Seq(1..Len(requests)), UNCHANGED <<handoff, dispatches>>,
             \/ runner' = Idle \/ UNCHANGED runner
             \/ \E q \in 1..Len(requests) : runner' = At("backoff", q, None)
      PROVE  DispatcherTypes'
  <2>1. /\ DispatchType' = DispatchType /\ RequestType' = RequestType
        /\ 1..Len(requests') = 1..Len(requests)
    BY <1>6 DEF DispatchType, RequestType
  <2>2. /\ requests' \in Seq(RequestType') /\ queue' \in Seq(1..Len(requests'))
        /\ dispatches' \in Seq(DispatchType') /\ handoff' \subseteq Seq(1..Len(requests'))
    BY <1>2, <1>6, <2>1
  <2>3. CASE runner' = Idle
    BY <2>2, <2>3 DEF DispatcherTypes, Idle
  <2>4. CASE UNCHANGED runner
    BY <1>1, <1>6, <2>1, <2>2, <2>4 DEF DispatcherTypes
  <2>5. ASSUME NEW q \in 1..Len(requests), runner' = At("backoff", q, None)
        PROVE  DispatcherTypes'
    BY <1>2, <2>1, <2>2, <2>5 DEF DispatcherTypes, At
  <2>6. QED
    BY <1>6, <2>3, <2>4, <2>5
<1>7. ASSUME NEW q \in Rid, NoWorker(q)
      PROVE  DispatcherTypes'
  <2>1. q \in 1..Len(requests) /\ queue' \in Seq(1..Len(requests))
    BY <1>4, <1>7 DEF NoWorker, TakeRequest
  <2>2. requests' \in Seq(RequestType) /\ Len(requests') = Len(requests)
    BY <1>7, <2>1, HandleRetryType DEF NoWorker
  <2>3. QED
    BY <1>6, <1>7, <2>1, <2>2 DEF NoWorker, TakeRequest
<1>8. ASSUME NEW q \in Rid, InvalidPayload(q)
      PROVE  DispatcherTypes'
  BY <1>2, <1>4, <1>6, <1>8 DEF InvalidPayload, TakeRequest
<1>9. ASSUME NEW q \in Rid, NEW w \in Worker, StartSend(q, w)
      PROVE  DispatcherTypes'
  <2>1. q \in 1..Len(requests) /\ queue' \in Seq(1..Len(requests))
    BY <1>4, <1>9 DEF StartSend, TakeRequest
  <2>2. [rid |-> q, worker |-> w] \in DispatchType
    BY <2>1 DEF DispatchType
  <2>3. dispatches' \in Seq(DispatchType) /\ Len(dispatches') = Len(dispatches) + 1
    BY <1>2, <1>9, <2>2, AppendProperties DEF StartSend
  <2>4. runner' = At("sending", q, Len(dispatches) + 1) /\ UNCHANGED <<requests, handoff>>
    BY <1>9 DEF StartSend, TakeRequest
  <2>5. QED
    BY <1>2, <2>1, <2>3, <2>4 DEF DispatcherTypes, RequestType, DispatchType, At
<1>10. ASSUME Transmit
       PROVE  DispatcherTypes'
  BY <1>1, <1>10 DEF Transmit, DispatcherTypes, RequestType, DispatchType
<1>11. ASSUME SendFails
       PROVE  DispatcherTypes'
  <2>1. runner.rid \in 1..Len(requests)
    BY <1>1, <1>11 DEF SendFails, DispatcherTypes
  <2>2. requests' \in Seq(RequestType) /\ Len(requests') = Len(requests)
    BY <1>11, <2>1, HandleRetryType DEF SendFails
  <2>3. QED
    BY <1>2, <1>6, <1>11, <2>1, <2>2 DEF SendFails
<1>12. ASSUME BackoffOver
       PROVE  DispatcherTypes'
  <2>1. runner.rid \in 1..Len(requests)
    BY <1>1, <1>12 DEF BackoffOver, DispatcherTypes
  <2>2. queue' \in Seq(1..Len(requests))
    BY <1>2, <1>12, <2>1, AppendProperties DEF BackoffOver
  <2>3. QED
    BY <1>2, <1>6, <1>12, <2>2 DEF BackoffOver
<1>13. ASSUME MarkDispatched
       PROVE  DispatcherTypes'
  <2>1. UNCHANGED <<requests, queue, dispatches, handoff>>
    BY <1>13 DEF MarkDispatched
  <2>2. CASE runner' = Idle
    BY <1>2, <1>6, <2>1, <2>2
  <2>3. CASE runner' = [runner EXCEPT !.pc = "marked"]
    BY <1>1, <1>13, <2>1, <2>3 DEF MarkDispatched, DispatcherTypes, RequestType, DispatchType
  <2>4. QED
    BY <1>13, <2>2, <2>3 DEF MarkDispatched
<1>14. ASSUME RegisterWaiter
       PROVE  DispatcherTypes'
  <2> DEFINE new == [requests[runner.rid] EXCEPT !.attempts = 0]
  <2>1. runner.rid \in 1..Len(requests)
    BY <1>1, <1>14 DEF RegisterWaiter, DispatcherTypes
  <2>2. requests[runner.rid] \in RequestType
    BY <1>2, <2>1, ElementOfSeq
  <2>3. new \in RequestType
    BY <2>2, ConstantsAssumption DEF RequestType, ConstantsAssumption
  <2>4. requests' = [requests EXCEPT ![runner.rid] = new]
    BY <1>14 DEF RegisterWaiter
  <2>5. requests' \in Seq(RequestType) /\ Len(requests') = Len(requests)
    BY <1>2, <2>1, <2>3, <2>4, ExceptSeq
  <2>6. QED
    BY <1>2, <1>6, <1>14, <2>5 DEF RegisterWaiter
\* Retries after an ack timeout.
<1>15. ASSUME NEW w \in retrying
       PROVE  dispatches[w.did].rid \in 1..Len(requests)
  BY <1>15, RunsExist DEF TypeOK, WireTypes
<1>16. ASSUME NEW w \in retrying, RetryAfterTimeout(w)
       PROVE  DispatcherTypes'
  <2>1. requests' \in Seq(RequestType) /\ Len(requests') = Len(requests)
    BY <1>15, <1>16, HandleRetryType DEF RetryAfterTimeout
  <2>2. QED
    BY <1>2, <1>6, <1>16, <2>1 DEF RetryAfterTimeout
<1>17. ASSUME NEW w \in retrying, RequeueAfterTimeout(w)
       PROVE  DispatcherTypes'
  <2>1. queue' \in Seq(1..Len(requests))
    BY <1>2, <1>15, <1>17, AppendProperties DEF RequeueAfterTimeout
  <2>2. QED
    BY <1>2, <1>6, <1>17, <2>1 DEF RequeueAfterTimeout
\* Ready lists.
<1>18. ASSUME NEW S \in SUBSET Task, NEW s \in Orderings(S),
              requests' = requests \o NewRequests(s)
       PROVE  /\ requests' \in Seq(RequestType) /\ Len(requests) <= Len(requests')
              /\ NewRids(s) \in Seq(1..Len(requests'))
              /\ queue \in Seq(1..Len(requests')) /\ handoff \subseteq Seq(1..Len(requests'))
  <2>1. /\ requests' \in Seq(RequestType) /\ Len(requests') = Len(requests) + Len(s)
        /\ Len(s) \in Nat /\ NewRids(s) \in Seq(1..Len(requests'))
    BY <1>2, <1>18, NewRequestsType
  <2>2. Seq(1..Len(requests)) \subseteq Seq(1..Len(requests'))
    BY <1>2, <2>1, WidenSeq
  <2>3. QED
    BY <1>2, <2>1, <2>2
<1>19. ASSUME NEW r \in Run, CollectReady(r)
       PROVE  DispatcherTypes'
  <2> DEFINE ready == {t \in TasksOf(r) : Live(r) /\ AutoDispatchable(node[t])}
  <2>1. ready \in SUBSET Task
    BY DEF TasksOf
  <2>2. PICK s \in Orderings(ready) : requests' = requests \o NewRequests(s)
                                       /\ queue' = queue \o NewRids(s)
    BY <1>19 DEF CollectReady
  <2>3. queue' \in Seq(1..Len(requests'))
    BY <1>18, <2>1, <2>2, ConcatProperties
  <2>4. QED
    BY <1>1, <1>18, <1>19, <2>1, <2>2, <2>3, MoreRequests DEF CollectReady
<1>20. ASSUME NEW s \in handoff, EnqueueReady(s)
       PROVE  DispatcherTypes'
  <2>1. queue' \in Seq(1..Len(requests))
    BY <1>2, <1>20, ConcatProperties DEF EnqueueReady
  <2>2. handoff' \subseteq Seq(1..Len(requests'))
    BY <1>2, <1>20 DEF EnqueueReady
  <2>3. QED
    BY <1>1, <1>2, <1>20, <2>1, <2>2, MoreRequests DEF EnqueueReady
<1>21. ASSUME NEW m \in replies, HandleResult(m)
       PROVE  DispatcherTypes'
  <2> DEFINE t == TaskOfDispatch(m.did)
  <2>1. UNCHANGED <<queue, runner, dispatches>>
    BY <1>21 DEF HandleResult, Deliver
  <2>2. CASE UNCHANGED <<requests, handoff>>
    BY <1>3, <2>1, <2>2
  <2>3. CASE ApplyResult(t, m.status)
    <3>0. PICK S \in SUBSET Task : \E s \in Orderings(S) :
            /\ requests' = requests \o NewRequests(s)
            /\ handoff' \subseteq handoff \cup {NewRids(s)}
      BY <2>3 DEF ApplyResult, Dependents
    <3>1. PICK s \in Orderings(S) :
            /\ requests' = requests \o NewRequests(s)
            /\ handoff' \subseteq handoff \cup {NewRids(s)}
      BY <3>0
    <3>2. handoff' \subseteq Seq(1..Len(requests'))
      BY <1>18, <3>1
    <3>3. QED
      BY <1>1, <1>18, <2>1, <3>1, <3>2, MoreRequests
  <2>4. QED
    BY <1>21, <2>2, <2>3 DEF HandleResult
<1>22. ASSUME NEW r \in Run, FlushCancelled(r) \/ CancelFinalRun(r)
       PROVE  DispatcherTypes'
  <2>1. queue' \in Seq(1..Len(requests))
    BY <1>22, FlushType DEF FlushCancelled, CancelFinalRun
  <2>2. QED
    BY <1>2, <1>6, <1>22, <2>1 DEF FlushCancelled, CancelFinalRun
<1>23. CASE Dispatcher
  BY <1>5, <1>7, <1>8, <1>9, <1>10, <1>11, <1>12, <1>13, <1>14, <1>23 DEF Dispatcher
<1>24. CASE AckHandling
  <2>1. ASSUME \E d \in Did : HandleAck(d) \/ MarkAcknowledged(d) \/ AckTimeout(d)
        PROVE  UNCHANGED <<requests, queue, runner, dispatches, handoff>>
    BY <2>1 DEF HandleAck, MarkAcknowledged, AckTimeout
  <2>2. QED
    BY <1>3, <1>16, <1>17, <1>24, <2>1 DEF AckHandling
<1>25. CASE ResultHandling
  <2>1. ASSUME \E m \in replies : HandleCancelled(m) \/ HandleError(m)
        PROVE  UNCHANGED <<requests, queue, runner, dispatches, handoff>>
    BY <2>1 DEF HandleCancelled, HandleError, Deliver
  <2>2. QED
    BY <1>3, <1>19, <1>20, <1>21, <1>25, <2>1 DEF ResultHandling
<1>26. CASE Cancellation
  <2>1. ASSUME \E r \in Run : CancelRun(r)
        PROVE  UNCHANGED <<requests, queue, runner, dispatches, handoff>>
    BY <2>1 DEF CancelRun
  <2>2. QED
    BY <1>3, <1>22, <1>26, <2>1 DEF Cancellation
<1>27. CASE Workers
  <2>1. UNCHANGED <<requests, queue, runner, dispatches, handoff>>
    BY <1>27 DEF Workers, WorkerReceive, WorkerInterrupted, WorkerFails, LoseFrame, LoseAck,
       WorkerFinishes, WorkerReports, WorkerRepeats, WorkerCrashes, schedulerVars
  <2>2. QED
    BY <1>3, <2>1
<1>28. QED
  BY <1>23, <1>24, <1>25, <1>26, <1>27 DEF Next

---------------------------------------------------------------------------
(* The wire, the worker and the bookkeeping keep their type.               *)

LEMMA WireStep ==
  ASSUME TypeOK, Next
  PROVE  WireTypes'
<1> USE DEF stateVars, ackVars, readyVars, wireVars
<1>1. WireTypes
  BY DEF TypeOK
<1>2. /\ Len(dispatches) \in Nat
      /\ runner.pc \in {"sending", "sent", "marked"} => runner.did \in 1..Len(dispatches)
  BY LenProperties DEF TypeOK, DispatcherTypes
<1>3. ASSUME UNCHANGED <<ackVars, wireVars, dispatches>>
      PROVE  WireTypes'
  BY <1>1, <1>3 DEF WireTypes, ReplyType
<1>4. ASSUME NEW q \in Rid, NEW w \in Worker, StartSend(q, w)
      PROVE  WireTypes'
  <2>1. dispatches' = Append(dispatches, [rid |-> q, worker |-> w])
        /\ UNCHANGED <<ackVars, wireVars>>
    BY <1>4 DEF StartSend, TakeRequest
  <2>2. q \in 1..Len(requests)
    BY <1>4, HeadTailProperties DEF StartSend, TakeRequest, TypeOK, DispatcherTypes
  <2>3. dispatches \in Seq(DispatchType) /\ [rid |-> q, worker |-> w] \in DispatchType
    BY <2>2 DEF TypeOK, DispatcherTypes, DispatchType
  <2>4. Len(dispatches') = Len(dispatches) + 1
    BY <2>1, <2>3, AppendProperties
  <2>5. 1..Len(dispatches) \subseteq 1..Len(dispatches')
    BY <1>2, <2>4
  <2>6. ReplyType \subseteq ReplyType'
    BY <2>5 DEF ReplyType
  <2>7. QED
    BY <1>1, <2>1, <2>5, <2>6 DEF WireTypes
<1>5. CASE Dispatcher
  <2>1. ASSUME Transmit
        PROVE  WireTypes'
    BY <1>1, <1>2, <2>1 DEF Transmit, WireTypes, ReplyType
  <2>2. ASSUME RegisterWaiter
        PROVE  WireTypes'
    BY <1>1, <1>2, <2>2 DEF RegisterWaiter, WireTypes, ReplyType
  <2>3. ASSUME \/ SkipFinal \/ \E q \in Rid : NoWorker(q) \/ InvalidPayload(q)
               \/ SendFails \/ BackoffOver \/ MarkDispatched
        PROVE  UNCHANGED <<ackVars, wireVars, dispatches>>
    BY <2>3 DEF SkipFinal, NoWorker, InvalidPayload, TakeRequest, SendFails, BackoffOver,
       MarkDispatched
  <2>4. QED
    BY <1>3, <1>4, <1>5, <2>1, <2>2, <2>3 DEF Dispatcher
<1>6. CASE AckHandling
  <2>1. ASSUME NEW d \in Did, HandleAck(d)
        PROVE  WireTypes'
    BY <1>1, <2>1 DEF HandleAck, WireTypes, ReplyType
  <2>2. ASSUME NEW d \in Did, MarkAcknowledged(d)
        PROVE  WireTypes'
    BY <1>1, <2>2 DEF MarkAcknowledged, WireTypes, ReplyType
  <2>3. ASSUME NEW d \in Did, AckTimeout(d)
        PROVE  WireTypes'
    <3>1. /\ pendingAcks' \subseteq pendingAcks
          /\ retrying' = retrying \cup {[did |-> d, stage |-> "reset"]}
          /\ d \in pendingAcks
          /\ UNCHANGED <<acking, frames, acks, executing, replies, dispatches>>
      BY <2>3 DEF AckTimeout
    <3>2. [did |-> d, stage |-> "reset"] \in [did : 1..Len(dispatches), stage : {"reset", "backoff"}]
      BY <1>1, <3>1 DEF WireTypes
    <3>3. retrying' \subseteq [did : 1..Len(dispatches), stage : {"reset", "backoff"}]
      BY <1>1, <3>1, <3>2 DEF WireTypes
    <3>4. ReplyType' = ReplyType
      BY <3>1 DEF ReplyType
    <3>5. QED
      BY <1>1, <3>1, <3>3, <3>4 DEF WireTypes
  <2>4. ASSUME NEW w \in retrying, RetryAfterTimeout(w) \/ RequeueAfterTimeout(w)
        PROVE  WireTypes'
    <3>1. /\ retrying' \subseteq retrying \cup {[w EXCEPT !.stage = "backoff"]}
          /\ UNCHANGED <<pendingAcks, acking, frames, acks, executing, replies, dispatches>>
      BY <2>4 DEF RetryAfterTimeout, RequeueAfterTimeout
    <3>2. w \in [did : 1..Len(dispatches), stage : {"reset", "backoff"}]
      BY <1>1 DEF WireTypes
    <3>3. [w EXCEPT !.stage = "backoff"] \in [did : 1..Len(dispatches), stage : {"reset", "backoff"}]
      BY <3>2
    <3>4. retrying' \subseteq [did : 1..Len(dispatches), stage : {"reset", "backoff"}]
      BY <1>1, <3>1, <3>3 DEF WireTypes
    <3>5. QED
      BY <1>1, <3>1, <3>4 DEF WireTypes, ReplyType
  <2>5. QED
    BY <1>6, <2>1, <2>2, <2>3, <2>4 DEF AckHandling
<1>7. CASE ResultHandling
  <2>1. ASSUME \/ \E r \in Run : CollectReady(r)
               \/ \E s \in handoff : EnqueueReady(s)
        PROVE  UNCHANGED <<ackVars, wireVars, dispatches>>
    BY <2>1 DEF CollectReady, EnqueueReady
  <2>2. ASSUME \E m \in replies : HandleResult(m) \/ HandleCancelled(m) \/ HandleError(m)
        PROVE  WireTypes'
    <3>1. replies' \subseteq replies /\ UNCHANGED <<ackVars, frames, acks, executing, dispatches>>
      BY <2>2 DEF HandleResult, HandleCancelled, HandleError, Deliver
    <3>2. QED
      BY <1>1, <3>1 DEF WireTypes, ReplyType
  <2>3. QED
    BY <1>3, <1>7, <2>1, <2>2 DEF ResultHandling
<1>8. CASE Cancellation
  <2>1. ASSUME NEW r \in Run, CancelRun(r)
        PROVE  UNCHANGED <<ackVars, wireVars, dispatches>>
    BY <2>1 DEF CancelRun
  <2>2. ASSUME NEW r \in Run, FlushCancelled(r) \/ CancelFinalRun(r)
        PROVE  WireTypes'
    <3>1. pendingAcks' \subseteq pendingAcks
          /\ UNCHANGED <<acking, retrying, wireVars, dispatches>>
      BY <2>2, FlushType DEF FlushCancelled, CancelFinalRun
    <3>2. QED
      BY <1>1, <3>1 DEF WireTypes, ReplyType
  <2>3. QED
    BY <1>3, <1>8, <2>1, <2>2 DEF Cancellation
<1>9. CASE Workers
  <2> USE DEF schedulerVars
  <2>1. ASSUME NEW d \in Did, WorkerReceive(d) \/ LoseFrame(d) \/ LoseAck(d)
        PROVE  WireTypes'
    BY <1>1, <2>1 DEF WorkerReceive, LoseFrame, LoseAck, WireTypes, ReplyType
  <2>2. ASSUME NEW d \in Did, NEW kind, NEW st, WorkerReports(d, kind, st),
               \/ kind = "result" /\ st \in Final
               \/ kind \in {"cancelled", "error"} /\ st = None
        PROVE  WireTypes'
    <3>1. d \in 1..Len(dispatches)
      BY <1>1, <2>2 DEF WorkerReports, WireTypes
    <3>2. [kind |-> kind, did |-> d, status |-> st, again |-> FALSE] \in ReplyType
      BY <2>2, <3>1 DEF ReplyType
    <3>3. ReplyType' = ReplyType
      BY <2>2 DEF WorkerReports, ReplyType
    <3>4. QED
      BY <1>1, <2>2, <3>2, <3>3 DEF WorkerReports, WireTypes
  <2>3. ASSUME NEW d \in Did, \/ \E st \in Outcomes : WorkerFinishes(d, st)
                              \/ WorkerInterrupted(d) \/ WorkerFails(d)
        PROVE  WireTypes'
    BY <2>2, <2>3, ConstantsAssumption DEF ConstantsAssumption, WorkerFinishes,
       WorkerInterrupted, WorkerFails
  <2>4. ASSUME NEW m \in replies, WorkerRepeats(m)
        PROVE  WireTypes'
    <3>1. [m EXCEPT !.again = TRUE] \in ReplyType
      BY <1>1, <2>4 DEF WorkerRepeats, WireTypes, ReplyType
    <3>2. ReplyType' = ReplyType
      BY <2>4 DEF WorkerRepeats, ReplyType
    <3>3. QED
      BY <1>1, <2>4, <3>1, <3>2 DEF WorkerRepeats, WireTypes
  <2>5. ASSUME NEW w \in Worker, WorkerCrashes(w)
        PROVE  WireTypes'
    BY <1>1, <2>5 DEF WorkerCrashes, WireTypes, ReplyType
  <2>6. QED
    BY <1>9, <2>1, <2>3, <2>4, <2>5 DEF Workers
<1>10. QED
  BY <1>5, <1>6, <1>7, <1>8, <1>9 DEF Next

LEMMA OtherStep ==
  ASSUME TypeOK, Next
  PROVE  OtherTypes'
<1> USE DEF stateVars, ackVars, readyVars, wireVars, schedulerVars, Fault, NoFault
<1>1. OtherTypes
  BY DEF TypeOK
<1>2. ASSUME UNCHANGED <<collecting, cancelling, lateFrames>>,
             faults' = faults \/ faults' = faults + 1
      PROVE  OtherTypes'
  BY <1>1, <1>2 DEF OtherTypes
<1>3. CASE Dispatcher
  <2>1. ASSUME Transmit
        PROVE  OtherTypes'
    <3>1. RunOfRequest(runner.rid) \in Run
      BY <2>1, RunsExist DEF Transmit, TypeOK, DispatcherTypes
    <3>2. QED
      BY <1>1, <2>1, <3>1 DEF Transmit, OtherTypes
  <2>2. QED
    BY <1>2, <1>3, <2>1 DEF Dispatcher, SkipFinal, NoWorker, InvalidPayload, StartSend,
       TakeRequest, SendFails, BackoffOver, MarkDispatched, RegisterWaiter
<1>4. CASE AckHandling
  BY <1>2, <1>4 DEF AckHandling, HandleAck, MarkAcknowledged, AckTimeout,
     RetryAfterTimeout, RequeueAfterTimeout
<1>5. CASE ResultHandling
  <2>1. ASSUME NEW r \in Run, CollectReady(r)
        PROVE  OtherTypes'
    BY <1>1, <2>1 DEF CollectReady, OtherTypes
  <2>2. ASSUME NEW s \in handoff, EnqueueReady(s)
        PROVE  OtherTypes'
    BY <1>2, <2>2 DEF EnqueueReady
  <2>3. ASSUME NEW m \in replies, HandleResult(m) \/ HandleError(m)
        PROVE  OtherTypes'
    BY <1>2, <2>3 DEF HandleResult, HandleError, Deliver
  <2>4. ASSUME NEW m \in replies, HandleCancelled(m)
        PROVE  OtherTypes'
    <3>1. RunOf[TaskOfDispatch(m.did)] \in Run
      BY RunsExist DEF TypeOK, WireTypes, ReplyType
    <3>2. collecting' \subseteq Run
      BY <1>1, <2>4, <3>1 DEF HandleCancelled, OtherTypes
    <3>3. UNCHANGED <<cancelling, lateFrames>> /\ (faults' = faults \/ faults' = faults + 1)
      BY <2>4 DEF HandleCancelled, Deliver
    <3>4. QED
      BY <1>1, <3>2, <3>3 DEF OtherTypes
  <2>5. QED
    BY <1>5, <2>1, <2>2, <2>3, <2>4 DEF ResultHandling
<1>6. CASE Cancellation
  BY <1>1, <1>6 DEF Cancellation, CancelRun, FlushCancelled, CancelFinalRun, OtherTypes
<1>7. CASE Workers
  BY <1>2, <1>7 DEF Workers, WorkerReceive, WorkerInterrupted, WorkerFails, LoseFrame,
     LoseAck, WorkerFinishes, WorkerReports, WorkerRepeats, WorkerCrashes
<1>8. QED
  BY <1>3, <1>4, <1>5, <1>6, <1>7 DEF Next

---------------------------------------------------------------------------
(* A step changes at most one run, a live one.                             *)

Untouched(r) == /\ runStatus'[r] = runStatus[r]
                /\ \A t \in TasksOf(r) : node'[t] = node[t]

\* The changed run is refreshed or cancelled, or keeps all its statuses.
Coherent(r) == \/ runStatus'[r] = Rollup(node', r)
               \/ runStatus'[r] = "cancelled"
               \/ /\ runStatus'[r] = runStatus[r]
                  /\ \A t \in TasksOf(r) : node'[t].status = node[t].status

ChangesLiveRun == \E r \in Run : /\ Live(r) /\ Coherent(r)
                                 /\ \A other \in Run \ {r} : Untouched(other)

AtMostOneRun == UNCHANGED <<node, runStatus>> \/ ChangesLiveRun

LEMMA RefreshOneRun ==
  ASSUME RecordTypes, NEW r \in Run, Live(r), NEW nodes \in [Task -> NodeType],
         \A t \in Task : RunOf[t] # r => nodes[t] = node[t],
         Refresh(nodes, r)
  PROVE  ChangesLiveRun
<1>1. /\ runStatus' = [runStatus EXCEPT ![r] = Rollup(nodes, r)] /\ node' = nodes
      /\ runStatus \in [Run -> RunStatus]
  BY DEF Refresh, RecordTypes
<1>2. Coherent(r)
  BY <1>1 DEF Coherent
<1>3. \A other \in Run \ {r} : Untouched(other)
  BY <1>1 DEF Untouched, TasksOf
<1>4. QED
  BY <1>2, <1>3 DEF ChangesLiveRun

\* The same when a single node is updated.
LEMMA UpdateOneNode ==
  ASSUME RecordTypes, NEW t \in Task, NEW n \in NodeType, Live(RunOf[t]),
         Refresh([node EXCEPT ![t] = n], RunOf[t])
  PROVE  ChangesLiveRun
<1>1. RunOf[t] \in Run
  BY ConstantsAssumption DEF ConstantsAssumption
<1>2. [node EXCEPT ![t] = n] \in [Task -> NodeType]
  BY DEF RecordTypes
<1>3. \A u \in Task : RunOf[u] # RunOf[t] => [node EXCEPT ![t] = n][u] = node[u]
  BY DEF RecordTypes
<1>4. QED
  BY <1>1, <1>2, <1>3, RefreshOneRun

LEMMA CommandErrorOneRun ==
  ASSUME RecordTypes, NEW r \in Run, NEW t \in Task \cup {None},
         t # None => RunOf[t] = r, CommandError(r, t)
  PROVE  AtMostOneRun
<1>1. CASE UNCHANGED <<node, runStatus>>
  BY <1>1 DEF AtMostOneRun
<1>2. CASE Live(r) /\ Refresh(node, r)
  BY <1>2, RefreshOneRun DEF RecordTypes, AtMostOneRun
<1>3. CASE Live(r) /\ t # None /\ Refresh([node EXCEPT ![t] = CommandFailed(@)], r)
  <2>1. CommandFailed(node[t]) \in NodeType
    BY <1>3, NodeUpdates DEF RecordTypes
  <2>2. QED
    BY <1>3, <2>1, UpdateOneNode DEF AtMostOneRun
<1>4. QED
  BY <1>1, <1>2, <1>3 DEF CommandError

LEMMA RetryOneRun ==
  ASSUME TypeOK, NEW q \in 1..Len(requests), HandleRetry(q)
  PROVE  AtMostOneRun
<1>1. TaskOfRequest(q) \in Task /\ RunOfRequest(q) \in Run /\ RunOfRequest(q) = RunOf[TaskOfRequest(q)]
  BY RunsExist DEF RunOfRequest
<1>2. CASE UNCHANGED <<node, runStatus>>
  BY <1>2 DEF AtMostOneRun
<1>3. CASE CommandError(RunOfRequest(q), TaskOfRequest(q))
  BY <1>1, <1>3, CommandErrorOneRun DEF TypeOK
<1>4. QED
  BY <1>2, <1>3 DEF HandleRetry

LEMMA ResultOneRun ==
  ASSUME TypeOK, NEW t \in Task, NEW st \in Final, Live(RunOf[t]), ApplyResult(t, st)
  PROVE  ChangesLiveRun
<1> DEFINE r == RunOf[t]
           reported == [node EXCEPT ![t] = Reported(@, st)]
           released == IF st \in Done THEN Released(reported, t) ELSE reported
           ready    == {u \in Dependents(t) : st \in Done /\ AutoDispatchable(released[u])}
<1>1. node \in [Task -> NodeType]
  BY DEF TypeOK, RecordTypes
<1>2. r \in Run /\ \A u \in Dependents(t) : u \in Task /\ RunOf[u] = r
  BY ConstantsAssumption DEF ConstantsAssumption, Dependents
<1>3. reported \in [Task -> NodeType] /\ \A u \in Task : RunOf[u] # r => reported[u] = node[u]
  BY <1>1, NodeUpdates
<1>4. released \in [Task -> NodeType] /\ \A u \in Task : RunOf[u] # r => released[u] = node[u]
  <2>1. Released(reported, t) \in [Task -> NodeType]
    BY <1>3, NodeUpdates DEF Released
  <2>2. \A u \in Task : RunOf[u] # r => Released(reported, t)[u] = reported[u]
    BY <1>2 DEF Released
  <2>3. QED
    BY <1>3, <2>1, <2>2
<1>5. /\ Enqueued(released, ready) \in [Task -> NodeType]
      /\ \A u \in Task : RunOf[u] # r => Enqueued(released, ready)[u] = node[u]
  <2>1. Enqueued(released, ready) \in [Task -> NodeType]
    BY <1>4, NodeUpdates DEF Enqueued
  <2>2. \A u \in ready : RunOf[u] = r
    BY <1>2
  <2>3. QED
    BY <1>4, <2>1, <2>2 DEF Enqueued
<1>6. Refresh(Enqueued(released, ready), r)
  BY DEF ApplyResult
<1>7. QED
  BY <1>2, <1>5, <1>6, RefreshOneRun DEF TypeOK

LEMMA OneRunPerStep ==
  ASSUME TypeOK, LastNodeInRun, Next
  PROVE  AtMostOneRun
<1> USE DEF stateVars, ackVars, readyVars, wireVars
<1>1. /\ RecordTypes
      /\ runStatus \in [Run -> RunStatus] /\ lastNode \in [Run -> Task \cup {None}]
      /\ node \in [Task -> NodeType]
  BY DEF TypeOK, RecordTypes
<1>2. ASSUME UNCHANGED <<node, runStatus>>
      PROVE  AtMostOneRun
  BY <1>2 DEF AtMostOneRun
<1>3. ASSUME NEW q \in Rid, TakeRequest(q)
      PROVE  q \in 1..Len(requests) /\ TaskOfRequest(q) \in Task /\ RunOfRequest(q) \in Run
  <2>1. q \in 1..Len(requests)
    BY <1>3, HeadTailProperties DEF TakeRequest, TypeOK, DispatcherTypes
  <2>2. QED
    BY <2>1, RunsExist
<1>4. CASE Dispatcher
  <2>1. ASSUME NEW q \in Rid, NoWorker(q)
        PROVE  AtMostOneRun
    BY <1>3, <2>1, RetryOneRun DEF NoWorker
  <2>2. ASSUME NEW q \in Rid, InvalidPayload(q)
        PROVE  AtMostOneRun
    BY <1>1, <1>3, <2>2, CommandErrorOneRun DEF InvalidPayload, RunOfRequest
  <2>3. ASSUME SendFails
        PROVE  AtMostOneRun
    <3>1. runner.rid \in 1..Len(requests)
      BY <2>3 DEF SendFails, TypeOK, DispatcherTypes
    <3>2. QED
      BY <2>3, <3>1, RetryOneRun DEF SendFails
  <2>4. ASSUME MarkDispatched
        PROVE  AtMostOneRun
    <3> DEFINE t == TaskOfRequest(runner.rid)
    <3>1. t \in Task /\ runner.did \in Nat
      BY <2>4, RunsExist DEF MarkDispatched, TypeOK, DispatcherTypes
    <3>2. CASE Live(RunOf[t])
      <4>1. Dispatched(node[t], runner.did) \in NodeType
        BY <1>1, <3>1, NodeUpdates
      <4>2. Refresh([node EXCEPT ![t] = Dispatched(@, runner.did)], RunOf[t])
        BY <2>4, <3>2 DEF MarkDispatched
      <4>3. QED
        BY <1>1, <3>1, <3>2, <4>1, <4>2, UpdateOneNode DEF AtMostOneRun
    <3>3. CASE ~Live(RunOf[t])
      BY <1>2, <2>4, <3>3 DEF MarkDispatched
    <3>4. QED
      BY <3>2, <3>3
  <2>5. ASSUME \/ SkipFinal \/ \E q \in Rid, w \in Worker : StartSend(q, w)
               \/ Transmit \/ BackoffOver \/ RegisterWaiter
        PROVE  UNCHANGED <<node, runStatus>>
    BY <2>5 DEF SkipFinal, StartSend, TakeRequest, Transmit, BackoffOver, RegisterWaiter
  <2>6. QED
    BY <1>2, <1>4, <2>1, <2>2, <2>3, <2>4, <2>5 DEF Dispatcher
<1>5. CASE AckHandling
  <2>1. ASSUME NEW d \in Did, MarkAcknowledged(d)
        PROVE  AtMostOneRun
    <3> DEFINE t == TaskOfDispatch(d)
    <3>1. t \in Task
      BY <2>1, RunsExist DEF MarkAcknowledged, TypeOK, WireTypes
    <3>2. CASE Live(RunOf[t]) /\ node[t].did = d
      <4>1. [node[t] EXCEPT !.pendingAck = FALSE] \in NodeType
        BY <1>1, <3>1, NodeUpdates
      <4>2. Refresh([node EXCEPT ![t] = [node[t] EXCEPT !.pendingAck = FALSE]], RunOf[t])
        BY <2>1, <3>2 DEF MarkAcknowledged
      <4>3. QED
        BY <1>1, <3>1, <3>2, <4>1, <4>2, UpdateOneNode DEF AtMostOneRun
    <3>3. CASE ~(Live(RunOf[t]) /\ node[t].did = d)
      BY <1>2, <2>1, <3>3 DEF MarkAcknowledged
    <3>4. QED
      BY <3>2, <3>3
  <2>2. ASSUME NEW d \in Did, AckTimeout(d)
        PROVE  AtMostOneRun
    <3> DEFINE t == TaskOfDispatch(d)
    <3>1. t \in Task
      BY <2>2, RunsExist DEF AckTimeout, TypeOK, WireTypes
    <3>2. CASE Live(RunOf[t]) /\ node[t].did = d
      <4>1. AckTimedOut(node[t]) \in NodeType
        BY <1>1, <3>1, NodeUpdates
      <4>2. Refresh([node EXCEPT ![t] = AckTimedOut(@)], RunOf[t])
        BY <2>2, <3>2 DEF AckTimeout
      <4>3. QED
        BY <1>1, <3>1, <3>2, <4>1, <4>2, UpdateOneNode DEF AtMostOneRun
    <3>3. CASE ~(Live(RunOf[t]) /\ node[t].did = d)
      BY <1>2, <2>2, <3>3 DEF AckTimeout
    <3>4. QED
      BY <3>2, <3>3
  <2>3. ASSUME NEW w \in retrying, RetryAfterTimeout(w)
        PROVE  AtMostOneRun
    <3>1. dispatches[w.did].rid \in 1..Len(requests)
      BY RunsExist DEF TypeOK, WireTypes
    <3>2. QED
      BY <2>3, <3>1, RetryOneRun DEF RetryAfterTimeout
  <2>4. ASSUME \/ \E d \in Did : HandleAck(d)
               \/ \E w \in retrying : RequeueAfterTimeout(w)
        PROVE  UNCHANGED <<node, runStatus>>
    BY <2>4 DEF HandleAck, RequeueAfterTimeout
  <2>5. QED
    BY <1>2, <1>5, <2>1, <2>2, <2>3, <2>4 DEF AckHandling
<1>6. CASE ResultHandling
  <2>1. ASSUME NEW m \in replies
        PROVE  TaskOfDispatch(m.did) \in Task /\ RunOf[TaskOfDispatch(m.did)] \in Run
    BY <2>1, RunsExist DEF TypeOK, WireTypes, ReplyType
  <2>2. ASSUME NEW r \in Run, CollectReady(r)
        PROVE  AtMostOneRun
    <3> DEFINE ready == {t \in TasksOf(r) : Live(r) /\ AutoDispatchable(node[t])}
    <3>1. node' = Enqueued(node, ready) /\ runStatus' = runStatus
      BY <2>2 DEF CollectReady
    <3>2. CASE Live(r)
      <4>1. \A t \in Task : node'[t].status = node[t].status
        BY <1>1, <3>1 DEF Enqueued, NodeType
      <4>2. Coherent(r)
        BY <3>1, <4>1 DEF Coherent, TasksOf
      <4>3. \A other \in Run \ {r} : Untouched(other)
        BY <1>1, <3>1 DEF Enqueued, Untouched, TasksOf
      <4>4. QED
        BY <3>2, <4>2, <4>3 DEF ChangesLiveRun, AtMostOneRun
    <3>3. CASE ~Live(r)
      <4>1. node' = node
        BY <1>1, <3>1, <3>3 DEF Enqueued
      <4>2. QED
        BY <1>2, <3>1, <4>1
    <3>4. QED
      BY <3>2, <3>3
  <2>3. ASSUME NEW m \in replies, HandleResult(m)
        PROVE  AtMostOneRun
    <3>1. m.status \in Final
      BY <2>3 DEF HandleResult, Deliver, TypeOK, WireTypes, ReplyType
    <3>2. CASE Live(RunOf[TaskOfDispatch(m.did)])
      BY <2>1, <2>3, <3>1, <3>2, ResultOneRun DEF HandleResult, AtMostOneRun
    <3>3. CASE ~Live(RunOf[TaskOfDispatch(m.did)])
      BY <1>2, <2>3, <3>3 DEF HandleResult
    <3>4. QED
      BY <3>2, <3>3
  <2>4. ASSUME NEW m \in replies, HandleCancelled(m)
        PROVE  AtMostOneRun
    <3> DEFINE t == TaskOfDispatch(m.did)
    <3>1. CASE Live(RunOf[t])
      <4>1. WorkerCancelled(node[t]) \in NodeType
        BY <1>1, <2>1, NodeUpdates
      <4>2. Refresh([node EXCEPT ![t] = WorkerCancelled(@)], RunOf[t])
        BY <2>4, <3>1 DEF HandleCancelled
      <4>3. QED
        BY <1>1, <2>1, <3>1, <4>1, <4>2, UpdateOneNode DEF AtMostOneRun
    <3>2. CASE ~Live(RunOf[t])
      BY <1>2, <2>4, <3>2 DEF HandleCancelled
    <3>3. QED
      BY <3>1, <3>2
  <2>5. ASSUME NEW m \in replies, HandleError(m)
        PROVE  AtMostOneRun
    <3>1. /\ ErrorTarget(m) \in Task \cup {None}
          /\ ErrorTarget(m) # None => RunOf[ErrorTarget(m)] = RunOf[TaskOfDispatch(m.did)]
      BY <1>1, <2>1 DEF ErrorTarget, LastNodeInRun
    <3>2. QED
      BY <1>1, <2>1, <2>5, <3>1, CommandErrorOneRun DEF HandleError
  <2>6. ASSUME \E s \in handoff : EnqueueReady(s)
        PROVE  UNCHANGED <<node, runStatus>>
    BY <2>6 DEF EnqueueReady
  <2>7. QED
    BY <1>2, <1>6, <2>2, <2>3, <2>4, <2>5, <2>6 DEF ResultHandling
<1>7. CASE Cancellation
  <2>1. ASSUME NEW r \in Run, CancelRun(r)
        PROVE  AtMostOneRun
    <3>1. /\ node' = [t \in Task |-> IF RunOf[t] = r THEN RunCancelled(node[t]) ELSE node[t]]
          /\ runStatus' = [runStatus EXCEPT ![r] = "cancelled"] /\ Live(r)
      BY <2>1 DEF CancelRun
    <3>2. Coherent(r)
      BY <1>1, <3>1 DEF Coherent
    <3>3. \A other \in Run \ {r} : Untouched(other)
      BY <1>1, <3>1 DEF Untouched, TasksOf
    <3>4. QED
      BY <3>1, <3>2, <3>3 DEF ChangesLiveRun, AtMostOneRun
  <2>2. ASSUME \E r \in Run : FlushCancelled(r) \/ CancelFinalRun(r)
        PROVE  UNCHANGED <<node, runStatus>>
    BY <2>2 DEF FlushCancelled, CancelFinalRun
  <2>3. QED
    BY <1>2, <1>7, <2>1, <2>2 DEF Cancellation
<1>8. CASE Workers
  <2>1. UNCHANGED <<node, runStatus>>
    BY <1>8 DEF Workers, WorkerReceive, WorkerInterrupted, WorkerFails, LoseFrame, LoseAck,
       WorkerFinishes, WorkerReports, WorkerRepeats, WorkerCrashes, schedulerVars
  <2>2. QED
    BY <1>2, <2>1
<1>9. QED
  BY <1>4, <1>5, <1>6, <1>7, <1>8 DEF Next

---------------------------------------------------------------------------
(* What that means for final runs and for the rollup.                      *)

LEMMA FinalUntouched ==
  ASSUME AtMostOneRun, NEW r \in Run, ~Live(r)
  PROVE  Untouched(r)
BY DEF AtMostOneRun, ChangesLiveRun, Untouched

\* The rollup depends on nothing but the statuses of the run's nodes.
LEMMA RollupDepends ==
  ASSUME NEW nodes, NEW others, NEW r,
         \A t \in TasksOf(r) : nodes[t].status = others[t].status
  PROVE  Rollup(nodes, r) = Rollup(others, r)
<1>1. {nodes[t].status : t \in TasksOf(r)} = {others[t].status : t \in TasksOf(r)}
  OBVIOUS
<1>2. QED
  BY <1>1 DEF Rollup

LEMMA RollupStep ==
  ASSUME AtMostOneRun, RollupCoherent
  PROVE  RollupCoherent'
<1>1. SUFFICES ASSUME NEW r \in Run
               PROVE  runStatus'[r] = Rollup(node', r) \/ runStatus'[r] = "cancelled"
  BY DEF RollupCoherent, Rollup, TasksOf
<1>2. runStatus[r] = Rollup(node, r) \/ runStatus[r] = "cancelled"
  BY DEF RollupCoherent
<1>3. CASE UNCHANGED <<node, runStatus>>
  BY <1>2, <1>3
<1>4. CASE Untouched(r)
  BY <1>2, <1>4, RollupDepends DEF Untouched
<1>5. CASE Coherent(r)
  BY <1>2, <1>5, RollupDepends DEF Coherent
<1>6. QED
  BY <1>3, <1>4, <1>5 DEF AtMostOneRun, ChangesLiveRun

---------------------------------------------------------------------------
(* The other invariants.                                                   *)

\* A node that failed fails its run.
LEMMA FailedNodeEndsRun ==
  ASSUME NEW nodes, NEW t \in Task, nodes[t].status = "failed"
  PROVE  Rollup(nodes, RunOf[t]) = "failed"
BY DEF Rollup, TasksOf

\* Giving up on the task of a live run ends the run.
LEMMA GivingUpEndsRun ==
  ASSUME TypeOK, NEW t \in Task, Live(RunOf[t]), CommandError(RunOf[t], t)
  PROVE  runStatus'[RunOf[t]] = "failed"
<1> DEFINE nodes == [node EXCEPT ![t] = CommandFailed(@)]
<1>1. node \in [Task -> NodeType] /\ runStatus \in [Run -> RunStatus] /\ RunOf[t] \in Run
  BY ConstantsAssumption DEF ConstantsAssumption, TypeOK, RecordTypes
<1>2. Refresh(nodes, RunOf[t])
  BY ConstantsAssumption DEF ConstantsAssumption, CommandError
<1>3. nodes[t].status = "failed"
  BY <1>1 DEF CommandFailed, NodeType
<1>4. QED
  BY <1>1, <1>2, <1>3, FailedNodeEndsRun DEF Refresh

LEMMA GivenUpRetry ==
  ASSUME TypeOK, GivenUpRunEnded, NEW q \in 1..Len(requests), HandleRetry(q)
  PROVE  GivenUpRunEnded'
<1>1. SUFFICES ASSUME NEW p \in 1..Len(requests'), requests'[p].attempts > MaxAttempts
               PROVE  runStatus'[RunOf[requests'[p].task]] \in Final
  BY DEF GivenUpRunEnded, Live, RunOfRequest, TaskOfRequest
<1>a. /\ Len(requests') = Len(requests)
      /\ \A i \in 1..Len(requests) : requests'[i].task = requests[i].task
      /\ \A i \in 1..Len(requests) : i # q => requests'[i] = requests[i]
  BY HandleRetryType
<1>b. p \in 1..Len(requests)
  BY <1>a
<1>2. /\ p \in 1..Len(requests) /\ requests'[p].task = requests[p].task
      /\ p # q => requests'[p] = requests[p]
  BY <1>a, <1>b
<1>3. TaskOfRequest(p) \in Task /\ RunOfRequest(p) \in Run /\ RunOfRequest(p) = RunOf[requests[p].task]
  BY <1>2, RunsExist DEF RunOfRequest, TaskOfRequest
<1>4. CASE ~Live(RunOfRequest(p))
  <2>1. Untouched(RunOfRequest(p))
    BY <1>3, <1>4, RetryOneRun, FinalUntouched
  <2>2. QED
    BY <1>2, <1>3, <1>4, <2>1 DEF Untouched, Live
<1>5. CASE Live(RunOfRequest(p))
  <2>1. p = q
    BY <1>2, <1>5, <1>1 DEF GivenUpRunEnded
  <2>2. requests[q] \in RequestType
    BY ElementOfSeq DEF TypeOK, DispatcherTypes
  <2>3. requests' = [requests EXCEPT ![q].attempts = @ + 1]
    BY <1>5, <2>1 DEF HandleRetry
  <2>4. requests'[q].attempts = requests[q].attempts + 1
    BY <2>2, <2>3 DEF TypeOK, DispatcherTypes, RequestType
  <2>5. ~WillRequeue(q)
    BY <1>1, <2>1, <2>2, <2>4, ConstantsAssumption
       DEF ConstantsAssumption, WillRequeue, RetriesLeft, RequestType
  <2>6. CommandError(RunOf[TaskOfRequest(q)], TaskOfRequest(q))
    BY <2>5 DEF HandleRetry, RunOfRequest
  <2>7. runStatus'[RunOf[TaskOfRequest(q)]] = "failed"
    BY <1>3, <1>5, <2>1, <2>6, GivingUpEndsRun DEF RunOfRequest
  <2>8. QED
    BY <1>2, <2>1, <2>7 DEF TaskOfRequest, Final
<1>6. QED
  BY <1>4, <1>5

LEMMA GivenUpStep ==
  ASSUME TypeOK, GivenUpRunEnded, LastNodeInRun, Next
  PROVE  /\ GivenUpRunEnded'
         /\ Len(requests) <= Len(requests')
         /\ \A q \in 1..Len(requests) : requests'[q].task = requests[q].task
<1> USE DEF stateVars, ackVars, readyVars, wireVars
<1> DEFINE TasksKept == /\ Len(requests) <= Len(requests')
                        /\ \A q \in 1..Len(requests) : requests'[q].task = requests[q].task
<1>1. requests \in Seq(RequestType) /\ Len(requests) \in Nat
  BY LenProperties DEF TypeOK, DispatcherTypes
<1>2. AtMostOneRun
  BY OneRunPerStep
\* Attempts that do not grow need no new final run.
<1>3. ASSUME TasksKept,
             \A q \in 1..Len(requests') :
               \/ requests'[q].attempts = 0
               \/ q \in 1..Len(requests) /\ requests'[q].attempts = requests[q].attempts
      PROVE  GivenUpRunEnded'
  <2>1. SUFFICES ASSUME NEW q \in 1..Len(requests'), requests'[q].attempts > MaxAttempts
                 PROVE  runStatus'[RunOf[requests'[q].task]] \in Final
    BY DEF GivenUpRunEnded, Live, RunOfRequest, TaskOfRequest
  <2>2. q \in 1..Len(requests) /\ requests[q].attempts > MaxAttempts
    BY <1>3, <2>1, ConstantsAssumption DEF ConstantsAssumption
  <2>3. ~Live(RunOfRequest(q)) /\ RunOfRequest(q) \in Run
    BY <2>2, RunsExist DEF GivenUpRunEnded
  <2>4. Untouched(RunOfRequest(q))
    BY <1>2, <2>3, FinalUntouched
  <2>5. QED
    BY <1>3, <2>2, <2>3, <2>4 DEF Untouched, Live, RunOfRequest, TaskOfRequest
<1>4. ASSUME UNCHANGED requests
      PROVE  GivenUpRunEnded' /\ TasksKept
  <2>1. TasksKept
    BY <1>1, <1>4
  <2>2. \A q \in 1..Len(requests') :
          q \in 1..Len(requests) /\ requests'[q].attempts = requests[q].attempts
    BY <1>4
  <2>3. QED
    BY <1>3, <2>1, <2>2
<1>5. ASSUME NEW q \in 1..Len(requests), HandleRetry(q)
      PROVE  GivenUpRunEnded' /\ TasksKept
  <2>1. GivenUpRunEnded'
    BY <1>5, GivenUpRetry
  <2>2. TasksKept
    <3>1. /\ Len(requests') = Len(requests)
          /\ \A i \in 1..Len(requests) : requests'[i].task = requests[i].task
      BY <1>5, HandleRetryType
    <3>2. Len(requests) <= Len(requests')
      BY <1>1, <3>1
    <3>3. QED
      BY <3>1, <3>2
  <2>3. QED
    BY <2>1, <2>2
<1>6. ASSUME NEW S \in SUBSET Task, NEW s \in Orderings(S),
             requests' = requests \o NewRequests(s)
      PROVE  GivenUpRunEnded' /\ TasksKept
  <2>1. /\ Len(requests') = Len(requests) + Len(s) /\ Len(s) \in Nat
        /\ \A q \in 1..Len(requests) : requests'[q] = requests[q]
        /\ \A q \in (Len(requests) + 1)..(Len(requests) + Len(s)) : requests'[q].attempts = 0
    BY <1>1, <1>6, NewRequestsType
  <2>2. TasksKept
    BY <1>1, <2>1
  <2>3. \A q \in 1..Len(requests') :
          \/ requests'[q].attempts = 0
          \/ q \in 1..Len(requests) /\ requests'[q].attempts = requests[q].attempts
    BY <1>1, <2>1
  <2>4. QED
    BY <1>3, <2>2, <2>3
<1>7. CASE Dispatcher
  <2>1. ASSUME NEW q \in Rid, NoWorker(q)
        PROVE  GivenUpRunEnded' /\ TasksKept
    BY <1>5, <2>1, HeadTailProperties DEF NoWorker, TakeRequest, TypeOK, DispatcherTypes
  <2>2. ASSUME SendFails
        PROVE  GivenUpRunEnded' /\ TasksKept
    BY <1>5, <2>2 DEF SendFails, TypeOK, DispatcherTypes
  <2>3. ASSUME RegisterWaiter
        PROVE  GivenUpRunEnded' /\ TasksKept
    <3>1. runner.rid \in 1..Len(requests)
      BY <2>3 DEF RegisterWaiter, TypeOK, DispatcherTypes
    <3>2. \A q \in 1..Len(requests) : requests[q] \in RequestType
      BY <1>1, ElementOfSeq
    <3>3. requests' = [requests EXCEPT ![runner.rid].attempts = 0]
      BY <2>3 DEF RegisterWaiter
    <3>4. /\ Len(requests') = Len(requests)
          /\ \A q \in 1..Len(requests) :
               /\ requests'[q].task = requests[q].task
               /\ requests'[q].attempts = 0 \/ requests'[q].attempts = requests[q].attempts
      BY <1>1, <3>1, <3>2, <3>3 DEF RequestType
    <3>5. QED
      BY <1>1, <1>3, <3>4
  <2>4. ASSUME \/ SkipFinal \/ \E q \in Rid : InvalidPayload(q)
               \/ \E q \in Rid, w \in Worker : StartSend(q, w)
               \/ Transmit \/ BackoffOver \/ MarkDispatched
        PROVE  UNCHANGED requests
    BY <2>4 DEF SkipFinal, InvalidPayload, StartSend, Transmit, BackoffOver, MarkDispatched
  <2>5. QED
    BY <1>4, <1>7, <2>1, <2>2, <2>3, <2>4 DEF Dispatcher
<1>8. CASE AckHandling
  <2>1. ASSUME NEW w \in retrying, RetryAfterTimeout(w)
        PROVE  GivenUpRunEnded' /\ TasksKept
    <3>1. dispatches[w.did].rid \in 1..Len(requests)
      BY RunsExist DEF TypeOK, WireTypes
    <3>2. QED
      BY <1>5, <2>1, <3>1 DEF RetryAfterTimeout
  <2>2. ASSUME \/ \E d \in Did : HandleAck(d) \/ MarkAcknowledged(d) \/ AckTimeout(d)
               \/ \E w \in retrying : RequeueAfterTimeout(w)
        PROVE  UNCHANGED requests
    BY <2>2 DEF HandleAck, MarkAcknowledged, AckTimeout, RequeueAfterTimeout
  <2>3. QED
    BY <1>4, <1>8, <2>1, <2>2 DEF AckHandling
<1>9. CASE ResultHandling
  <2>1. ASSUME NEW r \in Run, CollectReady(r)
        PROVE  GivenUpRunEnded' /\ TasksKept
    <3>1. PICK S \in SUBSET Task : \E s \in Orderings(S) : requests' = requests \o NewRequests(s)
      BY <2>1 DEF CollectReady, TasksOf
    <3>2. QED
      BY <1>6, <3>1
  <2>2. ASSUME NEW m \in replies, HandleResult(m)
        PROVE  GivenUpRunEnded' /\ TasksKept
    <3>1. CASE UNCHANGED requests
      BY <1>4, <3>1
    <3>2. CASE ApplyResult(TaskOfDispatch(m.did), m.status)
      <4>1. PICK S \in SUBSET Task : \E s \in Orderings(S) : requests' = requests \o NewRequests(s)
        BY <3>2 DEF ApplyResult, Dependents
      <4>2. QED
        BY <1>6, <4>1
    <3>3. QED
      BY <2>2, <3>1, <3>2 DEF HandleResult
  <2>3. ASSUME \/ \E s \in handoff : EnqueueReady(s)
               \/ \E m \in replies : HandleCancelled(m) \/ HandleError(m)
        PROVE  UNCHANGED requests
    BY <2>3 DEF EnqueueReady, HandleCancelled, HandleError
  <2>4. QED
    BY <1>4, <1>9, <2>1, <2>2, <2>3 DEF ResultHandling
<1>10. CASE Cancellation \/ Workers
  <2>1. UNCHANGED requests
    BY <1>10 DEF Cancellation, CancelRun, FlushCancelled, CancelFinalRun, Workers, WorkerReceive,
       WorkerInterrupted, WorkerFails, LoseFrame, LoseAck, WorkerFinishes, WorkerReports,
       WorkerRepeats, WorkerCrashes, schedulerVars
  <2>2. QED
    BY <1>4, <2>1
<1>11. QED
  BY <1>7, <1>8, <1>9, <1>10 DEF Next

LEMMA LastNodeStep ==
  ASSUME TypeOK, LastNodeInRun, Next
  PROVE  LastNodeInRun'
<1> USE DEF stateVars, ackVars, readyVars, wireVars
<1>1. lastNode \in [Run -> Task \cup {None}]
  BY DEF TypeOK, RecordTypes
<1>2. ASSUME UNCHANGED lastNode
      PROVE  LastNodeInRun'
  BY <1>2 DEF LastNodeInRun
<1>3. ASSUME NEW t \in Task, NEW r \in Run, r = RunOf[t],
             lastNode' = [lastNode EXCEPT ![r] = t]
      PROVE  LastNodeInRun'
  BY <1>1, <1>3 DEF LastNodeInRun
<1>4. ASSUME NEW t, NEW r \in Run,
             lastNode' = [lastNode EXCEPT ![r] = IF @ = t THEN None ELSE @]
      PROVE  LastNodeInRun'
  BY <1>1, <1>4 DEF LastNodeInRun
<1>5. ASSUME MarkDispatched
      PROVE  LastNodeInRun'
  <2>1. TaskOfRequest(runner.rid) \in Task /\ RunOf[TaskOfRequest(runner.rid)] \in Run
    BY <1>5, RunsExist DEF MarkDispatched, TypeOK, DispatcherTypes, RunOfRequest
  <2>2. QED
    BY <1>2, <1>3, <1>5, <2>1 DEF MarkDispatched
<1>6. ASSUME NEW d \in Did, AckTimeout(d)
      PROVE  LastNodeInRun'
  <2>1. RunOf[TaskOfDispatch(d)] \in Run
    BY <1>6, RunsExist DEF AckTimeout, TypeOK, WireTypes
  <2>2. QED
    BY <1>2, <1>4, <1>6, <2>1 DEF AckTimeout
<1>7. CASE Dispatcher
  BY <1>2, <1>5, <1>7 DEF Dispatcher, SkipFinal, NoWorker, InvalidPayload, StartSend, TakeRequest,
     Transmit, SendFails, BackoffOver, RegisterWaiter
<1>8. CASE AckHandling
  BY <1>2, <1>6, <1>8 DEF AckHandling, HandleAck, MarkAcknowledged, RetryAfterTimeout,
     RequeueAfterTimeout
<1>9. CASE ResultHandling
  BY <1>2, <1>9 DEF ResultHandling, CollectReady, EnqueueReady, HandleResult, HandleCancelled,
     HandleError
<1>10. CASE Cancellation \/ Workers
  BY <1>2, <1>10 DEF Cancellation, CancelRun, FlushCancelled, CancelFinalRun, Workers,
     WorkerReceive, WorkerInterrupted, WorkerFails, LoseFrame, LoseAck, WorkerFinishes,
     WorkerReports, WorkerRepeats, WorkerCrashes, schedulerVars
<1>11. QED
  BY <1>7, <1>8, <1>9, <1>10 DEF Next

LEMMA LateFrameStep ==
  ASSUME TypeOK, GivenUpRunEnded, LastNodeInRun, LateFrameBudget, Next
  PROVE  LateFrameBudget'
<1> USE DEF stateVars, ackVars, readyVars, wireVars
<1>1. AtMostOneRun
  BY OneRunPerStep
<1>2. ASSUME NEW r \in Run, Live(r)'
      PROVE  Live(r)
  BY <1>1, <1>2, FinalUntouched DEF Untouched, Live
<1>3. /\ lateFrames \in [Run -> Nat]
      /\ runner.pc = "sending" => runner.rid \in 1..Len(requests)
  BY DEF TypeOK, OtherTypes, DispatcherTypes
<1>4. \A q \in 1..Len(requests) : RunOfRequest(q)' = RunOfRequest(q)
  BY GivenUpStep DEF RunOfRequest, TaskOfRequest
\* Every step but StartSend and Transmit.
<1>5. ASSUME UNCHANGED lateFrames, runner' = runner \/ runner'.pc # "sending"
      PROVE  LateFrameBudget'
  <2>1. SUFFICES ASSUME NEW r \in Run
                 PROVE  /\ Live(r)' => lateFrames[r] = 0
                        /\ runner'.pc = "sending" /\ RunOfRequest(runner.rid)' = r => lateFrames[r] = 0
                        /\ lateFrames[r] <= 1
    BY <1>5 DEF LateFrameBudget
  <2>2. Live(r)' => lateFrames[r] = 0
    BY <1>2 DEF LateFrameBudget
  <2>3. ASSUME runner'.pc = "sending", RunOfRequest(runner.rid)' = r
        PROVE  lateFrames[r] = 0
    <3>1. runner' = runner /\ runner.pc = "sending"
      BY <1>5, <2>3
    <3>2. RunOfRequest(runner.rid)' = RunOfRequest(runner.rid)
      BY <1>3, <1>4, <3>1
    <3>3. QED
      BY <2>3, <3>1, <3>2 DEF LateFrameBudget
  <2>4. QED
    BY <2>2, <2>3 DEF LateFrameBudget
<1>6. ASSUME NEW q \in Rid, NEW w \in Worker, StartSend(q, w)
      PROVE  LateFrameBudget'
  <2>1. /\ UNCHANGED <<lateFrames, requests, runStatus>> /\ runner' = At("sending", q, Len(dispatches) + 1)
        /\ Live(RunOfRequest(q))
    BY <1>6 DEF StartSend, TakeRequest
  <2>2. runner'.rid = q /\ RunOfRequest(q)' = RunOfRequest(q)
    BY <2>1 DEF At, RunOfRequest, TaskOfRequest
  <2>3. \A r \in Run : Live(r)' = Live(r)
    BY <2>1 DEF Live
  <2>4. QED
    BY <2>1, <2>2, <2>3 DEF LateFrameBudget
<1>7. ASSUME Transmit
      PROVE  LateFrameBudget'
  <2> DEFINE r0 == RunOfRequest(runner.rid)
  <2>1. /\ runner.pc = "sending" /\ runner'.pc = "sent" /\ UNCHANGED runStatus
        /\ lateFrames' = [lateFrames EXCEPT ![r0] = IF Live(r0) THEN @ ELSE @ + 1]
    BY <1>7 DEF Transmit, TypeOK, DispatcherTypes
  <2>2. \A r \in Run : Live(r)' = Live(r)
    BY <2>1 DEF Live
  <2>3. r0 \in Run => lateFrames[r0] = 0
    BY <2>1 DEF LateFrameBudget
  <2>4. \A r \in Run : /\ Live(r) => lateFrames'[r] = 0
                       /\ lateFrames'[r] <= 1
    <3>1. SUFFICES ASSUME NEW r \in Run
                   PROVE  (Live(r) => lateFrames'[r] = 0) /\ lateFrames'[r] <= 1
      OBVIOUS
    <3>2. CASE r = r0
      BY <1>3, <2>1, <2>3, <3>2
    <3>3. CASE r # r0
      BY <1>3, <2>1, <3>3 DEF LateFrameBudget
    <3>4. QED
      BY <3>2, <3>3
  <2>5. QED
    BY <2>1, <2>2, <2>4 DEF LateFrameBudget
<1>8. CASE Dispatcher
  <2>1. ASSUME \/ SkipFinal \/ \E q \in Rid : NoWorker(q) \/ InvalidPayload(q)
               \/ SendFails \/ BackoffOver \/ MarkDispatched \/ RegisterWaiter
        PROVE  UNCHANGED lateFrames /\ (runner' = runner \/ runner'.pc # "sending")
    BY <2>1 DEF SkipFinal, NoWorker, InvalidPayload, TakeRequest, SendFails, BackoffOver,
       MarkDispatched, RegisterWaiter, Idle, At, TypeOK, DispatcherTypes
  <2>2. QED
    BY <1>5, <1>6, <1>7, <1>8, <2>1 DEF Dispatcher
<1>9. CASE AckHandling
  BY <1>5, <1>9 DEF AckHandling, HandleAck, MarkAcknowledged, AckTimeout, RetryAfterTimeout,
     RequeueAfterTimeout
<1>10. CASE ResultHandling
  BY <1>5, <1>10 DEF ResultHandling, CollectReady, EnqueueReady, HandleResult, HandleCancelled,
     HandleError, Deliver
<1>11. CASE Cancellation \/ Workers
  BY <1>5, <1>11 DEF Cancellation, CancelRun, FlushCancelled, CancelFinalRun, Workers,
     WorkerReceive, WorkerInterrupted, WorkerFails, LoseFrame, LoseAck, WorkerFinishes,
     WorkerReports, WorkerRepeats, WorkerCrashes, schedulerVars
<1>12. QED
  BY <1>8, <1>9, <1>10, <1>11 DEF Next

---------------------------------------------------------------------------
(* The inductive invariant and the theorems.                               *)

\* A run none of whose tasks has started is queued.
LEMMA AllQueued ==
  ASSUME NEW nodes, NEW r, {nodes[t].status : t \in TasksOf(r)} = {"queued"}
  PROVE  Rollup(nodes, r) = "queued"
<1> DEFINE S == {nodes[t].status : t \in TasksOf(r)}
<1>1. S = {"queued"}
  OBVIOUS
<1> HIDE DEF S
<1>2. "failed" \notin S
  BY <1>1
<1>3. S # {"cancelled"}
  BY <1>1
<1>4. ~(S \subseteq Final \ {"failed"})
  BY <1>1 DEF Final
<1>5. (CASE "failed" \in S     -> "failed"
         [] S = {"queued"}        -> "queued"
         [] S = {"cancelled"}     -> "cancelled"
         [] S \subseteq Final \ {"failed"} /\ S # {"cancelled"} -> "succeeded"
         [] OTHER                 -> "running") = "queued"
  BY <1>1, <1>2, <1>3, <1>4
<1>6. QED
  BY <1>5 DEF Rollup, S

LEMMA IndInvInit == Init => IndInv
<1> SUFFICES ASSUME Init PROVE IndInv
  OBVIOUS
<1> USE ConstantsAssumption DEF ConstantsAssumption, Init
<1>1. RecordTypes
  <2>1. \A t \in Task : NewNode(t) \in NodeType
    <3>1. \A t \in Task : Cardinality(Deps[t]) \in Nat
      BY ReadyIsFinite
    <3>2. QED
      BY <3>1 DEF NewNode, NodeType, NodeStatus
  <2>2. QED
    BY <2>1 DEF RecordTypes, RunStatus
<1>2. DispatcherTypes
  BY EmptySeq DEF DispatcherTypes, Idle
<1>3. WireTypes
  BY DEF WireTypes
<1>4. OtherTypes
  BY DEF OtherTypes
<1>5. GivenUpRunEnded
  BY EmptySeq DEF GivenUpRunEnded
<1>6. LastNodeInRun
  BY DEF LastNodeInRun
<1>7. RollupCoherent
  <2>1. SUFFICES ASSUME NEW r \in Run
                 PROVE  Rollup(node, r) = "queued"
    BY DEF RollupCoherent
  <2>2. PICK t \in Task : RunOf[t] = r
    OBVIOUS
  <2>3. {node[u].status : u \in TasksOf(r)} = {"queued"}
    BY <2>2 DEF TasksOf, NewNode
  <2> HIDE DEF Init
  <2>4. QED
    BY <2>3, AllQueued
<1>8. LateFrameBudget
  BY DEF LateFrameBudget, Idle
<1>9. QED
  BY <1>1, <1>2, <1>3, <1>4, <1>5, <1>6, <1>7, <1>8 DEF IndInv, TypeOK

LEMMA IndInvStep == IndInv /\ [Next]_vars => IndInv'
<1> SUFFICES ASSUME IndInv, [Next]_vars PROVE IndInv'
  OBVIOUS
<1>1. CASE Next
  <2>1. TypeOK'
    BY <1>1, RecordStep, DispatcherStep, WireStep, OtherStep DEF IndInv, TypeOK
  <2>2. RollupCoherent'
    BY <1>1, OneRunPerStep, RollupStep DEF IndInv
  <2>3. QED
    BY <1>1, <2>1, <2>2, GivenUpStep, LastNodeStep, LateFrameStep DEF IndInv
<1>2. CASE UNCHANGED vars
  <2> USE <1>2 DEF vars, stateVars, ackVars, readyVars, wireVars
  <2>1. RecordTypes'
    BY DEF IndInv, TypeOK, RecordTypes
  <2>2. DispatcherTypes'
    BY DEF IndInv, TypeOK, DispatcherTypes, RequestType, DispatchType
  <2>3. WireTypes'
    BY DEF IndInv, TypeOK, WireTypes, ReplyType
  <2>4. OtherTypes'
    BY DEF IndInv, TypeOK, OtherTypes
  <2>5. GivenUpRunEnded' /\ LastNodeInRun'
    BY DEF IndInv, GivenUpRunEnded, LastNodeInRun, Live, RunOfRequest, TaskOfRequest
  <2>6. RollupCoherent'
    BY DEF IndInv, RollupCoherent, Rollup, TasksOf
  <2>7. LateFrameBudget'
    BY DEF IndInv, LateFrameBudget, Live, RunOfRequest, TaskOfRequest
  <2>8. QED
    BY <2>1, <2>2, <2>3, <2>4, <2>5, <2>6, <2>7 DEF IndInv, TypeOK
<1>3. QED
  BY <1>1, <1>2

THEOREM Inductive == Spec => []IndInv
BY IndInvInit, IndInvStep, PTL DEF Spec

\* Type correctness, which includes that no request outlives MaxAttempts.
THEOREM TypeCorrect == Spec => []TypeOK
<1>1. IndInv => TypeOK
  BY DEF IndInv
<1>2. QED
  BY <1>1, Inductive, PTL

\* A run always reports the rollup of its nodes, or that it was cancelled.
THEOREM RollupAlwaysCoherent == Spec => []RollupCoherent
<1>1. IndInv => RollupCoherent
  BY DEF IndInv
<1>2. QED
  BY <1>1, Inductive, PTL

\* At most one dispatch frame of a run leaves after the run ended.
THEOREM LateFramesBounded == Spec => []AtMostOneLateFrame
<1>1. IndInv => AtMostOneLateFrame
  BY DEF IndInv, LateFrameBudget, AtMostOneLateFrame
<1>2. QED
  BY <1>1, Inductive, PTL

\* A final run never changes again: no interleaving of acks, timeouts, results,
\* errors, cancellations and dispatches gets past the FINAL_STATUSES guards.
THEOREM FinalIsFinal == Spec => FinalRunFrozen
<1>1. IndInv /\ [Next]_vars =>
        [\A r \in Run : ~Live(r) => /\ runStatus'[r] = runStatus[r]
                                    /\ \A t \in TasksOf(r) : node'[t] = node[t]]_vars
  <2>1. ASSUME IndInv, Next
        PROVE  \A r \in Run : ~Live(r) => /\ runStatus'[r] = runStatus[r]
                                          /\ \A t \in TasksOf(r) : node'[t] = node[t]
    BY <2>1, OneRunPerStep, FinalUntouched DEF IndInv, Untouched
  <2>2. QED
    BY <2>1
<1>2. QED
  BY <1>1, Inductive, PTL DEF Spec, FinalRunFrozen


---------------------------------------------------------------------------
(* One claim to every task.                                                *)

\* What a sequence holds.
Held(s) == {s[i] : i \in DOMAIN s}
Distinct(s) == \A i, j \in DOMAIN s : s[i] = s[j] => i = j

LEMMA TailHolds ==
  ASSUME NEW S, NEW s \in Seq(S), s # <<>>, Distinct(s)
  PROVE  /\ Head(s) \in Held(s) /\ Distinct(Tail(s))
         /\ Held(Tail(s)) = Held(s) \ {Head(s)}
<1>1. Len(s) \in Nat /\ DOMAIN s = 1..Len(s) /\ Len(s) >= 1 /\ Head(s) = s[1]
  OBVIOUS
<1>2. /\ DOMAIN Tail(s) = 1..(Len(s) - 1)
      /\ \A i \in 1..(Len(s) - 1) : Tail(s)[i] = s[i + 1]
  BY <1>1
<1>3. \A i \in 1..(Len(s) - 1) : i + 1 \in DOMAIN s /\ i + 1 # 1
  BY <1>1
<1>4. \A i \in DOMAIN s : i = 1 \/ (i - 1 \in 1..(Len(s) - 1) /\ (i - 1) + 1 = i)
  BY <1>1
<1>5. Distinct(Tail(s))
  BY <1>1, <1>2, <1>3 DEF Distinct
<1>6. Held(Tail(s)) \subseteq Held(s) \ {Head(s)}
  <2> SUFFICES ASSUME NEW i \in 1..(Len(s) - 1)
               PROVE  Tail(s)[i] \in Held(s) \ {Head(s)}
    BY <1>2 DEF Held
  <2>1. i + 1 \in DOMAIN s /\ 1 \in DOMAIN s /\ i + 1 # 1 /\ Tail(s)[i] = s[i + 1]
    BY <1>1, <1>2, <1>3
  <2>2. s[i + 1] # s[1]
    BY <2>1 DEF Distinct
  <2>3. QED
    BY <1>1, <2>1, <2>2 DEF Held
<1>7. Held(s) \ {Head(s)} \subseteq Held(Tail(s))
  <2> SUFFICES ASSUME NEW i \in DOMAIN s, s[i] # Head(s)
               PROVE  s[i] \in Held(Tail(s))
    BY DEF Held
  <2>1. i - 1 \in 1..(Len(s) - 1) /\ (i - 1) + 1 = i
    BY <1>1, <1>4
  <2>2. Tail(s)[i - 1] = s[i]
    BY <1>2, <2>1
  <2>3. QED
    BY <1>2, <2>1, <2>2 DEF Held
<1>8. Head(s) \in Held(s)
  BY <1>1 DEF Held
<1>9. QED
  BY <1>5, <1>6, <1>7, <1>8

LEMMA ConcatHolds ==
  ASSUME NEW S, NEW s \in Seq(S), NEW t \in Seq(S),
         Distinct(s), Distinct(t), Held(s) \cap Held(t) = {}
  PROVE  Distinct(s \o t) /\ Held(s \o t) = Held(s) \cup Held(t)
<1> DEFINE u == s \o t
<1>1. /\ Len(s) \in Nat /\ DOMAIN s = 1..Len(s) /\ Len(t) \in Nat /\ DOMAIN t = 1..Len(t)
  OBVIOUS
<1>2. /\ DOMAIN u = 1..(Len(s) + Len(t))
      /\ \A i \in 1..Len(s) : u[i] = s[i]
      /\ \A i \in 1..Len(t) : u[Len(s) + i] = t[i]
  BY <1>1
<1> HIDE DEF u
<1>3. \A i \in DOMAIN u : i \in 1..Len(s) \/ \E k \in 1..Len(t) : i = Len(s) + k
  <2> SUFFICES ASSUME NEW i \in DOMAIN u, i \notin 1..Len(s)
               PROVE  \E k \in 1..Len(t) : i = Len(s) + k
    OBVIOUS
  <2>1. i - Len(s) \in 1..Len(t) /\ i = Len(s) + (i - Len(s))
    BY <1>1, <1>2
  <2>2. QED
    BY <2>1
<1>4. /\ \A i \in 1..Len(s) : i \in DOMAIN u
      /\ \A k \in 1..Len(t) : Len(s) + k \in DOMAIN u
  BY <1>1, <1>2
<1>5. Held(u) = Held(s) \cup Held(t)
  <2>1. ASSUME NEW i \in DOMAIN u
        PROVE  u[i] \in Held(s) \cup Held(t)
    <3>1. CASE i \in 1..Len(s)
      BY <1>1, <1>2, <3>1 DEF Held
    <3>2. ASSUME NEW k \in 1..Len(t), i = Len(s) + k
          PROVE  u[i] \in Held(t)
      BY <1>1, <1>2, <3>2 DEF Held
    <3>3. QED
      BY <1>3, <3>1, <3>2
  <2>2. Held(s) \cup Held(t) \subseteq Held(u)
    BY <1>1, <1>2, <1>4 DEF Held
  <2>3. Held(u) \subseteq Held(s) \cup Held(t)
    BY <2>1 DEF Held
  <2>4. QED
    BY <2>2, <2>3
<1>6. ASSUME NEW i \in DOMAIN u, NEW j \in DOMAIN u, u[i] = u[j]
      PROVE  i = j
  <2>1. CASE i \in 1..Len(s) /\ j \in 1..Len(s)
    BY <1>1, <1>2, <1>6, <2>1 DEF Distinct
  <2>2. ASSUME NEW k \in 1..Len(s), NEW l \in 1..Len(t)
        PROVE  u[k] # u[Len(s) + l]
    BY <1>1, <1>2 DEF Held
  <2>3. ASSUME NEW k \in 1..Len(t), NEW l \in 1..Len(t), i = Len(s) + k, j = Len(s) + l
        PROVE  i = j
    <3>1. t[k] = t[l]
      BY <1>2, <1>6, <2>3
    <3>2. k = l
      BY <1>1, <3>1 DEF Distinct
    <3>3. QED
      BY <2>3, <3>2
  <2>4. QED
    BY <1>3, <1>6, <2>1, <2>2, <2>3
<1>7. QED
  BY <1>5, <1>6 DEF Distinct, u

LEMMA AppendHolds ==
  ASSUME NEW S, NEW s \in Seq(S), NEW x \in S, Distinct(s), x \notin Held(s)
  PROVE  Distinct(Append(s, x)) /\ Held(Append(s, x)) = Held(s) \cup {x}
<1> DEFINE t == <<x>>
<1>1. t \in Seq(S) /\ Distinct(t) /\ Held(t) = {x}
  BY DEF Distinct, Held
<1>2. Append(s, x) = s \o t
  BY AppendIsConcat
<1> HIDE DEF t
<1>3. Held(s) \cap Held(t) = {}
  BY <1>1
<1>4. Distinct(s \o t) /\ Held(s \o t) = Held(s) \cup Held(t)
  BY <1>1, <1>3, ConcatHolds
<1>5. QED
  BY <1>1, <1>2, <1>4

\* A selection keeps what is distinct distinct.
LEMMA SelectionHolds ==
  ASSUME NEW s, Distinct(s), NEW I \in SUBSET DOMAIN s, I \subseteq Nat,
         NEW f \in Increasing(I), Cardinality(I) \in Nat
  PROVE  /\ Distinct([k \in DOMAIN f |-> s[f[k]]])
         /\ Held([k \in DOMAIN f |-> s[f[k]]]) \subseteq Held(s)
<1> DEFINE u == [k \in DOMAIN f |-> s[f[k]]]
<1>1. /\ f \in [1..Cardinality(I) -> I]
      /\ \A j, k \in DOMAIN f : j < k => f[j] < f[k]
  BY DEF Increasing
<1>2. DOMAIN f = 1..Cardinality(I) /\ DOMAIN u = DOMAIN f
  BY <1>1
<1>3. \A k \in DOMAIN f : f[k] \in DOMAIN s /\ u[k] = s[f[k]]
  BY <1>1, <1>2
<1> HIDE DEF u
<1>4. Held(u) \subseteq Held(s)
  BY <1>2, <1>3 DEF Held
<1>5. ASSUME NEW i \in DOMAIN f, NEW j \in DOMAIN f, u[i] = u[j]
      PROVE  i = j
  <2>1. f[i] = f[j]
    BY <1>3, <1>5 DEF Distinct
  <2>2. f[i] \in Nat /\ f[j] \in Nat /\ i \in Nat /\ j \in Nat
    BY <1>1, <1>2
  <2>3. ~(i < j) /\ ~(j < i)
    BY <1>1, <2>1, <2>2
  <2>4. QED
    BY <2>2, <2>3
<1>6. QED
  BY <1>2, <1>4, <1>5 DEF Distinct, u

\* An ordering of a set has each of its elements once.
LEMMA OrderingHolds ==
  ASSUME NEW S \in SUBSET Task, NEW s \in Orderings(S)
  PROVE  Distinct(s) /\ Held(s) = S /\ DOMAIN s = 1..Cardinality(S) /\ s \in [1..Cardinality(S) -> S]
<1> DEFINE n == Cardinality(S)
<1>1. IsFiniteSet(S) /\ n \in Nat
  BY ReadyIsFinite
<1>2. s \in [1..n -> S] /\ \A x \in S : \E i \in DOMAIN s : s[i] = x
  BY DEF Orderings
<1>3. IsFiniteSet(1..n) /\ Cardinality(1..n) = n
  BY <1>1, FS_Interval
<1>4. s \in Surjection(1..n, S)
  BY <1>2 DEF Surjection
<1>5. s \in Injection(1..n, S)
  BY <1>3, <1>4, FS_SurjSameCardinalityImpliesInj
<1>6. Distinct(s)
  BY <1>2, <1>5 DEF Injection, IsInjective, Distinct
<1>7. Held(s) = S
  BY <1>2 DEF Held
<1>8. QED
  BY <1>2, <1>6, <1>7

---------------------------------------------------------------------------
(* A dispatch is in one stage.                                             *)

\* The requests and dispatches claims speak of exist.
LEMMA ClaimTypes ==
  ASSUME TypeOK
  PROVE  /\ Len(requests) \in Nat /\ Len(dispatches) \in Nat
         /\ queue \in Seq(1..Len(requests)) /\ handoff \subseteq Seq(1..Len(requests))
         /\ SendingIds \subseteq 1..Len(dispatches) /\ UnderWay \subseteq 1..Len(dispatches)
         /\ \A d \in 1..Len(dispatches) : dispatches[d].rid \in 1..Len(requests)
         /\ \A w \in retrying : w.did \in 1..Len(dispatches)
         /\ \A m \in replies : m.did \in 1..Len(dispatches)
         /\ Active \subseteq 1..Len(requests)
<1>1. /\ requests \in Seq(RequestType) /\ dispatches \in Seq(DispatchType)
      /\ queue \in Seq(1..Len(requests)) /\ handoff \subseteq Seq(1..Len(requests))
  BY DEF TypeOK, DispatcherTypes
<1>2. Len(requests) \in Nat /\ Len(dispatches) \in Nat
  BY <1>1
<1>3. SendingIds \subseteq 1..Len(dispatches)
  BY DEF SendingIds, TypeOK, DispatcherTypes
<1>4. /\ \A w \in retrying : w.did \in 1..Len(dispatches)
      /\ \A m \in replies : m.did \in 1..Len(dispatches)
  BY DEF TypeOK, WireTypes, ReplyType
<1>5. UnderWay \subseteq 1..Len(dispatches)
  BY <1>3, <1>4 DEF UnderWay, AnsweredIds, TypeOK, WireTypes
<1>6. \A d \in 1..Len(dispatches) : dispatches[d].rid \in 1..Len(requests)
  BY RunsExist
<1>7. QueueRids \subseteq 1..Len(requests)
  BY RunsExist DEF QueueRids
<1>8. HandoffRids \subseteq 1..Len(requests)
  <2>1. \A s \in handoff : \A i \in DOMAIN s : s[i] \in 1..Len(requests)
    BY <1>1
  <2>2. QED
    BY <2>1 DEF HandoffRids
<1>9. BackoffRids \subseteq 1..Len(requests)
  BY DEF BackoffRids, TypeOK, DispatcherTypes
<1>10. RetryRids \subseteq 1..Len(requests) /\ DispatchRids \subseteq 1..Len(requests)
  BY <1>4, <1>5, <1>6 DEF RetryRids, DispatchRids
<1>11. QED
  BY <1>1, <1>2, <1>3, <1>4, <1>5, <1>6, <1>7, <1>8, <1>9, <1>10 DEF Active

\* The excluded faults do not happen.
LEMMA NotTwice ==
  ASSUME OnceOnlyFaults
  PROVE  ~Fault("broken_send") /\ ~Fault("lost_ack") /\ ~Fault("slow_ack") /\ ~Fault("early_ack")
         /\ ~Fault("repeated_result")
BY DEF OnceOnlyFaults, Fault

\* Dropping what is under way disturbs no stage.
LEMMA StageShrinks ==
  ASSUME OneStage, frames' \subseteq frames, executing' \subseteq executing,
         replies' \subseteq replies, pendingAcks' \subseteq pendingAcks, acks' = acks,
         SendingIds' \subseteq SendingIds, runner'.pc = "sending" => runner' = runner,
         SendingIds' # {} => runner'.rid = runner.rid, dispatches' = dispatches
  PROVE  OneStage'
<1>1. AnsweredIds' \subseteq AnsweredIds
  BY DEF AnsweredIds
<1> HIDE DEF AnsweredIds, SendingIds
<1>2. QED
  BY <1>1 DEF OneStage

\* What the dispatcher does to the stages of its dispatch.
LEMMA StageDispatcher ==
  ASSUME TypeOK, OneStage, OnceOnlyFaults, Dispatcher
  PROVE  OneStage'
<1> USE DEF stateVars, ackVars, readyVars, wireVars
<1>0. runner \in [pc : {"idle", "sending", "sent", "marked", "backoff"},
                  rid : Nat \cup {None}, did : Nat \cup {None}]
  BY DEF TypeOK, DispatcherTypes
<1>1. ASSUME SendingIds' = {}, runner'.pc # "sending", UNCHANGED <<wireVars, pendingAcks, dispatches>>
      PROVE  OneStage'
  BY <1>1, StageShrinks
<1>2. ASSUME UNCHANGED <<runner, wireVars, pendingAcks, dispatches>>
      PROVE  OneStage'
  BY <1>2 DEF OneStage, SendingIds, AnsweredIds
<1>3. CASE SkipFinal
  BY <1>2, <1>3 DEF SkipFinal
<1>4. ASSUME NEW q \in Rid, NoWorker(q)
      PROVE  OneStage'
  <2>1. SendingIds' = {} /\ runner'.pc # "sending"
    BY <1>4 DEF NoWorker, SendingIds, Idle, At
  <2>2. QED
    BY <1>1, <1>4, <2>1 DEF NoWorker, TakeRequest
<1>5. ASSUME NEW q \in Rid, InvalidPayload(q)
      PROVE  OneStage'
  BY <1>2, <1>5 DEF InvalidPayload, TakeRequest
<1>6. ASSUME NEW q \in Rid, NEW w \in Worker, StartSend(q, w)
      PROVE  OneStage'
  <2> DEFINE d == Len(dispatches) + 1
  <2>1. /\ runner'.pc = "sending" /\ runner'.did = d /\ runner'.rid = q /\ SendingIds' = {d}
        /\ UNCHANGED <<wireVars, pendingAcks>>
        /\ dispatches' = Append(dispatches, [rid |-> q, worker |-> w])
    BY <1>6 DEF StartSend, TakeRequest, At, SendingIds
  <2>2. d \notin UnderWay
    BY ClaimTypes
  <2>3. dispatches'[d].rid = q
    <3>1. dispatches \in Seq(DispatchType)
      BY DEF TypeOK, DispatcherTypes
    <3>2. QED
      BY <2>1, <3>1
  <2>4. AnsweredIds' = AnsweredIds
    BY <2>1 DEF AnsweredIds
  <2> HIDE DEF d
  <2>5. d \notin frames \cup executing \cup AnsweredIds \cup pendingAcks
    BY <2>2 DEF UnderWay
  <2> HIDE DEF AnsweredIds, SendingIds
  <2>6. QED
    BY <2>1, <2>3, <2>4, <2>5 DEF OneStage
<1>7. CASE Transmit
  <2>1. /\ runner'.pc = "sent" /\ runner'.rid = runner.rid /\ runner.pc = "sending"
        /\ SendingIds' = SendingIds /\ SendingIds = {runner.did}
        /\ frames' = frames \cup {runner.did}
        /\ UNCHANGED <<acks, executing, replies, pendingAcks, dispatches>>
    BY <1>0, <1>7 DEF Transmit, SendingIds
  <2>2. AnsweredIds' = AnsweredIds
    BY <2>1 DEF AnsweredIds
  <2> HIDE DEF AnsweredIds, SendingIds
  <2>3. QED
    BY <2>1, <2>2 DEF OneStage
<1>8. CASE SendFails
  <2>1. SendingIds' = {} /\ runner'.pc # "sending"
    BY <1>8 DEF SendFails, SendingIds, Idle, At
  <2>2. QED
    BY <1>1, <1>8, <2>1 DEF SendFails
<1>9. CASE BackoffOver
  <2>1. SendingIds' = {} /\ runner'.pc # "sending"
    BY <1>9 DEF BackoffOver, SendingIds, Idle
  <2>2. QED
    BY <1>1, <1>9, <2>1 DEF BackoffOver
<1>10. CASE MarkDispatched
  <2>1. UNCHANGED <<wireVars, pendingAcks, dispatches>>
    BY <1>10 DEF MarkDispatched
  <2>2. runner' = Idle \/ runner' = [runner EXCEPT !.pc = "marked"]
    BY <1>10 DEF MarkDispatched
  <2>3. CASE runner' = Idle
    BY <1>1, <2>1, <2>3 DEF SendingIds, Idle
  <2>4. CASE runner' = [runner EXCEPT !.pc = "marked"]
    <3>1. SendingIds' = SendingIds /\ runner'.pc = "marked" /\ runner'.rid = runner.rid
      BY <1>0, <1>10, <2>4 DEF SendingIds, MarkDispatched
    <3>2. QED
      BY <2>1, <3>1, StageShrinks
  <2>5. QED
    BY <2>2, <2>3, <2>4
<1>11. CASE RegisterWaiter
  <2>1. /\ SendingIds' = {} /\ runner'.pc # "sending" /\ SendingIds = {runner.did}
        /\ pendingAcks' = pendingAcks \cup {runner.did}
        /\ UNCHANGED <<wireVars, dispatches>>
    BY <1>11 DEF RegisterWaiter, SendingIds, Idle
  <2>2. AnsweredIds' = AnsweredIds
    BY <2>1 DEF AnsweredIds
  <2> HIDE DEF AnsweredIds, SendingIds
  <2>3. QED
    BY <2>1, <2>2 DEF OneStage
<1>12. QED
  BY <1>3, <1>4, <1>5, <1>6, <1>7, <1>8, <1>9, <1>10, <1>11 DEF Dispatcher

\* Acks, ready lists, results and cancellation only take away.
LEMMA StageHandlers ==
  ASSUME TypeOK, OneStage, OnceOnlyFaults, AckHandling \/ ResultHandling \/ Cancellation
  PROVE  OneStage'
<1> USE DEF stateVars, ackVars, readyVars, wireVars
<1>1. ASSUME frames' = frames, executing' = executing,
             replies' \subseteq replies, pendingAcks' \subseteq pendingAcks, acks' = acks,
             runner' = runner, dispatches' = dispatches
      PROVE  OneStage'
  BY <1>1, StageShrinks DEF SendingIds
<1>2. ASSUME NEW d \in Did, HandleAck(d)
      PROVE  OneStage'
  <2>1. /\ acks' = acks \ {d} /\ pendingAcks' = pendingAcks \ {d} /\ runner.did # d
        /\ UNCHANGED <<frames, executing, replies, runner, dispatches>>
    BY <1>2, NotTwice DEF HandleAck
  <2>2. AnsweredIds' = AnsweredIds /\ SendingIds' = SendingIds /\ d \notin SendingIds
    BY <2>1 DEF AnsweredIds, SendingIds
  <2> HIDE DEF AnsweredIds, SendingIds
  <2>3. QED
    BY <2>1, <2>2 DEF OneStage
<1>3. ASSUME \/ \E d \in Did : MarkAcknowledged(d) \/ AckTimeout(d)
             \/ \E w \in retrying : RetryAfterTimeout(w) \/ RequeueAfterTimeout(w)
      PROVE  OneStage'
  BY <1>1, <1>3 DEF MarkAcknowledged, AckTimeout, RetryAfterTimeout, RequeueAfterTimeout
<1>4. ASSUME \/ \E r \in Run : CollectReady(r)
             \/ \E s \in handoff : EnqueueReady(s)
      PROVE  OneStage'
  BY <1>1, <1>4 DEF CollectReady, EnqueueReady
<1>5. ASSUME NEW m \in replies, HandleResult(m) \/ HandleCancelled(m) \/ HandleError(m)
      PROVE  OneStage'
  BY <1>1, <1>5 DEF HandleResult, HandleCancelled, HandleError, Deliver
<1>6. ASSUME NEW r \in Run, CancelRun(r) \/ FlushCancelled(r) \/ CancelFinalRun(r)
      PROVE  OneStage'
  BY <1>1, <1>6 DEF CancelRun, FlushCancelled, CancelFinalRun, Flush
<1>7. QED
  BY <1>2, <1>3, <1>4, <1>5, <1>6 DEF AckHandling, ResultHandling, Cancellation

\* A dispatch goes from the wire to a worker, and from there into one reply.
LEMMA StageWorkers ==
  ASSUME TypeOK, OneStage, OnceOnlyFaults, Workers
  PROVE  OneStage'
<1>0. ASSUME schedulerVars' = schedulerVars
      PROVE  UNCHANGED <<runner, pendingAcks, dispatches, SendingIds>>
  BY <1>0 DEF schedulerVars, ackVars, SendingIds
<1>1. ASSUME NEW d \in Did, WorkerReceive(d)
      PROVE  OneStage'
  <2>1. /\ d \in frames /\ frames' = frames \ {d} /\ acks' = acks \cup {d}
        /\ executing' \subseteq executing \cup {d}
        /\ UNCHANGED <<runner, pendingAcks, dispatches, SendingIds, replies>>
    BY <1>0, <1>1 DEF WorkerReceive
  <2>2. AnsweredIds' = AnsweredIds
    BY <2>1 DEF AnsweredIds
  <2> HIDE DEF AnsweredIds, SendingIds
  <2>3. QED
    BY <2>1, <2>2 DEF OneStage
<1>2. ASSUME NEW d \in Did, NEW kind, NEW st, WorkerReports(d, kind, st)
      PROVE  OneStage'
  <2> DEFINE m == [kind |-> kind, did |-> d, status |-> st, again |-> FALSE]
  <2>1. /\ d \in executing /\ executing' = executing \ {d} /\ replies' = replies \cup {m}
        /\ UNCHANGED <<runner, pendingAcks, dispatches, SendingIds, frames, acks>>
    BY <1>0, <1>2 DEF WorkerReports
  <2>m. m.did = d
    OBVIOUS
  <2> HIDE DEF m
  <2>2. AnsweredIds' = AnsweredIds \cup {d} /\ m.did = d
    BY <2>1, <2>m DEF AnsweredIds
  <2>3. \A n \in replies : n.did # d
    BY <2>1 DEF OneStage, AnsweredIds
  <2>4. \A n, o \in replies' : n.did = o.did => n = o
    BY <2>1, <2>2, <2>3 DEF OneStage
  <2> HIDE DEF AnsweredIds, SendingIds
  <2>5. QED
    BY <2>1, <2>2, <2>4 DEF OneStage
<1>3. ASSUME NEW d \in Did, LoseFrame(d)
      PROVE  OneStage'
  BY <1>0, <1>3, StageShrinks DEF LoseFrame
<1>4. ASSUME NEW w \in Worker, WorkerCrashes(w)
      PROVE  OneStage'
  BY <1>0, <1>4, StageShrinks DEF WorkerCrashes
<1>5. /\ \A d \in Did : ~LoseAck(d)
      /\ \A m \in replies : ~WorkerRepeats(m)
  BY NotTwice DEF LoseAck, WorkerRepeats
<1>6. QED
  BY <1>1, <1>2, <1>3, <1>4, <1>5 DEF Workers, WorkerFinishes, WorkerInterrupted, WorkerFails

\* No step puts a dispatch in two stages.
LEMMA StageStep ==
  ASSUME TypeOK, OneStage, OnceOnlyFaults, Next
  PROVE  OneStage'
BY StageDispatcher, StageHandlers, StageWorkers DEF Next

---------------------------------------------------------------------------
(* A request is in one place.                                              *)

\* The task of a request never changes.
TasksKept ==
  /\ Len(requests) <= Len(requests')
  /\ \A q \in 1..Len(requests) : requests'[q].task = requests[q].task

\* Claims move from place to place, some may be dropped, none is added.
ClaimsMove == OnePlace' /\ Active' \subseteq Active /\ TasksKept

\* The places of the other claims when the dispatches under way get fewer.
LEMMA UnderWayShrinks ==
  ASSUME OnePlace, dispatches' = dispatches, UnderWay' \subseteq UnderWay
  PROVE  /\ DispatchRids' \subseteq DispatchRids
         /\ \A d, e \in UnderWay' : dispatches'[d].rid = dispatches'[e].rid => d = e
         /\ \A d \in UnderWay : d \notin UnderWay' => dispatches[d].rid \notin DispatchRids'
BY DEF OnePlace, DispatchRids

\* A step that only drops claims.
LEMMA PlacesShrink ==
  ASSUME OnePlace, UNCHANGED <<queue, handoff, retrying, dispatches>>,
         BackoffRids' \subseteq BackoffRids, UnderWay' \subseteq UnderWay
  PROVE  OnePlace' /\ Active' \subseteq Active
<1>1. /\ DispatchRids' \subseteq DispatchRids
      /\ \A d, e \in UnderWay' : dispatches'[d].rid = dispatches'[e].rid => d = e
  BY UnderWayShrinks
<1>2. QueueRids' = QueueRids /\ HandoffRids' = HandoffRids /\ RetryRids' = RetryRids
  BY DEF QueueRids, HandoffRids, RetryRids
<1> HIDE DEF QueueRids, HandoffRids, BackoffRids, RetryRids, DispatchRids, UnderWay
<1>3. OnePlace'
  BY <1>1, <1>2 DEF OnePlace
<1>4. QED
  BY <1>1, <1>2, <1>3 DEF Active

\* OnePlace in terms of what the sequences hold.
LEMMA QueueDistinct ==
  ASSUME OnePlace
  PROVE  /\ Distinct(queue) /\ QueueRids = Held(queue)
         /\ \A s \in handoff : Distinct(s) /\ Held(s) \subseteq HandoffRids
BY DEF OnePlace, Distinct, Held, QueueRids, HandoffRids

\* The first request is taken from the queue; it may go to the backoff of the
\* dispatcher or into a dispatch.
LEMMA PlacesTaken ==
  ASSUME TypeOK, OnePlace, queue # <<>>, NEW q, q = Head(queue), queue' = Tail(queue),
         UNCHANGED <<handoff, retrying, dispatches, frames, executing, replies, pendingAcks>>,
         runner' = runner \/ (runner.pc = "idle" /\ SendingIds' = {} /\ BackoffRids' \subseteq {q})
  PROVE  OnePlace' /\ Active' \subseteq Active
<1>1. queue \in Seq(1..Len(requests))
  BY ClaimTypes
<1>2. Distinct(queue) /\ QueueRids = Held(queue)
  BY QueueDistinct
<1>3. q \in QueueRids /\ Distinct(queue') /\ QueueRids' = QueueRids \ {q}
  BY <1>1, <1>2, TailHolds DEF QueueRids, Held
<1>4. \A i, j \in DOMAIN queue' : queue'[i] = queue'[j] => i = j
  BY <1>3 DEF Distinct
<1>5. UnderWay' \subseteq UnderWay
  BY DEF UnderWay, AnsweredIds, SendingIds
<1>6. /\ DispatchRids' \subseteq DispatchRids
      /\ \A d, e \in UnderWay' : dispatches'[d].rid = dispatches'[e].rid => d = e
  BY <1>5, UnderWayShrinks
<1>7. HandoffRids' = HandoffRids /\ RetryRids' = RetryRids
  BY DEF HandoffRids, RetryRids
<1>8. BackoffRids' \subseteq BackoffRids \cup {q}
  BY DEF BackoffRids
<1> HIDE DEF QueueRids, HandoffRids, BackoffRids, RetryRids, DispatchRids, UnderWay
<1>9. OnePlace'
  BY <1>3, <1>4, <1>6, <1>7, <1>8 DEF OnePlace
<1>10. QED
  BY <1>3, <1>6, <1>7, <1>8, <1>9 DEF Active

\* The same, into a fresh dispatch.
LEMMA PlacesSent ==
  ASSUME TypeOK, OnePlace, NEW q \in Rid, NEW w \in Worker, StartSend(q, w)
  PROVE  OnePlace' /\ Active' \subseteq Active
<1> DEFINE d == Len(dispatches) + 1
<1>0. /\ queue # <<>> /\ q = Head(queue) /\ queue' = Tail(queue) /\ runner.pc = "idle"
      /\ runner' = At("sending", q, d)
      /\ dispatches' = Append(dispatches, [rid |-> q, worker |-> w])
      /\ UNCHANGED <<handoff, retrying, frames, executing, replies, pendingAcks>>
  BY DEF StartSend, TakeRequest, readyVars, wireVars, ackVars
<1>1. /\ queue \in Seq(1..Len(requests)) /\ Len(dispatches) \in Nat
      /\ UnderWay \subseteq 1..Len(dispatches)
      /\ \A v \in retrying : v.did \in 1..Len(dispatches)
  BY ClaimTypes
<1>2. Distinct(queue) /\ QueueRids = Held(queue)
  BY QueueDistinct
<1>3. q \in QueueRids /\ Distinct(queue') /\ QueueRids' = QueueRids \ {q}
  BY <1>0, <1>1, <1>2, TailHolds DEF QueueRids, Held
<1>4. \A i, j \in DOMAIN queue' : queue'[i] = queue'[j] => i = j
  BY <1>3 DEF Distinct
<1>5. /\ dispatches'[d].rid = q
      /\ \A e \in 1..Len(dispatches) : dispatches'[e] = dispatches[e]
  <2>1. dispatches \in Seq(DispatchType)
    BY DEF TypeOK, DispatcherTypes
  <2>2. QED
    BY <1>0, <2>1
<1>6. d \notin UnderWay /\ UnderWay' = UnderWay \cup {d} /\ BackoffRids' = {}
  <2>1. d \notin UnderWay
    BY <1>1
  <2>2. SendingIds = {} /\ SendingIds' = {d} /\ BackoffRids' = {}
    BY <1>0 DEF SendingIds, BackoffRids, At
  <2>3. AnsweredIds' = AnsweredIds
    BY <1>0 DEF AnsweredIds
  <2> HIDE DEF AnsweredIds, SendingIds, d
  <2>4. QED
    BY <1>0, <2>1, <2>2, <2>3 DEF UnderWay
<1> HIDE DEF d
<1>7. DispatchRids' = DispatchRids \cup {q}
  BY <1>1, <1>5, <1>6 DEF DispatchRids
<1>8. HandoffRids' = HandoffRids /\ RetryRids' = RetryRids
  BY <1>0, <1>1, <1>5 DEF HandoffRids, RetryRids
<1>9. \A e \in UnderWay : dispatches'[e].rid \in DispatchRids /\ dispatches'[e].rid = dispatches[e].rid
  BY <1>1, <1>5 DEF DispatchRids
<1>10. q \notin DispatchRids
  BY <1>3 DEF OnePlace
<1>11. \A e, f \in UnderWay' : dispatches'[e].rid = dispatches'[f].rid => e = f
  BY <1>5, <1>6, <1>9, <1>10 DEF OnePlace
<1>12. \A v, x \in retrying' : dispatches'[v.did].rid = dispatches'[x.did].rid => v = x
  BY <1>0, <1>1, <1>5 DEF OnePlace
<1> HIDE DEF QueueRids, HandoffRids, BackoffRids, RetryRids, DispatchRids, UnderWay
<1>13. \A r, s \in handoff' : \A i \in DOMAIN r, j \in DOMAIN s : r[i] = s[j] => r = s /\ i = j
  BY <1>0 DEF OnePlace
<1>14. /\ QueueRids' \cap (HandoffRids' \cup BackoffRids' \cup RetryRids' \cup DispatchRids') = {}
       /\ HandoffRids' \cap (BackoffRids' \cup RetryRids' \cup DispatchRids') = {}
       /\ BackoffRids' \cap (RetryRids' \cup DispatchRids') = {} /\ RetryRids' \cap DispatchRids' = {}
  BY <1>3, <1>6, <1>7, <1>8 DEF OnePlace
<1>15. OnePlace'
  BY <1>4, <1>11, <1>12, <1>13, <1>14 DEF OnePlace
<1>16. QED
  BY <1>3, <1>6, <1>7, <1>8, <1>15 DEF Active

\* The request of a send that failed goes to the backoff, or nowhere.
LEMMA PlacesFailed ==
  ASSUME TypeOK, OnePlace, OneStage, OnceOnlyFaults, SendFails
  PROVE  OnePlace' /\ Active' \subseteq Active
<1> DEFINE d == runner.did
<1>0. /\ runner.pc = "sending"
      /\ UNCHANGED <<queue, handoff, retrying, dispatches, frames, executing, replies, pendingAcks>>
      /\ runner'.pc = "idle" \/ (runner'.pc = "backoff" /\ runner'.rid = runner.rid)
  BY NotTwice DEF SendFails, readyVars, wireVars, ackVars, Idle, At
<1>1. SendingIds = {d} /\ SendingIds' = {} /\ BackoffRids = {} /\ BackoffRids' \subseteq {runner.rid}
  BY <1>0 DEF SendingIds, BackoffRids
<1>2. dispatches[d].rid = runner.rid /\ d \in UnderWay
  BY <1>1 DEF OneStage, UnderWay
<1>3. AnsweredIds' = AnsweredIds
  BY <1>0 DEF AnsweredIds
<1>4. d \notin frames \cup executing \cup AnsweredIds \cup pendingAcks
  BY <1>0, <1>1 DEF OneStage
<1> HIDE DEF d, SendingIds, AnsweredIds
<1>5. UnderWay' \subseteq UnderWay /\ d \notin UnderWay'
  BY <1>0, <1>1, <1>3, <1>4 DEF UnderWay
<1>6. /\ DispatchRids' \subseteq DispatchRids
      /\ \A e, f \in UnderWay' : dispatches'[e].rid = dispatches'[f].rid => e = f
      /\ runner.rid \notin DispatchRids'
  BY <1>0, <1>2, <1>5, UnderWayShrinks
<1>7. HandoffRids' = HandoffRids /\ RetryRids' = RetryRids /\ QueueRids' = QueueRids
  BY <1>0 DEF HandoffRids, RetryRids, QueueRids
<1>8. runner.rid \in DispatchRids
  BY <1>2 DEF DispatchRids
<1> HIDE DEF QueueRids, HandoffRids, BackoffRids, RetryRids, DispatchRids, UnderWay
<1>9. OnePlace'
  BY <1>0, <1>1, <1>6, <1>7, <1>8 DEF OnePlace
<1>10. QED
  BY <1>1, <1>6, <1>7, <1>8, <1>9 DEF Active

\* A request is put back into the queue, by the dispatcher or by a timer.
LEMMA PlacesRequeued ==
  ASSUME TypeOK, OnePlace, NEW q \in BackoffRids \cup RetryRids, queue' = Append(queue, q),
         UNCHANGED <<handoff, dispatches, frames, executing, replies, pendingAcks>>,
         SendingIds' = SendingIds, retrying' \subseteq retrying,
         q \notin BackoffRids', q \notin RetryRids', BackoffRids' \subseteq BackoffRids
  PROVE  OnePlace' /\ Active' \subseteq Active
<1>1. queue \in Seq(1..Len(requests)) /\ q \in 1..Len(requests)
  BY ClaimTypes DEF Active
<1>2. Distinct(queue) /\ QueueRids = Held(queue) /\ q \notin QueueRids
  BY QueueDistinct DEF OnePlace
<1>a. Distinct(Append(queue, q)) /\ Held(Append(queue, q)) = Held(queue) \cup {q}
  BY <1>1, <1>2, AppendHolds
<1>b. QueueRids' = Held(queue')
  BY DEF QueueRids, Held
<1>3. Distinct(queue') /\ QueueRids' = QueueRids \cup {q}
  BY <1>2, <1>a, <1>b
<1>4. \A i, j \in DOMAIN queue' : queue'[i] = queue'[j] => i = j
  BY <1>3 DEF Distinct
<1>5. UnderWay' = UnderWay
  BY DEF UnderWay, AnsweredIds
<1>6. HandoffRids' = HandoffRids /\ RetryRids' \subseteq RetryRids /\ DispatchRids' = DispatchRids
  BY <1>5 DEF HandoffRids, RetryRids, DispatchRids
<1> HIDE DEF QueueRids, HandoffRids, BackoffRids, RetryRids, DispatchRids, UnderWay
<1>7. OnePlace'
  BY <1>3, <1>4, <1>5, <1>6 DEF OnePlace
<1>8. QED
  BY <1>3, <1>6, <1>7 DEF Active

\* The request of a dispatch whose ack does not come goes to the timer.  The
\* dispatch is under way no more: no frame, no execution, no reply of it is left.
LEMMA PlacesTimedOut ==
  ASSUME TypeOK, OnePlace, OneStage, OnceOnlyFaults, NEW d \in Did, AckTimeout(d)
  PROVE  OnePlace' /\ Active' \subseteq Active
<1> DEFINE w == [did |-> d, stage |-> "reset"]
           q == dispatches[d].rid
<1>0. /\ d \in pendingAcks /\ d \notin frames \cup acks
      /\ pendingAcks' = pendingAcks \ {d} /\ retrying' = retrying \cup {w}
      /\ UNCHANGED <<queue, handoff, runner, dispatches, frames, executing, replies>>
  BY NotTwice DEF AckTimeout, readyVars, wireVars
<1>1. d \notin executing \cup AnsweredIds /\ d \notin SendingIds
  BY <1>0 DEF OneStage
<1>2. AnsweredIds' = AnsweredIds /\ SendingIds' = SendingIds /\ d \in UnderWay /\ w.did = d
  BY <1>0 DEF AnsweredIds, SendingIds, UnderWay
<1> HIDE DEF w
<1>3. UnderWay' \subseteq UnderWay /\ d \notin UnderWay'
  BY <1>0, <1>1, <1>2 DEF UnderWay
<1>4. q \in DispatchRids
  BY <1>2 DEF DispatchRids
<1> HIDE DEF q
<1>5. /\ DispatchRids' \subseteq DispatchRids
      /\ \A e, f \in UnderWay' : dispatches'[e].rid = dispatches'[f].rid => e = f
      /\ q \notin DispatchRids'
  BY <1>0, <1>2, <1>3, UnderWayShrinks DEF q
<1>6. RetryRids' = RetryRids \cup {q}
  BY <1>0, <1>2 DEF RetryRids, q
<1>7. \A v \in retrying : dispatches'[v.did].rid \in RetryRids /\ dispatches'[v.did].rid = dispatches[v.did].rid
  BY <1>0 DEF RetryRids
<1>8. q \notin RetryRids /\ dispatches'[w.did].rid = q
  BY <1>0, <1>2, <1>4 DEF OnePlace, q
<1>9. \A v, x \in retrying' : dispatches'[v.did].rid = dispatches'[x.did].rid => v = x
  BY <1>0, <1>7, <1>8 DEF OnePlace
<1>10. HandoffRids' = HandoffRids /\ QueueRids' = QueueRids /\ BackoffRids' = BackoffRids
  BY <1>0 DEF HandoffRids, QueueRids, BackoffRids
<1> HIDE DEF QueueRids, HandoffRids, BackoffRids, RetryRids, DispatchRids, UnderWay
<1>11. /\ QueueRids' \cap (HandoffRids' \cup BackoffRids' \cup RetryRids' \cup DispatchRids') = {}
       /\ HandoffRids' \cap (BackoffRids' \cup RetryRids' \cup DispatchRids') = {}
       /\ BackoffRids' \cap (RetryRids' \cup DispatchRids') = {} /\ RetryRids' \cap DispatchRids' = {}
  BY <1>4, <1>5, <1>6, <1>10 DEF OnePlace
<1>12. OnePlace'
  BY <1>0, <1>5, <1>9, <1>11 DEF OnePlace
<1>13. QED
  BY <1>4, <1>5, <1>6, <1>10, <1>12 DEF Active

\* A timer goes on, or ends.
LEMMA PlacesTimer ==
  ASSUME TypeOK, OnePlace, NEW w \in retrying, RetryAfterTimeout(w)
  PROVE  OnePlace' /\ Active' \subseteq Active
<1> DEFINE x == [w EXCEPT !.stage = "backoff"]
<1>0. /\ retrying' \subseteq (retrying \ {w}) \cup {x}
      /\ UNCHANGED <<queue, handoff, runner, dispatches, frames, executing, replies, pendingAcks>>
  BY DEF RetryAfterTimeout, readyVars, wireVars
<1>1. x.did = w.did
  BY DEF TypeOK, WireTypes
<1> HIDE DEF x
<1>2. RetryRids' \subseteq RetryRids
  BY <1>0, <1>1 DEF RetryRids
<1>3. \A u, v \in retrying' : dispatches'[u.did].rid = dispatches'[v.did].rid => u = v
  BY <1>0, <1>1 DEF OnePlace
<1>4. UnderWay' = UnderWay
  BY <1>0 DEF UnderWay, AnsweredIds, SendingIds
<1>5. HandoffRids' = HandoffRids /\ QueueRids' = QueueRids /\ BackoffRids' = BackoffRids
        /\ DispatchRids' = DispatchRids
  BY <1>0, <1>4 DEF HandoffRids, QueueRids, BackoffRids, DispatchRids
<1> HIDE DEF QueueRids, HandoffRids, BackoffRids, RetryRids, DispatchRids, UnderWay
<1>6. OnePlace'
  BY <1>0, <1>2, <1>3, <1>4, <1>5 DEF OnePlace
<1>7. QED
  BY <1>2, <1>5, <1>6 DEF Active

\* A cancel takes the requests of its run from the queue, and its timers.
LEMMA PlacesFlushed ==
  ASSUME TypeOK, OnePlace, NEW r \in Run, Flush(r),
         UNCHANGED <<handoff, runner, retrying, dispatches, frames, executing, replies>>
  PROVE  OnePlace' /\ Active' \subseteq Active
<1> DEFINE I == {i \in DOMAIN queue : RunOfRequest(queue[i]) # r}
<1>1. Distinct(queue) /\ QueueRids = Held(queue)
  BY QueueDistinct
<1>2. Len(queue) \in Nat /\ DOMAIN queue = 1..Len(queue)
  BY ClaimTypes, LenProperties
<1>3. IsFiniteSet(1..Len(queue))
  BY <1>2, FS_Interval
<1>4. Cardinality(I) \in Nat /\ I \subseteq DOMAIN queue /\ I \subseteq Nat
  BY <1>2, <1>3, FS_Subset, FS_CardinalityType
<1>5. PICK f \in Increasing(I) : queue' = [k \in DOMAIN f |-> queue[f[k]]]
  BY DEF Flush
<1> HIDE DEF I
<1>6. Distinct(queue') /\ Held(queue') \subseteq Held(queue)
  BY <1>1, <1>4, <1>5, SelectionHolds
<1>7. QueueRids' \subseteq QueueRids /\ \A i, j \in DOMAIN queue' : queue'[i] = queue'[j] => i = j
  BY <1>1, <1>6 DEF QueueRids, Held, Distinct
<1>8. UnderWay' \subseteq UnderWay
  BY DEF Flush, UnderWay, AnsweredIds, SendingIds
<1>9. /\ DispatchRids' \subseteq DispatchRids
      /\ \A d, e \in UnderWay' : dispatches'[d].rid = dispatches'[e].rid => d = e
  BY <1>8, UnderWayShrinks
<1>10. HandoffRids' = HandoffRids /\ BackoffRids' = BackoffRids /\ RetryRids' = RetryRids
  BY DEF HandoffRids, BackoffRids, RetryRids
<1> HIDE DEF QueueRids, HandoffRids, BackoffRids, RetryRids, DispatchRids, UnderWay
<1>11. OnePlace'
  BY <1>7, <1>9, <1>10 DEF OnePlace
<1>12. QED
  BY <1>7, <1>9, <1>10, <1>11 DEF Active

\* A ready list goes into the queue.
LEMMA PlacesHanded ==
  ASSUME TypeOK, OnePlace, NEW s \in handoff, EnqueueReady(s)
  PROVE  OnePlace' /\ Active' \subseteq Active
<1>0. /\ handoff' = handoff \ {s} /\ queue' = queue \o s
      /\ UNCHANGED <<runner, retrying, dispatches, frames, executing, replies, pendingAcks>>
  BY DEF EnqueueReady, ackVars, wireVars
<1>1. queue \in Seq(1..Len(requests)) /\ s \in Seq(1..Len(requests))
  BY ClaimTypes
<1>2. Distinct(queue) /\ QueueRids = Held(queue) /\ Distinct(s) /\ Held(s) \subseteq HandoffRids
  BY QueueDistinct
<1>3. Held(queue) \cap Held(s) = {}
  BY <1>2 DEF OnePlace
<1>4. Distinct(queue \o s) /\ Held(queue \o s) = Held(queue) \cup Held(s)
  BY <1>1, <1>2, <1>3, ConcatHolds
<1>5. QueueRids' = Held(queue')
  BY DEF QueueRids, Held
<1>6. QueueRids' = QueueRids \cup Held(s) /\ \A i, j \in DOMAIN queue' : queue'[i] = queue'[j] => i = j
  BY <1>0, <1>2, <1>4, <1>5 DEF Distinct
<1>7. HandoffRids' \subseteq HandoffRids /\ HandoffRids' \cap Held(s) = {}
  <2>1. HandoffRids' \subseteq HandoffRids
    BY <1>0 DEF HandoffRids
  <2>2. ASSUME NEW r \in handoff', NEW i \in DOMAIN r
        PROVE  r[i] \notin Held(s)
    BY <1>0, <2>2 DEF OnePlace, Held
  <2>3. HandoffRids' \cap Held(s) = {}
    BY <2>2 DEF HandoffRids
  <2>4. QED
    BY <2>1, <2>3
<1>8. UnderWay' = UnderWay
  BY <1>0 DEF UnderWay, AnsweredIds, SendingIds
<1>9. DispatchRids' = DispatchRids /\ BackoffRids' = BackoffRids /\ RetryRids' = RetryRids
  BY <1>0, <1>8 DEF DispatchRids, BackoffRids, RetryRids
<1> HIDE DEF QueueRids, HandoffRids, BackoffRids, RetryRids, DispatchRids, UnderWay
<1>10. \A r, x \in handoff' : \A i \in DOMAIN r, j \in DOMAIN x : r[i] = x[j] => r = x /\ i = j
  BY <1>0 DEF OnePlace
<1>11. /\ QueueRids' \cap (HandoffRids' \cup BackoffRids' \cup RetryRids' \cup DispatchRids') = {}
       /\ HandoffRids' \cap (BackoffRids' \cup RetryRids' \cup DispatchRids') = {}
       /\ BackoffRids' \cap (RetryRids' \cup DispatchRids') = {} /\ RetryRids' \cap DispatchRids' = {}
  BY <1>2, <1>6, <1>7, <1>9 DEF OnePlace
<1>12. OnePlace'
  BY <1>0, <1>6, <1>8, <1>10, <1>11 DEF OnePlace
<1>13. QED
  BY <1>2, <1>6, <1>7, <1>9, <1>12 DEF Active

\* New requests for the tasks in s: the claims of the step that creates them, and
\* where they are.
LEMMA NewClaims ==
  ASSUME TypeOK, NEW S \in SUBSET Task, NEW s \in Orderings(S), requests' = requests \o NewRequests(s)
  PROVE  /\ NewRids(s) \in Seq(1..(Len(requests) + Len(s))) /\ Distinct(NewRids(s))
         /\ Held(NewRids(s)) \cap (1..Len(requests)) = {}
         /\ TasksKept
         /\ \A p \in Held(NewRids(s)) : requests'[p].task \in S
         /\ \A p, q \in Held(NewRids(s)) : requests'[p].task = requests'[q].task => p = q
         /\ NewRids(s) = <<>> <=> S = {}
         /\ \A t \in S : \E p \in Held(NewRids(s)) : p \in 1..Len(requests') /\ requests'[p].task = t
<1> DEFINE n == Len(requests)
           k == Cardinality(S)
           rids == NewRids(s)
<1>1. requests \in Seq(RequestType) /\ n \in Nat /\ k \in Nat
  BY ReadyIsFinite, ClaimTypes DEF TypeOK, DispatcherTypes
<1>2. Distinct(s) /\ Held(s) = S /\ DOMAIN s = 1..k /\ s \in [1..k -> S]
  BY OrderingHolds
<1>3. s \in Seq(S) /\ Len(s) = k
  BY <1>1, <1>2
<1>4. /\ requests' \in Seq(RequestType) /\ Len(requests') = n + k
      /\ NewRids(s) \in Seq(1..(n + k))
      /\ \A q \in 1..n : requests'[q] = requests[q]
  BY <1>1, <1>3, NewRequestsType
<1>5. rids = [i \in 1..k |-> n + i]
  BY <1>2 DEF NewRids
<1>6. NewRequests(s) = [i \in 1..k |-> [task |-> s[i], attempts |-> 0]]
  BY <1>2 DEF NewRequests
<1>7. NewRequests(s) \in Seq(RequestType) /\ Len(NewRequests(s)) = k
        /\ \A i \in 1..k : NewRequests(s)[i].task = s[i]
  <2>1. \A i \in 1..k : [task |-> s[i], attempts |-> 0] \in RequestType
    BY <1>2, ConstantsAssumption DEF RequestType, ConstantsAssumption
  <2>2. QED
    BY <1>1, <1>6, <2>1
<1>8. \A i \in 1..k : requests'[n + i].task = s[i]
  <2>1. \A i \in 1..k : (requests \o NewRequests(s))[n + i] = NewRequests(s)[i]
    <3>1. \A i \in 1..k : /\ n + i \in 1..(Len(requests) + Len(NewRequests(s)))
                          /\ ~(n + i <= Len(requests)) /\ (n + i) - Len(requests) = i
      BY <1>1, <1>7
    <3>2. QED
      BY <1>1, <1>7, <3>1, ConcatProperties
  <2>2. QED
    BY <1>7, <2>1
<1> HIDE DEF rids, n, k
<1>9. DOMAIN rids = 1..k /\ \A i \in 1..k : rids[i] = n + i
  BY <1>5
<1>10. Distinct(rids)
  BY <1>1, <1>9 DEF Distinct
<1>11. \A p \in Held(rids) : \E i \in 1..k : p = n + i
  BY <1>9 DEF Held
<1>12. Held(rids) \cap (1..n) = {}
  BY <1>1, <1>11
<1>13. TasksKept
  BY <1>1, <1>4 DEF TasksKept, n
<1>14. \A p \in Held(rids) : requests'[p].task \in S
  BY <1>2, <1>8, <1>11
<1>15. ASSUME NEW p \in Held(rids), NEW q \in Held(rids), requests'[p].task = requests'[q].task
       PROVE  p = q
  <2>1. PICK i \in 1..k : p = n + i
    BY <1>11
  <2>2. PICK j \in 1..k : q = n + j
    BY <1>11
  <2>3. s[i] = s[j]
    BY <1>8, <1>15, <2>1, <2>2
  <2>4. i = j
    BY <1>2, <2>3 DEF Distinct
  <2>5. QED
    BY <2>1, <2>2, <2>4
<1>16. rids = <<>> <=> S = {}
  <2>1. rids \in Seq(1..(n + k)) /\ Len(rids) = k
    BY <1>1, <1>4, <1>9 DEF rids
  <2>2. k = 0 <=> S = {}
    BY ReadyIsFinite, FS_EmptySet DEF k
  <2>3. rids = <<>> <=> Len(rids) = 0
    BY <2>1
  <2>4. QED
    BY <2>1, <2>2, <2>3
<1>17. ASSUME NEW t \in S
       PROVE  \E p \in Held(rids) : p \in 1..Len(requests') /\ requests'[p].task = t
  <2>1. PICK i \in 1..k : s[i] = t
    BY <1>2 DEF Held
  <2>2. n + i \in Held(rids) /\ requests'[n + i].task = t
    BY <1>8, <1>9, <2>1 DEF Held
  <2>3. n + i \in 1..Len(requests')
    BY <1>1, <1>4
  <2>4. QED
    BY <2>2, <2>3
<1>18. QED
  BY <1>3, <1>4, <1>10, <1>12, <1>13, <1>14, <1>15, <1>16, <1>17 DEF rids, n, k

\* The requests made for the tasks of S are the only new claims.
ClaimsJoin(S) ==
  /\ OnePlace' /\ TasksKept
  /\ \E N : /\ Active' \subseteq Active \cup N /\ N \cap (1..Len(requests)) = {}
            /\ \A p \in N : requests'[p].task \in S
            /\ \A p, q \in N : requests'[p].task = requests'[q].task => p = q

\* A ready list that goes straight into the queue.
LEMMA PlacesCollected ==
  ASSUME TypeOK, OnePlace, NEW S \in SUBSET Task, NEW s \in Orderings(S),
         requests' = requests \o NewRequests(s), queue' = queue \o NewRids(s),
         UNCHANGED <<handoff, runner, retrying, dispatches, frames, executing, replies, pendingAcks>>
  PROVE  ClaimsJoin(S)
<1> DEFINE rids == NewRids(s)
           n == Len(requests) + Len(s)
<1>1. /\ rids \in Seq(1..n) /\ Distinct(rids) /\ Held(rids) \cap (1..Len(requests)) = {}
      /\ TasksKept
      /\ \A p \in Held(rids) : requests'[p].task \in S
      /\ \A p, q \in Held(rids) : requests'[p].task = requests'[q].task => p = q
  BY NewClaims
<1>2. /\ Len(requests) \in Nat /\ queue \in Seq(1..Len(requests))
      /\ Active \subseteq 1..Len(requests)
  BY ClaimTypes
<1>3. Len(s) \in Nat
  BY NewRequestsType DEF TypeOK, DispatcherTypes
<1>4. queue \in Seq(1..n)
  BY <1>2, <1>3, WidenSeq
<1> HIDE DEF rids, n
<1>5. Distinct(queue) /\ QueueRids = Held(queue)
  BY QueueDistinct
<1>6. Held(queue) \cap Held(rids) = {}
  BY <1>1, <1>2, <1>5 DEF Active
<1>7. Distinct(queue \o rids) /\ Held(queue \o rids) = Held(queue) \cup Held(rids)
  BY <1>1, <1>4, <1>5, <1>6, ConcatHolds
<1>8. queue' = queue \o rids
  BY DEF rids
<1>9. QueueRids' = Held(queue')
  BY DEF QueueRids, Held
<1>10. QueueRids' = QueueRids \cup Held(rids) /\ \A i, j \in DOMAIN queue' : queue'[i] = queue'[j] => i = j
  BY <1>5, <1>7, <1>8, <1>9 DEF Distinct
<1>11. UnderWay' = UnderWay
  BY DEF UnderWay, AnsweredIds, SendingIds
<1>12. /\ DispatchRids' = DispatchRids /\ BackoffRids' = BackoffRids /\ RetryRids' = RetryRids
       /\ HandoffRids' = HandoffRids
  BY <1>11 DEF DispatchRids, BackoffRids, RetryRids, HandoffRids
<1>13. Held(rids) \cap (HandoffRids \cup BackoffRids \cup RetryRids \cup DispatchRids) = {}
  BY <1>1, <1>2 DEF Active
<1> HIDE DEF QueueRids, HandoffRids, BackoffRids, RetryRids, DispatchRids, UnderWay
<1>14. OnePlace'
  BY <1>10, <1>11, <1>12, <1>13 DEF OnePlace
<1>15. Active' \subseteq Active \cup Held(rids)
  BY <1>10, <1>12 DEF Active
<1>16. QED
  BY <1>1, <1>14, <1>15 DEF ClaimsJoin

\* The dispatch a reply answers is under way no more.
LEMMA AnswerTaken ==
  ASSUME TypeOK, OneStage, NEW m \in replies, m.did \notin acks, replies' = replies \ {m},
         UNCHANGED <<runner, frames, executing, pendingAcks>>
  PROVE  m.did \in UnderWay /\ UnderWay' \subseteq UnderWay /\ m.did \notin UnderWay'
<1> DEFINE d == m.did
<1>1. d \in AnsweredIds /\ SendingIds' = SendingIds
  BY DEF AnsweredIds, SendingIds
<1>2. d \notin frames \cup executing \cup SendingIds \cup pendingAcks
  BY <1>1 DEF OneStage
<1>3. AnsweredIds' \subseteq AnsweredIds /\ d \notin AnsweredIds'
  BY DEF AnsweredIds, OneStage
<1> HIDE DEF AnsweredIds, SendingIds, d
<1>4. d \in UnderWay /\ UnderWay' \subseteq UnderWay /\ d \notin UnderWay'
  BY <1>1, <1>2, <1>3 DEF UnderWay
<1>5. QED
  BY <1>4 DEF d

\* The claim a reply ends is gone with it.
LEMMA PlacesAnswered ==
  ASSUME TypeOK, OnePlace, OneStage, NEW m \in replies, m.did \notin acks, replies' = replies \ {m},
         UNCHANGED <<queue, handoff, runner, retrying, dispatches, frames, executing, pendingAcks>>
  PROVE  /\ OnePlace' /\ Active' \subseteq Active
         /\ dispatches[m.did].rid \in Active /\ dispatches[m.did].rid \notin Active'
<1> DEFINE q == dispatches[m.did].rid
<1>1. m.did \in UnderWay /\ UnderWay' \subseteq UnderWay /\ m.did \notin UnderWay'
  BY AnswerTaken
<1>2. BackoffRids' = BackoffRids
  BY DEF BackoffRids
<1>3. OnePlace' /\ Active' \subseteq Active
  BY <1>1, <1>2, PlacesShrink
<1>4. q \in DispatchRids /\ q \notin DispatchRids'
  BY <1>1, UnderWayShrinks DEF DispatchRids
<1>5. HandoffRids' = HandoffRids /\ QueueRids' = QueueRids /\ RetryRids' = RetryRids
  BY DEF HandoffRids, QueueRids, RetryRids
<1> HIDE DEF q
<1>6. q \in Active /\ q \notin Active'
  BY <1>2, <1>4, <1>5 DEF OnePlace, Active
<1>7. QED
  BY <1>3, <1>6 DEF q

\* ... and the tasks its result releases get theirs, in a list to be enqueued.
LEMMA PlacesReported ==
  ASSUME TypeOK, OnePlace, OneStage, NEW m \in replies, m.did \notin acks, replies' = replies \ {m},
         NEW S \in SUBSET Task, NEW s \in Orderings(S), requests' = requests \o NewRequests(s),
         handoff' = IF S = {} THEN handoff ELSE handoff \cup {NewRids(s)},
         UNCHANGED <<queue, runner, retrying, dispatches, frames, executing, pendingAcks>>
  PROVE  /\ ClaimsJoin(S)
         /\ dispatches[m.did].rid \in Active /\ dispatches[m.did].rid \notin Active'
<1> DEFINE q == dispatches[m.did].rid
           rids == NewRids(s)
<1>1. m.did \in UnderWay /\ UnderWay' \subseteq UnderWay /\ m.did \notin UnderWay'
  BY AnswerTaken
<1>2. /\ DispatchRids' \subseteq DispatchRids
      /\ \A d, e \in UnderWay' : dispatches'[d].rid = dispatches'[e].rid => d = e
      /\ q \in DispatchRids /\ q \notin DispatchRids'
  BY <1>1, UnderWayShrinks DEF DispatchRids
<1>3. /\ Distinct(rids) /\ Held(rids) \cap (1..Len(requests)) = {}
      /\ TasksKept
      /\ \A p \in Held(rids) : requests'[p].task \in S
      /\ \A p, o \in Held(rids) : requests'[p].task = requests'[o].task => p = o
      /\ rids = <<>> <=> S = {}
  BY NewClaims
<1>4. Active \subseteq 1..Len(requests)
  BY ClaimTypes
<1>5. handoff' \subseteq handoff \cup {rids}
  OBVIOUS
<1> HIDE DEF q, rids
<1>6. HandoffRids' \subseteq HandoffRids \cup Held(rids)
  BY <1>5 DEF HandoffRids, Held
<1>7. \A r \in handoff : \A i \in DOMAIN r : r[i] \in HandoffRids
  BY DEF HandoffRids
<1>8. Held(rids) \cap Active = {}
  BY <1>3, <1>4
<1>9. \A i \in DOMAIN rids : rids[i] \in Held(rids)
  BY DEF Held
<1>10. Held(rids) \cap HandoffRids = {}
  BY <1>8 DEF Active
<1>11. \A r, x \in handoff' : \A i \in DOMAIN r, j \in DOMAIN x : r[i] = x[j] => r = x /\ i = j
  BY <1>3, <1>5, <1>7, <1>9, <1>10 DEF OnePlace, Distinct
<1>12. QueueRids' = QueueRids /\ RetryRids' = RetryRids /\ BackoffRids' = BackoffRids
  BY DEF QueueRids, RetryRids, BackoffRids
<1> HIDE DEF QueueRids, HandoffRids, BackoffRids, RetryRids, DispatchRids, UnderWay
<1>13. Held(rids) \cap (QueueRids \cup BackoffRids \cup RetryRids \cup DispatchRids) = {}
  BY <1>8 DEF Active
<1>14. OnePlace'
  BY <1>2, <1>6, <1>11, <1>12, <1>13 DEF OnePlace
<1>15. Active' \subseteq Active \cup Held(rids)
  BY <1>2, <1>6, <1>12 DEF Active
<1>16. q \in Active /\ q \notin Active'
  BY <1>2, <1>6, <1>8, <1>12 DEF OnePlace, Active
<1>17. ClaimsJoin(S)
  BY <1>3, <1>14, <1>15 DEF ClaimsJoin
<1>18. QED
  BY <1>16, <1>17 DEF q

---------------------------------------------------------------------------
(* What a step does to claims and counters.                                *)

\* A claim stays one while the task it is for stays in motion; a new one is for
\* a task that had none, for nothing had put it in motion.
LEMMA ClaimsGo ==
  ASSUME TypeOK, OneRequest, ClaimedInMotion, NEW S \in SUBSET Task, ClaimsJoin(S),
         \A t \in S : Live(RunOf[t]) /\ ~InMotion(node[t]) /\ InMotion(node'[t]),
         \A q \in Active \cap Active' : runStatus'[RunOfRequest(q)] \notin Final =>
            /\ Live(RunOfRequest(q))
            /\ InMotion(node[TaskOfRequest(q)]) => InMotion(node'[TaskOfRequest(q)])
  PROVE  OneRequest' /\ ClaimedInMotion'
<1>1. PICK N : /\ Active' \subseteq Active \cup N /\ N \cap (1..Len(requests)) = {}
               /\ \A p \in N : requests'[p].task \in S
               /\ \A p, q \in N : requests'[p].task = requests'[q].task => p = q
  BY DEF ClaimsJoin
<1>2. Active \subseteq 1..Len(requests)
  BY ClaimTypes
<1>3. \A q \in Active : requests'[q].task = requests[q].task
  BY <1>2 DEF ClaimsJoin, TasksKept
<1>4. ASSUME NEW p \in Active, NEW q \in N
      PROVE  requests'[p].task # requests'[q].task
  <2>1. requests'[q].task \in S /\ requests'[p].task = TaskOfRequest(p)
    BY <1>1, <1>3, <1>4 DEF TaskOfRequest
  <2>2. Live(RunOfRequest(p)) => InMotion(node[TaskOfRequest(p)])
    BY <1>4 DEF ClaimedInMotion
  <2>3. QED
    BY <2>1, <2>2 DEF RunOfRequest
<1>5. ASSUME NEW p \in Active', NEW q \in Active', requests'[p].task = requests'[q].task
      PROVE  p = q
  <2>1. CASE p \in Active /\ q \in Active
    BY <1>3, <1>5, <2>1 DEF OneRequest, TaskOfRequest
  <2>2. CASE p \in N /\ q \in N
    BY <1>1, <1>5, <2>2
  <2>3. QED
    BY <1>1, <1>4, <1>5, <2>1, <2>2
<1>6. OneRequest'
  BY <1>5 DEF OneRequest, TaskOfRequest
<1>7. ASSUME NEW q \in Active', runStatus'[RunOf[requests'[q].task]] \notin Final
      PROVE  InMotion(node'[requests'[q].task])
  <2>1. CASE q \in Active
    BY <1>3, <1>7, <2>1 DEF ClaimedInMotion, RunOfRequest, TaskOfRequest
  <2>2. CASE q \in N
    BY <1>1, <2>2
  <2>3. QED
    BY <1>1, <2>1, <2>2
<1>8. ClaimedInMotion'
  BY <1>7 DEF ClaimedInMotion, Live, RunOfRequest, TaskOfRequest, InMotion
<1>9. QED
  BY <1>6, <1>8

\* The same when claims only move or are dropped.
LEMMA ClaimsStay ==
  ASSUME TypeOK, OneRequest, ClaimedInMotion, ClaimsMove,
         \A q \in Active \cap Active' : runStatus'[RunOfRequest(q)] \notin Final =>
            /\ Live(RunOfRequest(q))
            /\ InMotion(node[TaskOfRequest(q)]) => InMotion(node'[TaskOfRequest(q)])
  PROVE  OneRequest' /\ ClaimedInMotion'
<1>1. ClaimsJoin({})
  BY DEF ClaimsMove, ClaimsJoin
<1>2. QED
  BY <1>1, ClaimsGo

\* How much a task waits for is a number, and none means that all is done.
LEMMA UndoneType ==
  ASSUME NEW t \in Task
  PROVE  /\ IsFiniteSet(Undone(t)) /\ Cardinality(Undone(t)) \in Nat
         /\ Cardinality(Undone(t)) = 0 <=> \A u \in Deps[t] : node[u].status \in Done
<1>1. Undone(t) \in SUBSET Task
  BY ConstantsAssumption DEF ConstantsAssumption, Undone
<1>2. IsFiniteSet(Undone(t)) /\ Cardinality(Undone(t)) \in Nat
  BY <1>1, ReadyIsFinite
<1>3. Cardinality(Undone(t)) = 0 <=> Undone(t) = {}
  BY <1>2, FS_EmptySet
<1>4. Undone(t) = {} <=> \A u \in Deps[t] : node[u].status \in Done
  BY DEF Undone
<1>5. QED
  BY <1>2, <1>3, <1>4

\* A task whose dependencies kept or gained their good end waits for no more.
LEMMA UndoneShrinks ==
  ASSUME NEW t \in Task, \A u \in Deps[t] : node[u].status \in Done => node'[u].status \in Done
  PROVE  Cardinality(Undone(t)') \in Nat /\ Cardinality(Undone(t)') <= Cardinality(Undone(t))
<1> DEFINE now == {u \in Deps[t] : node'[u].status \notin Done}
<1>1. Undone(t)' = now /\ now \in SUBSET Undone(t)
  BY DEF Undone
<1> HIDE DEF now
<1>2. IsFiniteSet(now) /\ Cardinality(now) <= Cardinality(Undone(t))
  BY <1>1, UndoneType, FS_Subset
<1>3. QED
  BY <1>1, <1>2, FS_CardinalityType

\* What the joins read of a node.
SameWork(n, o) == o.status = n.status /\ o.enqueued = n.enqueued /\ o.pending = n.pending

\* A step that leaves live runs alone.
LEMMA RecordKept ==
  ASSUME TypeOK, PendingCounts, JoinWaitsForAll,
         \A t \in Task : runStatus'[RunOf[t]] \notin Final =>
            Live(RunOf[t]) /\ SameWork(node[t], node'[t])
  PROVE  PendingCounts' /\ JoinWaitsForAll'
<1> USE DEF SameWork
<1>1. \A t \in Task : Deps[t] \subseteq Task /\ \A u \in Deps[t] : RunOf[u] = RunOf[t]
  BY ConstantsAssumption DEF ConstantsAssumption
<1>2. ASSUME NEW t \in Task, runStatus'[RunOf[t]] \notin Final, node'[t].status = "queued"
      PROVE  Cardinality(Undone(t)') <= node'[t].pending
  <2>1. Undone(t)' = Undone(t)
    BY <1>1, <1>2 DEF Undone
  <2>2. QED
    BY <1>2, <2>1 DEF PendingCounts
<1>3. PendingCounts'
  BY <1>2 DEF PendingCounts, Live
<1>4. ASSUME NEW t \in Task, runStatus'[RunOf[t]] \notin Final,
             node'[t].enqueued \/ node'[t].status \in {"running"} \cup Done,
             NEW u \in Deps[t]
      PROVE  node'[u].status \in Done
  <2>1. node'[u].status = node[u].status
    BY <1>1, <1>4
  <2>2. QED
    BY <1>4, <2>1 DEF JoinWaitsForAll
<1>5. JoinWaitsForAll'
  BY <1>4 DEF JoinWaitsForAll, Live
<1>6. QED
  BY <1>3, <1>5

\* One task of a live run, in motion so far, starts or starts over.
LEMMA TaskMoves ==
  ASSUME TypeOK, PendingCounts, JoinWaitsForAll,
         NEW t \in Task, NEW n \in NodeType, n.status \in {"queued", "running"},
         Live(RunOf[t]), InMotion(node[t]),
         node' = [node EXCEPT ![t] = n],
         \A r \in Run : runStatus'[r] \notin Final => Live(r)
  PROVE  PendingCounts' /\ JoinWaitsForAll'
<1>1. node \in [Task -> NodeType]
  BY DEF TypeOK, RecordTypes
<1>2. /\ \A u \in Task : u # t => node'[u] = node[u]
      /\ node'[t] = n /\ n.pending \in Nat
  BY <1>1 DEF NodeType
<1>3. node[t].status \notin Done
  BY DEF InMotion, Done
<1>4. n.status \notin Done
  BY DEF Done
<1>5. \A u \in Task : node'[u].status \in Done <=> node[u].status \in Done
  BY <1>2, <1>3, <1>4
<1>6. \A u \in Task : Deps[u] \subseteq Task /\ RunOf[u] \in Run
  BY ConstantsAssumption DEF ConstantsAssumption
<1>7. \A u \in Deps[t] : node[u].status \in Done
  BY DEF JoinWaitsForAll, InMotion
<1>8. ASSUME NEW u \in Task, runStatus'[RunOf[u]] \notin Final, node'[u].status = "queued"
      PROVE  Cardinality(Undone(u)') <= node'[u].pending
  <2>1. Undone(u)' = Undone(u)
    BY <1>5, <1>6 DEF Undone
  <2>2. CASE u = t
    <3>1. Cardinality(Undone(t)) = 0
      BY <1>7, UndoneType
    <3>2. QED
      BY <1>2, <2>1, <2>2, <3>1
  <2>3. CASE u # t
    BY <1>2, <1>6, <1>8, <2>1, <2>3 DEF PendingCounts
  <2>4. QED
    BY <2>2, <2>3
<1>9. PendingCounts'
  BY <1>8 DEF PendingCounts, Live
<1>10. ASSUME NEW u \in Task, runStatus'[RunOf[u]] \notin Final,
              node'[u].enqueued \/ node'[u].status \in {"running"} \cup Done,
              NEW d \in Deps[u]
       PROVE  node'[d].status \in Done
  <2>1. node[d].status \in Done
    <3>1. CASE u = t
      BY <1>7, <1>10, <3>1
    <3>2. CASE u # t
      BY <1>2, <1>6, <1>10, <3>2 DEF JoinWaitsForAll
    <3>3. QED
      BY <3>1, <3>2
  <2>2. QED
    BY <1>5, <1>6, <2>1
<1>11. JoinWaitsForAll'
  BY <1>10 DEF JoinWaitsForAll, Live
<1>12. QED
  BY <1>9, <1>11

---------------------------------------------------------------------------
(* The steps, one by one.                                                  *)

\* What is to hold again after a step.
ClaimsInv == OnePlace /\ OneRequest /\ ClaimedInMotion /\ PendingCounts /\ JoinWaitsForAll

\* No run comes back to life.
LEMMA LiveRuns ==
  ASSUME OnceInv, Next
  PROVE  \A r \in Run : runStatus'[r] \notin Final => Live(r)
<1>1. AtMostOneRun
  BY OneRunPerStep DEF OnceInv, IndInv
<1>2. QED
  BY <1>1, FinalUntouched DEF Untouched, Live

\* Requests keep their task when there are no others.
LEMMA RequestsKept ==
  ASSUME TypeOK, UNCHANGED requests
  PROVE  TasksKept
BY ClaimTypes DEF TasksKept

\* A step that moves claims and leaves the nodes of live runs alone.
LEMMA NothingMoves ==
  ASSUME OnceInv, Next, ClaimsMove,
         \A t \in Task : runStatus'[RunOf[t]] \notin Final => SameWork(node[t], node'[t])
  PROVE  ClaimsInv'
<1>1. TypeOK
  BY DEF OnceInv, IndInv
<1>2. \A t \in Task : RunOf[t] \in Run
  BY ConstantsAssumption DEF ConstantsAssumption
<1>3. \A t \in Task : runStatus'[RunOf[t]] \notin Final => Live(RunOf[t]) /\ SameWork(node[t], node'[t])
  BY <1>2, LiveRuns
<1>4. PendingCounts' /\ JoinWaitsForAll'
  BY <1>1, <1>3, RecordKept DEF OnceInv
<1>5. \A q \in Active : TaskOfRequest(q) \in Task /\ RunOfRequest(q) = RunOf[TaskOfRequest(q)]
  BY <1>1, ClaimTypes, RunsExist DEF RunOfRequest
<1>6. OneRequest' /\ ClaimedInMotion'
  BY <1>1, <1>3, <1>5, ClaimsStay DEF OnceInv, SameWork, InMotion
<1>7. QED
  BY <1>4, <1>6 DEF ClaimsInv, ClaimsMove

\* An error changes nothing in the runs that are live after it.
LEMMA ErrorKeeps ==
  ASSUME OnceInv, Next, NEW r \in Run, NEW t \in Task \cup {None}, t # None => RunOf[t] = r,
         CommandError(r, t)
  PROVE  \A u \in Task : runStatus'[RunOf[u]] \notin Final => SameWork(node[u], node'[u])
<1>1. TypeOK /\ node \in [Task -> NodeType]
  BY DEF OnceInv, IndInv, TypeOK, RecordTypes
<1>2. CASE node' = node
  BY <1>2 DEF SameWork
<1>3. CASE t # None /\ Live(r) /\ Refresh([node EXCEPT ![t] = CommandFailed(@)], r)
  <2>1. t \in Task /\ RunOf[t] = r
    BY <1>3
  <2>2. runStatus'[r] = "failed"
    BY <1>1, <1>3, <2>1, GivingUpEndsRun
  <2>3. runStatus'[r] \in Final
    BY <2>2 DEF Final
  <2>4. \A u \in Task : u # t => node'[u] = node[u]
    BY <1>1, <1>3 DEF Refresh
  <2>5. QED
    BY <2>1, <2>3, <2>4 DEF SameWork
<1>4. QED
  BY <1>2, <1>3 DEF CommandError, Refresh

\* _handle_retry counts an attempt, or fails the task and ends its run.
LEMMA RetryKeeps ==
  ASSUME OnceInv, Next, NEW q \in 1..Len(requests), HandleRetry(q)
  PROVE  /\ TasksKept
         /\ \A u \in Task : runStatus'[RunOf[u]] \notin Final => SameWork(node[u], node'[u])
<1>1. TypeOK
  BY DEF OnceInv, IndInv
<1>2. TaskOfRequest(q) \in Task /\ RunOfRequest(q) \in Run /\ RunOfRequest(q) = RunOf[TaskOfRequest(q)]
  BY <1>1, RunsExist DEF RunOfRequest
<1>3. Len(requests') = Len(requests) /\ \A i \in 1..Len(requests) : requests'[i].task = requests[i].task
  BY <1>1, HandleRetryType DEF OnceInv, IndInv
<1>4. TasksKept
  BY <1>1, <1>3, ClaimTypes DEF TasksKept
<1>5. CASE UNCHANGED <<node, runStatus>>
  BY <1>4, <1>5 DEF SameWork
<1>6. CASE CommandError(RunOfRequest(q), TaskOfRequest(q))
  BY <1>2, <1>4, <1>6, ErrorKeeps
<1>7. QED
  BY <1>5, <1>6 DEF HandleRetry

\* A task with a claim, in a live run, is in motion; a step that makes it run or
\* wait again leaves every join with its count.
LEMMA ClaimedTaskMoves ==
  ASSUME OnceInv, Next, ClaimsMove, NEW q \in Active, NEW n \in NodeType, n.status \in {"queued", "running"},
         Live(RunOfRequest(q)), node' = [node EXCEPT ![TaskOfRequest(q)] = n],
         InMotion(n) \/ q \notin Active'
  PROVE  ClaimsInv'
<1> DEFINE t == TaskOfRequest(q)
<1>1. TypeOK /\ node \in [Task -> NodeType]
  BY DEF OnceInv, IndInv, TypeOK, RecordTypes
<1>2. /\ \A p \in Active : TaskOfRequest(p) \in Task /\ RunOfRequest(p) = RunOf[TaskOfRequest(p)]
      /\ \A p \in Active : RunOfRequest(p) \in Run
  BY <1>1, ClaimTypes, RunsExist DEF RunOfRequest
<1>3. InMotion(node[t]) /\ t \in Task /\ Live(RunOf[t])
  BY <1>2 DEF OnceInv, ClaimedInMotion
<1>4. node' = [node EXCEPT ![t] = n]
  OBVIOUS
<1>5. \A p \in Active : TaskOfRequest(p) = t => p = q
  BY DEF OnceInv, OneRequest
<1> HIDE DEF t
<1>6. PendingCounts' /\ JoinWaitsForAll'
  BY <1>1, <1>3, <1>4, LiveRuns, TaskMoves DEF OnceInv
<1>7. ASSUME NEW p \in Active \cap Active', runStatus'[RunOfRequest(p)] \notin Final
      PROVE  /\ Live(RunOfRequest(p))
             /\ InMotion(node[TaskOfRequest(p)]) => InMotion(node'[TaskOfRequest(p)])
  <2>1. Live(RunOfRequest(p))
    BY <1>2, <1>7, LiveRuns
  <2>2. CASE p = q
    BY <1>1, <1>2, <1>4, <1>7, <2>1, <2>2 DEF t
  <2>3. CASE p # q
    <3>1. TaskOfRequest(p) # t
      BY <1>5, <1>7, <2>3
    <3>2. QED
      BY <1>1, <1>2, <1>4, <2>1, <3>1
  <2>4. QED
    BY <2>2, <2>3
<1>8. OneRequest' /\ ClaimedInMotion'
  BY <1>1, <1>7, ClaimsStay DEF OnceInv
<1>9. QED
  BY <1>6, <1>8 DEF ClaimsInv, ClaimsMove

\* The dispatcher loop: one request at a time, from the queue to its ack timer.
LEMMA OnceDispatcher ==
  ASSUME OnceInv, OnceOnlyFaults, Next, Dispatcher
  PROVE  ClaimsInv'
<1> USE DEF stateVars, ackVars, readyVars, wireVars
<1>0. TypeOK /\ OnePlace /\ OneStage
  BY DEF OnceInv, IndInv
<1>a. /\ runner \in [pc : {"idle", "sending", "sent", "marked", "backoff"},
                     rid : Nat \cup {None}, did : Nat \cup {None}]
      /\ runner.pc # "idle" => runner.rid \in 1..Len(requests)
      /\ runner.pc \in {"sending", "sent", "marked"} => runner.did \in 1..Len(dispatches)
  BY <1>0 DEF TypeOK, DispatcherTypes
<1>b. ASSUME NEW q, TakeRequest(q)
      PROVE  /\ q \in 1..Len(requests) /\ TaskOfRequest(q) \in Task /\ RunOfRequest(q) \in Run
             /\ RunOf[TaskOfRequest(q)] = RunOfRequest(q)
  <2>1. q \in 1..Len(requests)
    BY <1>0, <1>b, HeadTailProperties DEF TakeRequest, TypeOK, DispatcherTypes
  <2>2. QED
    BY <1>0, <2>1, RunsExist DEF RunOfRequest
\* The record of every live run and the requests stay as they are.
<1>1. ASSUME UNCHANGED <<node, requests>>, OnePlace', Active' \subseteq Active
      PROVE  ClaimsInv'
  <2>1. ClaimsMove /\ \A t \in Task : SameWork(node[t], node'[t])
    BY <1>0, <1>1, RequestsKept DEF ClaimsMove, SameWork
  <2>2. QED
    BY <2>1, NothingMoves
<1>2. CASE SkipFinal
  <2>1. /\ queue # <<>> /\ queue' = Tail(queue) /\ UNCHANGED <<node, requests>>
        /\ UNCHANGED <<handoff, retrying, dispatches, frames, executing, replies, pendingAcks>>
        /\ runner' = runner
    BY <1>2 DEF SkipFinal
  <2> DEFINE q == Head(queue)
  <2>2. q = Head(queue)
    OBVIOUS
  <2> HIDE DEF q
  <2>3. OnePlace' /\ Active' \subseteq Active
    BY <1>0, <2>1, <2>2, PlacesTaken
  <2>4. QED
    BY <1>1, <2>1, <2>3
<1>3. ASSUME NEW q \in Rid, NoWorker(q)
      PROVE  ClaimsInv'
  <2>1. /\ queue # <<>> /\ q = Head(queue) /\ queue' = Tail(queue)
        /\ UNCHANGED <<handoff, retrying, dispatches, frames, executing, replies, pendingAcks>>
        /\ runner.pc = "idle" /\ HandleRetry(q) /\ TakeRequest(q)
    BY <1>3 DEF NoWorker, TakeRequest
  <2>2. SendingIds' = {} /\ BackoffRids' \subseteq {q}
    BY <1>3 DEF NoWorker, SendingIds, BackoffRids, Idle, At
  <2>3. OnePlace' /\ Active' \subseteq Active
    BY <1>0, <2>1, <2>2, PlacesTaken
  <2>4. QED
    BY <1>b, <2>1, <2>3, RetryKeeps, NothingMoves DEF ClaimsMove
<1>4. ASSUME NEW q \in Rid, InvalidPayload(q)
      PROVE  ClaimsInv'
  <2>1. /\ queue # <<>> /\ q = Head(queue) /\ queue' = Tail(queue)
        /\ UNCHANGED <<handoff, retrying, dispatches, frames, executing, replies, pendingAcks>>
        /\ runner' = runner /\ UNCHANGED requests
        /\ TakeRequest(q) /\ CommandError(RunOfRequest(q), TaskOfRequest(q))
    BY <1>4 DEF InvalidPayload, TakeRequest
  <2>2. OnePlace' /\ Active' \subseteq Active
    BY <1>0, <2>1, PlacesTaken
  <2>3. \A u \in Task : runStatus'[RunOf[u]] \notin Final => SameWork(node[u], node'[u])
    BY <1>b, <2>1, ErrorKeeps
  <2>4. QED
    BY <1>0, <2>1, <2>2, <2>3, RequestsKept, NothingMoves DEF ClaimsMove
<1>5. ASSUME NEW q \in Rid, NEW w \in Worker, StartSend(q, w)
      PROVE  ClaimsInv'
  <2>1. OnePlace' /\ Active' \subseteq Active
    BY <1>0, <1>5, PlacesSent
  <2>2. UNCHANGED <<node, requests>>
    BY <1>5 DEF StartSend
  <2>3. QED
    BY <1>1, <2>1, <2>2
<1>6. CASE Transmit
  <2>1. /\ UNCHANGED <<queue, handoff, retrying, dispatches, node, requests>>
        /\ UNCHANGED <<executing, replies, pendingAcks>>
        /\ frames' = frames \cup {runner.did} /\ runner.pc = "sending"
        /\ runner'.pc = "sent" /\ runner'.did = runner.did
    BY <1>6, <1>a DEF Transmit
  <2>2. SendingIds = {runner.did} /\ SendingIds' = {runner.did} /\ BackoffRids' = {}
    BY <2>1 DEF SendingIds, BackoffRids
  <2>3. AnsweredIds' = AnsweredIds
    BY <2>1 DEF AnsweredIds
  <2>4. UnderWay' \subseteq UnderWay
    BY <2>1, <2>2, <2>3 DEF UnderWay
  <2>5. OnePlace' /\ Active' \subseteq Active
    BY <1>0, <2>1, <2>2, <2>4, PlacesShrink
  <2>6. QED
    BY <1>1, <2>1, <2>5
<1>7. CASE SendFails
  <2>1. OnePlace' /\ Active' \subseteq Active
    BY <1>0, <1>7, PlacesFailed
  <2>2. runner.rid \in 1..Len(requests) /\ HandleRetry(runner.rid)
    BY <1>7, <1>a DEF SendFails
  <2>3. QED
    BY <2>1, <2>2, RetryKeeps, NothingMoves DEF ClaimsMove
<1>8. CASE BackoffOver
  <2> DEFINE q == runner.rid
  <2>1. /\ q \in BackoffRids /\ queue' = Append(queue, q)
        /\ UNCHANGED <<handoff, dispatches, frames, executing, replies, pendingAcks>>
        /\ UNCHANGED <<retrying, node, requests>>
        /\ SendingIds' = SendingIds /\ BackoffRids' = {}
    BY <1>8 DEF BackoffOver, BackoffRids, SendingIds, Idle
  <2> HIDE DEF q
  <2>2. RetryRids' = RetryRids
    BY <2>1 DEF RetryRids
  <2>3. q \notin RetryRids'
    BY <1>0, <2>1, <2>2 DEF OnePlace
  <2>4. OnePlace' /\ Active' \subseteq Active
    BY <1>0, <2>1, <2>3, PlacesRequeued
  <2>5. QED
    BY <1>1, <2>1, <2>4
<1>9. CASE MarkDispatched
  <2> DEFINE q == runner.rid
             n == Dispatched(node[TaskOfRequest(q)], runner.did)
  <2>1. /\ UNCHANGED <<queue, handoff, retrying, dispatches, requests>>
        /\ UNCHANGED <<frames, executing, replies, pendingAcks>>
        /\ runner.pc = "sent"
        /\ runner' = Idle \/ runner' = [runner EXCEPT !.pc = "marked"]
    BY <1>9 DEF MarkDispatched
  <2>2. SendingIds = {runner.did} /\ SendingIds' \subseteq SendingIds /\ BackoffRids' = {}
    BY <1>a, <2>1 DEF SendingIds, BackoffRids, Idle
  <2>3. AnsweredIds' = AnsweredIds
    BY <2>1 DEF AnsweredIds
  <2>4. UnderWay' \subseteq UnderWay
    BY <2>1, <2>2, <2>3 DEF UnderWay
  <2>5. OnePlace' /\ Active' \subseteq Active
    BY <1>0, <2>1, <2>2, <2>4, PlacesShrink
  <2>6. q \in Active
    <3>1. runner.did \in UnderWay /\ dispatches[runner.did].rid = q
      BY <1>0, <2>2 DEF OneStage, UnderWay
    <3>2. QED
      BY <3>1 DEF Active, DispatchRids
  <2>7. ClaimsMove
    BY <1>0, <2>1, <2>5, RequestsKept DEF ClaimsMove
  <2>8. CASE ~Live(RunOfRequest(q))
    BY <1>1, <1>9, <2>1, <2>5, <2>8 DEF MarkDispatched, RunOfRequest
  <2>9. CASE Live(RunOfRequest(q))
    <3>1. node[TaskOfRequest(q)] \in NodeType /\ runner.did \in Nat
      BY <1>0, <1>a, <2>1, RunsExist DEF TypeOK, RecordTypes
    <3>2. n \in NodeType /\ n.status = "running"
      BY <3>1, NodeUpdates DEF Dispatched, NodeType
    <3>3. node' = [node EXCEPT ![TaskOfRequest(q)] = n]
      BY <1>9, <2>9 DEF MarkDispatched, Refresh, RunOfRequest
    <3> HIDE DEF q, n
    <3>4. QED
      BY <2>6, <2>7, <2>9, <3>2, <3>3, ClaimedTaskMoves DEF InMotion
  <2>10. QED
    BY <2>8, <2>9
<1>10. CASE RegisterWaiter
  <2>1. /\ UNCHANGED <<queue, handoff, retrying, dispatches, node>>
        /\ UNCHANGED <<frames, executing, replies>>
        /\ runner.pc = "marked" /\ runner' = Idle /\ pendingAcks' = pendingAcks \cup {runner.did}
        /\ requests' = [requests EXCEPT ![runner.rid].attempts = 0]
    BY <1>10 DEF RegisterWaiter
  <2>2. SendingIds = {runner.did} /\ SendingIds' = {} /\ BackoffRids' = {}
    BY <2>1 DEF SendingIds, BackoffRids, Idle
  <2>3. AnsweredIds' = AnsweredIds
    BY <2>1 DEF AnsweredIds
  <2>4. UnderWay' \subseteq UnderWay
    BY <2>1, <2>2, <2>3 DEF UnderWay
  <2>5. OnePlace' /\ Active' \subseteq Active
    BY <1>0, <2>1, <2>2, <2>4, PlacesShrink
  <2>6. TasksKept
    BY <1>10, <1>0, GivenUpStep DEF OnceInv, IndInv, TasksKept
  <2>7. \A t \in Task : SameWork(node[t], node'[t])
    BY <2>1 DEF SameWork
  <2>8. QED
    BY <2>5, <2>6, <2>7, NothingMoves DEF ClaimsMove
<1>11. QED
  BY <1>2, <1>3, <1>4, <1>5, <1>6, <1>7, <1>8, <1>9, <1>10 DEF Dispatcher

\* An ack ends the timer of its dispatch; a timer hands its request back.
LEMMA OnceAcks ==
  ASSUME OnceInv, OnceOnlyFaults, Next, AckHandling
  PROVE  ClaimsInv'
<1> USE DEF stateVars, ackVars, readyVars, wireVars
<1>0. TypeOK /\ OnePlace /\ OneStage
  BY DEF OnceInv, IndInv
<1>1. ASSUME OnePlace', Active' \subseteq Active, UNCHANGED requests,
             \A t \in Task : SameWork(node[t], node'[t])
      PROVE  ClaimsInv'
  BY <1>0, <1>1, RequestsKept, NothingMoves DEF ClaimsMove
<1>2. ASSUME UNCHANGED <<queue, handoff, runner, retrying, dispatches, frames, executing, replies>>,
             pendingAcks' \subseteq pendingAcks
      PROVE  OnePlace' /\ Active' \subseteq Active
  <2>1. SendingIds' = SendingIds /\ BackoffRids' = BackoffRids /\ AnsweredIds' = AnsweredIds
    BY <1>2 DEF SendingIds, BackoffRids, AnsweredIds
  <2>2. UnderWay' \subseteq UnderWay
    BY <1>2, <2>1 DEF UnderWay
  <2>3. QED
    BY <1>0, <1>2, <2>1, <2>2, PlacesShrink
<1>3. ASSUME NEW d \in Did, HandleAck(d)
      PROVE  ClaimsInv'
  <2>1. /\ UNCHANGED <<queue, handoff, runner, retrying, dispatches, frames, executing, replies>>
        /\ pendingAcks' \subseteq pendingAcks /\ UNCHANGED <<requests, node>>
    BY <1>3 DEF HandleAck
  <2>2. \A t \in Task : SameWork(node[t], node'[t])
    BY <2>1 DEF SameWork
  <2>3. QED
    BY <1>1, <1>2, <2>1, <2>2
<1>4. ASSUME NEW d \in Did, MarkAcknowledged(d)
      PROVE  ClaimsInv'
  <2> DEFINE t == TaskOfDispatch(d)
  <2>1. /\ UNCHANGED <<queue, handoff, runner, retrying, dispatches, frames, executing, replies>>
        /\ UNCHANGED <<pendingAcks, requests>>
        /\ node' = node \/ node' = [node EXCEPT ![t].pendingAck = FALSE]
    BY <1>4 DEF MarkAcknowledged, Refresh
  <2>2. node \in [Task -> NodeType]
    BY <1>0 DEF TypeOK, RecordTypes
  <2>3. \A u \in Task : SameWork(node[u], node'[u])
    BY <2>1, <2>2 DEF SameWork, NodeType
  <2>4. QED
    BY <1>1, <1>2, <2>1, <2>3
<1>5. ASSUME NEW d \in Did, AckTimeout(d)
      PROVE  ClaimsInv'
  <2> DEFINE q == dispatches[d].rid
             n == AckTimedOut(node[TaskOfRequest(q)])
  <2>1. OnePlace' /\ Active' \subseteq Active
    BY <1>0, <1>5, PlacesTimedOut
  <2>2. UNCHANGED requests /\ d \in pendingAcks
    BY <1>5 DEF AckTimeout
  <2>3. ClaimsMove
    BY <1>0, <2>1, <2>2, RequestsKept DEF ClaimsMove
  <2>4. q \in Active
    BY <2>2 DEF Active, DispatchRids, UnderWay
  <2>5. TaskOfRequest(q) = TaskOfDispatch(d)
    BY DEF TaskOfRequest, TaskOfDispatch
  <2>6. node[TaskOfRequest(q)] \in NodeType
    BY <1>0, <2>4, ClaimTypes, RunsExist DEF TypeOK, RecordTypes
  <2>7. CASE UNCHANGED node
    <3>1. \A t \in Task : SameWork(node[t], node'[t])
      BY <2>7 DEF SameWork
    <3>2. QED
      BY <1>1, <2>1, <2>2, <3>1
  <2>8. CASE Live(RunOfRequest(q)) /\ node' = [node EXCEPT ![TaskOfRequest(q)] = n]
    <3>1. n \in NodeType /\ n.status = "queued" /\ n.enqueued = TRUE
      BY <2>6, NodeUpdates DEF AckTimedOut, NodeType
    <3> HIDE DEF q, n
    <3>2. QED
      BY <2>3, <2>4, <2>8, <3>1, ClaimedTaskMoves DEF InMotion
  <2>9. QED
    BY <1>5, <2>5, <2>7, <2>8 DEF AckTimeout, Refresh, RunOfRequest
<1>6. ASSUME NEW w \in retrying, RetryAfterTimeout(w)
      PROVE  ClaimsInv'
  <2>1. OnePlace' /\ Active' \subseteq Active
    BY <1>0, <1>6, PlacesTimer
  <2>2. dispatches[w.did].rid \in 1..Len(requests) /\ HandleRetry(dispatches[w.did].rid)
    BY <1>0, <1>6, ClaimTypes DEF RetryAfterTimeout
  <2>3. QED
    BY <2>1, <2>2, RetryKeeps, NothingMoves DEF ClaimsMove
<1>7. ASSUME NEW w \in retrying, RequeueAfterTimeout(w)
      PROVE  ClaimsInv'
  <2> DEFINE q == dispatches[w.did].rid
  <2>1. /\ q \in RetryRids /\ queue' = Append(queue, q) /\ retrying' = retrying \ {w}
        /\ UNCHANGED <<handoff, dispatches, frames, executing, replies, pendingAcks>>
        /\ UNCHANGED <<runner, node, requests>>
    BY <1>7 DEF RequeueAfterTimeout, RetryRids
  <2>2. q \notin RetryRids'
    BY <1>0, <2>1 DEF OnePlace, RetryRids
  <2> HIDE DEF q
  <2>3. SendingIds' = SendingIds /\ BackoffRids' = BackoffRids
    BY <2>1 DEF SendingIds, BackoffRids
  <2>4. q \notin BackoffRids'
    BY <1>0, <2>1, <2>3 DEF OnePlace
  <2>5. OnePlace' /\ Active' \subseteq Active
    BY <1>0, <2>1, <2>2, <2>3, <2>4, PlacesRequeued
  <2>6. \A t \in Task : SameWork(node[t], node'[t])
    BY <2>1 DEF SameWork
  <2>7. QED
    BY <1>1, <2>1, <2>5, <2>6
<1>8. QED
  BY <1>3, <1>4, <1>5, <1>6, <1>7 DEF AckHandling

\* A cancelled run leaves the record of the others alone.
LEMMA OnceCancellation ==
  ASSUME OnceInv, OnceOnlyFaults, Next, Cancellation
  PROVE  ClaimsInv'
<1> USE DEF stateVars, ackVars, readyVars, wireVars
<1>0. TypeOK /\ OnePlace
  BY DEF OnceInv, IndInv
<1>1. UNCHANGED requests
  BY DEF Cancellation, CancelRun, FlushCancelled, CancelFinalRun
<1>2. TasksKept
  BY <1>0, <1>1, RequestsKept
<1>3. ASSUME NEW r \in Run, CancelRun(r)
      PROVE  ClaimsInv'
  <2>1. /\ UNCHANGED <<queue, handoff, runner, retrying, dispatches, frames, executing, replies, pendingAcks>>
        /\ runStatus' = [runStatus EXCEPT ![r] = "cancelled"]
        /\ node' = [t \in Task |-> IF RunOf[t] = r THEN RunCancelled(node[t]) ELSE node[t]]
    BY <1>3 DEF CancelRun
  <2>2. BackoffRids' = BackoffRids /\ UnderWay' = UnderWay
    BY <2>1 DEF BackoffRids, UnderWay, SendingIds, AnsweredIds
  <2>3. OnePlace' /\ Active' \subseteq Active
    BY <1>0, <2>1, <2>2, PlacesShrink
  <2>4. runStatus'[r] \in Final
    BY <1>0, <2>1 DEF TypeOK, RecordTypes, Final
  <2>5. \A t \in Task : runStatus'[RunOf[t]] \notin Final => SameWork(node[t], node'[t])
    BY <2>1, <2>4 DEF SameWork
  <2>6. QED
    BY <1>2, <2>3, <2>5, NothingMoves DEF ClaimsMove
<1>4. ASSUME NEW r \in Run, FlushCancelled(r) \/ CancelFinalRun(r)
      PROVE  ClaimsInv'
  <2>1. /\ UNCHANGED <<handoff, runner, retrying, dispatches, frames, executing, replies>>
        /\ Flush(r) /\ UNCHANGED node
    BY <1>4 DEF FlushCancelled, CancelFinalRun
  <2>2. OnePlace' /\ Active' \subseteq Active
    BY <1>0, <2>1, PlacesFlushed
  <2>3. \A t \in Task : SameWork(node[t], node'[t])
    BY <2>1 DEF SameWork
  <2>4. QED
    BY <1>2, <2>2, <2>3, NothingMoves DEF ClaimsMove
<1>5. QED
  BY <1>3, <1>4 DEF Cancellation

\* Workers hold no claims of their own: the dispatch keeps its one.
LEMMA OnceWorkers ==
  ASSUME OnceInv, OnceOnlyFaults, Next, Workers
  PROVE  ClaimsInv'
<1>0. TypeOK /\ OnePlace
  BY DEF OnceInv, IndInv
<1>1. schedulerVars' = schedulerVars
  BY NotTwice DEF Workers, WorkerReceive, WorkerInterrupted, WorkerFails, LoseFrame, LoseAck,
     WorkerFinishes, WorkerReports, WorkerRepeats, WorkerCrashes
<1>2. UNCHANGED <<queue, handoff, runner, retrying, dispatches, pendingAcks, node, requests>>
  BY <1>1 DEF schedulerVars, stateVars, ackVars, readyVars
<1>3. SendingIds' = SendingIds /\ BackoffRids' = BackoffRids
  BY <1>2 DEF SendingIds, BackoffRids
\* A dispatch only goes from the wire to a worker, and from there into a reply.
<1>4. frames' \cup executing' \cup AnsweredIds' \subseteq frames \cup executing \cup AnsweredIds
  <2>1. ASSUME NEW d \in Did, WorkerReceive(d)
        PROVE  /\ d \in frames /\ frames' = frames \ {d} /\ executing' \subseteq executing \cup {d}
               /\ UNCHANGED replies
    BY <2>1 DEF WorkerReceive
  <2>2. ASSUME NEW d \in Did, NEW kind, NEW st, WorkerReports(d, kind, st)
        PROVE  /\ d \in executing /\ frames' = frames /\ executing' = executing \ {d}
               /\ AnsweredIds' = AnsweredIds \cup {d}
    <3> DEFINE m == [kind |-> kind, did |-> d, status |-> st, again |-> FALSE]
    <3>1. /\ d \in executing /\ frames' = frames /\ executing' = executing \ {d}
          /\ replies' = replies \cup {m}
      BY <2>2 DEF WorkerReports
    <3>2. m.did = d
      OBVIOUS
    <3> HIDE DEF m
    <3>3. QED
      BY <3>1, <3>2 DEF AnsweredIds
  <2>3. ASSUME \/ \E d \in Did : LoseFrame(d)
               \/ \E w \in Worker : WorkerCrashes(w)
        PROVE  /\ frames' \subseteq frames /\ executing' \subseteq executing
               /\ UNCHANGED replies
    BY <2>3 DEF LoseFrame, WorkerCrashes
  <2>4. /\ \A d \in Did : ~LoseAck(d)
        /\ \A m \in replies : ~WorkerRepeats(m)
    BY NotTwice DEF LoseAck, WorkerRepeats
  <2>5. UNCHANGED replies => AnsweredIds' = AnsweredIds
    BY DEF AnsweredIds
  <2> HIDE DEF AnsweredIds
  <2>6. QED
    BY <2>1, <2>2, <2>3, <2>4, <2>5 DEF Workers, WorkerFinishes, WorkerInterrupted, WorkerFails
<1>5. UnderWay' \subseteq UnderWay
  BY <1>2, <1>3, <1>4 DEF UnderWay
<1>6. OnePlace' /\ Active' \subseteq Active
  BY <1>0, <1>2, <1>3, <1>5, PlacesShrink
<1>7. TasksKept /\ \A t \in Task : SameWork(node[t], node'[t])
  BY <1>0, <1>2, RequestsKept DEF SameWork
<1>8. QED
  BY <1>6, <1>7, NothingMoves DEF ClaimsMove

\* Nothing left to wait for, read off any record.
LEMMA NothingUndone ==
  ASSUME NEW t \in Task, NEW nodes, Cardinality({u \in Deps[t] : nodes[u].status \notin Done}) <= 0
  PROVE  \A u \in Deps[t] : nodes[u].status \in Done
<1> DEFINE left == {u \in Deps[t] : nodes[u].status \notin Done}
<1>1. left \in SUBSET Task
  BY ConstantsAssumption DEF ConstantsAssumption
<1>2. Cardinality(left) <= 0
  OBVIOUS
<1> HIDE DEF left
<1>3. IsFiniteSet(left) /\ Cardinality(left) \in Nat
  BY <1>1, ReadyIsFinite
<1>4. left = {}
  BY <1>2, <1>3, FS_EmptySet
<1>5. QED
  BY <1>4 DEF left

\* What is left once one dependency ended well.
LEMMA OneUndoneLess ==
  ASSUME NEW u \in Task, NEW t \in Deps[u], node[t].status \notin Done, node'[t].status \in Done,
         \A d \in Deps[u] : d # t => node'[d].status = node[d].status
  PROVE  /\ Cardinality(Undone(u)') = Cardinality(Undone(u)) - 1
         /\ Cardinality(Undone(u)) \in Nat /\ Cardinality(Undone(u)) > 0
<1> DEFINE before == Undone(u)
<1>1. Undone(u)' = before \ {t} /\ t \in before
  BY DEF Undone
<1>2. IsFiniteSet(before) /\ Cardinality(before) \in Nat
  BY UndoneType
<1> HIDE DEF before
<1>3. Cardinality(before \ {t}) = Cardinality(before) - 1
  BY <1>1, <1>2, FS_RemoveElement
<1>4. Cardinality(before) # 0
  BY <1>1, <1>2, FS_EmptySet
<1>5. QED
  BY <1>1, <1>2, <1>3, <1>4 DEF before

\* collect_ready_nodes.
LEMMA OnceCollect ==
  ASSUME OnceInv, Next, NEW r \in Run, CollectReady(r)
  PROVE  ClaimsInv'
<1> DEFINE ready == {t \in TasksOf(r) : Live(r) /\ AutoDispatchable(node[t])}
<1>0. TypeOK /\ OnePlace /\ node \in [Task -> NodeType]
  BY DEF OnceInv, IndInv, TypeOK, RecordTypes
<1>1. PICK s \in Orderings(ready) :
        /\ requests' = requests \o NewRequests(s) /\ queue' = queue \o NewRids(s)
        /\ node' = Enqueued(node, ready) /\ runStatus' = runStatus
        /\ UNCHANGED <<handoff, runner, retrying, dispatches, frames, executing, replies, pendingAcks>>
  BY DEF CollectReady, ackVars, wireVars
<1>2. ready \in SUBSET Task
  BY DEF TasksOf
<1>3. \A t \in ready : /\ RunOf[t] = r /\ Live(r) /\ node[t].status = "queued"
                       /\ ~node[t].enqueued /\ node[t].pending = 0
  BY DEF TasksOf, AutoDispatchable
<1> HIDE DEF ready
<1>4. ClaimsJoin(ready)
  BY <1>0, <1>1, <1>2, PlacesCollected
<1>5. \A t \in Task : /\ node'[t].status = node[t].status /\ node'[t].pending = node[t].pending
                      /\ node'[t].enqueued = (t \in ready \/ node[t].enqueued)
  BY <1>0, <1>1 DEF Enqueued, NodeType
<1>6. \A t \in Task : InMotion(node[t]) => InMotion(node'[t])
  BY <1>5 DEF InMotion
<1>7. \A t \in ready : Live(RunOf[t]) /\ ~InMotion(node[t]) /\ InMotion(node'[t])
  BY <1>2, <1>3, <1>5 DEF InMotion
<1>8. \A q \in Active : TaskOfRequest(q) \in Task
  BY <1>0, ClaimTypes, RunsExist
<1>9. OneRequest' /\ ClaimedInMotion'
  BY <1>0, <1>1, <1>2, <1>4, <1>6, <1>7, <1>8, ClaimsGo DEF OnceInv, Live
<1>10. \A t \in Task : Deps[t] \subseteq Task
  BY ConstantsAssumption DEF ConstantsAssumption
<1>11. \A t \in Task : Undone(t)' = Undone(t)
  BY <1>5, <1>10 DEF Undone
<1>12. PendingCounts'
  BY <1>1, <1>5, <1>11 DEF OnceInv, PendingCounts, Live
<1>13. ASSUME NEW t \in Task, runStatus'[RunOf[t]] \notin Final,
              node'[t].enqueued \/ node'[t].status \in {"running"} \cup Done
       PROVE  \A u \in Deps[t] : node'[u].status \in Done
  <2>1. CASE t \in ready
    <3>1. Cardinality(Undone(t)) <= 0
      BY <1>3, <2>1 DEF OnceInv, PendingCounts
    <3>2. \A u \in Deps[t] : node[u].status \in Done
      BY <3>1, NothingUndone DEF Undone
    <3>3. QED
      BY <1>5, <1>10, <3>2
  <2>2. CASE t \notin ready
    <3>1. \A u \in Deps[t] : node[u].status \in Done
      BY <1>1, <1>5, <1>13, <2>2 DEF OnceInv, JoinWaitsForAll, Live
    <3>2. QED
      BY <1>5, <1>10, <3>1
  <2>3. QED
    BY <2>1, <2>2
<1>14. JoinWaitsForAll'
  BY <1>13 DEF JoinWaitsForAll, Live
<1>15. QED
  BY <1>4, <1>9, <1>12, <1>14 DEF ClaimsInv, ClaimsJoin

\* What a result st of t does to the nodes when the tasks in ready are free.
Frees(t, st, ready) ==
  /\ \E s \in Orderings(ready) :
       /\ requests' = requests \o NewRequests(s)
       /\ handoff' = IF ready = {} THEN handoff ELSE handoff \cup {NewRids(s)}
  /\ runStatus' = [runStatus EXCEPT ![RunOf[t]] = Rollup(node', RunOf[t])]
  /\ node'[t].status = st /\ node'[t].enqueued = FALSE
  /\ \A u \in Task : u # t => node'[u].status = node[u].status
  /\ \A u \in Task : u # t => node'[u].enqueued = (u \in ready \/ node[u].enqueued)
  /\ \A u \in ready : /\ st \in Done /\ node[u].status = "queued" /\ ~node[u].enqueued
                      /\ node'[u].pending = 0
  /\ \A u \in Task : node'[u].pending = IF st \in Done /\ t \in Deps[u]
                                          /\ node[u].status = "queued" /\ node[u].pending > 0
                                        THEN node[u].pending - 1 ELSE node[u].pending
  /\ \A u \in Task : u \notin Dependents(t) \cup {t} => node'[u] = node[u]
  /\ \A u \in Task : u # t => node'[u].did = node[u].did /\ node'[u].pendingAck = node[u].pendingAck
  /\ \A u \in Dependents(t) \ ready :
       st \in Done /\ node[u].status = "queued" /\ ~node[u].enqueued => node'[u].pending # 0

\* apply_record_result frees some of the task's dependents.
LEMMA ResultNodes ==
  ASSUME TypeOK, NEW t \in Task, NEW st \in Final, ApplyResult(t, st)
  PROVE  \E ready \in SUBSET Dependents(t) : Frees(t, st, ready)
<1> DEFINE reported == [node EXCEPT ![t] = Reported(@, st)]
           released == IF st \in Done THEN Released(reported, t) ELSE reported
           ready    == {u \in Dependents(t) : st \in Done /\ AutoDispatchable(released[u])}
<1>1. PICK s \in Orderings(ready) :
        /\ requests' = requests \o NewRequests(s)
        /\ handoff' = IF ready = {} THEN handoff ELSE handoff \cup {NewRids(s)}
        /\ node' = Enqueued(released, ready)
        /\ runStatus' = [runStatus EXCEPT ![RunOf[t]] = Rollup(node', RunOf[t])]
  BY DEF ApplyResult, Refresh
<1>2. node \in [Task -> NodeType]
  BY DEF TypeOK, RecordTypes
<1>3. t \notin Dependents(t) /\ \A u \in Task : u \in Dependents(t) <=> t \in Deps[u]
  BY ConstantsAssumption DEF ConstantsAssumption, Dependents
<1>4. reported \in [Task -> NodeType]
  BY <1>2, NodeUpdates
<1>5. /\ reported[t].status = st /\ reported[t].enqueued = FALSE
      /\ reported[t].pending = node[t].pending
      /\ \A u \in Task : u # t => reported[u] = node[u]
  BY <1>2 DEF Reported, NodeType
<1> HIDE DEF reported
<1>6. ASSUME NEW u \in Task
      PROVE  /\ released[u] \in NodeType /\ released[u].status = reported[u].status
             /\ released[u].enqueued = reported[u].enqueued
             /\ released[u].pending = IF st \in Done /\ u \in Dependents(t)
                                          /\ reported[u].status = "queued" /\ reported[u].pending > 0
                                      THEN reported[u].pending - 1 ELSE reported[u].pending
             /\ u \notin Dependents(t) => released[u] = reported[u]
             /\ released[u].did = reported[u].did /\ released[u].pendingAck = reported[u].pendingAck
  <2>1. reported[u] \in NodeType
    BY <1>4
  <2>2. CASE st \in Done /\ u \in Dependents(t)
    <3>1. released[u] = CountDown(reported[u])
      BY <2>2 DEF Released
    <3> HIDE DEF released
    <3>2. QED
      BY <2>1, <2>2, <3>1, NodeUpdates DEF CountDown, NodeType
  <2>3. CASE ~(st \in Done /\ u \in Dependents(t))
    <3>1. released[u] = reported[u]
      BY <2>3 DEF Released
    <3> HIDE DEF released
    <3>2. QED
      BY <2>1, <2>3, <3>1
  <2>4. QED
    BY <2>2, <2>3
<1>7. /\ ready \in SUBSET Dependents(t) /\ ready \subseteq Task /\ t \notin ready
      /\ \A u \in ready : /\ st \in Done /\ released[u].status = "queued"
                          /\ ~released[u].enqueued /\ released[u].pending = 0
      /\ \A u \in Dependents(t) \ ready : st \in Done /\ released[u].status = "queued"
                                            /\ ~released[u].enqueued => released[u].pending # 0
  BY <1>3 DEF AutoDispatchable, Dependents
<1> HIDE DEF released, ready
<1>8. ASSUME NEW u \in Task
      PROVE  /\ node'[u].status = released[u].status /\ node'[u].pending = released[u].pending
             /\ node'[u].enqueued = (u \in ready \/ released[u].enqueued)
             /\ u \notin ready => node'[u] = released[u]
             /\ node'[u].did = released[u].did /\ node'[u].pendingAck = released[u].pendingAck
  BY <1>1, <1>6 DEF Enqueued, NodeType
<1>9. node'[t].status = st /\ node'[t].enqueued = FALSE
  BY <1>5, <1>6, <1>7, <1>8
<1>10. /\ \A u \in Task : u # t => node'[u].status = node[u].status
       /\ \A u \in Task : u # t => node'[u].enqueued = (u \in ready \/ node[u].enqueued)
  BY <1>5, <1>6, <1>8
<1>11. \A u \in ready : /\ st \in Done /\ node[u].status = "queued" /\ ~node[u].enqueued
                        /\ node'[u].pending = 0
  BY <1>5, <1>6, <1>7, <1>8
<1>12. \A u \in Task : node'[u].pending = IF st \in Done /\ t \in Deps[u]
                                             /\ node[u].status = "queued" /\ node[u].pending > 0
                                          THEN node[u].pending - 1 ELSE node[u].pending
  BY <1>3, <1>5, <1>6, <1>8
<1>13. \A u \in Task : u \notin Dependents(t) \cup {t} => node'[u] = node[u]
  BY <1>5, <1>6, <1>7, <1>8
<1>14. \A u \in Task : u # t => node'[u].did = node[u].did /\ node'[u].pendingAck = node[u].pendingAck
  BY <1>5, <1>6, <1>8
<1>15. \A u \in Dependents(t) \ ready :
         st \in Done /\ node[u].status = "queued" /\ ~node[u].enqueued => node'[u].pending # 0
  <2>1. \A u \in Dependents(t) \ ready : u \in Task /\ u # t
    BY <1>3 DEF Dependents
  <2>2. QED
    BY <1>5, <1>6, <1>7, <1>8, <2>1
<1>16. QED
  BY <1>1, <1>7, <1>9, <1>10, <1>11, <1>12, <1>13, <1>14, <1>15 DEF Frees

\* A reply counts only once the ack before it did, and its task is still claimed.
LEMMA AnsweredClaim ==
  ASSUME OnceInv, NEW m \in replies
  PROVE  /\ dispatches[m.did].rid \in Active /\ m.did \in 1..Len(dispatches)
         /\ TaskOfRequest(dispatches[m.did].rid) = TaskOfDispatch(m.did)
         /\ RunOfRequest(dispatches[m.did].rid) = RunOf[TaskOfDispatch(m.did)]
         /\ TaskOfDispatch(m.did) \in Task /\ RunOf[TaskOfDispatch(m.did)] \in Run
         /\ Live(RunOf[TaskOfDispatch(m.did)]) => InMotion(node[TaskOfDispatch(m.did)])
<1> DEFINE q == dispatches[m.did].rid
<1>1. TypeOK
  BY DEF OnceInv, IndInv
<1>2. m.did \in 1..Len(dispatches)
  BY <1>1, ClaimTypes
<1>3. m.did \in UnderWay
  BY DEF UnderWay, AnsweredIds
<1>4. q \in Active
  BY <1>3 DEF Active, DispatchRids
<1>5. TaskOfRequest(q) = TaskOfDispatch(m.did) /\ RunOfRequest(q) = RunOf[TaskOfDispatch(m.did)]
  BY DEF TaskOfRequest, TaskOfDispatch, RunOfRequest
<1>6. TaskOfDispatch(m.did) \in Task /\ RunOf[TaskOfDispatch(m.did)] \in Run
  BY <1>1, <1>2, RunsExist
<1> HIDE DEF q
<1>7. Live(RunOfRequest(q)) => InMotion(node[TaskOfRequest(q)])
  BY <1>4 DEF OnceInv, ClaimedInMotion
<1>8. QED
  BY <1>2, <1>4, <1>5, <1>6, <1>7 DEF q

\* record_result: the task's claim ends, its dependents count down, and the
\* ones that are free get theirs.
LEMMA OnceReported ==
  ASSUME OnceInv, Next, NEW m \in replies, HandleResult(m), Live(RunOf[TaskOfDispatch(m.did)])
  PROVE  ClaimsInv'
<1> DEFINE t == TaskOfDispatch(m.did)
           q == dispatches[m.did].rid
           st == m.status
<1>0. TypeOK /\ OnePlace /\ OneStage /\ node \in [Task -> NodeType] /\ runStatus \in [Run -> RunStatus]
  BY DEF OnceInv, IndInv, TypeOK, RecordTypes
<1>1. /\ q \in Active /\ TaskOfRequest(q) = t /\ t \in Task /\ RunOf[t] \in Run
      /\ InMotion(node[t]) /\ Live(RunOf[t])
  BY AnsweredClaim
<1>2. /\ m.did \notin acks /\ replies' = replies \ {m} /\ st \in Final /\ ApplyResult(t, st)
      /\ UNCHANGED <<queue, runner, retrying, dispatches, frames, executing, pendingAcks>>
  BY <1>0 DEF HandleResult, Deliver, ackVars, TypeOK, WireTypes, ReplyType
<1>3. \A d \in UnderWay : d = m.did => q = dispatches[d].rid
  OBVIOUS
<1> HIDE DEF t, q, st
<1>4. PICK ready \in SUBSET Dependents(t) :
           /\ \E s \in Orderings(ready) :
                /\ requests' = requests \o NewRequests(s)
                /\ handoff' = IF ready = {} THEN handoff ELSE handoff \cup {NewRids(s)}
           /\ runStatus' = [runStatus EXCEPT ![RunOf[t]] = Rollup(node', RunOf[t])]
           /\ node'[t].status = st /\ node'[t].enqueued = FALSE
           /\ \A u \in Task : u # t => node'[u].status = node[u].status
           /\ \A u \in Task : u # t => node'[u].enqueued = (u \in ready \/ node[u].enqueued)
           /\ \A u \in ready : /\ st \in Done /\ node[u].status = "queued" /\ ~node[u].enqueued
                               /\ node'[u].pending = 0
           /\ \A u \in Task : node'[u].pending = IF st \in Done /\ t \in Deps[u]
                                                   /\ node[u].status = "queued" /\ node[u].pending > 0
                                                 THEN node[u].pending - 1 ELSE node[u].pending
           /\ \A u \in Task : u \notin Dependents(t) \cup {t} => node'[u] = node[u]
  BY <1>0, <1>1, <1>2, ResultNodes DEF Frees
<1>5. /\ ready \subseteq Task /\ t \notin ready
      /\ \A u \in Dependents(t) : u \in Task /\ t \in Deps[u] /\ RunOf[u] = RunOf[t] /\ u # t
  BY <1>1, ConstantsAssumption DEF ConstantsAssumption, Dependents
<1>6. ClaimsJoin(ready) /\ q \notin Active'
  BY <1>0, <1>2, <1>4, <1>5, PlacesReported DEF q
<1>7. \A p \in Active : TaskOfRequest(p) \in Task /\ RunOfRequest(p) = RunOf[TaskOfRequest(p)]
  BY <1>0, ClaimTypes, RunsExist DEF RunOfRequest
<1>8. \A r \in Run : runStatus'[r] \notin Final => Live(r)
  BY LiveRuns
<1>9. \A u \in Task : Deps[u] \subseteq Task /\ RunOf[u] \in Run /\ (u \in Dependents(t) <=> t \in Deps[u])
  BY ConstantsAssumption DEF ConstantsAssumption, Dependents
<1>10. node[t].status \notin Done /\ \A d \in Deps[t] : node[d].status \in Done
  BY <1>1 DEF OnceInv, JoinWaitsForAll, InMotion, Done
\* The claims.
<1>11. \A p \in Active \cap Active' : TaskOfRequest(p) # t
  BY <1>1, <1>6 DEF OnceInv, OneRequest
<1>12. \A u \in Task \ {t} : InMotion(node[u]) => InMotion(node'[u])
  BY <1>4, <1>5 DEF InMotion
<1>13. \A u \in ready : Live(RunOf[u]) /\ ~InMotion(node[u]) /\ InMotion(node'[u])
  BY <1>1, <1>4, <1>5 DEF InMotion
<1>14. OneRequest' /\ ClaimedInMotion'
  <2>1. \A p \in Active \cap Active' : runStatus'[RunOfRequest(p)] \notin Final =>
            /\ Live(RunOfRequest(p))
            /\ InMotion(node[TaskOfRequest(p)]) => InMotion(node'[TaskOfRequest(p)])
    BY <1>7, <1>8, <1>9, <1>11, <1>12
  <2>2. QED
    BY <1>0, <1>5, <1>6, <1>13, <2>1, ClaimsGo DEF OnceInv
\* The counts.
<1>15. CASE st = "failed"
  <2>1. runStatus'[RunOf[t]] \in Final
    <3>1. Rollup(node', RunOf[t]) = "failed"
      BY <1>1, <1>4, <1>15, FailedNodeEndsRun
    <3>2. QED
      BY <1>0, <1>1, <1>4, <3>1 DEF Final
  <2>2. \A u \in Task : runStatus'[RunOf[u]] \notin Final => Live(RunOf[u]) /\ SameWork(node[u], node'[u])
    BY <1>4, <1>5, <1>8, <1>9, <2>1 DEF SameWork
  <2>3. PendingCounts' /\ JoinWaitsForAll'
    BY <1>0, <2>2, RecordKept DEF OnceInv
  <2>4. QED
    BY <1>6, <1>14, <2>3 DEF ClaimsInv, ClaimsJoin
<1>16. CASE st # "failed"
  <2>1. ASSUME NEW u \in Task, runStatus'[RunOf[u]] \notin Final, node'[u].status = "queued"
        PROVE  Cardinality(Undone(u)') <= node'[u].pending
    <3>1. u # t /\ node[u].status = "queued" /\ Live(RunOf[u])
      BY <1>2, <1>4, <1>8, <1>9, <2>1 DEF Final
    <3>2. Cardinality(Undone(u)) <= node[u].pending /\ node[u].pending \in Nat
          /\ Cardinality(Undone(u)) \in Nat
      BY <1>0, <3>1, UndoneType DEF OnceInv, PendingCounts, NodeType
    <3>3. CASE st \in Done /\ t \in Deps[u]
      <4>1. /\ Cardinality(Undone(u)') = Cardinality(Undone(u)) - 1
            /\ Cardinality(Undone(u)) > 0
        BY <1>4, <1>9, <1>10, <3>3, OneUndoneLess
      <4>2. node'[u].pending = node[u].pending - 1
        BY <1>4, <3>1, <3>2, <3>3, <4>1
      <4>3. QED
        BY <3>2, <4>1, <4>2
    <3>4. CASE ~(st \in Done /\ t \in Deps[u])
      <4>1. \A d \in Deps[u] : node[d].status \in Done => node'[d].status \in Done
        BY <1>4, <1>9, <1>10
      <4>2. Cardinality(Undone(u)') \in Nat /\ Cardinality(Undone(u)') <= Cardinality(Undone(u))
        BY <4>1, UndoneShrinks
      <4>3. node'[u].pending = node[u].pending
        BY <1>4, <3>4
      <4>4. QED
        BY <3>2, <4>2, <4>3
    <3>5. QED
      BY <3>3, <3>4
  <2>2. PendingCounts'
    BY <2>1 DEF PendingCounts, Live
  <2>3. ASSUME NEW u \in Task, runStatus'[RunOf[u]] \notin Final,
               node'[u].enqueued \/ node'[u].status \in {"running"} \cup Done
        PROVE  \A d \in Deps[u] : node'[d].status \in Done
    <3>1. \A d \in Deps[u] : node[d].status \in Done => node'[d].status \in Done
      BY <1>4, <1>9, <1>10
    <3>2. Live(RunOf[u])
      BY <1>8, <1>9, <2>3
    <3>3. CASE u = t
      BY <1>10, <3>1, <3>3
    <3>4. CASE u \in ready
      <4>1. u # t /\ node'[u].status = "queued" /\ node'[u].pending = 0
        BY <1>4, <1>5, <3>4
      <4>2. Cardinality(Undone(u)') <= 0
        BY <2>1, <2>3, <4>1
      <4>3. Undone(u)' = {d \in Deps[u] : node'[d].status \notin Done}
        BY DEF Undone
      <4>4. QED
        BY <4>2, <4>3, NothingUndone
    <3>5. CASE u # t /\ u \notin ready
      <4>1. \A d \in Deps[u] : node[d].status \in Done
        BY <1>4, <2>3, <3>2, <3>5 DEF OnceInv, JoinWaitsForAll
      <4>2. QED
        BY <3>1, <4>1
    <3>6. QED
      BY <3>3, <3>4, <3>5
  <2>4. JoinWaitsForAll'
    BY <2>3 DEF JoinWaitsForAll, Live
  <2>5. QED
    BY <1>6, <1>14, <2>2, <2>4 DEF ClaimsInv, ClaimsJoin
<1>17. QED
  BY <1>15, <1>16

\* Results, cancelled executions and errors, and the ready lists they make.
LEMMA OnceResults ==
  ASSUME OnceInv, OnceOnlyFaults, Next, ResultHandling
  PROVE  ClaimsInv'
<1> USE DEF stateVars, ackVars, readyVars, wireVars
<1>0. TypeOK /\ OnePlace /\ OneStage /\ node \in [Task -> NodeType]
  BY DEF OnceInv, IndInv, TypeOK, RecordTypes
<1>1. ASSUME NEW s \in handoff, EnqueueReady(s)
      PROVE  ClaimsInv'
  <2>1. OnePlace' /\ Active' \subseteq Active
    BY <1>0, <1>1, PlacesHanded
  <2>2. UNCHANGED requests /\ \A t \in Task : SameWork(node[t], node'[t])
    BY <1>1 DEF EnqueueReady, SameWork
  <2>3. QED
    BY <1>0, <2>1, <2>2, RequestsKept, NothingMoves DEF ClaimsMove
\* A reply that adds no claim.
<1>2. ASSUME NEW m \in replies, HandleResult(m) \/ HandleCancelled(m) \/ HandleError(m),
             UNCHANGED <<requests, handoff>>
      PROVE  ClaimsMove /\ dispatches[m.did].rid \notin Active'
  <2>1. /\ m.did \notin acks /\ replies' = replies \ {m}
        /\ UNCHANGED <<queue, handoff, runner, retrying, dispatches, frames, executing, pendingAcks>>
    BY <1>2 DEF HandleResult, HandleCancelled, HandleError, Deliver
  <2>2. QED
    BY <1>0, <1>2, <2>1, PlacesAnswered, RequestsKept DEF ClaimsMove
<1>3. ASSUME NEW m \in replies, HandleResult(m)
      PROVE  ClaimsInv'
  <2>1. CASE Live(RunOf[TaskOfDispatch(m.did)])
    BY <1>3, <2>1, OnceReported
  <2>2. CASE ~Live(RunOf[TaskOfDispatch(m.did)])
    <3>1. UNCHANGED <<requests, handoff>> /\ \A t \in Task : SameWork(node[t], node'[t])
      BY <1>3, <2>2 DEF HandleResult, SameWork
    <3>2. QED
      BY <1>2, <1>3, <3>1, NothingMoves
  <2>3. QED
    BY <2>1, <2>2
<1>4. ASSUME NEW m \in replies, HandleCancelled(m)
      PROVE  ClaimsInv'
  <2> DEFINE q == dispatches[m.did].rid
             n == WorkerCancelled(node[TaskOfRequest(q)])
  <2>1. UNCHANGED <<requests, handoff>>
    BY <1>4 DEF HandleCancelled
  <2>2. ClaimsMove /\ q \notin Active'
    BY <1>2, <1>4, <2>1
  <2>3. /\ q \in Active /\ TaskOfRequest(q) = TaskOfDispatch(m.did) /\ TaskOfRequest(q) \in Task
        /\ RunOfRequest(q) = RunOf[TaskOfDispatch(m.did)]
    BY AnsweredClaim
  <2>4. CASE ~Live(RunOf[TaskOfDispatch(m.did)])
    <3>1. \A t \in Task : SameWork(node[t], node'[t])
      BY <1>4, <2>4 DEF HandleCancelled, SameWork
    <3>2. QED
      BY <2>2, <3>1, NothingMoves
  <2>5. CASE Live(RunOf[TaskOfDispatch(m.did)])
    <3>1. node' = [node EXCEPT ![TaskOfRequest(q)] = n]
      BY <1>4, <2>3, <2>5 DEF HandleCancelled, Refresh
    <3>2. node[TaskOfRequest(q)] \in NodeType
      BY <1>0, <2>3
    <3>3. n \in NodeType /\ n.status = "queued"
      BY <3>2, NodeUpdates DEF WorkerCancelled, NodeType
    <3> HIDE DEF q, n
    <3>4. QED
      BY <2>2, <2>3, <2>5, <3>1, <3>3, ClaimedTaskMoves
  <2>6. QED
    BY <2>4, <2>5
<1>5. ASSUME NEW m \in replies, HandleError(m)
      PROVE  ClaimsInv'
  <2> DEFINE r == RunOf[TaskOfDispatch(m.did)]
             x == ErrorTarget(m)
  <2>1. r \in Run
    BY AnsweredClaim
  <2>2. x \in Task \cup {None} /\ (x # None => RunOf[x] = r)
    BY <1>0, <2>1 DEF ErrorTarget, OnceInv, IndInv, LastNodeInRun, TypeOK, RecordTypes
  <2>3. CommandError(r, x) /\ UNCHANGED <<requests, handoff>>
    BY <1>5 DEF HandleError
  <2> HIDE DEF r, x
  <2>4. \A u \in Task : runStatus'[RunOf[u]] \notin Final => SameWork(node[u], node'[u])
    BY <2>1, <2>2, <2>3, ErrorKeeps
  <2>5. QED
    BY <1>2, <1>5, <2>3, <2>4, NothingMoves
<1>6. QED
  BY <1>1, <1>3, <1>4, <1>5, OnceCollect DEF ResultHandling

---------------------------------------------------------------------------
(* The invariant of claims and its theorems.                               *)

\* No claims yet, and every task waits for as many as it depends on.
LEMMA OnceInvInit == Init => OnceInv
<1> SUFFICES ASSUME Init PROVE OnceInv
  OBVIOUS
<1>1. IndInv
  BY IndInvInit
<1>2. /\ queue = <<>> /\ handoff = {} /\ retrying = {} /\ runner = Idle
      /\ frames = {} /\ executing = {} /\ replies = {} /\ pendingAcks = {}
  BY DEF Init
<1>3. SendingIds = {} /\ AnsweredIds = {} /\ BackoffRids = {}
  BY <1>2 DEF SendingIds, AnsweredIds, BackoffRids, Idle
<1>4. UnderWay = {}
  BY <1>2, <1>3 DEF UnderWay
<1>5. QueueRids = {} /\ HandoffRids = {} /\ RetryRids = {} /\ DispatchRids = {}
  BY <1>2, <1>4 DEF QueueRids, HandoffRids, RetryRids, DispatchRids
<1>6. Active = {}
  BY <1>3, <1>5 DEF Active
<1>7. OnePlace
  BY <1>2, <1>3, <1>4, <1>5 DEF OnePlace
<1>8. OneRequest /\ ClaimedInMotion
  BY <1>6 DEF OneRequest, ClaimedInMotion
<1>9. OneStage
  BY <1>2, <1>3 DEF OneStage, Idle
<1>10. \A t \in Task : node[t].status = "queued" /\ node[t].enqueued = FALSE
                       /\ node[t].pending = Cardinality(Deps[t])
  BY DEF Init, NewNode
<1>11. \A t \in Task : IsFiniteSet(Deps[t]) /\ Undone(t) \in SUBSET Deps[t]
  BY ReadyIsFinite, ConstantsAssumption DEF ConstantsAssumption, Undone
<1>12. PendingCounts
  BY <1>10, <1>11, FS_Subset DEF PendingCounts
<1>13. JoinWaitsForAll
  BY <1>10 DEF JoinWaitsForAll, Done
<1>14. QED
  BY <1>1, <1>7, <1>8, <1>9, <1>12, <1>13 DEF OnceInv

LEMMA OnceInvStep == OnceOnlyFaults /\ OnceInv /\ [Next]_vars => OnceInv'
<1> SUFFICES ASSUME OnceOnlyFaults, OnceInv, [Next]_vars PROVE OnceInv'
  OBVIOUS
<1>1. IndInv'
  BY IndInvStep DEF OnceInv
<1>2. CASE Next
  <2>1. ClaimsInv'
    BY <1>2, OnceDispatcher, OnceAcks, OnceResults, OnceCancellation, OnceWorkers DEF Next
  <2>2. OneStage'
    BY <1>2, StageStep DEF OnceInv, IndInv
  <2>3. QED
    BY <1>1, <2>1, <2>2 DEF OnceInv, ClaimsInv
<1>3. CASE UNCHANGED vars
  <2> USE <1>3 DEF vars, stateVars, ackVars, readyVars, wireVars
  <2>1. /\ SendingIds' = SendingIds /\ AnsweredIds' = AnsweredIds /\ BackoffRids' = BackoffRids
        /\ QueueRids' = QueueRids /\ HandoffRids' = HandoffRids /\ RetryRids' = RetryRids
    BY DEF SendingIds, AnsweredIds, BackoffRids, QueueRids, HandoffRids, RetryRids
  <2>2. UnderWay' = UnderWay
    BY <2>1 DEF UnderWay
  <2>3. DispatchRids' = DispatchRids
    BY <2>2 DEF DispatchRids
  <2>4. Active' = Active
    BY <2>1, <2>3 DEF Active
  <2>5. OneRequest' /\ ClaimedInMotion'
    BY <2>4 DEF OnceInv, OneRequest, ClaimedInMotion, TaskOfRequest, RunOfRequest, Live, InMotion
  <2>6. OneStage'
    BY <2>1 DEF OnceInv, OneStage
  <2>7. OnePlace'
    BY <2>1, <2>2, <2>3 DEF OnceInv, OnePlace
  <2>8. PendingCounts' /\ JoinWaitsForAll'
    BY DEF OnceInv, PendingCounts, JoinWaitsForAll, Undone, Live
  <2>9. QED
    BY <1>1, <2>5, <2>6, <2>7, <2>8 DEF OnceInv
<1>4. QED
  BY <1>2, <1>3

\* As long as nothing delivered is sent again and no result counts twice, every
\* task has one claim at most: one request, in one place.
THEOREM OneClaimPerTask ==
  ASSUME OnceOnlyFaults
  PROVE  Spec => []OnceInv
<1>1. OnceOnlyFaults
  OBVIOUS
<1>2. OnceInv /\ [Next]_vars => OnceInv'
  BY <1>1, OnceInvStep
<1>3. QED
  BY <1>2, OnceInvInit, PTL DEF Spec

\* ... so that no two executions are of the same task.
LEMMA OneExecution ==
  ASSUME OnceInv
  PROVE  SingleExecution
<1>1. SUFFICES ASSUME NEW d \in executing, NEW e \in executing, TaskOfDispatch(d) = TaskOfDispatch(e)
               PROVE  d = e
  BY DEF SingleExecution
<1>2. d \in UnderWay /\ e \in UnderWay
  BY DEF UnderWay
<1>3. dispatches[d].rid \in Active /\ dispatches[e].rid \in Active
  BY <1>2 DEF Active, DispatchRids
<1>4. dispatches[d].rid = dispatches[e].rid
  BY <1>1, <1>3 DEF OnceInv, OneRequest, TaskOfRequest, TaskOfDispatch
<1>5. QED
  BY <1>2, <1>4 DEF OnceInv, OnePlace

\* A task starts only when all it depends on ended well, and runs on one worker
\* at a time, through no_worker and send failures, lost frames, cancelled and
\* crashed executions, worker errors, early reports and cancelled runs.
THEOREM JoinsWait ==
  ASSUME OnceOnlyFaults
  PROVE  Spec => []JoinsWaitAndRunOnce
<1>1. OnceInv => JoinsWaitAndRunOnce
  BY OneExecution DEF OnceInv, JoinsWaitAndRunOnce
<1>2. Spec => []OnceInv
  BY OneClaimPerTask
<1>3. QED
  BY <1>1, <1>2, PTL

---------------------------------------------------------------------------
(* A task that ended well is let alone.                                    *)

\* A task somebody still has a request for has not ended.
LEMMA ClaimedNotDone ==
  ASSUME OnceInv, NEW q \in Active, Live(RunOfRequest(q))
  PROVE  node[TaskOfRequest(q)].status \notin Done /\ TaskOfRequest(q) \in Task
<1>1. InMotion(node[TaskOfRequest(q)])
  BY DEF OnceInv, ClaimedInMotion
<1>2. TypeOK
  BY DEF OnceInv, IndInv
<1>3. QED
  BY <1>1, <1>2, ClaimTypes, RunsExist DEF InMotion, Done

\* No worker reports an error.
NoErrors == \A m \in replies : m.kind # "error"

\* ... because none fails to execute one.
LEMMA NoErrorsStep ==
  ASSUME "worker_error" \notin Faults, NoErrors, [Next]_vars
  PROVE  NoErrors'
<1> USE DEF NoErrors
<1>1. ASSUME replies' \subseteq replies
      PROVE  NoErrors'
  BY <1>1
<1>2. CASE Dispatcher \/ AckHandling \/ Cancellation
  <2>1. UNCHANGED replies
    BY <1>2 DEF Dispatcher, SkipFinal, NoWorker, InvalidPayload, StartSend, TakeRequest, Transmit,
       SendFails, BackoffOver, MarkDispatched, RegisterWaiter, AckHandling, HandleAck, MarkAcknowledged,
       AckTimeout, RetryAfterTimeout, RequeueAfterTimeout, Cancellation, CancelRun, FlushCancelled,
       CancelFinalRun, wireVars
  <2>2. QED
    BY <1>1, <2>1
<1>3. CASE ResultHandling
  <2>1. replies' \subseteq replies
    BY <1>3 DEF ResultHandling, CollectReady, EnqueueReady, HandleResult, HandleCancelled, HandleError,
       wireVars
  <2>2. QED
    BY <1>1, <2>1
<1>4. CASE Workers
  <2>1. ASSUME NEW d \in Did, NEW kind \in {"result", "cancelled"}, NEW st, WorkerReports(d, kind, st)
        PROVE  NoErrors'
    BY <2>1 DEF WorkerReports
  <2>2. ASSUME NEW m \in replies, WorkerRepeats(m)
        PROVE  NoErrors'
    <3> DEFINE n == [m EXCEPT !.again = TRUE]
    <3>1. replies' = replies \cup {n} /\ m.kind = "result"
      BY <2>2 DEF WorkerRepeats
    <3>2. n.kind = m.kind
      OBVIOUS
    <3> HIDE DEF n
    <3>3. QED
      BY <3>1, <3>2
  <2>3. ASSUME \/ \E d \in Did : WorkerReceive(d) \/ LoseFrame(d) \/ LoseAck(d)
               \/ \E w \in Worker : WorkerCrashes(w)
        PROVE  NoErrors'
    BY <1>1, <2>3 DEF WorkerReceive, LoseFrame, LoseAck, WorkerCrashes
  <2>4. \A d \in Did : ~WorkerFails(d)
    BY DEF WorkerFails, Fault
  <2>5. QED
    BY <1>4, <2>1, <2>2, <2>3, <2>4 DEF Workers, WorkerFinishes, WorkerInterrupted
<1>5. CASE UNCHANGED vars
  BY <1>1, <1>5 DEF vars, wireVars
<1>6. QED
  BY <1>2, <1>3, <1>4, <1>5 DEF Next

\* What ended well stays.
Kept == \A t \in Task : node[t].status \in Done => node'[t].status \in Done

\* A step on one task that had not ended well.
LEMMA OthersKept ==
  ASSUME TypeOK, NEW t \in Task, NEW n, node[t].status \notin Done, node' = [node EXCEPT ![t] = n]
  PROVE  Kept
BY DEF Kept, TypeOK, RecordTypes

\* Giving up on a task fails one that had not ended well.
LEMMA GivenUpKept ==
  ASSUME OnceInv, NEW q \in Active, CommandError(RunOfRequest(q), TaskOfRequest(q))
  PROVE  Kept
<1> DEFINE n == CommandFailed(node[TaskOfRequest(q)])
<1>1. TypeOK
  BY DEF OnceInv, IndInv
<1>2. CASE node' = node
  BY <1>2 DEF Kept
<1>3. CASE Live(RunOfRequest(q)) /\ node' = [node EXCEPT ![TaskOfRequest(q)] = n]
  <2> HIDE DEF n
  <2>1. QED
    BY <1>1, <1>3, ClaimedNotDone, OthersKept
<1>4. QED
  BY <1>2, <1>3 DEF CommandError, Refresh

\* No step takes back a good end.
LEMMA DoneKept ==
  ASSUME OnceInv, NoErrors, Next
  PROVE  Kept
<1> USE DEF stateVars, ackVars, readyVars, wireVars
<1>0. TypeOK /\ OneStage /\ node \in [Task -> NodeType]
  BY DEF OnceInv, IndInv, TypeOK, RecordTypes
<1>1. ASSUME UNCHANGED node
      PROVE  Kept
  BY <1>1 DEF Kept
<1>2. ASSUME NEW q \in Active, HandleRetry(q)
      PROVE  Kept
  BY <1>1, <1>2, GivenUpKept DEF HandleRetry
<1>3. ASSUME NEW q, TakeRequest(q)
      PROVE  q \in Active
  <2>1. queue \in Seq(1..Len(requests)) /\ queue # <<>> /\ q = Head(queue)
    BY <1>0, <1>3 DEF TakeRequest, TypeOK, DispatcherTypes
  <2>2. 1 \in DOMAIN queue /\ q = queue[1]
    BY <2>1
  <2>3. QED
    BY <2>2 DEF Active, QueueRids
<1>4. ASSUME runner.pc \in {"sending", "sent", "marked"}
      PROVE  runner.rid \in Active
  <2>1. runner.did \in UnderWay /\ dispatches[runner.did].rid = runner.rid
    BY <1>0, <1>4 DEF OneStage, SendingIds, UnderWay
  <2>2. QED
    BY <2>1 DEF Active, DispatchRids
<1>5. CASE Dispatcher
  <2>1. ASSUME NEW q \in Rid, NoWorker(q) \/ InvalidPayload(q)
        PROVE  Kept
    BY <1>2, <1>3, <2>1, GivenUpKept DEF NoWorker, InvalidPayload
  <2>2. ASSUME SendFails
        PROVE  Kept
    BY <1>2, <1>4, <2>2 DEF SendFails
  <2>3. ASSUME MarkDispatched
        PROVE  Kept
    <3> DEFINE q == runner.rid
               n == Dispatched(node[TaskOfRequest(q)], runner.did)
    <3>1. q \in Active
      BY <1>4, <2>3 DEF MarkDispatched
    <3>2. UNCHANGED node \/ (Live(RunOfRequest(q)) /\ node' = [node EXCEPT ![TaskOfRequest(q)] = n])
      BY <2>3 DEF MarkDispatched, Refresh, RunOfRequest
    <3> HIDE DEF q, n
    <3>3. QED
      BY <1>0, <1>1, <3>1, <3>2, ClaimedNotDone, OthersKept
  <2>4. ASSUME \/ SkipFinal \/ \E q \in Rid, w \in Worker : StartSend(q, w)
               \/ Transmit \/ BackoffOver \/ RegisterWaiter
        PROVE  UNCHANGED node
    BY <2>4 DEF SkipFinal, StartSend, Transmit, BackoffOver, RegisterWaiter
  <2>5. QED
    BY <1>1, <1>5, <2>1, <2>2, <2>3, <2>4 DEF Dispatcher
<1>6. CASE AckHandling
  <2>1. ASSUME NEW d \in Did, MarkAcknowledged(d)
        PROVE  Kept
    <3>1. node' = node \/ node' = [node EXCEPT ![TaskOfDispatch(d)].pendingAck = FALSE]
      BY <2>1 DEF MarkAcknowledged, Refresh
    <3>2. \A t \in Task : node'[t].status = node[t].status
      BY <1>0, <3>1 DEF NodeType
    <3>3. QED
      BY <3>2 DEF Kept
  <2>2. ASSUME NEW d \in Did, AckTimeout(d)
        PROVE  Kept
    <3> DEFINE q == dispatches[d].rid
               n == AckTimedOut(node[TaskOfRequest(q)])
    <3>1. q \in Active
      BY <2>2 DEF AckTimeout, Active, DispatchRids, UnderWay
    <3>2. UNCHANGED node \/ (Live(RunOfRequest(q)) /\ node' = [node EXCEPT ![TaskOfRequest(q)] = n])
      BY <2>2 DEF AckTimeout, Refresh, RunOfRequest, TaskOfRequest, TaskOfDispatch
    <3> HIDE DEF q, n
    <3>3. QED
      BY <1>0, <1>1, <3>1, <3>2, ClaimedNotDone, OthersKept
  <2>3. ASSUME NEW w \in retrying, RetryAfterTimeout(w)
        PROVE  Kept
    <3>1. dispatches[w.did].rid \in Active /\ HandleRetry(dispatches[w.did].rid)
      BY <2>3 DEF RetryAfterTimeout, Active, RetryRids
    <3>2. QED
      BY <1>2, <3>1
  <2>4. ASSUME \/ \E d \in Did : HandleAck(d)
               \/ \E w \in retrying : RequeueAfterTimeout(w)
        PROVE  UNCHANGED node
    BY <2>4 DEF HandleAck, RequeueAfterTimeout
  <2>5. QED
    BY <1>1, <1>6, <2>1, <2>2, <2>3, <2>4 DEF AckHandling
<1>7. CASE ResultHandling
  <2>1. ASSUME NEW r \in Run, CollectReady(r)
        PROVE  Kept
    <3>1. PICK ready : node' = Enqueued(node, ready)
      BY <2>1 DEF CollectReady
    <3>2. \A t \in Task : node'[t].status = node[t].status
      BY <1>0, <3>1 DEF Enqueued, NodeType
    <3>3. QED
      BY <3>2 DEF Kept
  <2>2. ASSUME NEW m \in replies, HandleResult(m)
        PROVE  Kept
    <3> DEFINE t == TaskOfDispatch(m.did)
    <3>1. CASE Live(RunOf[t])
      <4>1. t \in Task /\ InMotion(node[t])
        BY <3>1, AnsweredClaim
      <4>2. ApplyResult(t, m.status) /\ m.status \in Final
        BY <1>0, <2>2, <3>1 DEF HandleResult, Deliver, TypeOK, WireTypes, ReplyType
      <4> HIDE DEF t
      <4>3. \A u \in Task : u # t => node'[u].status = node[u].status
        BY <1>0, <4>1, <4>2, ResultNodes DEF Frees
      <4>4. QED
        BY <4>1, <4>3 DEF Kept, InMotion, Done
    <3>2. CASE ~Live(RunOf[t])
      BY <1>1, <2>2, <3>2 DEF HandleResult
    <3>3. QED
      BY <3>1, <3>2
  <2>3. ASSUME NEW m \in replies, HandleCancelled(m)
        PROVE  Kept
    <3> DEFINE q == dispatches[m.did].rid
               n == WorkerCancelled(node[TaskOfRequest(q)])
    <3>1. /\ q \in Active /\ TaskOfRequest(q) = TaskOfDispatch(m.did)
          /\ RunOfRequest(q) = RunOf[TaskOfDispatch(m.did)]
      BY AnsweredClaim
    <3>2. UNCHANGED node \/ (Live(RunOfRequest(q)) /\ node' = [node EXCEPT ![TaskOfRequest(q)] = n])
      BY <2>3, <3>1 DEF HandleCancelled, Refresh
    <3> HIDE DEF q, n
    <3>3. QED
      BY <1>0, <1>1, <3>1, <3>2, ClaimedNotDone, OthersKept
  <2>4. \A m \in replies : ~HandleError(m)
    BY DEF NoErrors, HandleError, Deliver
  <2>5. ASSUME \E s \in handoff : EnqueueReady(s)
        PROVE  UNCHANGED node
    BY <2>5 DEF EnqueueReady
  <2>6. QED
    BY <1>1, <1>7, <2>1, <2>2, <2>3, <2>4, <2>5 DEF ResultHandling
<1>8. CASE Cancellation
  <2>1. ASSUME NEW r \in Run, CancelRun(r)
        PROVE  Kept
    BY <2>1 DEF CancelRun, RunCancelled, Kept, Done, Final
  <2>2. ASSUME \E r \in Run : FlushCancelled(r) \/ CancelFinalRun(r)
        PROVE  UNCHANGED node
    BY <2>2 DEF FlushCancelled, CancelFinalRun
  <2>3. QED
    BY <1>1, <1>8, <2>1, <2>2 DEF Cancellation
<1>9. CASE Workers
  <2>1. UNCHANGED node
    BY <1>9 DEF Workers, WorkerReceive, WorkerInterrupted, WorkerFails, LoseFrame, LoseAck,
       WorkerFinishes, WorkerReports, WorkerRepeats, WorkerCrashes, schedulerVars
  <2>2. QED
    BY <1>1, <2>1
<1>10. QED
  BY <1>5, <1>6, <1>7, <1>8, <1>9 DEF Next

\* A node that ended well is never dispatched, queued or failed again, unless a
\* worker's error falls on it: errors name the dispatch, not the task.
THEOREM DoneForGood ==
  ASSUME OnceOnlyFaults, "worker_error" \notin Faults
  PROVE  Spec => DoneStaysDone
<1>1. Init => NoErrors
  BY DEF Init, NoErrors
<1>2. NoErrors /\ [Next]_vars => NoErrors'
  BY NoErrorsStep
<1>3. Spec => []NoErrors
  BY <1>1, <1>2, PTL DEF Spec
<1>4. OnceInv /\ NoErrors /\ [Next]_vars =>
        [\A t \in Task : node[t].status \in Done => node'[t].status \in Done]_vars
  BY DoneKept DEF Kept
<1>5. Spec => []OnceInv
  BY OneClaimPerTask
<1>6. QED
  BY <1>3, <1>4, <1>5, PTL DEF Spec, DoneStaysDone

---------------------------------------------------------------------------
(* Nothing is forgotten.                                                   *)

\* Where a request is on its way to the dispatcher.
RunnerRids == IF runner.pc # "idle" THEN {runner.rid} ELSE {}
HeldRids   == QueueRids \cup HandoffRids \cup RunnerRids \cup RetryRids

\* Those places are what Holds asks for, before a step and after it.
LEMMA HeldMeans ==
  \A q : Holds(q) <=> q \in HeldRids
BY DEF Holds, HeldRids, QueueRids, HandoffRids, RunnerRids, RetryRids

LEMMA HeldMeansLater ==
  \A q : q \in HeldRids' => Holds(q)'
BY DEF Holds, HeldRids, QueueRids, HandoffRids, RunnerRids, RetryRids

\* Dispatch envelopes are only ever added.
DispatchesKept ==
  /\ Len(dispatches) <= Len(dispatches')
  /\ \A d \in 1..Len(dispatches) : dispatches'[d] = dispatches[d]

\* What is timed or owed is a dispatch, and its task one of the requests'.
LEMMA MemoryTypes ==
  ASSUME TypeOK
  PROVE  /\ TimedIds \cup OwedIds \subseteq 1..Len(dispatches)
         /\ TimedIds \subseteq SendingIds \cup pendingAcks
         /\ TimedIds \cup OwedIds \subseteq UnderWay
         /\ HeldRids \subseteq 1..Len(requests)
         /\ RunnerRids \subseteq 1..Len(requests)
<1>1. /\ UnderWay \subseteq 1..Len(dispatches) /\ Active \subseteq 1..Len(requests)
  BY ClaimTypes
<1>2. TimedIds \subseteq SendingIds \cup pendingAcks
  BY DEF TimedIds, SendingIds
<1>3. TimedIds \cup OwedIds \subseteq UnderWay
  BY <1>2 DEF OwedIds, UnderWay
<1>4. RunnerRids \subseteq 1..Len(requests)
  BY DEF RunnerRids, TypeOK, DispatcherTypes
<1>5. HeldRids \subseteq 1..Len(requests)
  BY <1>1, <1>4 DEF HeldRids, Active
<1>6. QED
  BY <1>1, <1>2, <1>3, <1>4, <1>5

\* Tasks of dispatches and requests that exist do not change.
LEMMA TasksStay ==
  ASSUME TypeOK, TasksKept, DispatchesKept, Len(requests') \in Nat
  PROVE  /\ \A q \in 1..Len(requests) : q \in 1..Len(requests') /\ TaskOfRequest(q)' = TaskOfRequest(q)
         /\ \A d \in 1..Len(dispatches) : TaskOfDispatch(d)' = TaskOfDispatch(d)
         /\ \A d \in 1..Len(dispatches) : TaskOfDispatch(d) \in Task
<1>1. Len(requests) \in Nat /\ \A d \in 1..Len(dispatches) : /\ dispatches[d].rid \in 1..Len(requests)
                                                           /\ TaskOfDispatch(d) \in Task
  BY RunsExist, ClaimTypes
<1>2. requests \in Seq(RequestType) /\ Len(requests) <= Len(requests')
  BY DEF TypeOK, DispatcherTypes, TasksKept
<1>3. \A q \in 1..Len(requests) : q \in 1..Len(requests') 
  BY <1>1, <1>2
<1>4. QED
  BY <1>1, <1>2, <1>3 DEF TasksKept, DispatchesKept, TaskOfRequest, TaskOfDispatch

\* A task nothing happens to: its work stays, its request stays on its way, its
\* dispatches stay timed or owed, and what it waits for stays done or undone.
Standing(t) ==
  /\ SameWork(node[t], node'[t])
  /\ \A u \in Deps[t] : node'[u].status \in Done <=> node[u].status \in Done
  /\ node[t].status = "queued" /\ ~node[t].enqueued /\ RunOf[t] \in collecting
        => RunOf[t] \in collecting' \/ Undone(t) # {}
  /\ \A q \in HeldRids : TaskOfRequest(q) = t /\ node[t].status = "queued" => q \in HeldRids'
  /\ \A d \in TimedIds' : TaskOfDispatch(d)' = t
        => d \in TimedIds /\ node'[t].did = node[t].did /\ node'[t].pendingAck = node[t].pendingAck
  /\ \A d \in TimedIds \cup OwedIds : TaskOfDispatch(d) = t => d \in TimedIds' \cup OwedIds'

\* The facts about requests and dispatches that every step keeps.
Grounds == TypeOK /\ TasksKept /\ DispatchesKept /\ Len(requests') \in Nat

\* Such a task is remembered as before.
LEMMA StandingRemembered ==
  ASSUME Grounds, NEW t \in Task, Remembered(t), Standing(t)
  PROVE  Remembered(t)'
<1>1. /\ \A q \in 1..Len(requests) : q \in 1..Len(requests') /\ TaskOfRequest(q)' = TaskOfRequest(q)
      /\ \A d \in 1..Len(dispatches) : TaskOfDispatch(d)' = TaskOfDispatch(d)
  BY TasksStay DEF Grounds
<1>2. TimedIds \cup OwedIds \subseteq 1..Len(dispatches) /\ HeldRids \subseteq 1..Len(requests)
  BY MemoryTypes DEF Grounds
<1>3. Undone(t)' = Undone(t)
  BY DEF Undone, Standing
<1>4. SameWork(node[t], node'[t])
  BY DEF Standing
<1>5. CountsExactly(t)'
  BY <1>3, <1>4 DEF CountsExactly, Remembered, SameWork
<1>6. QueuedKept(t)'
  <2>1. ASSUME node'[t].status = "queued", node'[t].enqueued
        PROVE  \E q \in 1..Len(requests') : TaskOfRequest(q)' = t /\ Holds(q)'
    <3>1. node[t].status = "queued" /\ node[t].enqueued
      BY <1>4, <2>1 DEF SameWork
    <3>2. PICK q \in 1..Len(requests) : TaskOfRequest(q) = t /\ Holds(q)
      BY <3>1 DEF Remembered, QueuedKept
    <3>3. q \in HeldRids
      BY <3>2, HeldMeans
    <3>4. q \in HeldRids'
      BY <3>1, <3>2, <3>3 DEF Standing
    <3>5. QED
      BY <1>1, <3>2, <3>4, HeldMeansLater
  <2>2. ASSUME node'[t].status = "queued", ~node'[t].enqueued
        PROVE  RunOf[t] \in collecting' \/ Undone(t)' # {}
    <3>1. node[t].status = "queued" /\ ~node[t].enqueued
      BY <1>4, <2>2 DEF SameWork
    <3>2. QED
      BY <1>3, <3>1 DEF Remembered, QueuedKept, Standing
  <2>3. QED
    BY <2>1, <2>2 DEF QueuedKept
<1>7. TimedRuns(t)'
  <2>1. ASSUME NEW d \in TimedIds', TaskOfDispatch(d)' = t
        PROVE  node'[t].status = "running" /\ node'[t].did = d /\ node'[t].pendingAck
    <3>1. d \in TimedIds /\ node'[t].did = node[t].did /\ node'[t].pendingAck = node[t].pendingAck
      BY <2>1 DEF Standing
    <3>2. TaskOfDispatch(d) = t
      BY <1>1, <1>2, <2>1, <3>1
    <3>3. QED
      BY <1>4, <3>1, <3>2 DEF Remembered, TimedRuns, SameWork
  <2>2. QED
    BY <2>1 DEF TimedRuns
<1>8. RunningOwed(t)'
  <2>1. SUFFICES ASSUME node'[t].status = "running"
                 PROVE  \E d \in TimedIds' \cup OwedIds' : TaskOfDispatch(d)' = t
    BY DEF RunningOwed
  <2>2. PICK d \in TimedIds \cup OwedIds : TaskOfDispatch(d) = t
    BY <1>4, <2>1 DEF Remembered, RunningOwed, SameWork
  <2>3. d \in TimedIds' \cup OwedIds' /\ TaskOfDispatch(d)' = t
    BY <1>1, <1>2, <2>2 DEF Standing
  <2>4. QED
    BY <2>3
<1>9. QED
  BY <1>5, <1>6, <1>7, <1>8 DEF Remembered

\* Tasks of the runs a step leaves alone.
StaysLive(t) == runStatus'[RunOf[t]] \notin Final

\* The steps that only move things on: no task of a run that stays live changes,
\* its request stays on its way and its dispatches stay timed or owed.
MovesOn ==
  /\ \A t \in Task : StaysLive(t) => node'[t] = node[t]
  /\ collecting \subseteq collecting'
  /\ \A q \in HeldRids : StaysLive(TaskOfRequest(q)) /\ node[TaskOfRequest(q)].status = "queued"
                           => q \in HeldRids'
  /\ TimedIds' \subseteq TimedIds
  /\ \A d \in TimedIds \cup OwedIds : StaysLive(TaskOfDispatch(d)) => d \in TimedIds' \cup OwedIds'

\* The part of MemoryInv about tasks, and that no run comes back to life.
AllRemembered == \A t \in Task : Live(RunOf[t]) => Remembered(t)
LiveBefore    == \A t \in Task : StaysLive(t) => Live(RunOf[t])

\* A step that moves things on forgets nothing.
LEMMA MovingOnRemembers ==
  ASSUME Grounds, AllRemembered, LiveBefore, MovesOn
  PROVE  AllRemembered'
<1>1. SUFFICES ASSUME NEW t \in Task, StaysLive(t)
               PROVE  Remembered(t)'
  BY DEF AllRemembered, Live, StaysLive
<1>2. Remembered(t)
  BY <1>1 DEF AllRemembered, LiveBefore
<1>3. \A u \in Deps[t] : u \in Task /\ StaysLive(u)
  BY <1>1, ConstantsAssumption DEF ConstantsAssumption, StaysLive
<1>4. /\ node'[t] = node[t]
      /\ \A u \in Deps[t] : node'[u] = node[u]
  BY <1>1, <1>3 DEF MovesOn
<1>5. Standing(t)
  BY <1>1, <1>4 DEF Standing, MovesOn, SameWork
<1>6. QED
  BY <1>2, <1>5, StandingRemembered

\* An error taken for a task ends its run, and no task of another run changes.
LEMMA ErrorEnds ==
  ASSUME TypeOK, LiveBefore, NEW t \in Task, CommandError(RunOf[t], t)
  PROVE  /\ ~StaysLive(t)
         /\ \A u \in Task : StaysLive(u) => node'[u] = node[u]
<1>1. CASE ~Live(RunOf[t])
  BY <1>1 DEF CommandError, LiveBefore
<1>2. CASE Live(RunOf[t])
  <2>1. runStatus'[RunOf[t]] = "failed"
    BY <1>2, GivingUpEndsRun
  <2>2. ~StaysLive(t)
    BY <2>1 DEF StaysLive, Final
  <2>3. t # None
    BY ConstantsAssumption DEF ConstantsAssumption
  <2>4. node' = [node EXCEPT ![t] = CommandFailed(@)]
    BY <1>2, <2>3 DEF CommandError, Refresh
  <2>5. \A u \in Task : u # t => node'[u] = node[u]
    BY <2>4 DEF TypeOK, RecordTypes
  <2>6. QED
    BY <2>2, <2>5
<1>3. QED
  BY <1>1, <1>2

\* A retry that is not queued again is of a run that is over.
LEMMA RetryEnds ==
  ASSUME TypeOK, GivenUpRunEnded, LiveBefore, NEW q \in 1..Len(requests), HandleRetry(q)
  PROVE  /\ TasksKept
         /\ ~WillRequeue(q) => ~StaysLive(TaskOfRequest(q))
         /\ \A u \in Task : StaysLive(u) => node'[u] = node[u]
<1>1. TaskOfRequest(q) \in Task /\ RunOfRequest(q) = RunOf[TaskOfRequest(q)]
  BY RunsExist DEF RunOfRequest
<1>2. Len(requests') = Len(requests) /\ \A i \in 1..Len(requests) : requests'[i].task = requests[i].task
  BY HandleRetryType
<1>3. TasksKept
  BY <1>2, ClaimTypes DEF TasksKept
<1>4. CASE WillRequeue(q)
  BY <1>3, <1>4 DEF HandleRetry
<1>5. CASE ~WillRequeue(q)
  <2>1. CommandError(RunOf[TaskOfRequest(q)], TaskOfRequest(q))
    BY <1>1, <1>5 DEF HandleRetry
  <2>2. QED
    BY <1>1, <1>3, <2>1, ErrorEnds
<1>6. QED
  BY <1>4, <1>5

\* Only StartSend makes a dispatch, at the end of the list.
LEMMA DispatchesStay ==
  ASSUME TypeOK, Next
  PROVE  DispatchesKept
<1> USE DEF stateVars, ackVars, readyVars, wireVars, schedulerVars
<1>1. Len(dispatches) \in Nat /\ dispatches \in Seq(DispatchType)
  BY ClaimTypes DEF TypeOK, DispatcherTypes
<1>2. CASE UNCHANGED dispatches
  BY <1>1, <1>2 DEF DispatchesKept
<1>3. CASE \E x : dispatches' = Append(dispatches, x)
  BY <1>1, <1>3, AppendProperties DEF DispatchesKept
<1>4. CASE Dispatcher
  BY <1>2, <1>3, <1>4 DEF Dispatcher, SkipFinal, NoWorker, InvalidPayload, StartSend, Transmit,
                          SendFails, BackoffOver, MarkDispatched, RegisterWaiter
<1>5. CASE AckHandling
  BY <1>2, <1>5 DEF AckHandling, HandleAck, MarkAcknowledged, AckTimeout, RetryAfterTimeout,
                    RequeueAfterTimeout
<1>6. CASE ResultHandling
  BY <1>2, <1>6 DEF ResultHandling, CollectReady, EnqueueReady, HandleResult, HandleCancelled,
                    HandleError, Deliver
<1>7. CASE Cancellation
  BY <1>2, <1>7 DEF Cancellation, CancelRun, FlushCancelled, CancelFinalRun
<1>8. CASE Workers
  BY <1>2, <1>8 DEF Workers, WorkerReceive, WorkerInterrupted, WorkerFails, LoseFrame, LoseAck,
                    WorkerFinishes, WorkerReports, WorkerRepeats, WorkerCrashes
<1>9. QED
  BY <1>4, <1>5, <1>6, <1>7, <1>8 DEF Next

\* What the cases below share.
LEMMA CommonGrounds ==
  ASSUME OnceOnlyFaults, OnceInv, Next
  PROVE  Grounds /\ LiveBefore
<1>1. TypeOK /\ GivenUpRunEnded /\ LastNodeInRun
  BY DEF OnceInv, IndInv
<1>2. TasksKept
  BY <1>1, GivenUpStep DEF TasksKept
<1>3. DispatchesKept
  BY <1>1, DispatchesStay
<1>4. DispatcherTypes'
  BY <1>1, DispatcherStep
<1>5. Len(requests') \in Nat
  BY <1>4 DEF DispatcherTypes
<1>6. LiveBefore
  BY LiveRuns, ConstantsAssumption DEF LiveBefore, StaysLive, ConstantsAssumption
<1>7. QED
  BY <1>1, <1>2, <1>3, <1>5, <1>6 DEF Grounds

\* A request at the end of the queue is in it, as are those before it.
LEMMA QueueGrows ==
  ASSUME TypeOK, NEW q \in 1..Len(requests), queue' = Append(queue, q)
  PROVE  QueueRids \cup {q} \subseteq QueueRids'
<1>1. queue \in Seq(1..Len(requests))
  BY ClaimTypes
<1>2. /\ Len(queue) \in Nat /\ DOMAIN queue = 1..Len(queue) /\ DOMAIN queue' = 1..(Len(queue) + 1)
      /\ \A i \in 1..Len(queue) : queue'[i] = queue[i]
      /\ queue'[Len(queue) + 1] = q
  BY <1>1, AppendProperties, LenProperties
<1>3. \A i \in DOMAIN queue : i \in DOMAIN queue'
  BY <1>2
<1>4. Len(queue) + 1 \in DOMAIN queue'
  BY <1>2
<1>5. QED
  BY <1>2, <1>3, <1>4 DEF QueueRids

\* The dispatcher holds on to the request it takes, until the dispatch is timed.
LEMMA MemoryDispatcherMoves ==
  ASSUME OnceOnlyFaults, OnceInv, AllRemembered, Next, Dispatcher, ~MarkDispatched
  PROVE  MovesOn
<1> USE DEF stateVars, ackVars, readyVars, wireVars
<1>0. TypeOK /\ GivenUpRunEnded /\ LiveBefore /\ DispatchesKept
  BY CommonGrounds DEF OnceInv, IndInv, Grounds
<1>a. runner \in [pc : {"idle", "sending", "sent", "marked", "backoff"},
                  rid : Nat \cup {None}, did : Nat \cup {None}]
  BY <1>0 DEF TypeOK, DispatcherTypes
<1>b. queue \in Seq(1..Len(requests))
  BY <1>0, ClaimTypes
<1>c. \A q \in 1..Len(requests) : TaskOfRequest(q) \in Task /\ RunOfRequest(q) = RunOf[TaskOfRequest(q)]
  BY <1>0, RunsExist DEF RunOfRequest
<1>d. ASSUME queue # <<>>, queue' = Tail(queue)
      PROVE  Head(queue) \in 1..Len(requests) /\ QueueRids \subseteq QueueRids' \cup {Head(queue)}
  <2>1. QueueRids' = {Tail(queue)[i] : i \in DOMAIN Tail(queue)}
    BY <1>d DEF QueueRids
  <2>2. QueueRids = Held(queue) /\ Distinct(queue)
    BY QueueDistinct DEF OnceInv
  <2>3. Held(Tail(queue)) = Held(queue) \ {Head(queue)} /\ Head(queue) \in Held(queue)
    BY <1>b, <1>d, <2>2, TailHolds
  <2>4. Held(queue) \subseteq 1..Len(requests)
    BY <1>b DEF Held
  <2>5. QED
    BY <2>1, <2>2, <2>3, <2>4 DEF Held
\* The sets a step of the dispatcher does not touch.
<1>e. ASSUME UNCHANGED <<handoff, collecting, retrying, executing, replies, pendingAcks>>,
             runner'.pc # "marked" /\ runner.pc # "marked",
             \A t \in Task : StaysLive(t) => node'[t] = node[t],
             \A q \in QueueRids \cup RunnerRids : StaysLive(TaskOfRequest(q)) => q \in QueueRids' \cup RunnerRids'
      PROVE  MovesOn
  <2>1. HandoffRids' = HandoffRids
    BY <1>e DEF HandoffRids
  <2>0. RetryRids' = RetryRids
    BY <1>0, <1>e DEF RetryRids, DispatchesKept, TypeOK, WireTypes
  <2>2. TimedIds' = TimedIds /\ OwedIds' = OwedIds
    BY <1>e DEF TimedIds, OwedIds, AnsweredIds
  <2>3. QED
    BY <1>e, <2>0, <2>1, <2>2 DEF MovesOn, HeldRids

<1>f. ASSUME NEW q, TakeRequest(q)
      PROVE  /\ q \in 1..Len(requests) /\ TaskOfRequest(q) \in Task
             /\ RunOfRequest(q) = RunOf[TaskOfRequest(q)]
             /\ QueueRids \cup RunnerRids \subseteq QueueRids' \cup {q}
             /\ UNCHANGED <<handoff, collecting, retrying, executing, replies, pendingAcks>>
             /\ runner.pc # "marked"
  BY <1>c, <1>d, <1>f DEF TakeRequest, RunnerRids
<1>1. CASE SkipFinal
  <2>1. ~StaysLive(TaskOfRequest(Head(queue)))
    BY <1>0, <1>1, <1>c, <1>d DEF SkipFinal, LiveBefore
  <2>2. QueueRids \subseteq QueueRids' \cup {Head(queue)} /\ RunnerRids' = RunnerRids
    BY <1>1, <1>d DEF SkipFinal, RunnerRids
  <2>3. QED
    BY <1>1, <1>e, <2>1, <2>2 DEF SkipFinal
<1>2. ASSUME NEW q \in Rid, NoWorker(q)
      PROVE  MovesOn
  <2>1. TakeRequest(q) /\ HandleRetry(q)
    BY <1>2 DEF NoWorker
  <2>2. /\ ~WillRequeue(q) => ~StaysLive(TaskOfRequest(q))
        /\ \A u \in Task : StaysLive(u) => node'[u] = node[u]
    BY <1>0, <1>f, <2>1, RetryEnds
  <2>3. runner' = IF WillRequeue(q) THEN At("backoff", q, None) ELSE Idle
    BY <1>2 DEF NoWorker
  <2>4. runner'.pc # "marked" /\ (WillRequeue(q) => RunnerRids' = {q})
    BY <2>3 DEF At, Idle, RunnerRids
  <2>5. QED
    BY <1>e, <1>f, <2>1, <2>2, <2>4
<1>3. ASSUME NEW q \in Rid, InvalidPayload(q)
      PROVE  MovesOn
  <2>1. TakeRequest(q) /\ CommandError(RunOfRequest(q), TaskOfRequest(q)) /\ runner' = runner
    BY <1>3 DEF InvalidPayload
  <2>2. ~StaysLive(TaskOfRequest(q)) /\ \A u \in Task : StaysLive(u) => node'[u] = node[u]
    BY <1>0, <1>f, <2>1, ErrorEnds
  <2>3. QED
    BY <1>e, <1>f, <2>1, <2>2
<1>4. ASSUME NEW q \in Rid, NEW w \in Worker, StartSend(q, w)
      PROVE  MovesOn
  <2>1. TakeRequest(q) /\ node' = node /\ runner' = At("sending", q, Len(dispatches) + 1)
    BY <1>4 DEF StartSend
  <2>2. RunnerRids' = {q} /\ runner'.pc # "marked"
    BY <2>1 DEF At, RunnerRids
  <2>3. QED
    BY <1>e, <1>f, <2>1, <2>2
<1>5. CASE Transmit
  <2>1. runner'.pc = "sent" /\ runner'.rid = runner.rid /\ runner.pc = "sending"
    BY <1>5, <1>a DEF Transmit
  <2>2. RunnerRids' = RunnerRids /\ QueueRids' = QueueRids
    BY <1>5, <2>1 DEF RunnerRids, QueueRids, Transmit
  <2>3. QED
    BY <1>5, <1>e, <2>1, <2>2 DEF Transmit
<1>6. CASE SendFails
  <2> DEFINE q == runner.rid
  <2>1. runner.pc = "sending" /\ HandleRetry(q)
    BY <1>6, NotTwice DEF SendFails
  <2>2. q \in 1..Len(requests) /\ RunnerRids = {q}
    BY <1>0, <2>1 DEF TypeOK, DispatcherTypes, RunnerRids
  <2>3. runner' = IF WillRequeue(q) THEN At("backoff", q, None) ELSE Idle
    BY <1>6 DEF SendFails
  <2> HIDE DEF q
  <2>4. /\ ~WillRequeue(q) => ~StaysLive(TaskOfRequest(q))
        /\ \A u \in Task : StaysLive(u) => node'[u] = node[u]
    BY <1>0, <2>1, <2>2, RetryEnds
  <2>5. runner'.pc # "marked" /\ (WillRequeue(q) => RunnerRids' = {q}) /\ QueueRids' = QueueRids
    BY <1>6, <2>3 DEF At, Idle, RunnerRids, QueueRids, SendFails
  <2>6. QED
    BY <1>6, <1>e, <2>1, <2>2, <2>4, <2>5 DEF SendFails
<1>7. CASE BackoffOver
  <2>1. runner.pc = "backoff" /\ RunnerRids = {runner.rid} /\ runner'.pc # "marked"
    BY <1>7 DEF BackoffOver, RunnerRids, Idle
  <2>2. QueueRids \cup {runner.rid} \subseteq QueueRids'
    <3>1. queue' = Append(queue, runner.rid) /\ runner.rid \in 1..Len(requests)
      BY <1>0, <1>7 DEF BackoffOver, TypeOK, DispatcherTypes
    <3>2. QED
      BY <1>0, <3>1, QueueGrows
  <2>3. QED
    BY <1>7, <1>e, <2>1, <2>2 DEF BackoffOver
<1>8. CASE RegisterWaiter
  <2> DEFINE d == runner.did
             q == runner.rid
  <2>1. runner.pc = "marked" /\ d \in TimedIds /\ RunnerRids = {q}
    BY <1>8 DEF RegisterWaiter, TimedIds, RunnerRids
  <2>2. d \in 1..Len(dispatches) /\ dispatches[d].rid = q /\ q \in 1..Len(requests)
    BY <1>0, <2>1 DEF OnceInv, OneStage, SendingIds, TypeOK, DispatcherTypes
  <2>3. TaskOfDispatch(d) = TaskOfRequest(q)
    BY <2>2 DEF TaskOfDispatch, TaskOfRequest
  <2>4. TimedIds' = TimedIds
    BY <1>8, <2>1 DEF RegisterWaiter, TimedIds, Idle
  <2>5. UNCHANGED <<QueueRids, HandoffRids, RetryRids, OwedIds>>
    BY <1>8 DEF RegisterWaiter, QueueRids, HandoffRids, RetryRids, OwedIds, AnsweredIds
  <2>6. UNCHANGED <<node, collecting>>
    BY <1>8 DEF RegisterWaiter
  <2> HIDE DEF d, q
  <2>7. StaysLive(TaskOfRequest(q)) => node[TaskOfRequest(q)].status = "running"
    BY <1>0, <1>c, <2>1, <2>2, <2>3 DEF LiveBefore, AllRemembered, Remembered, TimedRuns
  <2>8. QED
    BY <2>1, <2>4, <2>5, <2>6, <2>7 DEF MovesOn, HeldRids
<1>9. QED
  BY <1>1, <1>2, <1>3, <1>4, <1>5, <1>6, <1>7, <1>8 DEF Dispatcher

\* Two dispatches of one task that are under way are one.
LEMMA OneDispatch ==
  ASSUME OnceInv, NEW d \in UnderWay, NEW e \in UnderWay, TaskOfDispatch(d) = TaskOfDispatch(e)
  PROVE  d = e
<1> DEFINE p == dispatches[d].rid
           q == dispatches[e].rid
<1>1. p \in Active /\ q \in Active
  BY DEF Active, DispatchRids
<1>2. TaskOfRequest(p) = TaskOfRequest(q)
  BY DEF TaskOfRequest, TaskOfDispatch
<1>3. p = q
  <2> HIDE DEF p, q
  <2>1. QED
    BY <1>1, <1>2 DEF OnceInv, OneRequest
<1>4. QED
  BY <1>3 DEF OnceInv, OnePlace

\* The request being sent claims its task, which is not done.
LEMMA SendingClaim ==
  ASSUME OnceInv, NEW q, NEW d, runner.pc \in {"sending", "sent", "marked"}, q = runner.rid, d = runner.did
  PROVE  /\ d \in UnderWay /\ d \in 1..Len(dispatches) /\ dispatches[d].rid = q /\ q \in Active
         /\ q \in 1..Len(requests) /\ TaskOfRequest(q) \in Task /\ TaskOfDispatch(d) = TaskOfRequest(q)
         /\ d \notin pendingAcks
<1>1. TypeOK
  BY DEF OnceInv, IndInv
<1>2. d \in SendingIds
  BY DEF SendingIds
<1>3. d \in UnderWay /\ d \notin pendingAcks /\ dispatches[d].rid = q
  BY <1>2 DEF OnceInv, OneStage, UnderWay
<1>4. q \in Active /\ d \in 1..Len(dispatches) /\ q \in 1..Len(requests)
  <2>1. dispatches[d].rid \in DispatchRids
    BY <1>3 DEF DispatchRids
  <2>2. QED
    BY <1>1, <1>3, <2>1, ClaimTypes DEF Active
<1>5. TaskOfDispatch(d) = TaskOfRequest(q) /\ TaskOfRequest(q) \in Task
  BY <1>1, <1>3, <1>4, RunsExist DEF TaskOfDispatch, TaskOfRequest
<1>6. QED
  BY <1>3, <1>4, <1>5

\* mark_dispatched: the task runs, and its dispatch is about to be timed.
LEMMA MemoryMarked ==
  ASSUME OnceOnlyFaults, OnceInv, AllRemembered, Next, MarkDispatched,
         NEW q, NEW d, NEW c, q = runner.rid, d = runner.did, c = TaskOfRequest(q)
  PROVE  AllRemembered'
<1>0. TypeOK /\ LiveBefore /\ Grounds /\ node \in [Task -> NodeType]
  BY CommonGrounds DEF OnceInv, IndInv, TypeOK, RecordTypes
<1>1. /\ runner.pc = "sent"
      /\ UNCHANGED <<requests, queue, pendingAcks, retrying, handoff, collecting, dispatches, executing, replies>>
  BY DEF MarkDispatched, ackVars, readyVars, wireVars
<1>2. /\ d \in UnderWay /\ d \in 1..Len(dispatches) /\ dispatches[d].rid = q /\ q \in Active
      /\ q \in 1..Len(requests) /\ c \in Task /\ TaskOfDispatch(d) = c /\ d \notin pendingAcks
  BY <1>1, SendingClaim
<1>3. UNCHANGED <<QueueRids, HandoffRids, RetryRids, OwedIds>>
  BY <1>1 DEF QueueRids, HandoffRids, RetryRids, OwedIds, AnsweredIds
<1>4. RunnerRids = {q} /\ TimedIds = pendingAcks
  BY <1>1 DEF RunnerRids, TimedIds
<1>5. CASE ~Live(RunOf[c])
  <2>1. runner' = Idle /\ UNCHANGED stateVars
    BY <1>5 DEF MarkDispatched
  <2>2. TimedIds' = TimedIds /\ RunnerRids' = {}
    BY <1>1, <1>4, <2>1 DEF TimedIds, RunnerRids, Idle
  <2>3. ~StaysLive(c)
    BY <1>0, <1>2, <1>5 DEF LiveBefore
  <2>4. MovesOn
    BY <1>1, <1>3, <1>4, <2>1, <2>2, <2>3 DEF MovesOn, HeldRids, stateVars
  <2>5. QED
    BY <1>0, <2>4, MovingOnRemembers
<1>6. CASE Live(RunOf[c])
  <2>1. /\ node' = [node EXCEPT ![c] = Dispatched(@, d)]
        /\ runner' = IF runStatus'[RunOf[c]] \in Final THEN Idle ELSE [runner EXCEPT !.pc = "marked"]
    BY <1>6 DEF MarkDispatched, Refresh
  <2>2. runner \in [pc : {"idle", "sending", "sent", "marked", "backoff"},
                    rid : Nat \cup {None}, did : Nat \cup {None}]
    BY <1>0 DEF TypeOK, DispatcherTypes
  <2>3. CASE ~StaysLive(c)
    <3>1. TimedIds' = TimedIds /\ RunnerRids' = {}
      BY <1>1, <1>4, <2>1, <2>3 DEF TimedIds, RunnerRids, Idle, StaysLive
    <3>2. \A t \in Task : StaysLive(t) => node'[t] = node[t]
      BY <1>0, <2>1, <2>3
    <3>3. MovesOn
      BY <1>1, <1>3, <1>4, <2>3, <3>1, <3>2 DEF MovesOn, HeldRids
    <3>4. QED
      BY <1>0, <3>3, MovingOnRemembers
  <2>4. CASE StaysLive(c)
    <3>1. runner'.pc = "marked" /\ runner'.rid = q /\ runner'.did = d
      BY <2>1, <2>2, <2>4 DEF StaysLive
    <3>2. RunnerRids' = {q} /\ TimedIds' = TimedIds \cup {d}
      BY <1>1, <1>4, <3>1 DEF RunnerRids, TimedIds
    <3>3. /\ node'[c].status = "running" /\ node'[c].did = d /\ node'[c].pendingAck
          /\ node'[c].pending = node[c].pending
          /\ \A t \in Task : t # c => node'[t] = node[t]
      BY <1>0, <1>2, <2>1 DEF Dispatched, NodeType
    <3>4. InMotion(node[c]) /\ node[c].status \notin Done
      BY <1>2, <1>6, ClaimedNotDone DEF OnceInv, ClaimedInMotion, RunOfRequest
    <3>5. \A t \in Task : node'[t].status \in Done <=> node[t].status \in Done
      BY <3>3, <3>4 DEF Done
    <3>6. TaskOfDispatch(d)' = c
      BY <1>1, <1>2 DEF TaskOfDispatch
    <3>7. SUFFICES ASSUME NEW t \in Task, StaysLive(t)
                   PROVE  Remembered(t)'
      BY DEF AllRemembered, Live, StaysLive
    <3>8. Remembered(t)
      BY <1>0, <3>7 DEF AllRemembered, LiveBefore
    <3>9. \A u \in Deps[t] : u \in Task
      BY ConstantsAssumption DEF ConstantsAssumption
    <3>10. CASE t # c
      <4>1. Standing(t)
        BY <1>1, <1>3, <1>4, <3>2, <3>3, <3>5, <3>6, <3>9, <3>10 DEF Standing, SameWork, HeldRids
      <4>2. QED
        BY <1>0, <3>8, <4>1, StandingRemembered
    <3>11. CASE t = c
      <4>1. CountsExactly(t)'
        <5>1. Undone(t)' = Undone(t)
          BY <3>5, <3>9 DEF Undone
        <5>2. QED
          BY <3>3, <3>4, <3>8, <3>11, <5>1 DEF CountsExactly, Remembered, InMotion
      <4>2. QueuedKept(t)'
        BY <3>3, <3>11 DEF QueuedKept
      <4>3. ASSUME NEW e \in TimedIds', TaskOfDispatch(e)' = t
            PROVE  e = d
        <5>1. CASE e \in pendingAcks
          <6>1. e \in UnderWay
            BY <5>1 DEF UnderWay
          <6>2. TaskOfDispatch(e) = t
            BY <1>1, <4>3 DEF TaskOfDispatch
          <6>3. QED
            BY <1>2, <3>11, <6>1, <6>2, OneDispatch
        <5>2. QED
          BY <1>4, <3>2, <5>1
      <4>4. TimedRuns(t)'
        BY <3>3, <3>11, <4>3 DEF TimedRuns
      <4>5. RunningOwed(t)'
        BY <3>2, <3>6, <3>11 DEF RunningOwed
      <4>6. QED
        BY <4>1, <4>2, <4>4, <4>5 DEF Remembered
    <3>12. QED
      BY <3>10, <3>11
  <2>5. QED
    BY <2>3, <2>4
<1>7. QED
  BY <1>5, <1>6

\* register_ack takes a dispatch off the timers that a worker owes an answer to,
\* and mark_acknowledged touches no task whose dispatch is timed.
LEMMA MemoryAcked ==
  ASSUME OnceOnlyFaults, OnceInv, AllRemembered, AckedOwed, Next,
         NEW d \in Did, HandleAck(d) \/ MarkAcknowledged(d)
  PROVE  AllRemembered'
<1> USE DEF stateVars, ackVars, readyVars, wireVars
<1>0. TypeOK /\ LiveBefore /\ Grounds /\ node \in [Task -> NodeType]
  BY CommonGrounds DEF OnceInv, IndInv, TypeOK, RecordTypes
<1>1. UNCHANGED <<requests, queue, runner, retrying, handoff, collecting, dispatches, executing, replies>>
  BY DEF HandleAck, MarkAcknowledged
<1>2. UNCHANGED <<QueueRids, HandoffRids, RetryRids, RunnerRids, OwedIds>>
  BY <1>1 DEF QueueRids, HandoffRids, RetryRids, RunnerRids, OwedIds, AnsweredIds
<1>3. CASE HandleAck(d)
  <2>1. d \in OwedIds
    BY <1>3 DEF HandleAck, AckedOwed
  <2>2. pendingAcks' = pendingAcks \ {d} /\ UNCHANGED <<node, runStatus>>
    BY <1>3 DEF HandleAck
  <2>3. TimedIds' \subseteq TimedIds /\ TimedIds \subseteq TimedIds' \cup {d}
    BY <1>1, <2>2 DEF TimedIds
  <2>4. MovesOn
    BY <1>1, <1>2, <2>1, <2>2, <2>3 DEF MovesOn, HeldRids
  <2>5. QED
    BY <1>0, <2>4, MovingOnRemembers
<1>4. CASE MarkAcknowledged(d)
  <2>1. d \in acking /\ UNCHANGED pendingAcks
    BY <1>4 DEF MarkAcknowledged
  <2>2. UNCHANGED TimedIds
    BY <1>1, <2>1 DEF TimedIds
  <2>3. d \notin TimedIds
    BY <1>0, <2>1, MemoryTypes DEF AckedOwed
  <2>4. d \in 1..Len(dispatches) /\ TaskOfDispatch(d) \in Task
    BY <1>0, <2>1, RunsExist DEF TypeOK, WireTypes
  <2>5. CASE UNCHANGED <<node, runStatus>>
    <3>1. MovesOn
      BY <1>1, <1>2, <2>2, <2>5 DEF MovesOn, HeldRids
    <3>2. QED
      BY <1>0, <3>1, MovingOnRemembers
  <2>6. ASSUME NEW c \in Task, c = TaskOfDispatch(d), Live(RunOf[c]), node[c].did = d,
               node' = [node EXCEPT ![c].pendingAck = FALSE]
        PROVE  AllRemembered'
    <3>1. /\ \A t \in Task : SameWork(node[t], node'[t])
          /\ \A t \in Task : t # c => node'[t] = node[t]
      BY <1>0, <2>6 DEF SameWork, NodeType
    <3>2. SUFFICES ASSUME NEW t \in Task, StaysLive(t)
                   PROVE  Remembered(t)'
      BY DEF AllRemembered, Live, StaysLive
    <3>3. Remembered(t)
      BY <1>0, <3>2 DEF AllRemembered, LiveBefore
    <3>4. \A u \in Deps[t] : u \in Task
      BY ConstantsAssumption DEF ConstantsAssumption
    <3>5. \A u \in Deps[t] : node'[u].status \in Done <=> node[u].status \in Done
      BY <3>1, <3>4 DEF SameWork
    <3>6. ASSUME NEW e \in TimedIds', TaskOfDispatch(e)' = t
          PROVE  e \in TimedIds /\ t # c
      <4>1. e \in TimedIds /\ TaskOfDispatch(e) = t
        BY <1>1, <2>2, <3>6 DEF TaskOfDispatch
      <4>2. node[t].did = e
        BY <3>3, <4>1 DEF Remembered, TimedRuns
      <4>3. QED
        BY <2>3, <2>6, <4>1, <4>2
    <3>7. Standing(t)
      BY <1>1, <1>2, <2>2, <3>1, <3>5, <3>6 DEF Standing, HeldRids
    <3>8. QED
      BY <1>0, <3>3, <3>7, StandingRemembered
  <2>7. QED
    BY <1>4, <2>4, <2>5, <2>6 DEF MarkAcknowledged, Refresh
<1>5. QED
  BY <1>3, <1>4

\* The ack timer: the task waits again, and the coroutine that timed it brings
\* its request back.
LEMMA MemoryTimedOut ==
  ASSUME OnceOnlyFaults, OnceInv, AllRemembered, Next, NEW d \in Did, AckTimeout(d),
         NEW c, c = TaskOfDispatch(d)
  PROVE  AllRemembered'
<1> DEFINE w == [did |-> d, stage |-> "reset"]
<1> USE DEF stateVars, ackVars, readyVars, wireVars
<1>0. TypeOK /\ LiveBefore /\ Grounds /\ node \in [Task -> NodeType]
  BY CommonGrounds DEF OnceInv, IndInv, TypeOK, RecordTypes
<1>1. /\ d \in pendingAcks /\ pendingAcks' = pendingAcks \ {d} /\ retrying' = retrying \cup {w}
      /\ UNCHANGED <<requests, queue, runner, handoff, collecting, dispatches, executing, replies>>
  BY DEF AckTimeout
<1>2. UNCHANGED <<QueueRids, HandoffRids, RunnerRids, OwedIds>>
  BY <1>1 DEF QueueRids, HandoffRids, RunnerRids, OwedIds, AnsweredIds
<1>3. RetryRids' = RetryRids \cup {dispatches[d].rid}
  <2>1. w.did = d
    OBVIOUS
  <2> HIDE DEF w
  <2>2. RetryRids' = {dispatches[x.did].rid : x \in retrying \cup {w}}
    BY <1>1 DEF RetryRids
  <2>3. QED
    BY <2>1, <2>2 DEF RetryRids
<1>4. d \in 1..Len(dispatches) /\ c \in Task /\ dispatches[d].rid \in 1..Len(requests)
  BY <1>0, <1>1, RunsExist DEF TypeOK, WireTypes
<1>5. d \in TimedIds /\ TimedIds' = TimedIds \ {d}
  <2>1. d \notin SendingIds
    BY <1>1 DEF OnceInv, OneStage
  <2>2. QED
    BY <1>1, <2>1 DEF TimedIds, SendingIds
<1>6. CASE ~Live(RunOf[c])
  <2>1. UNCHANGED node /\ ~StaysLive(c)
    BY <1>0, <1>4, <1>6 DEF AckTimeout, LiveBefore
  <2>2. MovesOn
    BY <1>1, <1>2, <1>3, <1>5, <2>1 DEF MovesOn, HeldRids
  <2>3. QED
    BY <1>0, <2>2, MovingOnRemembers
<1>7. CASE Live(RunOf[c])
  <2>1. node[c].status = "running" /\ node[c].did = d
    BY <1>4, <1>5, <1>7 DEF AllRemembered, Remembered, TimedRuns
  <2>2. node' = [node EXCEPT ![c] = AckTimedOut(@)]
    BY <1>7, <2>1 DEF AckTimeout, Refresh
  <2>3. /\ node'[c].status = "queued" /\ node'[c].enqueued /\ node'[c].pending = node[c].pending
        /\ \A t \in Task : t # c => node'[t] = node[t]
    BY <1>0, <1>4, <2>2 DEF AckTimedOut, NodeType
  <2>4. \A t \in Task : node'[t].status \in Done <=> node[t].status \in Done
    BY <2>1, <2>3 DEF Done
  <2>5. SUFFICES ASSUME NEW t \in Task, StaysLive(t)
                 PROVE  Remembered(t)'
    BY DEF AllRemembered, Live, StaysLive
  <2>6. Remembered(t)
    BY <1>0, <2>5 DEF AllRemembered, LiveBefore
  <2>7. \A u \in Deps[t] : u \in Task
    BY ConstantsAssumption DEF ConstantsAssumption
  <2>8. CASE t # c
    <3>1. Standing(t)
      BY <1>1, <1>2, <1>3, <1>5, <2>3, <2>4, <2>7, <2>8 DEF Standing, SameWork, HeldRids
    <3>2. QED
      BY <1>0, <2>6, <3>1, StandingRemembered
  <2>9. CASE t = c
    <3>1. CountsExactly(t)'
      <4>1. Undone(t)' = Undone(t)
        BY <2>4, <2>7 DEF Undone
      <4>2. QED
        BY <2>1, <2>3, <2>6, <2>9, <4>1 DEF CountsExactly, Remembered
    <3>2. QueuedKept(t)'
      <4>1. PICK q : q = dispatches[d].rid
        OBVIOUS
      <4>2. q \in HeldRids'
        BY <1>3, <4>1 DEF HeldRids
      <4>3. q \in 1..Len(requests') /\ requests'[q].task = t
        BY <1>1, <1>4, <2>9, <4>1 DEF TaskOfDispatch
      <4>4. Holds(q)'
        BY <4>2, HeldMeansLater
      <4>5. QED
        BY <2>3, <2>9, <4>3, <4>4 DEF QueuedKept, TaskOfRequest
    <3>3. TimedRuns(t)'
      <4>1. SUFFICES ASSUME NEW e \in TimedIds', TaskOfDispatch(e)' = t
                     PROVE  FALSE
        BY DEF TimedRuns
      <4>2. e \in TimedIds /\ e # d /\ TaskOfDispatch(e) = t
        BY <1>1, <1>5, <4>1 DEF TaskOfDispatch
      <4>3. QED
        BY <2>1, <2>6, <2>9, <4>2 DEF Remembered, TimedRuns
    <3>4. RunningOwed(t)'
      BY <2>3, <2>9 DEF RunningOwed
    <3>5. QED
      BY <3>1, <3>2, <3>3, <3>4 DEF Remembered
  <2>10. QED
    BY <2>8, <2>9
<1>8. QED
  BY <1>6, <1>7

\* _await_ack past its timeout: the request stays with the coroutine until it is
\* back in the queue, unless its run is over.
LEMMA MemoryRetries ==
  ASSUME OnceOnlyFaults, OnceInv, AllRemembered, Next,
         NEW w \in retrying, RetryAfterTimeout(w) \/ RequeueAfterTimeout(w)
  PROVE  MovesOn
<1> DEFINE q == dispatches[w.did].rid
           x == [w EXCEPT !.stage = "backoff"]
<1> USE DEF stateVars, ackVars, readyVars, wireVars
<1>0. TypeOK /\ GivenUpRunEnded /\ LiveBefore
  BY CommonGrounds DEF OnceInv, IndInv
<1>1. /\ UNCHANGED <<handoff, collecting, runner, dispatches, executing, replies, pendingAcks>>
      /\ retrying \subseteq retrying' \cup {w}
  BY DEF RetryAfterTimeout, RequeueAfterTimeout
<1>2. UNCHANGED <<HandoffRids, RunnerRids, TimedIds, OwedIds>>
  BY <1>1 DEF HandoffRids, RunnerRids, TimedIds, OwedIds, AnsweredIds
<1>3. q \in 1..Len(requests) /\ w \in [did : 1..Len(dispatches), stage : {"reset", "backoff"}]
  BY <1>0, RunsExist DEF TypeOK, WireTypes
<1>4. x.did = w.did
  BY <1>3
<1>5. RetryRids \subseteq RetryRids' \cup {q}
  BY <1>1 DEF RetryRids
<1>6. CASE RetryAfterTimeout(w)
  <2>1. /\ HandleRetry(q) /\ queue' = queue
        /\ retrying' = (retrying \ {w}) \cup IF WillRequeue(q) THEN {x} ELSE {}
    BY <1>6 DEF RetryAfterTimeout
  <2> HIDE DEF x
  <2>2. WillRequeue(q) => q \in RetryRids'
    BY <1>1, <1>4, <2>1 DEF RetryRids
  <2> HIDE DEF q
  <2>3. /\ ~WillRequeue(q) => ~StaysLive(TaskOfRequest(q))
        /\ \A u \in Task : StaysLive(u) => node'[u] = node[u]
    BY <1>0, <1>3, <2>1, RetryEnds
  <2>4. QueueRids' = QueueRids
    BY <2>1 DEF QueueRids
  <2>5. QED
    BY <1>1, <1>2, <1>5, <2>2, <2>3, <2>4 DEF MovesOn, HeldRids
<1>7. CASE RequeueAfterTimeout(w)
  <2>1. queue' = Append(queue, q) /\ UNCHANGED node
    BY <1>7 DEF RequeueAfterTimeout
  <2> HIDE DEF q
  <2>2. QueueRids \cup {q} \subseteq QueueRids'
    BY <1>0, <1>3, <2>1, QueueGrows
  <2>3. QED
    BY <1>1, <1>2, <1>5, <2>1, <2>2 DEF MovesOn, HeldRids
<1>8. QED
  BY <1>6, <1>7

\* The enumeration of a finite set of indices in order leaves none out.
LEMMA IncreasingIsOnto ==
  ASSUME NEW I \in SUBSET Nat, IsFiniteSet(I), NEW f \in Increasing(I)
  PROVE  \A i \in I : \E k \in DOMAIN f : f[k] = i
<1> DEFINE n == Cardinality(I)
<1>1. n \in Nat
  BY FS_CardinalityType
<1>2. f \in [1..n -> I] /\ \A j, k \in 1..n : j < k => f[j] < f[k]
  BY DEF Increasing
<1>3. IsFiniteSet(1..n) /\ Cardinality(1..n) = n
  BY <1>1, FS_Interval
<1> HIDE DEF n
<1>4. ASSUME NEW j \in 1..n, NEW k \in 1..n, f[j] = f[k]
      PROVE  j = k
  <2>0. f[j] \in I /\ f[k] \in I
    BY <1>2
  <2>a. f[j] \in Nat /\ f[k] \in Nat
    BY <2>0
  <2>1. j \in Int /\ k \in Int /\ f[j] \in Nat /\ f[k] \in Nat
    BY <1>1, <2>a
  <2>2. ~(j < k) /\ ~(k < j)
    BY <1>2, <1>4, <2>1
  <2>3. QED
    BY <2>1, <2>2
<1>5. f \in Injection(1..n, I)
  BY <1>2, <1>4 DEF Injection, IsInjective
<1>6. f \in Surjection(1..n, I)
  BY <1>3, <1>5, FS_Injection DEF n
<1>7. QED
  BY <1>2, <1>6 DEF Surjection

\* What cancel_run leaves in the queue and on the timers: all of the other runs.
LEMMA FlushLeaves ==
  ASSUME TypeOK, NEW r \in Run, Flush(r)
  PROVE  /\ \A q \in QueueRids : RunOfRequest(q) # r => q \in QueueRids'
         /\ pendingAcks' = {d \in pendingAcks : RunOf[TaskOfDispatch(d)] # r}
<1> DEFINE I == {i \in DOMAIN queue : RunOfRequest(queue[i]) # r}
<1>1. Len(queue) \in Nat /\ DOMAIN queue = 1..Len(queue)
  BY ClaimTypes, LenProperties
<1>2. IsFiniteSet(1..Len(queue))
  BY <1>1, FS_Interval
<1>3. I \in SUBSET Nat /\ IsFiniteSet(I)
  BY <1>1, <1>2, FS_Subset
<1>4. PICK f \in Increasing(I) : queue' = [k \in DOMAIN f |-> queue[f[k]]]
  BY DEF Flush
<1>5. \A i \in I : \E k \in DOMAIN f : f[k] = i
  <2> HIDE DEF I
  <2>1. QED
    BY <1>3, IncreasingIsOnto
<1>6. ASSUME NEW q \in QueueRids, RunOfRequest(q) # r
      PROVE  q \in QueueRids'
  <2>1. PICK i \in DOMAIN queue : q = queue[i]
    BY DEF QueueRids
  <2>2. PICK k \in DOMAIN f : f[k] = i
    BY <1>5, <1>6, <2>1
  <2>3. k \in DOMAIN queue' /\ queue'[k] = q
    BY <1>4, <2>1, <2>2
  <2>4. QED
    BY <2>3 DEF QueueRids
<1>7. QED
  BY <1>6 DEF Flush

\* Cancelling a run touches nothing of the others.
LEMMA MemoryCancellation ==
  ASSUME OnceOnlyFaults, OnceInv, CancelledEnded, Next, Cancellation
  PROVE  MovesOn
<1> USE DEF stateVars, ackVars, readyVars, wireVars
<1>0. TypeOK /\ LiveBefore
  BY CommonGrounds DEF OnceInv, IndInv
<1>1. PICK r \in Run : CancelRun(r) \/ FlushCancelled(r) \/ CancelFinalRun(r)
  BY DEF Cancellation
<1>2. UNCHANGED <<HandoffRids, RunnerRids, RetryRids, OwedIds>>
  BY <1>1 DEF CancelRun, FlushCancelled, CancelFinalRun, HandoffRids, RunnerRids, RetryRids, OwedIds, AnsweredIds
<1>3. UNCHANGED collecting
  BY <1>1 DEF CancelRun, FlushCancelled, CancelFinalRun
<1>4. CASE CancelRun(r)
  <2>1. UNCHANGED <<QueueRids, TimedIds>>
    BY <1>4 DEF CancelRun, QueueRids, TimedIds
  <2>2. runStatus'[r] = "cancelled"
    BY <1>0, <1>4 DEF CancelRun, TypeOK, RecordTypes
  <2>3. \A t \in Task : StaysLive(t) => RunOf[t] # r
    BY <2>2 DEF StaysLive, Final
  <2>4. \A t \in Task : RunOf[t] # r => node'[t] = node[t]
    BY <1>4 DEF CancelRun
  <2>5. QED
    BY <1>2, <1>3, <2>1, <2>3, <2>4 DEF MovesOn, HeldRids
<1>5. CASE Flush(r) /\ ~Live(r) /\ UNCHANGED <<node, runStatus, runner>>
  <2>1. /\ \A q \in QueueRids : RunOfRequest(q) # r => q \in QueueRids'
        /\ pendingAcks' = {d \in pendingAcks : RunOf[TaskOfDispatch(d)] # r}
    BY <1>0, <1>5, FlushLeaves
  <2>2. \A t : StaysLive(t) => RunOf[t] # r
    BY <1>5 DEF StaysLive, Live
  <2>3. \A q \in QueueRids : StaysLive(TaskOfRequest(q)) => q \in QueueRids'
    BY <2>1, <2>2 DEF RunOfRequest
  <2>4. TimedIds' \subseteq TimedIds
    BY <1>5, <2>1 DEF TimedIds
  <2>5. \A d \in TimedIds : StaysLive(TaskOfDispatch(d)) => d \in TimedIds'
    BY <1>5, <2>1, <2>2 DEF TimedIds
  <2>6. QED
    BY <1>2, <1>3, <1>5, <2>3, <2>4, <2>5 DEF MovesOn, HeldRids
<1>6. QED
  BY <1>1, <1>4, <1>5 DEF FlushCancelled, CancelFinalRun, CancelledEnded

\* What a worker executes it owes until it answers, and has answered then.
LEMMA OwedStays ==
  ASSUME AnsweringFaults, Workers
  PROVE  OwedIds \subseteq OwedIds'
<1>3. ASSUME NEW d \in Did, WorkerReceive(d)
      PROVE  OwedIds \subseteq OwedIds'
  BY <1>3 DEF WorkerReceive, OwedIds, AnsweredIds
<1>4. ASSUME NEW d \in Did, NEW kind, NEW st, WorkerReports(d, kind, st)
      PROVE  OwedIds \subseteq OwedIds'
  <2> DEFINE m == [kind |-> kind, did |-> d, status |-> st, again |-> FALSE]
  <2>1. executing' = executing \ {d} /\ replies' = replies \cup {m}
    BY <1>4 DEF WorkerReports
  <2>2. m.did = d
    OBVIOUS
  <2> HIDE DEF m
  <2>3. AnsweredIds \cup {d} \subseteq AnsweredIds'
    BY <2>1, <2>2 DEF AnsweredIds
  <2>4. QED
    BY <2>1, <2>3 DEF OwedIds
<1>5. ASSUME NEW d \in Did, LoseFrame(d) \/ LoseAck(d)
      PROVE  OwedIds \subseteq OwedIds'
  BY <1>5 DEF LoseFrame, LoseAck, OwedIds, AnsweredIds
<1>6. ASSUME NEW m \in replies, WorkerRepeats(m)
      PROVE  OwedIds \subseteq OwedIds'
  BY <1>6 DEF WorkerRepeats, OwedIds, AnsweredIds
<1>7. ASSUME NEW w \in Worker, WorkerCrashes(w)
      PROVE  FALSE
  BY <1>7 DEF WorkerCrashes, Fault, AnsweringFaults
<1>8. QED
  BY <1>3, <1>4, <1>5, <1>6, <1>7 DEF Workers, WorkerFinishes, WorkerInterrupted, WorkerFails

\* The workers take nothing off the timers and forget nothing they owe.
LEMMA MemoryWorkers ==
  ASSUME AnsweringFaults, OnceInv, Next, Workers
  PROVE  MovesOn
<1>0. TypeOK /\ LiveBefore
  BY CommonGrounds DEF OnceInv, IndInv, AnsweringFaults
<1>1. UNCHANGED <<node, collecting, QueueRids, HandoffRids, RunnerRids, RetryRids, TimedIds>>
  BY DEF Workers, WorkerReceive, WorkerFinishes, WorkerInterrupted, WorkerFails, WorkerReports, WorkerRepeats,
         WorkerCrashes, LoseFrame, LoseAck, schedulerVars, stateVars, readyVars, ackVars,
         QueueRids, HandoffRids, RunnerRids, RetryRids, TimedIds
<1>2. OwedIds \subseteq OwedIds'
  BY OwedStays
<1>3. QED
  BY <1>1, <1>2 DEF MovesOn, HeldRids

\* What was in the queue, and a list put at its end, are in the queue.
LEMMA QueueExtended ==
  ASSUME NEW S, queue \in Seq(S), NEW s \in Seq(S), queue' = queue \o s
  PROVE  QueueRids \cup Held(s) \subseteq QueueRids'
<1>3. /\ Len(queue) \in Nat /\ DOMAIN queue = 1..Len(queue) /\ Len(s) \in Nat /\ DOMAIN s = 1..Len(s)
  BY LenProperties
<1>4. /\ queue' \in Seq(S) /\ Len(queue') = Len(queue) + Len(s)
      /\ \A i \in 1..(Len(queue) + Len(s)) :
           queue'[i] = IF i <= Len(queue) THEN queue[i] ELSE s[i - Len(queue)]
  BY ConcatProperties
<1>5. DOMAIN queue' = 1..(Len(queue) + Len(s))
  BY <1>4, LenProperties
<1>6. \A i \in DOMAIN queue : i \in DOMAIN queue' /\ queue'[i] = queue[i]
  BY <1>3, <1>4, <1>5
<1>7. \A i \in DOMAIN s : Len(queue) + i \in DOMAIN queue' /\ queue'[Len(queue) + i] = s[i]
  <2>1. ASSUME NEW i \in DOMAIN s
        PROVE  /\ Len(queue) + i \in 1..(Len(queue) + Len(s))
               /\ ~(Len(queue) + i <= Len(queue)) /\ (Len(queue) + i) - Len(queue) = i
    BY <1>3
  <2>2. QED
    BY <1>4, <1>5, <2>1
<1>8. QED
  BY <1>6, <1>7 DEF QueueRids, Held

\* enqueue puts a handed over list at the end of the queue.
LEMMA MemoryHanded ==
  ASSUME OnceInv, NEW s \in handoff, EnqueueReady(s)
  PROVE  MovesOn
<1>1. queue \in Seq(1..Len(requests)) /\ s \in Seq(1..Len(requests))
  BY ClaimTypes DEF OnceInv, IndInv
<1>2. QueueRids \cup Held(s) \subseteq QueueRids'
  BY <1>1, QueueExtended DEF EnqueueReady
<1>3. HandoffRids \subseteq HandoffRids' \cup Held(s)
  BY DEF EnqueueReady, HandoffRids, Held
<1>4. UNCHANGED <<node, collecting, RunnerRids, RetryRids, TimedIds, OwedIds>>
  BY DEF EnqueueReady, stateVars, ackVars, wireVars, RunnerRids, RetryRids, TimedIds, OwedIds, AnsweredIds
<1>5. QED
  BY <1>2, <1>3, <1>4 DEF MovesOn, HeldRids

\* collect_ready_nodes: the tasks that wait for nothing get their requests, and
\* the other idle ones do wait.
LEMMA MemoryCollected ==
  ASSUME OnceOnlyFaults, OnceInv, AllRemembered, Next, NEW r \in Run, CollectReady(r)
  PROVE  AllRemembered'
<1> DEFINE ready == {t \in TasksOf(r) : Live(r) /\ AutoDispatchable(node[t])}
<1>0. TypeOK /\ LiveBefore /\ Grounds /\ node \in [Task -> NodeType]
  BY CommonGrounds DEF OnceInv, IndInv, TypeOK, RecordTypes
<1>1. PICK s \in Orderings(ready) :
        /\ requests' = requests \o NewRequests(s) /\ queue' = queue \o NewRids(s)
        /\ node' = Enqueued(node, ready) /\ collecting' = collecting \ {r}
        /\ UNCHANGED <<handoff, runner, retrying, dispatches, executing, replies, pendingAcks>>
  BY DEF CollectReady, ackVars, wireVars
<1>2. ready \in SUBSET Task
  BY DEF TasksOf
<1>3. \A t \in ready : node[t].status = "queued" /\ ~node[t].enqueued /\ node[t].pending = 0
  BY DEF TasksOf, AutoDispatchable
<1>4. \A t \in Task \ ready : Live(RunOf[t]) /\ RunOf[t] = r /\ node[t].status = "queued"
                                /\ ~node[t].enqueued => node[t].pending # 0
  BY DEF TasksOf, AutoDispatchable
<1> HIDE DEF ready
<1>5. \A t \in Task : /\ node'[t].status = node[t].status /\ node'[t].pending = node[t].pending
                      /\ t \in ready => node'[t].enqueued
                      /\ t \notin ready => node'[t] = node[t]
  BY <1>0, <1>1 DEF Enqueued, NodeType
<1>6. /\ \A t \in ready : \E p \in Held(NewRids(s)) : p \in 1..Len(requests') /\ requests'[p].task = t
      /\ NewRids(s) \in Seq(1..(Len(requests) + Len(s)))
  BY <1>0, <1>1, <1>2, NewClaims
<1>7. QueueRids \cup Held(NewRids(s)) \subseteq QueueRids'
  <2>1. queue \in Seq(1..Len(requests)) /\ Len(requests) \in Nat
    BY <1>0, ClaimTypes
  <2>2. s \in Seq(ready) /\ Len(s) \in Nat
    BY <1>2, OrderingHolds, ReadyIsFinite
  <2>3. queue \in Seq(1..(Len(requests) + Len(s)))
    BY <2>1, <2>2, WidenSeq
  <2>4. QED
    BY <1>1, <1>6, <2>3, QueueExtended
<1>8. UNCHANGED <<HandoffRids, RunnerRids, RetryRids, TimedIds, OwedIds>>
  BY <1>1 DEF HandoffRids, RunnerRids, RetryRids, TimedIds, OwedIds, AnsweredIds
<1>9. SUFFICES ASSUME NEW t \in Task, StaysLive(t)
               PROVE  Remembered(t)'
  BY DEF AllRemembered, Live, StaysLive
<1>10. Remembered(t) /\ Live(RunOf[t])
  BY <1>0, <1>9 DEF AllRemembered, LiveBefore
<1>11. \A u \in Deps[t] : u \in Task
  BY ConstantsAssumption DEF ConstantsAssumption
<1>12. Undone(t)' = Undone(t)
  BY <1>5, <1>11 DEF Undone
<1>13. CASE t \in ready
  <2>1. CountsExactly(t)'
    BY <1>5, <1>10, <1>12 DEF CountsExactly, Remembered
  <2>2. QueuedKept(t)'
    <3>1. PICK p \in Held(NewRids(s)) : p \in 1..Len(requests') /\ requests'[p].task = t
      BY <1>6, <1>13
    <3>2. Holds(p)'
      BY <1>7, HeldMeansLater DEF HeldRids
    <3>3. QED
      BY <1>5, <1>13, <3>1, <3>2 DEF QueuedKept, TaskOfRequest
  <2>3. TimedRuns(t)'
    <3>1. SUFFICES ASSUME NEW d \in TimedIds', TaskOfDispatch(d)' = t
                   PROVE  FALSE
      BY DEF TimedRuns
    <3>2. TaskOfDispatch(d) = t
      BY <1>0, <1>8, <3>1, MemoryTypes, TasksStay DEF Grounds
    <3>3. QED
      BY <1>3, <1>8, <1>10, <1>13, <3>1, <3>2 DEF Remembered, TimedRuns
  <2>4. RunningOwed(t)'
    BY <1>3, <1>5, <1>13 DEF RunningOwed
  <2>5. QED
    BY <2>1, <2>2, <2>3, <2>4 DEF Remembered
<1>14. CASE t \notin ready
  <2>1. ASSUME node[t].status = "queued", ~node[t].enqueued, RunOf[t] = r
        PROVE  Undone(t) # {}
    <3>1. node[t].pending # 0 /\ node[t].pending \in Nat
      BY <1>0, <1>4, <1>10, <1>14, <2>1 DEF NodeType
    <3>2. node[t].pending <= Cardinality(Undone(t))
      BY <1>10, <2>1 DEF Remembered, CountsExactly
    <3>3. Cardinality({}) = 0
      BY FS_EmptySet
    <3>4. QED
      BY <3>1, <3>2, <3>3
  <2>2. Standing(t)
    BY <1>1, <1>5, <1>7, <1>8, <1>11, <1>14, <2>1 DEF Standing, SameWork, HeldRids
  <2>3. QED
    BY <1>0, <1>10, <2>2, StandingRemembered
<1>15. QED
  BY <1>13, <1>14

\* What is left timed and owed when an answer is handled: its own dispatch is not
\* timed, its ack having come before, and is owed no more.
LEMMA AnswerSettles ==
  ASSUME OnceInv, NEW m \in replies, m.did \notin acks, replies' = replies \ {m},
         UNCHANGED <<runner, pendingAcks, executing>>
  PROVE  /\ \A d \in TimedIds : TaskOfDispatch(d) # TaskOfDispatch(m.did)
         /\ TimedIds' = TimedIds /\ OwedIds \subseteq OwedIds' \cup {m.did}
<1>1. TypeOK /\ m.did \in AnsweredIds /\ m.did \in UnderWay
  BY DEF OnceInv, IndInv, AnsweredIds, UnderWay
<1>2. m.did \notin SendingIds \cup pendingAcks
  BY <1>1 DEF OnceInv, OneStage
<1>3. TimedIds \subseteq UnderWay /\ m.did \notin TimedIds
  BY <1>1, <1>2, MemoryTypes
<1>4. \A d \in TimedIds : TaskOfDispatch(d) # TaskOfDispatch(m.did)
  BY <1>1, <1>3, OneDispatch
<1>5. TimedIds' = TimedIds
  BY DEF TimedIds
<1>6. OwedIds \subseteq OwedIds' \cup {m.did}
  BY DEF OwedIds, AnsweredIds
<1>7. QED
  BY <1>4, <1>5, <1>6

\* E.RUNNER.CANCELLED: the task waits again, and its run is about to be collected.
LEMMA MemoryCancelled ==
  ASSUME OnceOnlyFaults, OnceInv, AllRemembered, Next, NEW m \in replies, HandleCancelled(m),
         NEW c, c = TaskOfDispatch(m.did)
  PROVE  AllRemembered'
<1>0. TypeOK /\ LiveBefore /\ Grounds /\ node \in [Task -> NodeType]
  BY CommonGrounds DEF OnceInv, IndInv, TypeOK, RecordTypes
<1>1. /\ m.did \notin acks /\ replies' = replies \ {m}
      /\ UNCHANGED <<requests, queue, runner, pendingAcks, retrying, handoff, dispatches, executing>>
      /\ collecting \subseteq collecting'
  BY DEF HandleCancelled, Deliver, ackVars
<1>2. UNCHANGED <<QueueRids, HandoffRids, RunnerRids, RetryRids>>
  BY <1>1 DEF QueueRids, HandoffRids, RunnerRids, RetryRids
<1>3. /\ \A d \in TimedIds : TaskOfDispatch(d) # c
      /\ TimedIds' = TimedIds /\ OwedIds \subseteq OwedIds' \cup {m.did}
  BY <1>1, AnswerSettles
<1>4. c \in Task /\ (Live(RunOf[c]) => InMotion(node[c]))
  BY AnsweredClaim
<1>5. \A d \in 1..Len(dispatches) : TaskOfDispatch(d)' = TaskOfDispatch(d)
  BY <1>1 DEF TaskOfDispatch
<1>6. TimedIds \cup OwedIds \subseteq 1..Len(dispatches)
  BY <1>0, MemoryTypes
<1>7. CASE ~Live(RunOf[c])
  <2>1. UNCHANGED node /\ ~StaysLive(c)
    BY <1>0, <1>4, <1>7 DEF HandleCancelled, LiveBefore
  <2>2. MovesOn
    BY <1>1, <1>2, <1>3, <2>1 DEF MovesOn, HeldRids
  <2>3. QED
    BY <1>0, <2>2, MovingOnRemembers
<1>8. CASE Live(RunOf[c])
  <2>1. node' = [node EXCEPT ![c] = WorkerCancelled(@)] /\ RunOf[c] \in collecting'
    BY <1>8 DEF HandleCancelled, Refresh
  <2>2. /\ node'[c].status = "queued" /\ ~node'[c].enqueued /\ node'[c].pending = 0
        /\ \A t \in Task : t # c => node'[t] = node[t]
    BY <1>0, <1>4, <2>1 DEF WorkerCancelled, NodeType
  <2>3. \A t \in Task : node'[t].status \in Done <=> node[t].status \in Done
    BY <1>4, <1>8, <2>2 DEF Done, InMotion
  <2>4. SUFFICES ASSUME NEW t \in Task, StaysLive(t)
                 PROVE  Remembered(t)'
    BY DEF AllRemembered, Live, StaysLive
  <2>5. Remembered(t)
    BY <1>0, <2>4 DEF AllRemembered, LiveBefore
  <2>6. \A u \in Deps[t] : u \in Task
    BY ConstantsAssumption DEF ConstantsAssumption
  <2>7. CASE t # c
    <3>1. Standing(t)
      BY <1>1, <1>2, <1>3, <2>2, <2>3, <2>6, <2>7 DEF Standing, SameWork, HeldRids
    <3>2. QED
      BY <1>0, <2>5, <3>1, StandingRemembered
  <2>8. CASE t = c
    <3>1. CountsExactly(t)'
      <4>1. Undone(t)' = Undone(t)
        BY <2>3, <2>6 DEF Undone
      <4>2. Cardinality(Undone(t)) \in Nat
        BY UndoneType
      <4>3. QED
        BY <2>2, <2>8, <4>1, <4>2 DEF CountsExactly
    <3>2. QueuedKept(t)'
      BY <2>1, <2>2, <2>8 DEF QueuedKept
    <3>3. TimedRuns(t)'
      BY <1>3, <1>5, <1>6, <2>8 DEF TimedRuns
    <3>4. RunningOwed(t)'
      BY <2>2, <2>8 DEF RunningOwed
    <3>5. QED
      BY <3>1, <3>2, <3>3, <3>4 DEF Remembered
  <2>9. QED
    BY <2>7, <2>8
<1>9. QED
  BY <1>7, <1>8

\* A result of a run that is over changes nothing of the others.
LEMMA MemoryIgnored ==
  ASSUME OnceOnlyFaults, OnceInv, Next, NEW m \in replies, HandleResult(m),
         ~Live(RunOf[TaskOfDispatch(m.did)])
  PROVE  MovesOn
<1>1. /\ m.did \notin acks /\ replies' = replies \ {m}
      /\ UNCHANGED <<node, queue, runner, pendingAcks, retrying, handoff, collecting, dispatches, executing>>
  BY DEF HandleResult, Deliver, ackVars
<1>2. UNCHANGED <<QueueRids, HandoffRids, RunnerRids, RetryRids>>
  BY <1>1 DEF QueueRids, HandoffRids, RunnerRids, RetryRids
<1>3. TimedIds' = TimedIds /\ OwedIds \subseteq OwedIds' \cup {m.did}
  BY <1>1, AnswerSettles
<1>4. ~StaysLive(TaskOfDispatch(m.did))
  BY CommonGrounds, AnsweredClaim DEF LiveBefore
<1>5. QED
  BY <1>1, <1>2, <1>3, <1>4 DEF MovesOn, HeldRids

\* record_result: the task is done with, the dependents it frees get their
\* requests, and the others go on waiting for what is left.
LEMMA MemoryReported ==
  ASSUME OnceOnlyFaults, OnceInv, AllRemembered, Next, NEW m \in replies, HandleResult(m),
         NEW c, c = TaskOfDispatch(m.did), Live(RunOf[c])
  PROVE  AllRemembered'
<1> DEFINE st == m.status
<1>0. TypeOK /\ LiveBefore /\ Grounds /\ node \in [Task -> NodeType]
  BY CommonGrounds DEF OnceInv, IndInv, TypeOK, RecordTypes
<1>1. /\ m.did \notin acks /\ replies' = replies \ {m} /\ m.kind = "result" /\ ApplyResult(c, st)
      /\ UNCHANGED <<queue, runner, pendingAcks, retrying, collecting, dispatches, executing>>
  BY DEF HandleResult, Deliver, ackVars
<1>2. c \in Task /\ InMotion(node[c])
  BY AnsweredClaim
<1>3. st \in Final
  BY <1>0, <1>1 DEF TypeOK, WireTypes, ReplyType
<1>4. PICK ready \in SUBSET Dependents(c) : Frees(c, st, ready)
  <2> HIDE DEF st
  <2>1. QED
    BY <1>0, <1>1, <1>2, <1>3, ResultNodes
<1>5. \A u \in Task : u \in Dependents(c) <=> c \in Deps[u]
  BY DEF Dependents
<1>6. PICK s \in Orderings(ready) :
        /\ requests' = requests \o NewRequests(s)
        /\ handoff' = IF ready = {} THEN handoff ELSE handoff \cup {NewRids(s)}
  BY <1>4 DEF Frees
<1>7. \A t \in ready : \E p \in Held(NewRids(s)) : p \in 1..Len(requests') /\ requests'[p].task = t
  <2>1. ready \in SUBSET Task
    BY DEF Dependents
  <2>2. QED
    BY <1>0, <1>6, <2>1, NewClaims
<1>8. /\ UNCHANGED <<QueueRids, RunnerRids, RetryRids>>
      /\ HandoffRids \subseteq HandoffRids' /\ (ready # {} => Held(NewRids(s)) \subseteq HandoffRids')
  <2>1. UNCHANGED <<QueueRids, RunnerRids, RetryRids>>
    BY <1>1 DEF QueueRids, RunnerRids, RetryRids
  <2>2. HandoffRids' = UNION {Held(x) : x \in handoff'} /\ HandoffRids = UNION {Held(x) : x \in handoff}
    BY DEF HandoffRids, Held
  <2>3. QED
    BY <1>6, <2>1, <2>2
<1>9. HeldRids \subseteq HeldRids'
  BY <1>8 DEF HeldRids
<1>10. /\ \A d \in TimedIds : TaskOfDispatch(d) # c
       /\ TimedIds' = TimedIds /\ OwedIds \subseteq OwedIds' \cup {m.did}
  BY <1>1, AnswerSettles
<1>11. \A d \in TimedIds : TaskOfDispatch(d)' = TaskOfDispatch(d)
  BY <1>0, MemoryTypes, TasksStay DEF Grounds
<1> HIDE DEF st
<1>12. SUFFICES ASSUME NEW t \in Task, StaysLive(t)
                PROVE  Remembered(t)'
  BY DEF AllRemembered, Live, StaysLive
<1>13. Remembered(t) /\ Live(RunOf[t]) /\ node[t] \in NodeType
  BY <1>0, <1>12 DEF AllRemembered, LiveBefore
<1>14. \A u \in Deps[t] : u \in Task
  BY ConstantsAssumption DEF ConstantsAssumption
<1>15. node[c].status \notin Done /\ Done \subseteq Final
  BY <1>2 DEF InMotion, Done, Final
<1>16. ASSUME node[t].status # "running" \/ t = c
       PROVE  TimedRuns(t)'
  <2>1. SUFFICES ASSUME NEW d \in TimedIds', TaskOfDispatch(d)' = t
                 PROVE  FALSE
    BY DEF TimedRuns
  <2>2. d \in TimedIds /\ TaskOfDispatch(d) = t
    BY <1>10, <1>11, <2>1
  <2>3. QED
    BY <1>10, <1>13, <1>16, <2>2 DEF Remembered, TimedRuns
<1>17. ASSUME node'[t].status \notin {"queued", "running"}, node[t].status # "running" \/ t = c
       PROVE  Remembered(t)'
  BY <1>16, <1>17 DEF Remembered, CountsExactly, QueuedKept, RunningOwed
<1>a. t # c /\ t \notin ready => node'[t].enqueued = node[t].enqueued
  <2>1. t # c /\ t \notin ready => node'[t].enqueued = (FALSE \/ node[t].enqueued)
    BY <1>4 DEF Frees
  <2>2. node[t].enqueued \in BOOLEAN
    BY <1>13 DEF NodeType
  <2>3. QED
    BY <2>1, <2>2
<1>18. CASE t = c
  <2>1. node'[t].status \in Final
    BY <1>3, <1>4, <1>18 DEF Frees
  <2>2. QED
    BY <1>17, <1>18, <2>1 DEF Final
<1>19. CASE t # c /\ t \in ready
  <2>1. /\ node[t].status = "queued" /\ node'[t].status = "queued" /\ node'[t].pending = 0 /\ node'[t].enqueued
    BY <1>4, <1>19 DEF Frees
  <2>2. Cardinality(Undone(t)') \in Nat
    <3> DEFINE now == {u \in Deps[t] : node'[u].status \notin Done}
    <3>1. now \in SUBSET Task /\ Undone(t)' = now
      BY <1>14 DEF Undone
    <3>2. QED
      BY <3>1, ReadyIsFinite
  <2>3. CountsExactly(t)'
    BY <2>1, <2>2 DEF CountsExactly
  <2>4. PICK p \in Held(NewRids(s)) : p \in 1..Len(requests') /\ requests'[p].task = t
    BY <1>7, <1>19
  <2>5. Holds(p)'
    BY <1>8, <1>19, HeldMeansLater DEF HeldRids
  <2>6. QueuedKept(t)'
    BY <2>1, <2>4, <2>5 DEF QueuedKept, TaskOfRequest
  <2>7. QED
    BY <1>16, <2>1, <2>3, <2>6 DEF Remembered, RunningOwed
<1>20. CASE t # c /\ t \notin ready /\ st \in Done /\ c \in Deps[t] /\ node[t].status = "queued"
  <2>a. t \in Dependents(c) \ ready
    BY <1>5, <1>20
  <2>1. /\ node'[t].status = "queued"
        /\ node'[t].pending = IF node[t].pending > 0 THEN node[t].pending - 1 ELSE node[t].pending
        /\ ~node[t].enqueued => node'[t].pending # 0
    BY <1>4, <1>20, <2>a DEF Frees
  <2>b. node'[t].enqueued = node[t].enqueued
    BY <1>20, <1>a
  <2>2. Cardinality(Undone(t)') = Cardinality(Undone(t)) - 1 /\ Cardinality(Undone(t)) \in Nat
                  /\ Cardinality(Undone(t)) > 0
    BY <1>4, <1>14, <1>15, <1>20, OneUndoneLess DEF Frees
  <2>3. node[t].pending \in Nat /\ node[t].pending <= Cardinality(Undone(t))
    BY <1>13, <1>20 DEF Remembered, CountsExactly, NodeType
  <2>4. node'[t].pending <= Cardinality(Undone(t)') /\ node'[t].pending \in Nat
    BY <2>1, <2>2, <2>3
  <2>5. QueuedKept(t)'
    <3>1. CASE node[t].enqueued
      <4>1. PICK q \in 1..Len(requests) : TaskOfRequest(q) = t /\ Holds(q)
        BY <1>13, <1>20, <3>1 DEF Remembered, QueuedKept
      <4>2. Holds(q)'
        BY <1>9, <4>1, HeldMeans, HeldMeansLater
      <4>3. q \in 1..Len(requests') /\ TaskOfRequest(q)' = t
        BY <1>0, <4>1, TasksStay DEF Grounds
      <4>4. QED
        BY <2>1, <2>b, <3>1, <4>2, <4>3 DEF QueuedKept
    <3>2. CASE ~node[t].enqueued
      <4>1. Undone(t)' # {}
        <5>a. node'[t].pending # 0
          BY <2>1, <3>2
        <5>b. Cardinality(Undone(t)') \in Int
          BY <2>2
        <5>1. Cardinality(Undone(t)') > 0
          BY <2>4, <5>a, <5>b
        <5>2. Cardinality({}) = 0
          BY FS_EmptySet
        <5>3. SUFFICES ASSUME Undone(t)' = {} PROVE FALSE
          OBVIOUS
        <5>4. Cardinality(Undone(t)') = 0
          BY <5>2, <5>3
        <5>5. QED
          BY <5>1, <5>4
      <4>2. QED
        BY <2>1, <2>b, <3>2, <4>1 DEF QueuedKept
    <3>3. QED
      BY <3>1, <3>2
  <2>6. QED
    BY <1>16, <1>20, <2>1, <2>4, <2>5 DEF Remembered, CountsExactly, RunningOwed
<1>21. CASE t # c /\ t \notin ready /\ st \in Done /\ c \in Deps[t] /\ node[t].status # "queued"
  <2>1. node[t].status # "running"
    BY <1>13, <1>15, <1>21 DEF OnceInv, JoinWaitsForAll
  <2>2. QED
    BY <1>4, <1>17, <1>21, <2>1 DEF Frees
<1>22. CASE t # c /\ t \notin ready /\ ~(st \in Done /\ c \in Deps[t])
  <2>1. SameWork(node[t], node'[t]) /\ node'[t].did = node[t].did /\ node'[t].pendingAck = node[t].pendingAck
    BY <1>4, <1>22, <1>a DEF Frees, SameWork
  <2>2. \A u \in Deps[t] : node'[u].status \in Done <=> node[u].status \in Done
    BY <1>4, <1>14, <1>15, <1>22 DEF Frees
  <2>3. \A d \in TimedIds \cup OwedIds : TaskOfDispatch(d) = t => d \in TimedIds' \cup OwedIds'
    BY <1>10, <1>22
  <2>4. Standing(t)
    BY <1>1, <1>9, <1>10, <2>1, <2>2, <2>3 DEF Standing
  <2>5. QED
    BY <1>0, <1>13, <2>4, StandingRemembered
<1>23. QED
  BY <1>18, <1>19, <1>20, <1>21, <1>22

\* What is acknowledged is owed an answer until the ack is handled, and timed no
\* more then.
LEMMA AckedOwedStep ==
  ASSUME AnsweringFaults, OnceInv, AckedOwed, Next
  PROVE  AckedOwed'
<1> USE DEF stateVars, ackVars, readyVars, wireVars, schedulerVars
<1>0. TypeOK /\ OneStage /\ OnceOnlyFaults
  BY DEF OnceInv, IndInv, AnsweringFaults
<1>1. acking \subseteq 1..Len(dispatches) /\ Len(dispatches) \in Nat
  BY <1>0, ClaimTypes DEF TypeOK, WireTypes
<1>2. runner \in [pc : {"idle", "sending", "sent", "marked", "backoff"},
                  rid : Nat \cup {None}, did : Nat \cup {None}]
  BY <1>0 DEF TypeOK, DispatcherTypes
<1>3. ASSUME UNCHANGED <<acks, executing, replies>>, acking' \subseteq acking,
             acking \cap (SendingIds' \cup pendingAcks') = {}
      PROVE  AckedOwed'
  BY <1>3 DEF AckedOwed, OwedIds, AnsweredIds
<1>4. CASE Dispatcher
  <2>1. UNCHANGED <<acks, acking, executing, replies>>
    BY <1>4 DEF Dispatcher, SkipFinal, NoWorker, InvalidPayload, StartSend, Transmit, SendFails,
                BackoffOver, MarkDispatched, RegisterWaiter, TakeRequest
  <2>2. ASSUME SendingIds' \cup pendingAcks' \subseteq SendingIds \cup pendingAcks \cup {Len(dispatches) + 1}
        PROVE  AckedOwed'
    <3>1. Len(dispatches) + 1 \notin acking
      BY <1>1
    <3>2. acking \cap (SendingIds' \cup pendingAcks') = {}
      BY <2>2, <3>1 DEF AckedOwed
    <3>3. QED
      BY <1>3, <2>1, <3>2
  <2>3. CASE RegisterWaiter
    BY <2>2, <2>3 DEF RegisterWaiter, SendingIds, Idle
  <2>4. CASE ~RegisterWaiter
    <3>1. pendingAcks' = pendingAcks
      BY <1>4, <2>4 DEF Dispatcher, SkipFinal, NoWorker, InvalidPayload, StartSend, Transmit, SendFails,
                        BackoffOver, MarkDispatched, TakeRequest
    <3>2. SendingIds' \subseteq SendingIds \cup {Len(dispatches) + 1}
      <4>1. CASE runner' = runner
        BY <4>1 DEF SendingIds
      <4>2. CASE runner' = Idle \/ \E q : runner' = At("backoff", q, None)
        BY <4>2 DEF SendingIds, Idle, At
      <4>3. CASE \E q : runner' = At("sending", q, Len(dispatches) + 1)
        BY <4>3 DEF SendingIds, At
      <4>4. CASE Transmit
        BY <1>2, <4>4 DEF Transmit, SendingIds
      <4>5. CASE MarkDispatched
        BY <1>2, <4>2, <4>5 DEF MarkDispatched, SendingIds
      <4>6. QED
        BY <1>4, <2>4, <4>1, <4>2, <4>3, <4>4, <4>5
           DEF Dispatcher, SkipFinal, NoWorker, InvalidPayload, StartSend, SendFails, BackoffOver
    <3>3. QED
      BY <2>2, <3>1, <3>2
  <2>5. QED
    BY <2>3, <2>4
<1>5. CASE AckHandling
  <2>1. runner' = runner /\ UNCHANGED <<executing, replies>>
    BY <1>5 DEF AckHandling, HandleAck, MarkAcknowledged, AckTimeout, RetryAfterTimeout, RequeueAfterTimeout
  <2>2. SendingIds' = SendingIds /\ OwedIds' = OwedIds
    BY <2>1 DEF SendingIds, OwedIds, AnsweredIds
  <2>3. ASSUME NEW d \in Did, HandleAck(d)
        PROVE  AckedOwed'
    <3>1. /\ acks' = acks \ {d} /\ pendingAcks' = pendingAcks \ {d} /\ d \in acks
          /\ acking' = IF d \in pendingAcks THEN acking \cup {d} ELSE acking
      BY <2>3 DEF HandleAck
    <3>2. d \in pendingAcks => d \notin SendingIds
      BY <1>0 DEF OneStage
    <3>3. QED
      BY <2>2, <3>1, <3>2 DEF AckedOwed
  <2>4. ASSUME pendingAcks' \subseteq pendingAcks, acking' \subseteq acking, acks' = acks
        PROVE  AckedOwed'
    BY <2>1, <2>2, <2>4 DEF AckedOwed
  <2>5. QED
    BY <1>5, <2>3, <2>4 DEF AckHandling, MarkAcknowledged, AckTimeout, RetryAfterTimeout, RequeueAfterTimeout
<1>6. CASE ResultHandling
  <2>1. UNCHANGED <<runner, pendingAcks, acking, acks, executing>>
    BY <1>6 DEF ResultHandling, CollectReady, EnqueueReady, HandleResult, HandleCancelled, HandleError, Deliver
  <2>2. replies' = replies \/ \E m \in replies : m.did \notin acks \cup acking /\ replies' = replies \ {m}
    BY <1>6 DEF ResultHandling, CollectReady, EnqueueReady, HandleResult, HandleCancelled, HandleError, Deliver
  <2>3. acks \cup acking \subseteq OwedIds'
    BY <2>1, <2>2 DEF AckedOwed, OwedIds, AnsweredIds
  <2>4. SendingIds' = SendingIds
    BY <2>1 DEF SendingIds
  <2>5. QED
    BY <2>1, <2>3, <2>4 DEF AckedOwed
<1>7. CASE Cancellation
  <2>1. /\ UNCHANGED <<runner, acks, acking, executing, replies>>
        /\ pendingAcks' \subseteq pendingAcks
    BY <1>7 DEF Cancellation, CancelRun, FlushCancelled, CancelFinalRun, Flush
  <2>2. SendingIds' = SendingIds
    BY <2>1 DEF SendingIds
  <2>3. QED
    BY <1>3, <2>1, <2>2 DEF AckedOwed
<1>8. CASE Workers
  <2>1. UNCHANGED <<runner, pendingAcks, acking>>
    BY <1>8 DEF Workers, WorkerReceive, WorkerFinishes, WorkerInterrupted, WorkerFails, WorkerReports, WorkerRepeats,
         WorkerCrashes, LoseFrame, LoseAck
  <2>2. SendingIds' = SendingIds
    BY <2>1 DEF SendingIds
  <2>3. OwedIds \subseteq OwedIds'
    BY <1>8, OwedStays
  <2>4. CASE acks' \subseteq acks
    BY <2>1, <2>2, <2>3, <2>4 DEF AckedOwed
  <2>5. ASSUME NEW d \in Did, WorkerReceive(d)
        PROVE  AckedOwed'
    <3>1. d \in UnderWay /\ d \notin executing
      BY <1>0, <2>5 DEF WorkerReceive, UnderWay, OneStage
    <3>2. ~InFlight(d)
      <4>1. SUFFICES ASSUME NEW e \in executing, TaskOfDispatch(e) = TaskOfDispatch(d)
                     PROVE  FALSE
        BY DEF InFlight
      <4>2. e \in UnderWay
        BY DEF UnderWay
      <4>3. e = d
        BY <3>1, <4>1, <4>2, OneDispatch
      <4>4. QED
        BY <3>1, <4>3
    <3>3. acks' = acks \cup {d} /\ d \in OwedIds'
      BY <2>5, <3>2 DEF WorkerReceive, OwedIds
    <3>4. QED
      BY <2>1, <2>2, <2>3, <3>3 DEF AckedOwed
  <2>6. QED
    BY <1>8, <2>4, <2>5 DEF Workers, WorkerFinishes, WorkerInterrupted, WorkerFails, WorkerReports, WorkerRepeats,
         WorkerCrashes, LoseFrame, LoseAck
<1>9. QED
  BY <1>4, <1>5, <1>6, <1>7, <1>8 DEF Next

\* A run that facade.cancel_run cancelled is over before its queue is flushed.
LEMMA CancelledEndedStep ==
  ASSUME OnceInv, CancelledEnded, Next
  PROVE  CancelledEnded'
<1> USE DEF stateVars, ackVars, readyVars, wireVars, schedulerVars
<1>1. cancelling \subseteq Run /\ runStatus \in [Run -> RunStatus]
  BY DEF OnceInv, IndInv, TypeOK, OtherTypes, RecordTypes
<1>2. CASE cancelling' \subseteq cancelling
  BY <1>1, <1>2, LiveRuns DEF CancelledEnded, Live
<1>3. ASSUME NEW r \in Run, CancelRun(r)
      PROVE  CancelledEnded'
  <2>1. cancelling' = cancelling \cup {r} /\ runStatus'[r] \in Final
    BY <1>1, <1>3 DEF CancelRun, Final
  <2>2. QED
    BY <1>1, <2>1, LiveRuns DEF CancelledEnded, Live
<1>4. CASE Dispatcher
  BY <1>2, <1>4 DEF Dispatcher, SkipFinal, NoWorker, InvalidPayload, StartSend, Transmit,
                          SendFails, BackoffOver, MarkDispatched, RegisterWaiter, TakeRequest
<1>5. CASE AckHandling
  BY <1>2, <1>5 DEF AckHandling, HandleAck, MarkAcknowledged, AckTimeout, RetryAfterTimeout,
                    RequeueAfterTimeout
<1>6. CASE ResultHandling
  BY <1>2, <1>6 DEF ResultHandling, CollectReady, EnqueueReady, HandleResult, HandleCancelled,
                    HandleError, Deliver
<1>7. CASE Cancellation
  BY <1>2, <1>3, <1>7 DEF Cancellation, FlushCancelled, CancelFinalRun
<1>8. CASE Workers
  BY <1>2, <1>8 DEF Workers, WorkerReceive, WorkerInterrupted, WorkerFails, LoseFrame, LoseAck,
                    WorkerFinishes, WorkerReports, WorkerRepeats, WorkerCrashes
<1>9. QED
  BY <1>4, <1>5, <1>6, <1>7, <1>8 DEF Next

\* Every step leaves every task of a live run with its claim.
LEMMA RememberedStep ==
  ASSUME AnsweringFaults, MemoryInv, NoErrors, Next
  PROVE  AllRemembered'
<1>0. OnceOnlyFaults /\ OnceInv /\ AllRemembered /\ AckedOwed /\ CancelledEnded
  BY DEF AnsweringFaults, MemoryInv, AllRemembered
<1>1. Grounds /\ LiveBefore
  BY <1>0, CommonGrounds
<1>2. CASE MovesOn
  BY <1>0, <1>1, <1>2, MovingOnRemembers
<1>3. CASE Dispatcher
  BY <1>0, <1>2, <1>3, MemoryDispatcherMoves, MemoryMarked
<1>4. CASE AckHandling
  <2>1. ASSUME NEW d \in Did, HandleAck(d) \/ MarkAcknowledged(d)
        PROVE  AllRemembered'
    BY <1>0, <2>1, MemoryAcked
  <2>2. ASSUME NEW d \in Did, AckTimeout(d)
        PROVE  AllRemembered'
    BY <1>0, <2>2, MemoryTimedOut
  <2>3. ASSUME NEW w \in retrying, RetryAfterTimeout(w) \/ RequeueAfterTimeout(w)
        PROVE  AllRemembered'
    BY <1>0, <1>2, <2>3, MemoryRetries
  <2>4. QED
    BY <1>4, <2>1, <2>2, <2>3 DEF AckHandling
<1>5. CASE ResultHandling
  <2>1. ASSUME NEW r \in Run, CollectReady(r)
        PROVE  AllRemembered'
    BY <1>0, <2>1, MemoryCollected
  <2>2. ASSUME NEW s \in handoff, EnqueueReady(s)
        PROVE  AllRemembered'
    BY <1>0, <1>2, <2>2, MemoryHanded
  <2>3. ASSUME NEW m \in replies, HandleResult(m)
        PROVE  AllRemembered'
    <3>1. CASE Live(RunOf[TaskOfDispatch(m.did)])
      BY <1>0, <2>3, <3>1, MemoryReported
    <3>2. CASE ~Live(RunOf[TaskOfDispatch(m.did)])
      <4>1. MovesOn
        BY <1>0, <2>3, <3>2, MemoryIgnored
      <4>2. QED
        BY <1>2, <4>1
    <3>3. QED
      BY <3>1, <3>2
  <2>4. ASSUME NEW m \in replies, HandleCancelled(m)
        PROVE  AllRemembered'
    BY <1>0, <2>4, MemoryCancelled
  <2>5. ASSUME NEW m \in replies, HandleError(m)
        PROVE  FALSE
    BY <2>5 DEF NoErrors, HandleError, Deliver
  <2>6. QED
    BY <1>5, <2>1, <2>2, <2>3, <2>4, <2>5 DEF ResultHandling
<1>6. CASE Cancellation
  BY <1>0, <1>2, <1>6, MemoryCancellation
<1>7. CASE Workers
  BY <1>0, <1>2, <1>7, MemoryWorkers
<1>8. QED
  BY <1>3, <1>4, <1>5, <1>6, <1>7 DEF Next

\* At first every task waits for the first collection of its run.
LEMMA MemoryInvInit == Init => MemoryInv
<1> SUFFICES ASSUME Init PROVE MemoryInv
  OBVIOUS
<1>1. OnceInv
  BY OnceInvInit
<1>2. /\ collecting = Run /\ cancelling = {} /\ pendingAcks = {} /\ runner.pc = "idle"
      /\ acks = {} /\ acking = {} /\ node = [t \in Task |-> NewNode(t)]
  BY DEF Init, Idle
<1>3. AckedOwed /\ CancelledEnded
  BY <1>2 DEF AckedOwed, CancelledEnded
<1>4. ASSUME NEW t \in Task
      PROVE  Remembered(t)
  <2>1. /\ node[t].status = "queued" /\ ~node[t].enqueued /\ node[t].pending = Cardinality(Deps[t])
    BY <1>2 DEF NewNode
  <2>2. RunOf[t] \in collecting /\ Deps[t] \in SUBSET Task /\ \A u \in Deps[t] : u \in Task
    BY <1>2, ConstantsAssumption DEF ConstantsAssumption
  <2>3. Undone(t) = Deps[t]
    <3>1. \A u \in Deps[t] : node[u].status = "queued"
      BY <1>2, <2>2 DEF NewNode
    <3>2. QED
      BY <3>1 DEF Undone, Done
  <2>4. Cardinality(Deps[t]) \in Nat
    BY <2>2, ReadyIsFinite
  <2>5. CountsExactly(t)
    BY <2>1, <2>3, <2>4 DEF CountsExactly
  <2>6. QueuedKept(t) /\ RunningOwed(t)
    BY <2>1, <2>2 DEF QueuedKept, RunningOwed
  <2>7. TimedRuns(t)
    BY <1>2 DEF TimedRuns, TimedIds
  <2>8. QED
    BY <2>5, <2>6, <2>7 DEF Remembered
<1>5. QED
  BY <1>1, <1>3, <1>4 DEF MemoryInv

\* Together: with OnceInvStep, MemoryInv is inductive.
LEMMA MemoryInvStep == AnsweringFaults /\ MemoryInv /\ NoErrors /\ [Next]_vars => MemoryInv'
<1> SUFFICES ASSUME AnsweringFaults, MemoryInv, NoErrors, [Next]_vars PROVE MemoryInv'
  OBVIOUS
<1>1. OnceInv'
  BY OnceInvStep DEF MemoryInv, AnsweringFaults
<1>2. CASE Next
  <2>1. AllRemembered'
    BY <1>2, RememberedStep
  <2>2. AckedOwed' /\ CancelledEnded'
    BY <1>2, AckedOwedStep, CancelledEndedStep DEF MemoryInv
  <2>3. QED
    BY <1>1, <2>1, <2>2 DEF MemoryInv, AllRemembered
<1>3. CASE UNCHANGED vars
  <2>1. UNCHANGED <<runStatus, node, requests, queue, runner, pendingAcks, acking, retrying, handoff,
                    collecting, cancelling, dispatches, acks, executing, replies>>
    BY <1>3 DEF vars, stateVars, ackVars, readyVars, wireVars
  <2>2. AckedOwed' /\ CancelledEnded'
    BY <2>1 DEF MemoryInv, AckedOwed, CancelledEnded, OwedIds, AnsweredIds, SendingIds, Live
  <2>3. ASSUME NEW t \in Task, Live(RunOf[t])'
        PROVE  Remembered(t)'
    <3>1. Remembered(t)
      BY <2>1, <2>3 DEF MemoryInv, Live
    <3>2. TimedIds' = TimedIds /\ OwedIds' = OwedIds /\ Undone(t)' = Undone(t)
      BY <2>1 DEF TimedIds, OwedIds, AnsweredIds, Undone
    <3>3. CountsExactly(t)' /\ TimedRuns(t)' /\ RunningOwed(t)'
      BY <2>1, <3>1, <3>2 DEF Remembered, CountsExactly, TimedRuns, RunningOwed, TaskOfDispatch
    <3>4. QueuedKept(t)'
      BY <2>1, <3>1, <3>2 DEF Remembered, QueuedKept, TaskOfRequest, Holds
    <3>5. QED
      BY <3>1, <3>3, <3>4 DEF Remembered
  <2>4. QED
    BY <1>1, <2>2, <2>3 DEF MemoryInv
<1>4. QED
  BY <1>2, <1>3

\* A claim is what NoTaskForgotten asks for.
LEMMA ClaimsSuffice == MemoryInv => NoTaskForgotten
<1> SUFFICES ASSUME MemoryInv, NEW t \in Task, Live(RunOf[t])
             PROVE  /\ node[t].status = "queued" =>
                         \/ ~node[t].enqueued /\ node[t].pending > 0
                              /\ \E u \in Deps[t] : node[u].status \notin Done
                         \/ ~node[t].enqueued /\ RunOf[t] \in collecting
                         \/ node[t].enqueued /\ \E q \in 1..Len(requests) : TaskOfRequest(q) = t /\ Holds(q)
                    /\ node[t].status = "running" =>
                         \/ node[t].pendingAck /\ (\/ node[t].did \in pendingAcks \cup acking
                                                   \/ runner.pc = "marked" /\ runner.did = node[t].did)
                         \/ OutstandingAtWorker(t)
  BY DEF NoTaskForgotten
<1>1. Remembered(t) /\ OnceInv
  BY DEF MemoryInv
<1>2. node[t] \in NodeType
  BY <1>1 DEF OnceInv, IndInv, TypeOK, RecordTypes
<1>3. ASSUME node[t].status = "queued", ~node[t].enqueued, RunOf[t] \notin collecting
      PROVE  node[t].pending > 0 /\ \E u \in Deps[t] : node[u].status \notin Done
  <2>1. Undone(t) # {}
    BY <1>1, <1>3 DEF Remembered, QueuedKept
  <2>2. \E u \in Deps[t] : node[u].status \notin Done
    BY <2>1 DEF Undone
  <2>3. Cardinality(Undone(t)) \in Nat /\ Cardinality(Undone(t)) # 0
    BY <2>2, UndoneType
  <2>4. Cardinality(Undone(t)) <= node[t].pending /\ node[t].pending \in Nat
    BY <1>1, <1>2, <1>3 DEF OnceInv, PendingCounts, NodeType
  <2>5. QED
    BY <2>2, <2>3, <2>4
<1>4. ASSUME node[t].status = "running"
      PROVE  \/ node[t].pendingAck /\ (\/ node[t].did \in pendingAcks \cup acking
                                       \/ runner.pc = "marked" /\ runner.did = node[t].did)
             \/ OutstandingAtWorker(t)
  <2>1. PICK d \in TimedIds \cup OwedIds : TaskOfDispatch(d) = t
    BY <1>1, <1>4 DEF Remembered, RunningOwed
  <2>2. CASE d \in TimedIds
    <3>1. node[t].did = d /\ node[t].pendingAck
      BY <1>1, <2>1, <2>2 DEF Remembered, TimedRuns
    <3>2. QED
      BY <2>2, <3>1 DEF TimedIds
  <2>3. CASE d \in OwedIds
    BY <2>1, <2>3 DEF OwedIds, AnsweredIds, OutstandingAtWorker
  <2>4. QED
    BY <2>1, <2>2, <2>3
<1>5. QED
  BY <1>1, <1>3, <1>4 DEF Remembered, QueuedKept

\* No task of a live run is forgotten: a queued task waits for a dependency, for
\* the next collection or has its request on the way to the dispatcher; a running
\* task has an ack timer or is owed a worker's report.  Whatever is sent again,
\* lost, cancelled or given up, as long as workers answer what they took, and not
\* with an error the scheduler would take for another task's.
THEOREM NothingForgotten ==
  ASSUME AnsweringFaults
  PROVE  Spec => []NoTaskForgotten
<1>1. AnsweringFaults /\ "worker_error" \notin Faults
  BY DEF AnsweringFaults
<1>2. Init => NoErrors
  BY DEF Init, NoErrors
<1>3. NoErrors /\ [Next]_vars => NoErrors'
  BY <1>1, NoErrorsStep
<1>4. MemoryInv /\ NoErrors /\ [Next]_vars => MemoryInv'
  BY <1>1, MemoryInvStep
<1>5. QED
  BY <1>2, <1>3, <1>4, MemoryInvInit, ClaimsSuffice, PTL DEF Spec

=============================================================================
