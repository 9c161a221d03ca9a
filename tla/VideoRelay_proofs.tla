-------------------------- MODULE VideoRelay_proofs --------------------------
(* Theorems about VideoRelay, for every set of subscribers and producers and   *)
(* every queue size.                                                           *)
EXTENDS VideoRelay, TLAPS

-----------------------------------------------------------------------------
(* The queue: put_nowait with drop-oldest. *)

\* PutLatest keeps a bounded queue bounded and leaves the new item last.
LEMMA PutLatestType ==
  ASSUME NEW q \in Seq(Items), Len(q) <= QueueMax, NEW x \in Items
  PROVE  /\ PutLatest(q, x) \in Seq(Items)
         /\ Len(PutLatest(q, x)) <= QueueMax
         /\ PutLatest(q, x) # <<>>
         /\ PutLatest(q, x)[Len(PutLatest(q, x))] = x
<1>0. QueueMax \in Nat \ {0}
  BY ConstantsAssumption
<1>1. CASE Len(q) < QueueMax
  <2>1. PutLatest(q, x) = Append(q, x)
    BY <1>1 DEF PutLatest
  <2> QED
    BY <1>0, <1>1, <2>1
<1>2. CASE ~(Len(q) < QueueMax)
  <2>1. PutLatest(q, x) = Append(Tail(q), x)
    BY <1>2 DEF PutLatest
  <2>2. q # <<>> /\ Len(q) = QueueMax
    BY <1>0, <1>2
  <2>3. Tail(q) \in Seq(Items) /\ Len(Tail(q)) = Len(q) - 1
    BY <2>2
  <2> QED
    BY <1>0, <2>1, <2>2, <2>3
<1> QED
  BY <1>1, <1>2

-----------------------------------------------------------------------------
(* Type correctness. *)

USE DEF SubStates, ThreadCalls, PcStates, taskVars, subscriberVars

LEMMA InitType == Init => TypeOK
<1> SUFFICES ASSUME Init PROVE TypeOK
  OBVIOUS
<1> QED
  BY ConstantsAssumption DEF Init, TypeOK

LEMMA UnregisterType ==
  ASSUME TypeOK, NEW c \in Subscribers, UnregisterQueue(c)
  PROVE  /\ sub' \in [Subscribers -> SubStates]
         /\ waitFor' \in [Subscribers -> Producers \cup {NoProducer}]
         /\ \A d \in Subscribers : sub'[d] = "leaving" => waitFor'[d] \in Producers
         /\ queue' \in [Subscribers -> Seq(Items)]
         /\ \A d \in Subscribers : Len(queue'[d]) <= QueueMax
         /\ last' \in [Subscribers -> 0..MaxFrame]
         /\ queues' \subseteq Subscribers
         /\ producer' \in Producers \cup {NoProducer}
         /\ cancelReq' \subseteq Producers
<1>0. QueueMax \in Nat \ {0} /\ MaxFrame \in Nat \ {0}
  BY ConstantsAssumption
<1>1. queue' \in [Subscribers -> Seq(Items)]
      /\ \A d \in Subscribers : Len(queue'[d]) <= QueueMax
  BY <1>0 DEF TypeOK, UnregisterQueue, Items
<1>2. last' \in [Subscribers -> 0..MaxFrame] /\ queues' \subseteq Subscribers
  BY <1>0 DEF TypeOK, UnregisterQueue
<1>3. CASE LastToLeave(c)
  <2>1. producer \in Producers
    BY <1>3 DEF TypeOK, LastToLeave
  <2>2. /\ sub' = [sub EXCEPT ![c] = "leaving"]
        /\ waitFor' = [waitFor EXCEPT ![c] = producer]
        /\ producer' = NoProducer
        /\ cancelReq' \subseteq cancelReq \cup {producer}
    BY <1>3 DEF UnregisterQueue, RequestCancel
  <2> QED
    BY <1>1, <1>2, <2>1, <2>2 DEF TypeOK
<1>4. CASE ~LastToLeave(c)
  <2>1. sub' = [sub EXCEPT ![c] = "idle"] /\ UNCHANGED <<waitFor, producer, cancelReq>>
    BY <1>4 DEF UnregisterQueue
  <2> QED
    BY <1>1, <1>2, <2>1 DEF TypeOK
<1> QED
  BY <1>3, <1>4

LEMMA PutAllType ==
  ASSUME TypeOK, NEW x \in Items, PutAll(x)
  PROVE  /\ queue' \in [Subscribers -> Seq(Items)]
         /\ \A d \in Subscribers : Len(queue'[d]) <= QueueMax
<1>1. ASSUME NEW d \in Subscribers
      PROVE  queue'[d] \in Seq(Items) /\ Len(queue'[d]) <= QueueMax
  <2>1. queue[d] \in Seq(Items) /\ Len(queue[d]) <= QueueMax
    BY DEF TypeOK
  <2>2. PutLatest(queue[d], x) \in Seq(Items) /\ Len(PutLatest(queue[d], x)) <= QueueMax
    BY <2>1, PutLatestType
  <2> QED
    BY <2>1, <2>2 DEF PutAll
<1>2. queue' = [d \in Subscribers |-> queue'[d]]
  BY DEF PutAll
<1> QED
  BY <1>1, <1>2

LEMMA AwaitType ==
  ASSUME TypeOK, NEW p \in Producers, NEW next \in PcStates, NEW ended,
         Await(p, next, ended)
  PROVE  /\ pc' \in [Producers -> PcStates]
         /\ inflight' \in [Producers -> SUBSET ThreadCalls]
BY DEF TypeOK, Await

LEMMA SubscriberType ==
  ASSUME TypeOK, NEW c \in Subscribers, SubscriberStep(c)
  PROVE  TypeOK'
<1>0. QueueMax \in Nat \ {0} /\ MaxFrame \in Nat \ {0} /\ BackoffInitial \in Nat \ {0}
  BY ConstantsAssumption
<1>1. CASE Subscribe(c)
  <2>1. /\ producer' \in Producers \cup {NoProducer}
        /\ pc' \in [Producers -> PcStates]
        /\ backoff' \in [Producers -> Nat \ {0}]
    <3>1. CASE ProducerRuns
      BY <1>1, <3>1 DEF TypeOK, Subscribe
    <3>2. CASE ~ProducerRuns
      <4>1. PICK p \in Producers : /\ producer' = p
                                   /\ pc' = [pc EXCEPT ![p] = "new"]
                                   /\ backoff' = [backoff EXCEPT ![p] = BackoffInitial]
        BY <1>1, <3>2 DEF Subscribe
      <4> QED
        BY <1>0, <4>1 DEF TypeOK
    <3> QED
      BY <3>1, <3>2
  <2>2. /\ sub' \in [Subscribers -> SubStates]
        /\ \A d \in Subscribers : sub'[d] = "leaving" => waitFor'[d] \in Producers
    BY <1>1 DEF TypeOK, Subscribe
  <2> QED
    BY <1>1, <2>1, <2>2 DEF TypeOK, Subscribe
<1>2. CASE ReceiveFrame(c)
  <2>1. queue[c] \in Seq(Items) /\ queue[c] # <<>> /\ Len(queue[c]) <= QueueMax
    BY <1>2 DEF TypeOK, ReceiveFrame
  <2>2. /\ Tail(queue[c]) \in Seq(Items)
        /\ Len(Tail(queue[c])) <= QueueMax
        /\ Head(queue[c]) \in Items
    BY <1>0, <2>1
  <2>3. Head(queue[c]) \in 0..MaxFrame
    BY <1>0, <1>2, <2>2 DEF ReceiveFrame, Items
  <2> QED
    BY <1>2, <2>2, <2>3 DEF TypeOK, ReceiveFrame, Items
<1>3. CASE ReceiveEof(c) \/ DisconnectInGet(c) \/ FinalizeGenerator(c)
  <2>1. UnregisterQueue(c) /\ UNCHANGED <<pc, inflight, backoff, frame, clock>>
    BY <1>3 DEF ReceiveEof, DisconnectInGet, FinalizeGenerator
  <2> QED
    BY <2>1, UnregisterType DEF TypeOK
<1>4. CASE Sent(c) \/ DisconnectInSend(c)
  BY <1>4 DEF TypeOK, Sent, DisconnectInSend
<1>5. CASE Leave(c)
  BY <1>5 DEF TypeOK, Leave
<1>6. CASE CancelAgain(c)
  BY <1>6 DEF TypeOK, CancelAgain, RequestCancel
<1> QED
  BY <1>1, <1>2, <1>3, <1>4, <1>5, <1>6 DEF SubscriberStep

LEMMA ProducerType ==
  ASSUME TypeOK, NEW p \in Producers, ProducerTask(p)
  PROVE  TypeOK'
<1>0. /\ QueueMax \in Nat \ {0} /\ MaxFrame \in Nat \ {0} /\ BackoffInitial \in Nat \ {0}
      /\ BackoffMax \in Nat \ {0} /\ Faults \subseteq ThreadCalls
  BY ConstantsAssumption
<1>1. CASE StartTask(p)
  <2>1. PICK next \in PcStates : Await(p, next, {})
    BY <1>1 DEF StartTask, LoopTop
  <2> QED
    BY <1>1, <2>1, AwaitType DEF TypeOK, StartTask
<1>2. CASE CaptureCreated(p) \/ CaptureNotOpened(p) \/ FrameMissing(p)
           \/ CaptureDropped(p) \/ CaptureReleased(p)
  <2>1. PICK next \in PcStates, ended \in SUBSET ThreadCalls : Await(p, next, ended)
    BY <1>2 DEF CaptureCreated, CaptureNotOpened, FrameMissing, CaptureDropped, CaptureReleased
  <2>2. UNCHANGED <<subscriberVars, cancelReq, backoff, frame, clock>>
    BY <1>2 DEF CaptureCreated, CaptureNotOpened, FrameMissing, CaptureDropped, CaptureReleased
  <2> QED
    BY <2>1, <2>2, AwaitType DEF TypeOK
<1>3. CASE CaptureOpened(p)
  <2>1. Await(p, "read", {"probe"})
    BY <1>3 DEF CaptureOpened
  <2> QED
    BY <1>0, <1>3, <2>1, AwaitType DEF TypeOK, CaptureOpened
<1>4. CASE FrameRead(p)
  <2>1. Await(p, "encode", {"read"})
    BY <1>4 DEF FrameRead
  <2>2. NextFrame \in 0..MaxFrame
    BY <1>0 DEF TypeOK, NextFrame
  <2> QED
    BY <1>4, <2>1, <2>2, AwaitType DEF TypeOK, FrameRead
<1>5. CASE BackoffElapsed(p)
  <2>1. PICK next \in PcStates : Await(p, next, {})
    BY <1>5 DEF BackoffElapsed, LoopTop
  <2>2. Smaller(backoff[p] * 2, BackoffMax) \in Nat \ {0}
    BY <1>0 DEF TypeOK, Smaller
  <2>3. backoff' \in [Producers -> Nat \ {0}]
    BY <1>5, <2>2 DEF TypeOK, BackoffElapsed
  <2> QED
    BY <1>5, <2>1, <2>3, AwaitType DEF TypeOK, BackoffElapsed
<1>6. CASE FrameEncoded(p)
  <2>1. PICK next \in PcStates : Await(p, next, {"encode"})
    BY <1>6 DEF FrameEncoded, LoopTop
  <2>2. frame[p] \in Items
    BY DEF TypeOK, Items
  <2>3. PutAll(frame[p])
    BY <1>6 DEF FrameEncoded
  <2>4. backoff' \in [Producers -> Nat \ {0}]
    BY <1>0, <1>6 DEF TypeOK, FrameEncoded
  <2> QED
    BY <1>6, <2>1, <2>2, <2>3, <2>4, AwaitType, PutAllType DEF TypeOK, FrameEncoded
<1>7. CASE FrameNotEncoded(p)
  <2>1. PICK next \in PcStates : Await(p, next, {"encode"})
    BY <1>7 DEF FrameNotEncoded, LoopTop
  <2> QED
    BY <1>7, <2>1, AwaitType DEF TypeOK, FrameNotEncoded
<1>8. CASE ProducerFails(p)
  <2>1. PICK next \in PcStates : Await(p, next, {pc[p]})
    BY <1>8 DEF ProducerFails, Finish
  <2>2. PutAll(EOF) /\ EOF \in Items
    BY <1>8 DEF ProducerFails, Items
  <2> QED
    BY <1>8, <2>1, <2>2, AwaitType, PutAllType DEF TypeOK, ProducerFails
<1>9. CASE DeliverCancel(p)
  <2>1. PICK next \in PcStates : Await(p, next, {})
    BY <1>9 DEF DeliverCancel, Finish
  <2> QED
    BY <1>9, <2>1, AwaitType DEF TypeOK, DeliverCancel
<1> QED
  BY <1>1, <1>2, <1>3, <1>4, <1>5, <1>6, <1>7, <1>8, <1>9 DEF ProducerTask

LEMMA ThreadType ==
  ASSUME TypeOK, NEW p \in Producers, NEW call \in ThreadCalls, AbandonedCallEnds(p, call)
  PROVE  TypeOK'
BY DEF TypeOK, AbandonedCallEnds

LEMMA NextType == TypeOK /\ [Next]_vars => TypeOK'
<1>1. ASSUME TypeOK, Next PROVE TypeOK'
  BY <1>1, SubscriberType, ProducerType, ThreadType DEF Next
<1>2. ASSUME TypeOK, UNCHANGED vars PROVE TypeOK'
  BY <1>2 DEF TypeOK, vars
<1> QED
  BY <1>1, <1>2

\* Every variable of the relay keeps its type; queues never outgrow their limit.
THEOREM TypeCorrect == Spec => []TypeOK
BY InitType, NextType, PTL DEF Spec

-----------------------------------------------------------------------------
(* Producers and audience.  OneActiveProducer is not inductive: a subscriber   *)
(* that cancels self._producer must leave no other task active, and a new task *)
(* must not inherit a cancellation or a thread.                                *)

\* self._queues holds the queues of the subscriptions that have not ended.
Registration ==
  \A c \in Subscribers : c \in queues <=> sub[c] \in {"get", "send", "gone"}

\* Nobody waits for the current producer, and it has no cancellation pending;
\* the only thread working for it is the one it awaits.
CurrentProducer ==
  /\ \A c \in Subscribers : sub[c] = "leaving" => waitFor[c] # producer
  /\ \A p \in Producers : p = producer => p \notin cancelReq /\ inflight[p] \subseteq {pc[p]}

\* A finished task keeps no cancellation.
EndedTasks == \A p \in Producers : pc[p] = "done" => p \notin cancelReq

ControlInv ==
  /\ Registration
  /\ CurrentProducer
  /\ EndedTasks
  /\ ProducerServesAudience
  /\ OneActiveProducer

USE DEF Working

LEMMA InitControl == Init => ControlInv
BY DEF Init, ControlInv, Registration, CurrentProducer, EndedTasks,
       ProducerServesAudience, OneActiveProducer

LEMMA SubscribeControl ==
  ASSUME TypeOK, ControlInv, NEW c \in Subscribers, Subscribe(c)
  PROVE  ControlInv'
<1> USE DEF ControlInv
<1>0. /\ sub' = [sub EXCEPT ![c] = "get"]
      /\ queues' = queues \cup {c}
      /\ UNCHANGED <<waitFor, cancelReq, inflight>>
  BY DEF Subscribe
<1>1. Registration'
  BY <1>0 DEF Registration, TypeOK
<1>2. CASE ProducerRuns
  <2>1. UNCHANGED <<producer, pc>> /\ producer # NoProducer
    BY <1>2, ConstantsAssumption DEF Subscribe, ProducerRuns
  <2>2. ProducerServesAudience'
    BY <1>0, <2>1 DEF ProducerServesAudience
  <2>3. CurrentProducer'
    BY <1>0, <2>1 DEF CurrentProducer, TypeOK
  <2>4. EndedTasks' /\ OneActiveProducer'
    BY <1>0, <2>1 DEF EndedTasks, OneActiveProducer
  <2> QED
    BY <1>1, <2>2, <2>3, <2>4
<1>3. CASE ~ProducerRuns
  <2>1. PICK p \in Producers : Fresh(p) /\ producer' = p /\ pc' = [pc EXCEPT ![p] = "new"]
    BY <1>3 DEF Subscribe
  <2>2. ProducerServesAudience'
    BY <1>0, <2>1, ConstantsAssumption DEF ProducerServesAudience
  <2>3. CurrentProducer'
    BY <1>0, <2>1 DEF CurrentProducer, EndedTasks, Fresh, TypeOK
  <2>4. EndedTasks'
    BY <1>0, <2>1 DEF EndedTasks, TypeOK
  <2>5. ASSUME NEW q \in Producers, pc'[q] \in Working, q \notin cancelReq', q # p
        PROVE  FALSE
    <3>1. pc[q] \in Working /\ q \notin cancelReq
      BY <1>0, <2>1, <2>5 DEF TypeOK
    <3>2. q = producer
      BY <3>1 DEF OneActiveProducer
    <3> QED
      BY <1>3, <3>1, <3>2 DEF ProducerRuns
  <2>6. OneActiveProducer'
    BY <2>1, <2>5 DEF OneActiveProducer
  <2> QED
    BY <1>1, <2>2, <2>3, <2>4, <2>6
<1> QED
  BY <1>2, <1>3

LEMMA UnregisterControl ==
  ASSUME TypeOK, ControlInv, NEW c \in Subscribers, UnregisterQueue(c),
         sub[c] \in {"get", "gone"}, UNCHANGED <<pc, inflight>>
  PROVE  ControlInv'
<1> USE DEF ControlInv
<1>0. queues' = queues \ {c} /\ c \in queues
  BY DEF UnregisterQueue, Registration
<1>1. producer \in Producers
  BY <1>0 DEF ProducerServesAudience, TypeOK
<1>2. CASE LastToLeave(c)
  <2>1. /\ sub' = [sub EXCEPT ![c] = "leaving"]
        /\ waitFor' = [waitFor EXCEPT ![c] = producer]
        /\ producer' = NoProducer
        /\ queues' = {}
        /\ cancelReq' = IF pc[producer] = "done" THEN cancelReq ELSE cancelReq \cup {producer}
    BY <1>0, <1>2 DEF UnregisterQueue, LastToLeave, RequestCancel
  <2>2. Registration'
    BY <1>0, <2>1 DEF Registration, TypeOK
  <2>3. CurrentProducer'
    BY <1>1, <2>1, ConstantsAssumption DEF CurrentProducer, TypeOK
  <2>4. EndedTasks'
    BY <2>1 DEF EndedTasks
  <2>5. ProducerServesAudience'
    BY <2>1 DEF ProducerServesAudience
  <2>6. OneActiveProducer'
    BY <2>1 DEF OneActiveProducer
  <2> QED
    BY <2>2, <2>3, <2>4, <2>5, <2>6
<1>3. CASE ~LastToLeave(c)
  <2>1. /\ sub' = [sub EXCEPT ![c] = "idle"]
        /\ UNCHANGED <<waitFor, producer, cancelReq>>
    BY <1>3 DEF UnregisterQueue
  <2>2. queues' # {}
    BY <1>0, <1>1, <1>3, ConstantsAssumption DEF LastToLeave
  <2>3. Registration'
    BY <1>0, <2>1 DEF Registration, TypeOK
  <2>4. CurrentProducer' /\ EndedTasks' /\ OneActiveProducer'
    BY <2>1 DEF CurrentProducer, EndedTasks, OneActiveProducer, TypeOK
  <2>5. ProducerServesAudience'
    BY <1>1, <2>1, <2>2, ConstantsAssumption DEF ProducerServesAudience
  <2> QED
    BY <2>3, <2>4, <2>5
<1> QED
  BY <1>2, <1>3

LEMMA SubscriberControl ==
  ASSUME TypeOK, ControlInv, NEW c \in Subscribers, SubscriberStep(c)
  PROVE  ControlInv'
<1> USE DEF ControlInv
<1>1. CASE ReceiveEof(c) \/ DisconnectInGet(c) \/ FinalizeGenerator(c)
  <2>1. /\ UnregisterQueue(c) /\ sub[c] \in {"get", "gone"}
        /\ UNCHANGED <<pc, inflight>>
    BY <1>1 DEF ReceiveEof, DisconnectInGet, FinalizeGenerator
  <2> QED
    BY <2>1, UnregisterControl
<1>2. CASE ReceiveFrame(c) \/ Sent(c) \/ DisconnectInSend(c)
  <2>1. /\ sub[c] \in {"get", "send"}
        /\ \E s \in {"get", "send", "gone"} : sub' = [sub EXCEPT ![c] = s]
        /\ UNCHANGED <<waitFor, queues, producer, pc, cancelReq, inflight>>
    BY <1>2 DEF ReceiveFrame, Sent, DisconnectInSend
  <2>2. Registration' /\ CurrentProducer'
    BY <2>1 DEF Registration, CurrentProducer, TypeOK
  <2>3. EndedTasks' /\ OneActiveProducer' /\ ProducerServesAudience'
    BY <2>1 DEF EndedTasks, OneActiveProducer, ProducerServesAudience
  <2> QED
    BY <2>2, <2>3
<1>3. CASE Leave(c)
  <2>1. /\ sub' = [sub EXCEPT ![c] = "idle"] /\ sub[c] = "leaving"
        /\ waitFor' = [waitFor EXCEPT ![c] = NoProducer]
        /\ UNCHANGED <<queues, producer, pc, cancelReq, inflight>>
    BY <1>3 DEF Leave
  <2>2. Registration' /\ CurrentProducer'
    BY <2>1 DEF Registration, CurrentProducer, TypeOK
  <2>3. EndedTasks' /\ OneActiveProducer' /\ ProducerServesAudience'
    BY <2>1 DEF EndedTasks, OneActiveProducer, ProducerServesAudience
  <2> QED
    BY <2>2, <2>3
<1>4. CASE CancelAgain(c)
  <2>1. /\ sub[c] = "leaving" /\ pc[waitFor[c]] # "done"
        /\ cancelReq' = cancelReq \cup {waitFor[c]}
        /\ UNCHANGED <<sub, waitFor, queues, producer, pc, inflight>>
    BY <1>4 DEF CancelAgain, RequestCancel
  <2>2. Registration' /\ ProducerServesAudience' /\ EndedTasks' /\ OneActiveProducer'
    BY <2>1 DEF Registration, ProducerServesAudience, EndedTasks, OneActiveProducer
  <2>3. CurrentProducer'
    BY <2>1 DEF CurrentProducer
  <2> QED
    BY <2>2, <2>3
<1> QED
  BY <1>1, <1>2, <1>3, <1>4, SubscribeControl DEF SubscriberStep

\* The body of the loop goes on to another location, having got the result of
\* the call it awaited, if any.
LEMMA AwaitControl ==
  ASSUME TypeOK, ControlInv, NEW p \in Producers, NEW next \in PcStates, NEW ended,
         Await(p, next, ended), p \notin cancelReq,
         pc[p] \in ended \cup {"new", "sleep"},
         pc[p] \in Working \/ next = "done",
         UNCHANGED <<sub, waitFor, queues, producer, cancelReq>>
  PROVE  ControlInv'
<1> USE DEF ControlInv
<1>1. Registration' /\ ProducerServesAudience'
  BY DEF Registration, ProducerServesAudience
<1>2. ASSUME p = producer
      PROVE  inflight'[p] \subseteq {pc'[p]}
  <2>1. inflight[p] \subseteq {pc[p]} /\ inflight[p] \subseteq ThreadCalls
    BY <1>2 DEF CurrentProducer, TypeOK
  <2>2. inflight[p] \ ended = {}
    BY <2>1
  <2>3. inflight'[p] = {next} \cap ThreadCalls /\ pc'[p] = next
    BY <2>2 DEF Await, TypeOK
  <2> QED
    BY <2>3
<1>3. \A q \in Producers : q # p => pc'[q] = pc[q] /\ inflight'[q] = inflight[q]
  BY DEF Await, TypeOK
<1>4. CurrentProducer'
  BY <1>2, <1>3 DEF CurrentProducer
<1>5. EndedTasks'
  BY <1>3 DEF EndedTasks
<1>6. OneActiveProducer'
  <2>1. CASE next = "done"
    <3>1. pc'[p] = "done"
      BY <2>1 DEF Await, TypeOK
    <3> QED
      BY <1>3, <3>1 DEF OneActiveProducer
  <2>2. CASE pc[p] \in Working
    BY <1>3, <2>2 DEF OneActiveProducer
  <2> QED
    BY <2>1, <2>2
<1> QED
  BY <1>1, <1>4, <1>5, <1>6

LEMMA CancelControl ==
  ASSUME TypeOK, ControlInv, NEW p \in Producers, DeliverCancel(p)
  PROVE  ControlInv'
<1> USE DEF ControlInv
<1>0. /\ p \in cancelReq /\ cancelReq' = cancelReq \ {p}
      /\ UNCHANGED <<sub, waitFor, queues, producer>>
  BY DEF DeliverCancel
<1>1. PICK next \in {"final", "done"} : Await(p, next, {})
  BY DEF DeliverCancel, Finish
<1>2. p # producer
  BY <1>0 DEF CurrentProducer
<1>3. \A q \in Producers : q # p => pc'[q] = pc[q] /\ inflight'[q] = inflight[q]
  BY <1>1 DEF Await, TypeOK
<1>4. pc'[p] \in {"final", "done"}
  BY <1>1 DEF Await, TypeOK
<1>5. Registration' /\ ProducerServesAudience'
  BY <1>0 DEF Registration, ProducerServesAudience
<1>6. CurrentProducer' /\ EndedTasks'
  BY <1>0, <1>2, <1>3 DEF CurrentProducer, EndedTasks
<1>7. OneActiveProducer'
  BY <1>0, <1>3, <1>4 DEF OneActiveProducer
<1> QED
  BY <1>5, <1>6, <1>7

LEMMA ProducerControl ==
  ASSUME TypeOK, ControlInv, NEW p \in Producers, ProducerTask(p)
  PROVE  ControlInv'
<1>1. CASE DeliverCancel(p)
  BY <1>1, CancelControl
<1>2. CASE ~DeliverCancel(p)
  <2>1. UNCHANGED <<sub, waitFor, queues, producer, cancelReq>>
    BY <1>2 DEF ProducerTask, StartTask, CaptureCreated, CaptureOpened, CaptureNotOpened,
         FrameRead, FrameMissing, CaptureDropped, BackoffElapsed, FrameEncoded,
         FrameNotEncoded, ProducerFails, CaptureReleased
  <2>2. CASE StartTask(p) \/ BackoffElapsed(p)
    <3>1. /\ p \notin cancelReq /\ pc[p] \in {"new", "sleep"}
          /\ \E next \in PcStates : Await(p, next, {})
      BY <2>2 DEF StartTask, BackoffElapsed, LoopTop
    <3> QED
      BY <2>1, <3>1, AwaitControl
  <2>3. CASE ~(StartTask(p) \/ BackoffElapsed(p))
    <3>1. \/ /\ p \notin cancelReq
             /\ pc[p] \in {"open", "probe", "read", "encode", "drop"}
             /\ \E next \in PcStates : Await(p, next, {pc[p]})
          \/ /\ p \notin cancelReq
             /\ pc[p] = "final"
             /\ Await(p, "done", {pc[p]})
      <4>1. CASE ProducerFails(p)
        BY <4>1, ConstantsAssumption DEF ProducerFails, Returned, Finish
      <4>2. CASE FrameEncoded(p) \/ FrameNotEncoded(p)
        BY <4>2 DEF FrameEncoded, FrameNotEncoded, Returned, LoopTop
      <4>3. CASE ~(ProducerFails(p) \/ FrameEncoded(p) \/ FrameNotEncoded(p))
        BY <1>2, <2>3, <4>3 DEF ProducerTask, CaptureCreated, CaptureOpened,
             CaptureNotOpened, FrameRead, FrameMissing, CaptureDropped, CaptureReleased,
             Returned
      <4> QED
        BY <4>1, <4>2, <4>3
    <3> QED
      BY <2>1, <3>1, AwaitControl
  <2> QED
    BY <2>2, <2>3
<1> QED
  BY <1>1, <1>2

LEMMA ThreadControl ==
  ASSUME TypeOK, ControlInv, NEW p \in Producers, NEW call \in ThreadCalls,
         AbandonedCallEnds(p, call)
  PROVE  ControlInv'
<1>1. UNCHANGED <<subscriberVars, pc, cancelReq>>
  BY DEF AbandonedCallEnds
<1>2. \A q \in Producers : inflight'[q] \subseteq inflight[q]
  BY DEF AbandonedCallEnds, TypeOK
<1> QED
  BY <1>1, <1>2 DEF ControlInv, Registration, CurrentProducer, EndedTasks,
       ProducerServesAudience, OneActiveProducer

LEMMA NextControl == TypeOK /\ ControlInv /\ [Next]_vars => ControlInv'
<1>1. ASSUME TypeOK, ControlInv, Next PROVE ControlInv'
  BY <1>1, SubscriberControl, ProducerControl, ThreadControl DEF Next
<1>2. ASSUME ControlInv, UNCHANGED vars PROVE ControlInv'
  BY <1>2 DEF vars, ControlInv, Registration, CurrentProducer, EndedTasks,
       ProducerServesAudience, OneActiveProducer
<1> QED
  BY <1>1, <1>2

LEMMA ControlCorrect == Spec => []ControlInv
BY InitControl, NextControl, TypeCorrect, PTL DEF Spec

\* However subscriptions, disconnects and cancellations interleave, at most one
\* task runs the capture loop uncancelled, and it is self._producer.
THEOREM ActiveProducerUnique == Spec => []OneActiveProducer
<1>1. ControlInv => OneActiveProducer
  BY DEF ControlInv
<1> QED
  BY <1>1, ControlCorrect, PTL

\* A producer task exists exactly while somebody is registered to watch.
THEOREM AudienceServed == Spec => []ProducerServesAudience
<1>1. ControlInv => ProducerServesAudience
  BY DEF ControlInv
<1> QED
  BY <1>1, ControlCorrect, PTL

\* Two threads touch one capture only after its producer was cancelled.
THEOREM CaptureOverlap == Spec => []OverlapOnlyAfterCancel
<1>1. ControlInv => OverlapOnlyAfterCancel
  BY DEF ControlInv, CurrentProducer, OverlapOnlyAfterCancel
<1> QED
  BY <1>1, ControlCorrect, PTL

-----------------------------------------------------------------------------
(* The streams.  FramesInOrder needs that no frame is newer than the camera's   *)
(* clock and that the frame a producer is encoding is newer than everything the *)
(* audience has: two active producers would break the latter.                   *)

\* PutLatest keeps the items of q, but for the oldest one when q is full, in
\* their order, and adds x.
LEMMA PutLatestItems ==
  ASSUME NEW q \in Seq(Items), Len(q) <= QueueMax, NEW x \in Items
  PROVE  \E d \in {0, 1} :
           /\ d <= Len(q)
           /\ Len(PutLatest(q, x)) = Len(q) + 1 - d
           /\ PutLatest(q, x)[Len(q) + 1 - d] = x
           /\ \A j \in 1..(Len(q) - d) : PutLatest(q, x)[j] = q[j + d]
<1>0. QueueMax \in Nat \ {0} /\ Len(q) \in Nat
  BY ConstantsAssumption
<1>1. CASE Len(q) < QueueMax
  <2>1. PutLatest(q, x) = Append(q, x)
    BY <1>1 DEF PutLatest
  <2>2. /\ 0 <= Len(q)
        /\ Len(PutLatest(q, x)) = Len(q) + 1 - 0
        /\ PutLatest(q, x)[Len(q) + 1 - 0] = x
        /\ \A j \in 1..(Len(q) - 0) : PutLatest(q, x)[j] = q[j + 0]
    BY <1>0, <2>1
  <2> QED
    BY <2>2
<1>2. CASE ~(Len(q) < QueueMax)
  <2>1. PutLatest(q, x) = Append(Tail(q), x)
    BY <1>2 DEF PutLatest
  <2>2. q # <<>> /\ Len(q) >= 1
    BY <1>0, <1>2
  <2>3. /\ Tail(q) \in Seq(Items) /\ Len(Tail(q)) = Len(q) - 1
        /\ \A j \in 1..(Len(q) - 1) : Tail(q)[j] = q[j + 1]
    BY <2>2
  <2>4. /\ 1 <= Len(q)
        /\ Len(PutLatest(q, x)) = Len(q) + 1 - 1
        /\ PutLatest(q, x)[Len(q) + 1 - 1] = x
        /\ \A j \in 1..(Len(q) - 1) : PutLatest(q, x)[j] = q[j + 1]
    BY <1>0, <2>1, <2>2, <2>3
  <2> QED
    BY <2>4
<1> QED
  BY <1>1, <1>2

\* An ended subscription has no queue and has yielded nothing.
NoStreamOutside == \A c \in Subscribers : c \notin queues => queue[c] = <<>> /\ last[c] = 0

\* Frame f is newer than all that subscriber c has received or has queued.
NewTo(f, c) ==
  /\ Newer(last[c], f)
  /\ \A j \in 1..Len(queue[c]) : queue[c][j] # EOF => Newer(queue[c][j], f)

WithinClock ==
  \A c \in Subscribers :
    /\ last[c] <= clock
    /\ \A j \in 1..Len(queue[c]) : queue[c][j] # EOF => queue[c][j] <= clock

FrameInHand ==
  \A p \in Producers : pc[p] = "encode" /\ p \notin cancelReq =>
    frame[p] \in 1..clock /\ \A c \in queues : NewTo(frame[p], c)

StreamInv ==
  /\ NoStreamOutside
  /\ WithinClock
  /\ FrameInHand
  /\ FramesInOrder
  /\ FailureReachesAudience

LEMMA InitStream == Init => StreamInv
<1> SUFFICES ASSUME Init PROVE StreamInv
  OBVIOUS
<1> QED
  BY ConstantsAssumption DEF Init, StreamInv, NoStreamOutside, WithinClock, FrameInHand,
     FramesInOrder, FailureReachesAudience

LEMMA SubscribeStream ==
  ASSUME TypeOK, ControlInv, StreamInv, NEW c \in Subscribers, Subscribe(c)
  PROVE  StreamInv'
<1> USE DEF StreamInv
<1>0. /\ queues' = queues \cup {c} /\ sub' = [sub EXCEPT ![c] = "get"]
      /\ UNCHANGED <<queue, last, cancelReq, frame, clock>>
      /\ queue[c] = <<>> /\ last[c] = 0
  BY DEF Subscribe, ControlInv, Registration, NoStreamOutside
<1>1. \A p \in Producers : pc'[p] = pc[p] \/ pc'[p] = "new"
  BY DEF Subscribe, TypeOK
<1>2. NoStreamOutside' /\ WithinClock'
  BY <1>0 DEF NoStreamOutside, WithinClock
<1>3. FramesInOrder'
  BY <1>0 DEF FramesInOrder, Newer
<1>4. FrameInHand'
  <2>1. SUFFICES ASSUME NEW p \in Producers, pc'[p] = "encode", p \notin cancelReq'
                 PROVE  frame[p] \in 1..clock /\ \A d \in queues' : NewTo(frame[p], d)
    BY <1>0 DEF FrameInHand, NewTo, Newer
  <2>2. frame[p] \in 1..clock /\ \A d \in queues : NewTo(frame[p], d)
    BY <1>0, <1>1, <2>1 DEF FrameInHand
  <2>3. NewTo(frame[p], c)
    BY <1>0, <2>2 DEF NewTo, Newer, TypeOK
  <2> QED
    BY <1>0, <2>2, <2>3
<1>5. FailureReachesAudience'
  <2>1. CASE ProducerRuns
    <3>1. UNCHANGED <<producer, pc>> /\ producer # NoProducer
      BY <2>1, ConstantsAssumption DEF Subscribe, ProducerRuns
    <3> QED
      BY <1>0, <3>1 DEF FailureReachesAudience, TypeOK
  <2>2. CASE ~ProducerRuns
    <3>1. pc'[producer'] = "new"
      BY <2>2 DEF Subscribe, TypeOK
    <3> QED
      BY <3>1 DEF FailureReachesAudience
  <2> QED
    BY <2>1, <2>2
<1> QED
  BY <1>2, <1>3, <1>4, <1>5

LEMMA UnregisterStream ==
  ASSUME TypeOK, ControlInv, StreamInv, NEW c \in Subscribers, UnregisterQueue(c),
         sub[c] \in {"get", "gone"}, UNCHANGED <<pc, frame, clock>>
  PROVE  StreamInv'
<1> USE DEF StreamInv
<1>0. /\ queues' = queues \ {c} /\ c \in queues
      /\ queue' = [queue EXCEPT ![c] = <<>>] /\ last' = [last EXCEPT ![c] = 0]
      /\ cancelReq \subseteq cancelReq'
  BY DEF UnregisterQueue, RequestCancel, ControlInv, Registration
<1>1. \A d \in Subscribers : d # c => /\ queue'[d] = queue[d] /\ last'[d] = last[d]
                                       /\ sub'[d] = sub[d]
  BY <1>0 DEF UnregisterQueue, TypeOK
<1>2. queue'[c] = <<>> /\ last'[c] = 0
  BY <1>0 DEF TypeOK
<1>3. NoStreamOutside'
  BY <1>0, <1>1, <1>2 DEF NoStreamOutside
<1>4. WithinClock'
  <2>1. ASSUME NEW d \in Subscribers
        PROVE  /\ last'[d] <= clock'
               /\ \A j \in 1..Len(queue'[d]) : queue'[d][j] # EOF => queue'[d][j] <= clock'
    <3>1. CASE d = c
      BY <1>2, <3>1 DEF TypeOK
    <3>2. CASE d # c
      BY <1>1, <3>2 DEF WithinClock
    <3> QED
      BY <3>1, <3>2
  <2> QED
    BY <2>1 DEF WithinClock
<1>5. \A d \in queues' : d \in queues /\ d # c /\ d \in Subscribers
  BY <1>0 DEF TypeOK
<1>6. FramesInOrder'
  BY <1>1, <1>5 DEF FramesInOrder, Newer
<1>7. FrameInHand'
  <2>1. SUFFICES ASSUME NEW p \in Producers, pc'[p] = "encode", p \notin cancelReq'
                 PROVE  /\ frame'[p] \in 1..clock'
                        /\ \A d \in queues' : NewTo(frame[p], d)'
    BY DEF FrameInHand, NewTo, Newer
  <2>2. frame[p] \in 1..clock /\ \A d \in queues : NewTo(frame[p], d)
    BY <1>0, <2>1 DEF FrameInHand
  <2> QED
    BY <1>1, <1>5, <2>2 DEF NewTo, Newer
<1>8. FailureReachesAudience'
  <2>1. producer' \in {producer, NoProducer}
    BY DEF UnregisterQueue
  <2> QED
    BY <1>1, <1>5, <2>1 DEF FailureReachesAudience
<1> QED
  BY <1>3, <1>4, <1>6, <1>7, <1>8

LEMMA ReceiveFrameStream ==
  ASSUME TypeOK, ControlInv, StreamInv, NEW c \in Subscribers, ReceiveFrame(c)
  PROVE  StreamInv'
<1> USE DEF StreamInv
<1> DEFINE q == queue[c]
<1>0. /\ sub[c] = "get" /\ q # <<>> /\ Head(q) # EOF
      /\ sub' = [sub EXCEPT ![c] = "send"]
      /\ last' = [last EXCEPT ![c] = Head(q)]
      /\ queue' = [queue EXCEPT ![c] = Tail(q)]
      /\ UNCHANGED <<queues, producer, pc, cancelReq, frame, clock>>
  BY DEF ReceiveFrame
<1>1. q \in Seq(Items) /\ c \in queues /\ MaxFrame \in Nat \ {0}
  BY <1>0, ConstantsAssumption DEF TypeOK, ControlInv, Registration
<1>2. \A d \in Subscribers : d # c => /\ queue'[d] = queue[d] /\ last'[d] = last[d]
                                       /\ sub'[d] = sub[d]
  BY <1>0 DEF TypeOK
<1>3. /\ queue'[c] = Tail(q) /\ last'[c] = q[1] /\ q[1] # EOF
      /\ Len(q) \in Nat \ {0} /\ Len(queue'[c]) = Len(q) - 1
      /\ \A j \in 1..Len(queue'[c]) : queue'[c][j] = q[j + 1] /\ j + 1 \in 1..Len(q)
  BY <1>0, <1>1 DEF TypeOK
<1> HIDE DEF q
<1>4. NoStreamOutside'
  BY <1>0, <1>1, <1>2 DEF NoStreamOutside
<1>5. WithinClock'
  <2>1. ASSUME NEW d \in Subscribers
        PROVE  /\ last'[d] <= clock'
               /\ \A j \in 1..Len(queue'[d]) : queue'[d][j] # EOF => queue'[d][j] <= clock'
    <3>1. CASE d = c
      BY <1>0, <1>3, <3>1 DEF WithinClock, q
    <3>2. CASE d # c
      BY <1>0, <1>2, <3>2 DEF WithinClock
    <3> QED
      BY <3>1, <3>2
  <2> QED
    BY <2>1 DEF WithinClock
<1>6. FramesInOrder'
  <2>1. ASSUME NEW d \in queues, NEW j \in 1..Len(queue'[d]), queue'[d][j] # EOF
        PROVE  /\ Newer(last'[d], queue'[d][j])
               /\ \A i \in 1..(j - 1) :
                    queue'[d][i] # EOF => Newer(queue'[d][i], queue'[d][j])
    <3>1. CASE d = c
      <4>1. j + 1 \in 1..Len(q) /\ q[j + 1] # EOF /\ queue'[d][j] = q[j + 1]
        BY <1>3, <2>1, <3>1
      <4>2. \A i \in 1..((j + 1) - 1) : q[i] # EOF => Newer(q[i], q[j + 1])
        BY <1>1, <4>1 DEF FramesInOrder, q
      <4>3. Newer(q[1], q[j + 1])
        BY <1>3, <4>1, <4>2
      <4>4. ASSUME NEW i \in 1..(j - 1), queue'[d][i] # EOF
            PROVE  Newer(queue'[d][i], queue'[d][j])
        <5>1. i + 1 \in 1..((j + 1) - 1) /\ queue'[d][i] = q[i + 1]
          BY <1>3, <3>1, <4>1
        <5> QED
          BY <4>1, <4>2, <4>4, <5>1
      <4> QED
        BY <1>3, <3>1, <4>1, <4>3, <4>4
    <3>2. CASE d # c
      <4>1. d \in Subscribers
        BY DEF TypeOK
      <4> QED
        BY <1>2, <2>1, <3>2, <4>1 DEF FramesInOrder
    <3> QED
      BY <3>1, <3>2
  <2> QED
    BY <1>0, <2>1 DEF FramesInOrder, Newer
<1>7. FrameInHand'
  <2>1. SUFFICES ASSUME NEW p \in Producers, pc[p] = "encode", p \notin cancelReq
                 PROVE  /\ frame[p] \in 1..clock
                        /\ \A d \in queues : NewTo(frame[p], d)'
    BY <1>0 DEF FrameInHand, NewTo, Newer
  <2>2. frame[p] \in 1..clock /\ \A d \in queues : NewTo(frame[p], d)
    BY <2>1 DEF FrameInHand
  <2>3. NewTo(frame[p], c)'
    BY <1>0, <1>1, <1>3, <2>2 DEF NewTo, Newer, q
  <2>4. ASSUME NEW d \in queues, d # c PROVE NewTo(frame[p], d)'
    BY <1>0, <1>2, <2>2, <2>4 DEF NewTo, Newer, TypeOK
  <2> QED
    BY <2>2, <2>3, <2>4
<1>8. FailureReachesAudience'
  <2>1. SUFFICES ASSUME producer # NoProducer, pc[producer] \in {"final", "done"}, NEW d \in queues
                 PROVE  IF queue'[d] = <<>> THEN sub'[d] = "get" /\ last'[d] = 0
                                           ELSE queue'[d][Len(queue'[d])] = EOF
    BY <1>0 DEF FailureReachesAudience
  <2>2. CASE d = c
    <3>1. q[Len(q)] = EOF
      BY <1>0, <1>1, <2>1 DEF FailureReachesAudience, q
    <3>2. Len(q) # 1
      BY <1>3, <3>1
    <3> QED
      BY <1>3, <2>2, <3>1, <3>2
  <2>3. CASE d # c
    BY <1>2, <2>1, <2>3 DEF FailureReachesAudience, TypeOK
  <2> QED
    BY <2>2, <2>3
<1> QED
  BY <1>4, <1>5, <1>6, <1>7, <1>8

LEMMA SubscriberStream ==
  ASSUME TypeOK, ControlInv, StreamInv, NEW c \in Subscribers, SubscriberStep(c)
  PROVE  StreamInv'
<1>1. CASE ReceiveEof(c) \/ DisconnectInGet(c) \/ FinalizeGenerator(c)
  <2>1. /\ UnregisterQueue(c) /\ sub[c] \in {"get", "gone"}
        /\ UNCHANGED <<pc, frame, clock>>
    BY <1>1 DEF ReceiveEof, DisconnectInGet, FinalizeGenerator
  <2> QED
    BY <2>1, UnregisterStream
<1>2. CASE Sent(c) \/ DisconnectInSend(c) \/ Leave(c)
  <2>1. /\ sub[c] \in {"send", "leaving"} /\ \E s : sub' = [sub EXCEPT ![c] = s]
        /\ UNCHANGED <<queue, last, queues, producer, pc, cancelReq, frame, clock>>
    BY <1>2 DEF Sent, DisconnectInSend, Leave
  <2>2. FailureReachesAudience'
    <3>1. SUFFICES ASSUME producer # NoProducer, pc[producer] \in {"final", "done"},
                          NEW d \in queues, queue[d] = <<>>
                   PROVE  d # c
      BY <2>1 DEF FailureReachesAudience, StreamInv, TypeOK
    <3> QED
      BY <2>1, <3>1 DEF FailureReachesAudience, StreamInv
  <2> QED
    BY <2>1, <2>2 DEF StreamInv, NoStreamOutside, WithinClock, FrameInHand, FramesInOrder,
       NewTo, Newer
<1>3. CASE CancelAgain(c)
  <2>1. /\ cancelReq \subseteq cancelReq'
        /\ UNCHANGED <<sub, queue, last, queues, producer, pc, frame, clock>>
    BY <1>3 DEF CancelAgain, RequestCancel
  <2> QED
    BY <2>1 DEF StreamInv, NoStreamOutside, WithinClock, FrameInHand, FramesInOrder,
       FailureReachesAudience, NewTo, Newer
<1> QED
  BY <1>1, <1>2, <1>3, SubscribeStream, ReceiveFrameStream DEF SubscriberStep

\* The audience check at the top of the loop never ends an uncancelled task.
LEMMA LoopGoesOn ==
  ASSUME TypeOK, ControlInv, NEW p \in Producers, pc[p] \in Working, p \notin cancelReq,
         NEW held \in BOOLEAN, NEW ended, LoopTop(p, held, ended)
  PROVE  \E next \in {"open", "read"} : Await(p, next, ended)
<1>1. p = producer
  BY DEF ControlInv, OneActiveProducer
<1>2. queues # {}
  BY <1>1, ConstantsAssumption DEF ControlInv, ProducerServesAudience
<1> QED
  BY <1>2 DEF LoopTop

\* A step of p that broadcasts nothing and takes no frame.
LEMMA QuietStream ==
  ASSUME TypeOK, ControlInv, StreamInv, NEW p \in Producers,
         NEW next, NEW ended, Await(p, next, ended), next # "encode",
         next \in {"final", "done"} => p # producer \/ pc[p] \in {"final", "done"},
         cancelReq' = cancelReq \/ cancelReq' = cancelReq \ {p},
         UNCHANGED <<sub, queue, last, queues, producer, frame, clock>>
  PROVE  StreamInv'
<1> USE DEF StreamInv
<1>1. pc'[p] = next /\ \A r \in Producers : r # p => pc'[r] = pc[r]
  BY DEF Await, TypeOK
<1>2. NoStreamOutside' /\ WithinClock' /\ FramesInOrder'
  BY DEF NoStreamOutside, WithinClock, FramesInOrder, Newer
<1>3. FrameInHand'
  BY <1>1 DEF FrameInHand, NewTo, Newer
<1>4. FailureReachesAudience'
  <2>1. SUFFICES ASSUME producer # NoProducer, pc'[producer] \in {"final", "done"}
                 PROVE  pc[producer] \in {"final", "done"}
    BY DEF FailureReachesAudience
  <2>2. producer \in Producers
    BY <2>1 DEF TypeOK
  <2> QED
    BY <1>1, <2>1, <2>2
<1> QED
  BY <1>2, <1>3, <1>4

LEMMA FrameReadStream ==
  ASSUME TypeOK, ControlInv, StreamInv, NEW p \in Producers, FrameRead(p)
  PROVE  StreamInv'
<1> USE DEF StreamInv
<1>0. /\ Await(p, "encode", {"read"})
      /\ clock' = NextFrame /\ frame' = [frame EXCEPT ![p] = NextFrame]
      /\ UNCHANGED <<sub, queue, last, queues, producer, cancelReq>>
  BY DEF FrameRead
<1>1. /\ pc'[p] = "encode" /\ frame'[p] = NextFrame
      /\ \A r \in Producers : r # p => pc'[r] = pc[r] /\ frame'[r] = frame[r]
  BY <1>0 DEF Await, TypeOK
<1>2. /\ MaxFrame \in Nat \ {0} /\ clock \in 0..MaxFrame
      /\ NextFrame \in 1..MaxFrame /\ clock <= NextFrame
      /\ clock < NextFrame \/ NextFrame = MaxFrame
  BY ConstantsAssumption DEF TypeOK, NextFrame
<1>3. ASSUME NEW c \in Subscribers, NEW j \in 1..Len(queue[c]), queue[c][j] # EOF
      PROVE  queue[c][j] \in 0..MaxFrame /\ queue[c][j] <= clock
  <2>1. queue[c][j] \in Items
    BY DEF TypeOK
  <2> QED
    BY <1>3, <2>1 DEF Items, WithinClock
<1>4. NoStreamOutside' /\ FramesInOrder'
  BY <1>0 DEF NoStreamOutside, FramesInOrder, Newer
<1>5. WithinClock'
  <2>1. ASSUME NEW c \in Subscribers
        PROVE  /\ last[c] <= NextFrame
               /\ \A j \in 1..Len(queue[c]) : queue[c][j] # EOF => queue[c][j] <= NextFrame
    <3>1. last[c] \in 0..MaxFrame /\ last[c] <= clock
      BY DEF TypeOK, WithinClock
    <3>2. last[c] <= NextFrame
      BY <1>2, <3>1
    <3>3. ASSUME NEW j \in 1..Len(queue[c]), queue[c][j] # EOF
          PROVE  queue[c][j] <= NextFrame
      <4>1. queue[c][j] \in 0..MaxFrame /\ queue[c][j] <= clock
        BY <1>3, <3>3
      <4> QED
        BY <1>2, <4>1
    <3> QED
      BY <3>2, <3>3
  <2> QED
    BY <1>0, <2>1 DEF WithinClock
<1>6. ASSUME NEW c \in Subscribers
      PROVE  NewTo(NextFrame, c)
  <2>1. ASSUME NEW x \in 0..MaxFrame, x <= clock PROVE Newer(x, NextFrame)
    BY <1>2, <2>1 DEF Newer
  <2>2. Newer(last[c], NextFrame)
    <3>1. last[c] \in 0..MaxFrame /\ last[c] <= clock
      BY DEF TypeOK, WithinClock
    <3> QED
      BY <2>1, <3>1
  <2>3. ASSUME NEW j \in 1..Len(queue[c]), queue[c][j] # EOF
        PROVE  Newer(queue[c][j], NextFrame)
    BY <1>3, <2>1, <2>3
  <2> QED
    BY <2>2, <2>3 DEF NewTo
<1>7. FrameInHand'
  <2>1. SUFFICES ASSUME NEW r \in Producers, pc'[r] = "encode", r \notin cancelReq
                 PROVE  /\ frame'[r] \in 1..clock'
                        /\ \A c \in queues : NewTo(frame'[r], c)
    BY <1>0 DEF FrameInHand, NewTo, Newer
  <2>2. CASE r = p
    BY <1>0, <1>1, <1>2, <1>6, <2>2 DEF TypeOK
  <2>3. CASE r # p
    <3>1. /\ frame'[r] = frame[r] /\ frame[r] \in 1..clock
          /\ \A c \in queues : NewTo(frame[r], c)
      BY <1>1, <2>1, <2>3 DEF FrameInHand
    <3> QED
      BY <1>0, <1>2, <3>1
  <2> QED
    BY <2>2, <2>3
<1>8. FailureReachesAudience'
  <2>1. producer \in Producers \cup {NoProducer}
    BY DEF TypeOK
  <2> QED
    BY <1>0, <1>1, <2>1 DEF FailureReachesAudience
<1> QED
  BY <1>4, <1>5, <1>7, <1>8

\* The current producer puts x, _EOF or a frame new to everyone, in every queue
\* and leaves its encode location or stops.
LEMMA PutAllStream ==
  ASSUME TypeOK, ControlInv, StreamInv, NEW p \in Producers, p = producer,
         NEW x \in Items, PutAll(x),
         x # EOF => x <= clock /\ \A c \in queues : NewTo(x, c),
         pc'[p] # "encode", \A r \in Producers : r # p => pc'[r] = pc[r],
         pc'[p] \in {"final", "done"} => x = EOF,
         UNCHANGED <<sub, last, queues, producer, cancelReq, frame, clock>>
  PROVE  StreamInv'
<1> USE DEF StreamInv
<1>0. /\ QueueMax \in Nat \ {0} /\ MaxFrame \in Nat \ {0} /\ EOF \notin Nat
      /\ queues \subseteq Subscribers
  BY ConstantsAssumption DEF TypeOK
<1>1. \A c \in Subscribers : queue'[c] = IF c \in queues THEN PutLatest(queue[c], x) ELSE queue[c]
  BY DEF PutAll
<1>2. ASSUME NEW c \in queues
      PROVE  /\ queue[c] \in Seq(Items) /\ Len(queue[c]) \in Nat /\ c \in Subscribers
             /\ queue'[c] # <<>> /\ queue'[c][Len(queue'[c])] = x
             /\ \E d \in {0, 1} :
                  /\ d <= Len(queue[c])
                  /\ Len(queue'[c]) = Len(queue[c]) + 1 - d
                  /\ queue'[c][Len(queue[c]) + 1 - d] = x
                  /\ \A j \in 1..(Len(queue[c]) - d) : queue'[c][j] = queue[c][j + d]
  <2>1. c \in Subscribers /\ queue[c] \in Seq(Items) /\ Len(queue[c]) <= QueueMax
    BY <1>0 DEF TypeOK
  <2>2. queue'[c] = PutLatest(queue[c], x)
    BY <1>1, <2>1
  <2>3. PutLatest(queue[c], x) # <<>> /\ PutLatest(queue[c], x)[Len(PutLatest(queue[c], x))] = x
    BY <2>1, PutLatestType, Zenon
  <2>4. \E d \in {0, 1} :
          /\ d <= Len(queue[c])
          /\ Len(PutLatest(queue[c], x)) = Len(queue[c]) + 1 - d
          /\ PutLatest(queue[c], x)[Len(queue[c]) + 1 - d] = x
          /\ \A j \in 1..(Len(queue[c]) - d) : PutLatest(queue[c], x)[j] = queue[c][j + d]
    BY <2>1, PutLatestItems, Zenon
  <2>5. Len(queue[c]) \in Nat
    BY <2>1
  <2>6. queue'[c] # <<>> /\ queue'[c][Len(queue'[c])] = x
    BY <2>2, <2>3
  <2>7. \E d \in {0, 1} :
          /\ d <= Len(queue[c])
          /\ Len(queue'[c]) = Len(queue[c]) + 1 - d
          /\ queue'[c][Len(queue[c]) + 1 - d] = x
          /\ \A j \in 1..(Len(queue[c]) - d) : queue'[c][j] = queue[c][j + d]
    BY <2>2, <2>4
  <2> QED
    BY <2>1, <2>5, <2>6, <2>7
<1>3. NoStreamOutside'
  BY <1>1 DEF NoStreamOutside
<1>4. FrameInHand'
  <2>1. \A r \in Producers : ~(pc'[r] = "encode" /\ r \notin cancelReq)
    BY DEF ControlInv, OneActiveProducer
  <2> QED
    BY <2>1 DEF FrameInHand
<1>5. FailureReachesAudience'
  <2>1. SUFFICES ASSUME pc'[producer] \in {"final", "done"} PROVE x = EOF
    BY <1>2 DEF FailureReachesAudience
  <2> QED
    BY <2>1
<1>6. WithinClock'
  <2>1. ASSUME NEW c \in Subscribers, NEW j \in 1..Len(queue'[c]), queue'[c][j] # EOF
        PROVE  queue'[c][j] <= clock
    <3>1. CASE c \in queues
      <4>1. PICK d \in {0, 1} :
              /\ d <= Len(queue[c])
              /\ Len(queue'[c]) = Len(queue[c]) + 1 - d
              /\ queue'[c][Len(queue[c]) + 1 - d] = x
              /\ \A i \in 1..(Len(queue[c]) - d) : queue'[c][i] = queue[c][i + d]
        BY <1>2, <3>1
      <4>2. CASE j = Len(queue[c]) + 1 - d
        BY <2>1, <4>1, <4>2
      <4>3. CASE j # Len(queue[c]) + 1 - d
        <5>1. j \in 1..(Len(queue[c]) - d) /\ j + d \in 1..Len(queue[c])
          BY <1>2, <3>1, <4>1, <4>3
        <5> QED
          BY <2>1, <4>1, <5>1 DEF WithinClock
      <4> QED
        BY <4>2, <4>3
    <3>2. CASE c \notin queues
      BY <1>1, <2>1, <3>2 DEF WithinClock
    <3> QED
      BY <3>1, <3>2
  <2> QED
    BY <2>1 DEF WithinClock
<1>7. FramesInOrder'
  <2>1. ASSUME NEW c \in queues, NEW j \in 1..Len(queue'[c]), queue'[c][j] # EOF
        PROVE  /\ Newer(last[c], queue'[c][j])
               /\ \A i \in 1..(j - 1) :
                    queue'[c][i] # EOF => Newer(queue'[c][i], queue'[c][j])
    <3>1. PICK d \in {0, 1} :
            /\ d <= Len(queue[c])
            /\ Len(queue'[c]) = Len(queue[c]) + 1 - d
            /\ queue'[c][Len(queue[c]) + 1 - d] = x
            /\ \A i \in 1..(Len(queue[c]) - d) : queue'[c][i] = queue[c][i + d]
      BY <1>2
    <3>2. \A i \in 1..(j - 1) : /\ i \in 1..(Len(queue[c]) - d)
                                /\ i + d \in 1..Len(queue[c])
                                /\ queue'[c][i] = queue[c][i + d]
      BY <1>2, <2>1, <3>1
    <3>3. CASE j = Len(queue[c]) + 1 - d
      <4>1. queue'[c][j] = x /\ NewTo(x, c)
        BY <2>1, <3>1, <3>3
      <4> QED
        BY <3>2, <4>1 DEF NewTo
    <3>4. CASE j # Len(queue[c]) + 1 - d
      <4>1. /\ j \in 1..(Len(queue[c]) - d) /\ j + d \in 1..Len(queue[c])
            /\ queue'[c][j] = queue[c][j + d] /\ queue[c][j + d] # EOF
        BY <1>2, <2>1, <3>1, <3>4
      <4>2. /\ Newer(last[c], queue[c][j + d])
            /\ \A i \in 1..((j + d) - 1) : queue[c][i] # EOF => Newer(queue[c][i], queue[c][j + d])
        BY <4>1 DEF FramesInOrder
      <4>3. \A i \in 1..(j - 1) : i + d \in 1..((j + d) - 1)
        BY <4>1
      <4> QED
        BY <3>2, <4>1, <4>2, <4>3
    <3> QED
      BY <3>3, <3>4
  <2> QED
    BY <2>1 DEF FramesInOrder, Newer
<1> QED
  BY <1>3, <1>4, <1>5, <1>6, <1>7

LEMMA ProducerStream ==
  ASSUME TypeOK, ControlInv, StreamInv, NEW p \in Producers, ProducerTask(p)
  PROVE  StreamInv'
<1> USE DEF StreamInv
<1>0. ASSUME p \notin cancelReq, pc[p] \in Working PROVE p = producer
  BY <1>0 DEF ControlInv, OneActiveProducer
<1>1. CASE FrameRead(p)
  BY <1>1, FrameReadStream
<1>2. CASE FrameEncoded(p)
  <2>1. /\ PutAll(frame[p]) /\ LoopTop(p, TRUE, {"encode"})
        /\ pc[p] = "encode" /\ p \notin cancelReq
        /\ UNCHANGED <<sub, last, queues, producer, cancelReq, frame, clock>>
    BY <1>2 DEF FrameEncoded, Returned
  <2>2. PICK next \in {"open", "read"} : Await(p, next, {"encode"})
    BY <2>1, LoopGoesOn
  <2>3. pc'[p] \in {"open", "read"} /\ \A r \in Producers : r # p => pc'[r] = pc[r]
    BY <2>2 DEF Await, TypeOK
  <2>4. /\ frame[p] \in Items /\ frame[p] <= clock /\ p = producer
        /\ \A c \in queues : NewTo(frame[p], c)
    BY <1>0, <2>1 DEF FrameInHand, TypeOK, Items
  <2> QED
    BY <2>1, <2>3, <2>4, PutAllStream
<1>3. CASE ProducerFails(p)
  <2>1. /\ PutAll(EOF) /\ Finish(p, {pc[p]}) /\ pc[p] \in Working /\ p \notin cancelReq
        /\ UNCHANGED <<sub, last, queues, producer, cancelReq, frame, clock>>
    BY <1>3, ConstantsAssumption DEF ProducerFails, Returned
  <2>2. pc'[p] \in {"final", "done"} /\ \A r \in Producers : r # p => pc'[r] = pc[r]
    BY <2>1 DEF Finish, Await, TypeOK
  <2>3. EOF \in Items /\ p = producer
    BY <1>0, <2>1 DEF Items
  <2> QED
    BY <2>1, <2>2, <2>3, PutAllStream
<1>4. CASE DeliverCancel(p)
  <2>1. /\ p \in cancelReq /\ cancelReq' = cancelReq \ {p}
        /\ UNCHANGED <<sub, queue, last, queues, producer, frame, clock>>
    BY <1>4 DEF DeliverCancel
  <2>2. PICK next \in {"final", "done"} : Await(p, next, {})
    BY <1>4 DEF DeliverCancel, Finish
  <2>3. p # producer
    BY <2>1 DEF ControlInv, CurrentProducer
  <2> QED
    BY <2>1, <2>2, <2>3, QuietStream
<1>5. CASE StartTask(p) \/ BackoffElapsed(p) \/ FrameNotEncoded(p)
  <2>1. /\ pc[p] \in Working /\ p \notin cancelReq
        /\ LoopTop(p, FALSE, {}) \/ LoopTop(p, TRUE, {"encode"})
        /\ UNCHANGED <<sub, queue, last, queues, producer, cancelReq, frame, clock>>
    BY <1>5 DEF StartTask, BackoffElapsed, FrameNotEncoded, Returned
  <2>2. PICK next \in {"open", "read"} : Await(p, next, {}) \/ Await(p, next, {"encode"})
    BY <2>1, LoopGoesOn
  <2> QED
    BY <2>1, <2>2, QuietStream
<1>6. CASE CaptureCreated(p) \/ CaptureOpened(p) \/ CaptureNotOpened(p) \/ FrameMissing(p)
           \/ CaptureDropped(p)
  <2>1. /\ \E next \in {"probe", "read", "drop", "sleep"} : \E ended : Await(p, next, ended)
        /\ UNCHANGED <<sub, queue, last, queues, producer, cancelReq, frame, clock>>
    BY <1>6 DEF CaptureCreated, CaptureOpened, CaptureNotOpened, FrameMissing, CaptureDropped
  <2>2. PICK next \in {"probe", "read", "drop", "sleep"} : \E ended : Await(p, next, ended)
    BY <2>1
  <2>3. PICK ended : Await(p, next, ended)
    BY <2>2
  <2> QED
    BY <2>1, <2>3, QuietStream
<1>7. CASE CaptureReleased(p)
  <2>1. /\ pc[p] = "final" /\ Await(p, "done", {"final"})
        /\ UNCHANGED <<sub, queue, last, queues, producer, cancelReq, frame, clock>>
    BY <1>7 DEF CaptureReleased, Returned
  <2> QED
    BY <2>1, QuietStream
<1> QED
  BY <1>1, <1>2, <1>3, <1>4, <1>5, <1>6, <1>7 DEF ProducerTask

LEMMA NextStream == TypeOK /\ ControlInv /\ StreamInv /\ [Next]_vars => StreamInv'
<1>1. ASSUME TypeOK, ControlInv, StreamInv, NEW p \in Producers, NEW call \in ThreadCalls,
             AbandonedCallEnds(p, call)
      PROVE  StreamInv'
  <2>1. UNCHANGED <<sub, queue, last, queues, producer, pc, cancelReq, frame, clock>>
    BY <1>1 DEF AbandonedCallEnds
  <2> QED
    BY <1>1, <2>1 DEF StreamInv, NoStreamOutside, WithinClock, FrameInHand, FramesInOrder,
       FailureReachesAudience, NewTo, Newer
<1>2. ASSUME TypeOK, ControlInv, StreamInv, Next PROVE StreamInv'
  BY <1>1, <1>2, SubscriberStream, ProducerStream DEF Next
<1>3. ASSUME StreamInv, UNCHANGED vars PROVE StreamInv'
  BY <1>3 DEF vars, StreamInv, NoStreamOutside, WithinClock, FrameInHand, FramesInOrder,
     FailureReachesAudience, NewTo, Newer
<1> QED
  BY <1>2, <1>3

LEMMA StreamCorrect == Spec => []StreamInv
BY InitStream, NextStream, TypeCorrect, ControlCorrect, PTL DEF Spec

\* Whatever is dropped, every subscriber sees the camera's frames in order and
\* none twice, across producer generations.
THEOREM StreamsOrdered == Spec => []FramesInOrder
<1>1. StreamInv => FramesInOrder
  BY DEF StreamInv
<1> QED
  BY <1>1, StreamCorrect, PTL

\* When the current producer has failed, _EOF is the last item of every
\* registered queue but those of newcomers that have received nothing.
THEOREM FailureSignalled == Spec => []FailureReachesAudience
<1>1. StreamInv => FailureReachesAudience
  BY DEF StreamInv
<1> QED
  BY <1>1, StreamCorrect, PTL
=============================================================================
