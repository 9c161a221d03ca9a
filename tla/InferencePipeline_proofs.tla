----------------------- MODULE InferencePipeline_proofs -----------------------
(* Theorems about InferencePipeline, for every set of requests and faults and  *)
(* every bound: whatever is lost, repeated or killed.                          *)
EXTENDS InferencePipeline, Integers, TLAPS

Elements(s) == {s[i] : i \in 1..Len(s)}

\* A committed offset is one of the topic.
CommitInTopic == committed # NoOffset => committed \in 0..Len(results)

\* Where the consumer is tells how far it has got.
Progress ==
  /\ consumer = "idle" => handled = cpos
  /\ consumer \in {"reading", "saving"} => cpos = handled + 1
  /\ cpos \in {handled, handled + 1}

OffsetInv == Progress /\ CommitAtMostOneAhead

\* Whatever travels was accepted, and what is kept has been published.
Travelling ==
  /\ Elements(outbox) \subseteq accepted /\ Elements(requests) \subseteq accepted
  /\ \A result \in Elements(wbuf) \cup Elements(results) : result.id \in accepted
Kept(records) ==
  \A r \in Requests : records[r] # NoResult =>
    records[r].id = r /\ records[r] \in Elements(results)
Origins == Travelling /\ Kept(store) /\ Kept(answer)

\* One client waits for a result, and is answered once.
Unanswered == \A r \in Requests : waiter[r] # "answered" => answer[r] = NoResult

LedgerInv == Origins /\ Unanswered

\* The results published are in the order of their runs, repeats aside, and older than
\* those in the worker's buffer, which holds each run once.
Repeats(s, i, j) ==
  /\ \E k \in 1..(i - 1) : s[k] = s[j]
  /\ \E k \in (j + 1)..Len(s) : s[k] = s[i]
InOrder(s) ==
  \A i, j \in 1..Len(s) :
    i < j /\ s[j].finished_at < s[i].finished_at => Repeats(s, i, j)
Sorted(s) ==
  \A i, j \in 1..Len(s) : i < j => s[i].finished_at < s[j].finished_at
Older(s, t) ==
  \A i \in 1..Len(s) : \A j \in 1..Len(t) : s[i].finished_at < t[j].finished_at
RunOrder ==
  /\ InOrder(results) /\ Sorted(wbuf) /\ Older(results, wbuf)
  /\ \A x \in Elements(results) \cup Elements(wbuf) : x.finished_at < runs

-----------------------------------------------------------------------------
(* Topics and buffers. *)

LEMMA ConcatLog ==
  ASSUME NEW S, NEW s \in Seq(S), NEW t \in Seq(S)
  PROVE  /\ s \o t \in Seq(S) /\ Len(s \o t) = Len(s) + Len(t)
         /\ \A i \in 1..Len(s) : (s \o t)[i] = s[i]
         /\ \A i \in (Len(s) + 1)..(Len(s) + Len(t)) : (s \o t)[i] = t[i - Len(s)]
         /\ Elements(s \o t) = Elements(s) \cup Elements(t)
<1>1. /\ s \o t \in Seq(S) /\ Len(s \o t) = Len(s) + Len(t) /\ Len(s) \in Nat /\ Len(t) \in Nat
      /\ \A i \in 1..Len(s) : (s \o t)[i] = s[i]
      /\ \A i \in (Len(s) + 1)..(Len(s) + Len(t)) : (s \o t)[i] = t[i - Len(s)]
  OBVIOUS
<1>2. Elements(s \o t) \subseteq Elements(s) \cup Elements(t)
  <2> SUFFICES ASSUME NEW i \in 1..(Len(s) + Len(t))
               PROVE  (s \o t)[i] \in Elements(s) \cup Elements(t)
    BY <1>1 DEF Elements
  <2>1. CASE i \in 1..Len(s)
    BY <1>1, <2>1 DEF Elements
  <2>2. CASE i \notin 1..Len(s)
    <3>1. i - Len(s) \in 1..Len(t) /\ (s \o t)[i] = t[i - Len(s)]
      BY <1>1, <2>2
    <3> QED
      BY <3>1 DEF Elements
  <2> QED
    BY <2>1, <2>2
<1>3. Elements(s) \subseteq Elements(s \o t)
  BY <1>1 DEF Elements
<1>4. Elements(t) \subseteq Elements(s \o t)
  <2> SUFFICES ASSUME NEW i \in 1..Len(t) PROVE t[i] \in Elements(s \o t)
    BY DEF Elements
  <2>1. Len(s) + i \in 1..Len(s \o t) /\ (s \o t)[Len(s) + i] = t[i]
    BY <1>1
  <2> QED
    BY <2>1 DEF Elements
<1> QED
  BY <1>1, <1>2, <1>3, <1>4

LEMMA AppendLog ==
  ASSUME NEW S, NEW s \in Seq(S), NEW x \in S
  PROVE  /\ Append(s, x) \in Seq(S) /\ Len(s) \in Nat
         /\ Len(Append(s, x)) = Len(s) + 1
         /\ \A i \in 1..Len(s) : Append(s, x)[i] = s[i]
         /\ Append(s, x)[Len(s) + 1] = x
         /\ Elements(Append(s, x)) = Elements(s) \cup {x}
<1>1. /\ Append(s, x) \in Seq(S) /\ Len(Append(s, x)) = Len(s) + 1 /\ Len(s) \in Nat
      /\ \A i \in 1..Len(s) : Append(s, x)[i] = s[i]
      /\ Append(s, x)[Len(s) + 1] = x
  OBVIOUS
<1>2. 1..(Len(s) + 1) = (1..Len(s)) \cup {Len(s) + 1}
  BY <1>1
<1>3. Elements(Append(s, x)) = Elements(s) \cup {x}
  BY <1>1, <1>2 DEF Elements
<1> QED
  BY <1>1, <1>3

\* A buffer loses its oldest message.
LEMMA TailLog ==
  ASSUME NEW S, NEW s \in Seq(S), s # <<>>
  PROVE  /\ Tail(s) \in Seq(S) /\ Len(Tail(s)) = Len(s) - 1 /\ Len(s) > 0
         /\ \A i \in 1..Len(Tail(s)) : Tail(s)[i] = s[i + 1]
         /\ Head(s) = s[1] /\ Head(s) \in S /\ Head(s) \in Elements(s)
         /\ Elements(Tail(s)) \subseteq Elements(s)
<1>1. /\ Tail(s) \in Seq(S) /\ Len(Tail(s)) = Len(s) - 1 /\ Len(s) > 0 /\ Len(s) \in Nat
      /\ \A i \in 1..Len(Tail(s)) : Tail(s)[i] = s[i + 1]
      /\ Head(s) = s[1] /\ Head(s) \in S
  OBVIOUS
<1>2. Head(s) \in Elements(s)
  BY <1>1 DEF Elements
<1>3. \A i \in 1..Len(Tail(s)) : i + 1 \in 1..Len(s)
  BY <1>1
<1> QED
  BY <1>1, <1>2, <1>3 DEF Elements

\* A topic that has grown.
Grown(s, t) == Len(s) <= Len(t) /\ \A i \in 1..Len(s) : t[i] = s[i]

LEMMA ConcatGrown ==
  ASSUME NEW S, NEW s \in Seq(S), NEW t \in Seq(S)
  PROVE  /\ Grown(s, s \o t) /\ s \o t \in Seq(S)
         /\ Elements(s \o t) = Elements(s) \cup Elements(t)
<1>1. /\ s \o t \in Seq(S) /\ Len(s \o t) = Len(s) + Len(t) /\ Len(s) \in Nat /\ Len(t) \in Nat
      /\ \A i \in 1..Len(s) : (s \o t)[i] = s[i]
      /\ Elements(s \o t) = Elements(s) \cup Elements(t)
  BY ConcatLog
<1> QED
  BY <1>1 DEF Grown

\* A batch is the front of the buffer; the rest stays.
LEMMA BatchLog ==
  ASSUME NEW S, NEW s \in Seq(S), NEW n \in 1..Len(s)
  PROVE  /\ Batch(s, n) \in Seq(S) /\ Len(Batch(s, n)) = n
         /\ \A i \in 1..n : Batch(s, n)[i] = s[i]
         /\ Rest(s, n) \in Seq(S) /\ Len(Rest(s, n)) = Len(s) - n
         /\ \A i \in 1..(Len(s) - n) : Rest(s, n)[i] = s[n + i]
         /\ Elements(Batch(s, n)) \subseteq Elements(s)
         /\ Elements(Rest(s, n)) \subseteq Elements(s)
<1>1. /\ Batch(s, n) \in Seq(S) /\ Len(Batch(s, n)) = n
      /\ \A i \in 1..n : Batch(s, n)[i] = s[i]
  BY DEF Batch
<1>2. /\ Rest(s, n) \in Seq(S) /\ Len(Rest(s, n)) = Len(s) - n
      /\ \A i \in 1..(Len(s) - n) : Rest(s, n)[i] = s[n + i]
  BY DEF Rest
<1>3. \A i \in 1..n : i \in 1..Len(s)
  OBVIOUS
<1>4. \A i \in 1..(Len(s) - n) : n + i \in 1..Len(s)
  OBVIOUS
<1>5. Elements(Batch(s, n)) \subseteq Elements(s)
  BY <1>1, <1>3 DEF Elements
<1>6. Elements(Rest(s, n)) \subseteq Elements(s)
  BY <1>2, <1>4 DEF Elements
<1> QED
  BY <1>1, <1>2, <1>5, <1>6

\* A delivered batch leaves the topic as it was and adds its messages.
LEMMA DeliveredLog ==
  ASSUME NEW S, NEW s \in Seq(S), NEW b \in Seq(S), NEW t \in Delivered(s, b)
  PROVE  /\ t \in Seq(S) /\ Grown(s, t)
         /\ Elements(t) = Elements(s) \cup Elements(b)
<1> DEFINE u == s \o b
<1>1. /\ Grown(s, u) /\ u \in Seq(S)
      /\ Elements(u) = Elements(s) \cup Elements(b)
  BY ConcatGrown
<1>2. t \in {u, u \o b}
  BY DEF Delivered
<1> HIDE DEF u
<1>3. u \in Seq(S)
  BY <1>1
<1>4. /\ Grown(u, u \o b) /\ u \o b \in Seq(S)
      /\ Elements(u \o b) = Elements(u) \cup Elements(b)
  BY <1>3, ConcatGrown
<1>5. Grown(s, u \o b)
  <2>1. Len(s) \in Nat /\ Len(u) \in Nat /\ Len(u \o b) \in Nat
    BY <1>3, <1>4
  <2>2. Len(s) <= Len(u) /\ Len(u) <= Len(u \o b)
    BY <1>1, <1>4 DEF Grown
  <2>3. \A i \in 1..Len(s) : i \in 1..Len(u)
    BY <2>1, <2>2
  <2>4. \A i \in 1..Len(s) : (u \o b)[i] = s[i]
    BY <1>1, <1>4, <2>3 DEF Grown
  <2> QED
    BY <2>1, <2>2, <2>4 DEF Grown
<1>6. CASE t = u
  BY <1>1, <1>6
<1>7. CASE t = u \o b
  BY <1>1, <1>4, <1>5, <1>7
<1> QED
  BY <1>2, <1>6, <1>7

-----------------------------------------------------------------------------
(* Type correctness. *)

USE DEF backendVars, workerVars, consumerVars

LEMMA InitType == Init => TypeOK /\ CommitInTopic
<1> SUFFICES ASSUME Init PROVE TypeOK /\ CommitInTopic
  OBVIOUS
<1>1. /\ accepted \subseteq Requests /\ worker \in {"down", "up", "dead"}
      /\ runs \in Nat /\ consumer \in ConsumerStates
      /\ consumer \notin {"reading", "saving"} /\ CommitInTopic
      /\ committed \in Nat \cup {NoOffset}
  BY DEF Init, ConsumerStates, CommitInTopic
<1>2. outbox \in Seq(Requests) /\ requests \in Seq(Requests) /\ wbuf \in Seq(Results)
      /\ results \in Seq(Results)
  BY DEF Init
<1>3. wpos \in 0..Len(requests) /\ cpos \in 0..Len(results) /\ from \in 0..Len(results)
      /\ handled \in 0..Len(results)
  BY DEF Init
<1>4. store \in [Requests -> StoredResults] /\ answer \in [Requests -> StoredResults]
      /\ waiter \in [Requests -> {"none", "waiting", "answered"}]
  BY DEF Init, StoredResults
<1>5. stops \in [backend : Nat, worker : Nat]
  BY DEF Init
<1> QED
  BY <1>1, <1>2, <1>3, <1>4, <1>5 DEF TypeOK

\* The result the consumer is working on is in the topic.
LEMMA CurrentType ==
  ASSUME TypeOK, consumer \in {"reading", "saving"}
  PROVE  Current \in Results /\ Current \in Elements(results) /\ Current.id \in Requests
<1>1. cpos \in 1..Len(results) /\ results \in Seq(Results)
  BY DEF TypeOK
<1>2. Current \in Results /\ Current \in Elements(results)
  BY <1>1 DEF Current, Elements
<1> QED
  BY <1>2 DEF Results

LEMMA SavedType ==
  ASSUME TypeOK, NEW s \in MaybeSaved
  PROVE  s \in [Requests -> StoredResults]
<1>1. CASE s = store
  BY <1>1 DEF TypeOK
<1>2. CASE consumer = "saving" /\ s = Saved(Current)
  <2>1. Current \in StoredResults /\ Current.id \in Requests
    BY <1>2, CurrentType DEF StoredResults
  <2> QED
    BY <1>2, <2>1 DEF TypeOK, Saved
<1> QED
  BY <1>1, <1>2 DEF MaybeSaved

\* The types of the topics and buffers alone.
LEMMA LogTypes ==
  ASSUME TypeOK
  PROVE  /\ outbox \in Seq(Requests) /\ requests \in Seq(Requests)
         /\ wbuf \in Seq(Results) /\ results \in Seq(Results)
         /\ Len(requests) \in Nat /\ Len(results) \in Nat
BY DEF TypeOK

\* The endpoints and the backend's producer.
LEMMA EndpointType ==
  ASSUME TypeOK, CommitInTopic,
         \/ \E r \in Requests : Enqueue(r) \/ StartWait(r) \/ WaitAnswered(r) \/ WaitGivesUp(r)
         \/ FlushRequest \/ RequestExpires
  PROVE  TypeOK' /\ CommitInTopic'
<1>1. ASSUME NEW r \in Requests, Enqueue(r) PROVE TypeOK' /\ CommitInTopic'
  <2>1. outbox' \in Seq(Requests) /\ accepted' \subseteq Requests
    BY <1>1 DEF TypeOK, Enqueue
  <2> QED
    BY <1>1, <2>1 DEF TypeOK, CommitInTopic, Enqueue
<1>2. ASSUME NEW r \in Requests, StartWait(r) \/ WaitAnswered(r) \/ WaitGivesUp(r)
      PROVE  TypeOK' /\ CommitInTopic'
  <2>1. waiter' \in [Requests -> {"none", "waiting", "answered"}]
        /\ answer' \in [Requests -> StoredResults]
    BY <1>2 DEF TypeOK, StartWait, WaitAnswered, WaitGivesUp
  <2> QED
    BY <1>2, <2>1 DEF TypeOK, CommitInTopic, StartWait, WaitAnswered, WaitGivesUp
<1>3. CASE FlushRequest
  <2>1. PICK n \in 1..Len(outbox) :
          requests' \in Delivered(requests, Batch(outbox, n)) /\ outbox' = Rest(outbox, n)
    BY <1>3 DEF FlushRequest
  <2>2. Rest(outbox, n) \in Seq(Requests) /\ Batch(outbox, n) \in Seq(Requests)
    BY LogTypes, BatchLog
  <2>3. requests \in Seq(Requests)
    BY LogTypes
  <2>5. requests' \in Seq(Requests) /\ Grown(requests, requests')
    BY <2>1, <2>2, <2>3, DeliveredLog
  <2>6. Len(requests') >= Len(requests) /\ Len(requests') \in Nat
    BY <2>3, <2>5 DEF Grown
  <2> QED
    BY <1>3, <2>1, <2>2, <2>5, <2>6 DEF TypeOK, CommitInTopic, FlushRequest
<1>4. CASE RequestExpires
  <2>1. Tail(outbox) \in Seq(Requests)
    BY <1>4, LogTypes, TailLog DEF RequestExpires
  <2> QED
    BY <1>4, <2>1 DEF TypeOK, CommitInTopic, RequestExpires
<1> QED
  BY <1>1, <1>2, <1>3, <1>4

\* The result consumer.
LEMMA ConsumerType ==
  ASSUME TypeOK, CommitInTopic,
         \/ Assign \/ Deliver \/ SkipDuplicate \/ BeginSave \/ Save \/ MongoFails
         \/ AutoCommit \/ BackendStart
  PROVE  TypeOK' /\ CommitInTopic'
<1>0. Len(results) \in Nat
  BY DEF TypeOK
<1>1. CASE Assign
  <2>1. cpos' \in 0..Len(results) /\ from' = cpos' /\ handled' = cpos'
    BY <1>0, <1>1 DEF Assign, CommitInTopic
  <2> QED
    BY <1>1, <2>1 DEF TypeOK, CommitInTopic, Assign, ConsumerStates
<1>2. CASE Deliver
  <2>1. cpos' \in 0..Len(results) /\ cpos' > 0
    BY <1>2 DEF TypeOK, Deliver
  <2> QED
    BY <1>2, <2>1 DEF TypeOK, CommitInTopic, Deliver, ConsumerStates
<1>3. CASE SkipDuplicate \/ BeginSave \/ BackendStart
  BY <1>3 DEF TypeOK, CommitInTopic, SkipDuplicate, BeginSave, BackendStart, ConsumerStates
<1>4. CASE Save
  <2>1. store' \in [Requests -> StoredResults]
    BY <1>4, SavedType DEF Save, MaybeSaved
  <2> QED
    BY <1>4, <2>1 DEF TypeOK, CommitInTopic, Save, ConsumerStates
<1>5. CASE MongoFails
  <2>1. store' \in [Requests -> StoredResults]
    BY <1>5, SavedType DEF MongoFails
  <2> QED
    BY <1>5, <2>1 DEF TypeOK, CommitInTopic, MongoFails, ConsumerStates
<1>6. CASE AutoCommit
  BY <1>6 DEF TypeOK, CommitInTopic, AutoCommit
<1> QED
  BY <1>1, <1>2, <1>3, <1>4, <1>5, <1>6

\* The ends of a backend process.
LEMMA BackendEndType ==
  ASSUME TypeOK, CommitInTopic, BackendShutdown \/ BackendKilled
  PROVE  TypeOK' /\ CommitInTopic'
<1>1. BackendEnds
  BY DEF BackendShutdown, BackendKilled
<1>2. store' \in [Requests -> StoredResults]
  BY <1>1, SavedType DEF BackendEnds
<1>3. outbox' \in Seq(Requests)
  BY <1>1 DEF BackendEnds
<1>4. waiter' \in [Requests -> {"none", "waiting", "answered"}]
  BY <1>1 DEF TypeOK, BackendEnds
<1>5. stops' \in [backend : Nat, worker : Nat]
  <2>1. stops' = [stops EXCEPT !.backend = stops.backend + 1]
    BY <1>1 DEF BackendEnds
  <2>2. stops \in [backend : Nat, worker : Nat]
    BY DEF TypeOK
  <2> QED
    BY <2>1, <2>2
<1>6. requests' \in Seq(Requests) /\ Len(requests') >= Len(requests) /\ Len(requests') \in Nat
  <2>1. requests' = requests \o outbox \/ requests' = requests
    BY DEF BackendShutdown, BackendKilled
  <2>2. requests \o outbox \in Seq(Requests) /\ Grown(requests, requests \o outbox)
    BY LogTypes, ConcatGrown
  <2>3. requests' \in Seq(Requests) /\ (Grown(requests, requests') \/ requests' = requests)
    BY <2>1, <2>2, LogTypes
  <2> QED
    BY <2>3, LogTypes DEF Grown
<1>7. committed' \in Nat \cup {NoOffset} /\ (committed' # NoOffset => committed' \in 0..Len(results))
  BY DEF TypeOK, CommitInTopic, BackendShutdown, BackendKilled
<1> QED
  BY <1>1, <1>2, <1>3, <1>4, <1>5, <1>6, <1>7
  DEF TypeOK, CommitInTopic, BackendEnds, ConsumerStates

\* The worker.
LEMMA WorkerType ==
  ASSUME TypeOK, CommitInTopic,
         \/ WorkerStart \/ Process \/ SendFails \/ FlushResult \/ ResultExpires
         \/ WorkerShutdown \/ WorkerKilled
  PROVE  TypeOK' /\ CommitInTopic'
<1>1. CASE WorkerStart
  BY <1>1 DEF TypeOK, CommitInTopic, WorkerStart
<1>2. CASE Process \/ SendFails
  <2>1. NextRun /\ wpos' \in 0..Len(requests) /\ runs' \in Nat
    BY <1>2 DEF TypeOK, NextRun, Process, SendFails
  <2>2. requests[wpos + 1] \in Requests
    BY <2>1 DEF TypeOK, NextRun
  <2>3. wbuf' \in Seq(Results)
    <3>1. CASE Process
      <4>1. PICK status \in Statuses :
              wbuf' = Append(wbuf, [id |-> requests[wpos + 1], status |-> status,
                                    finished_at |-> runs])
        BY <3>1 DEF Process
      <4>2. [id |-> requests[wpos + 1], status |-> status, finished_at |-> runs] \in Results
        BY <2>2 DEF TypeOK, Results
      <4> QED
        BY <4>1, <4>2 DEF TypeOK
    <3> QED
      BY <1>2, <3>1 DEF TypeOK, SendFails
  <2>4. worker' \in {"down", "up", "dead"}
    BY <1>2 DEF TypeOK, Process, SendFails
  <2> QED
    BY <1>2, <2>1, <2>3, <2>4 DEF TypeOK, CommitInTopic, Process, SendFails
<1>3. CASE FlushResult
  <2>1. PICK n \in 1..Len(wbuf) :
          results' \in Delivered(results, Batch(wbuf, n)) /\ wbuf' = Rest(wbuf, n)
    BY <1>3 DEF FlushResult
  <2>2. Rest(wbuf, n) \in Seq(Results) /\ Batch(wbuf, n) \in Seq(Results)
    BY LogTypes, BatchLog
  <2>3. results \in Seq(Results)
    BY LogTypes
  <2>5. results' \in Seq(Results) /\ Grown(results, results')
    BY <2>1, <2>2, <2>3, DeliveredLog
  <2>6. Len(results') >= Len(results) /\ Len(results') \in Nat
    BY <2>3, <2>5 DEF Grown
  <2> QED
    BY <1>3, <2>1, <2>2, <2>5, <2>6, LogTypes DEF TypeOK, CommitInTopic, FlushResult
<1>4. CASE ResultExpires
  <2>1. Tail(wbuf) \in Seq(Results)
    BY <1>4, LogTypes, TailLog DEF ResultExpires
  <2> QED
    BY <1>4, <2>1 DEF TypeOK, CommitInTopic, ResultExpires
<1>5. CASE WorkerShutdown \/ WorkerKilled
  <2>1. results' \in Seq(Results) /\ Len(results') >= Len(results) /\ Len(results') \in Nat
    <3>1. results' = results \o wbuf \/ results' = results
      BY <1>5 DEF WorkerShutdown, WorkerKilled
    <3>2. results \o wbuf \in Seq(Results) /\ Grown(results, results \o wbuf)
      BY LogTypes, ConcatGrown
    <3>3. results' \in Seq(Results) /\ (Grown(results, results') \/ results' = results)
      BY <3>1, <3>2, LogTypes
    <3> QED
      BY <3>3, LogTypes DEF Grown
  <2>2. stops' \in [backend : Nat, worker : Nat]
    <3>1. stops' = [stops EXCEPT !.worker = stops.worker + 1]
      BY <1>5 DEF WorkerShutdown, WorkerKilled, WorkerEnds
    <3>2. stops \in [backend : Nat, worker : Nat]
      BY DEF TypeOK
    <3> QED
      BY <3>1, <3>2
  <2>3. wbuf' = <<>> /\ <<>> \in Seq(Results)
    BY <1>5 DEF WorkerShutdown, WorkerKilled, WorkerEnds
  <2> QED
    BY <1>5, <2>1, <2>2, <2>3, LogTypes DEF TypeOK, CommitInTopic, WorkerShutdown, WorkerKilled, WorkerEnds
<1> QED
  BY <1>1, <1>2, <1>3, <1>4, <1>5

LEMMA NextType == TypeOK /\ CommitInTopic /\ [Next]_vars => TypeOK' /\ CommitInTopic'
<1> SUFFICES ASSUME TypeOK, CommitInTopic, [Next]_vars PROVE TypeOK' /\ CommitInTopic'
  OBVIOUS
<1>1. CASE UNCHANGED vars
  BY <1>1 DEF TypeOK, CommitInTopic, vars
<1> QED
  BY <1>1, EndpointType, ConsumerType, BackendEndType, WorkerType DEF Next

LEMMA TypesHold == Spec => [](TypeOK /\ CommitInTopic)
BY InitType, NextType, PTL DEF Spec

\* Every offset stays within its topic and every record keeps its type, whichever
\* process ends and whatever the client libraries repeat.
THEOREM TypeCorrect == Spec => []TypeOK
BY TypesHold, PTL

-----------------------------------------------------------------------------
(* The consumer's offsets. *)

LEMMA OffsetStep ==
  ASSUME TypeOK, OffsetInv, [Next]_vars
  PROVE  OffsetInv'
<1>1. /\ cpos \in Nat /\ handled \in Nat /\ Len(results) \in Nat
      /\ committed \in Nat \cup {NoOffset} /\ NoOffset \notin Nat
  BY PipelineAssumption DEF TypeOK
<1>2. CASE UNCHANGED <<consumer, cpos, handled, committed>>
  BY <1>2 DEF OffsetInv, Progress, CommitAtMostOneAhead
<1>3. CASE Assign
  <2>1. consumer' = "idle" /\ handled' = cpos' /\ committed' = committed
        /\ (committed # NoOffset => handled' = committed) /\ handled' \in Nat
    BY <1>1, <1>3 DEF Assign
  <2>2. Progress'
    BY <2>1 DEF Progress
  <2>3. committed' # NoOffset => committed' <= handled' + 1
    <3>1. CASE committed = NoOffset
      BY <2>1, <3>1
    <3>2. CASE committed \in Nat
      BY <2>1, <3>2
    <3> QED
      BY <1>1, <3>1, <3>2
  <2> QED
    BY <2>2, <2>3 DEF OffsetInv, CommitAtMostOneAhead
<1>4. CASE Deliver \/ BeginSave \/ BackendStart \/ MongoFails
  BY <1>1, <1>4 DEF OffsetInv, Progress, CommitAtMostOneAhead, Deliver, BeginSave,
                    BackendStart, MongoFails
<1>5. CASE SkipDuplicate \/ Save
  <2>1. consumer' = "idle" /\ handled' = cpos /\ cpos' = cpos /\ committed' = committed
        /\ cpos = handled + 1
    BY <1>5 DEF SkipDuplicate, Save, OffsetInv, Progress
  <2> QED
    BY <1>1, <2>1 DEF OffsetInv, Progress, CommitAtMostOneAhead
<1>6. CASE AutoCommit
  BY <1>1, <1>6 DEF OffsetInv, Progress, CommitAtMostOneAhead, AutoCommit
<1>7. CASE BackendShutdown \/ BackendKilled
  <2>1. consumer' = "down" /\ cpos' = cpos /\ handled' = handled
        /\ committed' \in {cpos, committed}
    BY <1>7 DEF BackendShutdown, BackendKilled, BackendEnds
  <2> QED
    BY <1>1, <2>1 DEF OffsetInv, Progress, CommitAtMostOneAhead
<1> QED
  BY <1>2, <1>3, <1>4, <1>5, <1>6, <1>7
  DEF Next, vars, Enqueue, FlushRequest, RequestExpires, StartWait, WaitAnswered, WaitGivesUp,
      WorkerStart, Process, SendFails, FlushResult, ResultExpires, WorkerShutdown, WorkerKilled,
      WorkerEnds

LEMMA OffsetsHold == Spec => []OffsetInv
<1>1. Init => OffsetInv
  BY DEF Init, OffsetInv, Progress, CommitAtMostOneAhead
<1> QED
  BY <1>1, TypesHold, OffsetStep, PTL DEF Spec

\* The position is at most one result ahead of what was got through, and so is the
\* committed offset: however a process ends, a restart loses one result at most.
THEOREM CommitBounded == Spec => []CommitAtMostOneAhead
BY OffsetsHold, PTL DEF OffsetInv

-----------------------------------------------------------------------------
(* The topic of results grows, and no step rewrites it. *)

LEMMA ResultsGrow ==
  ASSUME TypeOK, [Next]_vars
  PROVE  Grown(results, results') /\ (results' = results \/ UNCHANGED consumerVars)
<1>1. results \in Seq(Results) /\ wbuf \in Seq(Results) /\ Len(results) \in Nat
  BY LogTypes
<1>2. CASE UNCHANGED results
  BY <1>1, <1>2 DEF Grown
<1>3. CASE FlushResult
  <2>1. PICK n \in 1..Len(wbuf) : results' \in Delivered(results, Batch(wbuf, n))
    BY <1>3 DEF FlushResult
  <2>2. Batch(wbuf, n) \in Seq(Results)
    BY <1>1, BatchLog
  <2>3. UNCHANGED consumerVars
    BY <1>3 DEF FlushResult
  <2> QED
    BY <1>1, <2>1, <2>2, <2>3, DeliveredLog
<1>4. CASE WorkerShutdown
  <2>1. results' = results \o wbuf \/ results' = results
    BY <1>4 DEF WorkerShutdown
  <2>2. Grown(results, results \o wbuf) /\ Grown(results, results)
    BY <1>1, ConcatGrown DEF Grown
  <2>3. UNCHANGED consumerVars
    BY <1>4 DEF WorkerShutdown, WorkerEnds
  <2>4. Grown(results, results')
    BY <2>1, <2>2
  <2> QED
    BY <2>3, <2>4
<1> QED
  BY <1>2, <1>3, <1>4
  DEF Next, vars, Enqueue, FlushRequest, RequestExpires, StartWait, WaitAnswered, WaitGivesUp,
      Assign, Deliver, SkipDuplicate, BeginSave, Save, MongoFails, AutoCommit, BackendStart,
      BackendShutdown, BackendKilled, BackendEnds, WorkerStart, Process, SendFails,
      ResultExpires, WorkerKilled

-----------------------------------------------------------------------------
(* The newest result got through is the one stored. *)

\* A step that handles nothing and keeps the records, on a topic that may grow.
LEMMA NewestFrame ==
  ASSUME TypeOK, OffsetInv, NewestHandledIsStored, Grown(results, results'),
         UNCHANGED <<cpos, from, handled, store>>,
         consumer' \in {"dead", "down", "joining"} \/ consumer \in {"idle", "reading", "saving"}
           \/ consumer' = consumer
  PROVE  NewestHandledIsStored'
<1>1. /\ from \in 0..Len(results) /\ handled \in 0..Len(results) /\ cpos \in 0..Len(results)
      /\ cpos \in {handled, handled + 1} /\ Len(results) \in Nat
  BY DEF TypeOK, OffsetInv, Progress
<1>2. \A i \in 1..Len(results) : results'[i] = results[i]
  BY DEF Grown
<1>3. ASSUME NEW i \in (from + 1)..handled,
             \A j \in (i + 1)..handled : results'[j].id # results'[i].id
      PROVE  \/ store[results'[i].id] = results'[i]
             \/ consumer' \in {"dead", "down", "joining"} /\ store[results'[i].id] = results'[cpos]
  <2>1. results'[i] = results[i] /\ results'[cpos] = results[cpos]
    BY <1>1, <1>2, <1>3
  <2>2. \A j \in (i + 1)..handled : results[j].id # results[i].id
    BY <1>1, <1>2, <1>3, <2>1
  <2>3. \/ store[results[i].id] = results[i]
        \/ consumer \in {"dead", "down", "joining"} /\ store[results[i].id] = results[cpos]
    BY <2>2 DEF NewestHandledIsStored
  <2> QED
    BY <2>1, <2>3
<1> QED
  BY <1>3 DEF NewestHandledIsStored

\* An interrupted save shows the result in hand or leaves the records alone.
LEMMA NewestInterrupted ==
  ASSUME TypeOK, OffsetInv, NewestHandledIsStored, UNCHANGED <<results, cpos, from, handled>>,
         consumer' \in {"dead", "down"}, store' \in MaybeSaved
  PROVE  NewestHandledIsStored'
<1>1. CASE store' = store
  <2>1. results \in Seq(Results) /\ Grown(results, results')
    BY DEF TypeOK, Grown
  <2> QED
    BY <1>1, <2>1, NewestFrame
<1>2. CASE consumer = "saving" /\ store' = Saved(Current)
  <2>1. store \in [Requests -> StoredResults] /\ results \in Seq(Results)
        /\ from \in 0..Len(results) /\ handled \in 0..Len(results) /\ Len(results) \in Nat
    BY DEF TypeOK
  <2>2. ASSUME NEW i \in (from + 1)..handled,
               \A j \in (i + 1)..handled : results[j].id # results[i].id
        PROVE  store'[results[i].id] \in {results[i], Current}
    <3>1. store[results[i].id] = results[i]
      BY <1>2, <2>2 DEF NewestHandledIsStored
    <3>2. results[i] \in Results
      BY <2>1
    <3>3. results[i].id \in Requests
      BY <3>2 DEF Results
    <3> QED
      BY <1>2, <2>1, <3>1, <3>3 DEF Saved
  <2> QED
    BY <2>2 DEF NewestHandledIsStored, Current
<1> QED
  BY <1>1, <1>2 DEF MaybeSaved

\* The result in hand is got through.
LEMMA NewestHandled ==
  ASSUME TypeOK, OffsetInv, NewestHandledIsStored, SkipDuplicate \/ Save
  PROVE  NewestHandledIsStored'
<1>1. /\ UNCHANGED <<results, cpos, from>> /\ handled' = cpos /\ cpos = handled + 1
      /\ consumer \in {"reading", "saving"}
  BY DEF SkipDuplicate, Save, OffsetInv, Progress
<1>2. store \in [Requests -> StoredResults] /\ results \in Seq(Results)
      /\ from \in Nat /\ handled \in Nat
  BY DEF TypeOK
<1>3. Current.id \in Requests
  BY <1>1, CurrentType
<1>4. store'[Current.id] = Current /\ \A r \in Requests \ {Current.id} : store'[r] = store[r]
  BY <1>2, <1>3 DEF SkipDuplicate, Save, Saved, IsDuplicate
<1>5. ASSUME NEW i \in (from + 1)..cpos,
             \A j \in (i + 1)..cpos : results[j].id # results[i].id
      PROVE  store'[results[i].id] = results[i]
  <2>1. CASE i = cpos
    BY <1>4, <2>1 DEF Current
  <2>2. CASE i # cpos
    <3>1. i \in (from + 1)..handled /\ cpos \in (i + 1)..cpos
          /\ \A j \in (i + 1)..handled : j \in (i + 1)..cpos
      BY <1>1, <1>2, <2>2
    <3>2. store[results[i].id] = results[i] /\ results[i].id # Current.id
      BY <1>1, <1>5, <3>1 DEF NewestHandledIsStored, Current
    <3>3. cpos \in 1..Len(results)
      BY <1>1 DEF TypeOK
    <3>4. results[i] \in Results
      BY <1>2, <3>1, <3>3
    <3>5. results[i].id \in Requests
      BY <3>4 DEF Results
    <3> QED
      BY <1>4, <3>2, <3>5
  <2> QED
    BY <2>1, <2>2
<1> QED
  BY <1>1, <1>5 DEF NewestHandledIsStored

LEMMA NewestStep ==
  ASSUME TypeOK, OffsetInv, NewestHandledIsStored, [Next]_vars
  PROVE  NewestHandledIsStored'
<1>1. Grown(results, results') /\ (results' = results \/ UNCHANGED consumerVars)
  BY ResultsGrow
<1>2. CASE SkipDuplicate \/ Save
  BY <1>2, NewestHandled
<1>3. CASE MongoFails \/ BackendShutdown \/ BackendKilled
  <2>1. UNCHANGED <<results, cpos, from, handled>> /\ consumer' \in {"dead", "down"}
        /\ store' \in MaybeSaved
    BY <1>3 DEF MongoFails, BackendShutdown, BackendKilled, BackendEnds
  <2> QED
    BY <2>1, NewestInterrupted
<1>4. CASE Assign
  <2>1. from' = handled' /\ handled' \in Nat
    <3>1. Len(results) \in Nat /\ committed \in Nat \cup {NoOffset}
      BY DEF TypeOK
    <3> QED
      BY <1>4, <3>1 DEF Assign
  <2>2. \A n \in Nat : \A i \in (n + 1)..n : FALSE
    OBVIOUS
  <2>3. \A i \in (from' + 1)..handled' : FALSE
    BY <2>1, <2>2, Zenon
  <2> QED
    BY <2>3 DEF NewestHandledIsStored
<1>5. CASE Deliver
  <2>1. consumer = "idle" /\ consumer' = "reading" /\ UNCHANGED <<results, from, handled, store>>
    BY <1>5 DEF Deliver
  <2> QED
    BY <2>1 DEF NewestHandledIsStored
<1>6. CASE ~(SkipDuplicate \/ Save \/ MongoFails \/ BackendShutdown \/ BackendKilled \/ Assign
             \/ Deliver)
  <2>1. /\ UNCHANGED <<cpos, from, handled, store>>
        /\ \/ consumer' \in {"dead", "down", "joining"}
           \/ consumer \in {"idle", "reading", "saving"}
           \/ consumer' = consumer
    BY <1>6
    DEF Next, vars, Enqueue, FlushRequest, RequestExpires, StartWait, WaitAnswered, WaitGivesUp,
        BeginSave, AutoCommit, BackendStart, WorkerStart, Process, SendFails, FlushResult,
        ResultExpires, WorkerShutdown, WorkerKilled, WorkerEnds
  <2> QED
    BY <1>1, <2>1, NewestFrame
<1> QED
  BY <1>2, <1>3, <1>4, <1>5, <1>6

\* For each request the newest result the consumer got through since it was given the
\* partition is the record in MongoDB, whatever a redelivery brought back on the way.
THEOREM NewestStored == Spec => []NewestHandledIsStored
<1>1. Init => NewestHandledIsStored
  BY DEF Init, NewestHandledIsStored
<1> QED
  BY <1>1, TypesHold, OffsetsHold, NewestStep, PTL DEF Spec

-----------------------------------------------------------------------------
(* The order of the runs. *)

LEMMA FinishedAtNat ==
  ASSUME NEW s \in Seq(Results)
  PROVE  /\ \A i \in 1..Len(s) : s[i].finished_at \in Nat /\ s[i] \in Elements(s)
         /\ \A x \in Elements(s) : x.finished_at \in Nat /\ x \in Results
<1>1. \A i \in 1..Len(s) : s[i] \in Results /\ s[i] \in Elements(s)
  BY DEF Elements
<1>2. \A x \in Results : x.finished_at \in Nat
  BY DEF Results
<1> QED
  BY <1>1, <1>2 DEF Elements

\* Newer messages put behind a topic, in order, keep it in order ...
LEMMA OrderedBehind ==
  ASSUME NEW s \in Seq(Results), NEW b \in Seq(Results), InOrder(s), Sorted(b), Older(s, b)
  PROVE  InOrder(s \o b)
<1> DEFINE t == s \o b
<1>1. /\ t \in Seq(Results) /\ Len(t) = Len(s) + Len(b) /\ Len(s) \in Nat /\ Len(b) \in Nat
      /\ \A i \in 1..Len(s) : t[i] = s[i]
      /\ \A i \in (Len(s) + 1)..(Len(s) + Len(b)) : t[i] = b[i - Len(s)]
  BY ConcatLog
<1> HIDE DEF t
<1>2. /\ \A i \in 1..Len(s) : s[i].finished_at \in Nat
      /\ \A i \in 1..Len(b) : b[i].finished_at \in Nat
  BY FinishedAtNat
<1>3. ASSUME NEW i \in 1..Len(t), NEW j \in 1..Len(t), i < j, t[j].finished_at < t[i].finished_at
      PROVE  Repeats(t, i, j)
  <2>1. CASE j \in 1..Len(s)
    <3>1. i \in 1..Len(s) /\ t[i] = s[i] /\ t[j] = s[j]
      BY <1>1, <1>3, <2>1
    <3>2. PICK k \in 1..(i - 1) : s[k] = s[j]
      BY <1>3, <2>1, <3>1 DEF InOrder, Repeats
    <3>3. PICK l \in (j + 1)..Len(s) : s[l] = s[i]
      BY <1>3, <2>1, <3>1 DEF InOrder, Repeats
    <3>4. k \in 1..Len(s) /\ l \in 1..Len(s) /\ l \in (j + 1)..Len(t)
      BY <1>1, <2>1, <3>1, <3>2, <3>3
    <3>5. t[k] = t[j] /\ t[l] = t[i]
      BY <1>1, <3>1, <3>2, <3>3, <3>4
    <3> QED
      BY <3>2, <3>4, <3>5 DEF Repeats
  <2>2. CASE j \notin 1..Len(s)
    <3>1. j - Len(s) \in 1..Len(b) /\ t[j] = b[j - Len(s)]
      BY <1>1, <2>2
    <3>2. CASE i \in 1..Len(s)
      <4> DEFINE q == j - Len(s)
      <4>1. t[i] = s[i] /\ q \in 1..Len(b) /\ t[j] = b[q]
        BY <1>1, <3>1, <3>2
      <4> HIDE DEF q
      <4>2. s[i].finished_at < b[q].finished_at
        BY <3>2, <4>1 DEF Older
      <4>3. s[i].finished_at \in Nat /\ b[q].finished_at \in Nat
        BY <1>2, <3>2, <4>1
      <4> QED
        BY <1>3, <4>1, <4>2, <4>3
    <3>3. CASE i \notin 1..Len(s)
      <4> DEFINE p == i - Len(s)
                 q == j - Len(s)
      <4>1. p \in 1..Len(b) /\ t[i] = b[p] /\ p < q /\ q \in 1..Len(b) /\ t[j] = b[q]
        BY <1>1, <1>3, <3>1, <3>3
      <4> HIDE DEF p, q
      <4>2. b[p].finished_at < b[q].finished_at
        BY <4>1 DEF Sorted
      <4>3. b[p].finished_at \in Nat /\ b[q].finished_at \in Nat
        BY <1>2, <4>1
      <4> QED
        BY <1>3, <4>1, <4>2, <4>3
    <3> QED
      BY <3>2, <3>3
  <2> QED
    BY <2>1, <2>2
<1> QED
  BY <1>3 DEF InOrder, t

\* ... and so they do a second time over: what is older in the second copy has been
\* there in the first, and what is newer in the first comes in the second.
LEMMA OrderedTwice ==
  ASSUME NEW s \in Seq(Results), NEW b \in Seq(Results), InOrder(s), Sorted(b), Older(s, b)
  PROVE  InOrder((s \o b) \o b)
<1> DEFINE u == s \o b
           t == u \o b
           n == Len(s)
           m == Len(b)
<1>1. /\ u \in Seq(Results) /\ Len(u) = n + m /\ n \in Nat /\ m \in Nat
      /\ \A i \in 1..n : u[i] = s[i]
      /\ \A i \in (n + 1)..(n + m) : u[i] = b[i - n]
  BY ConcatLog
<1>2. InOrder(u)
  BY OrderedBehind
<1> HIDE DEF u
<1>3. /\ Len(t) = Len(u) + m
      /\ \A i \in 1..Len(u) : t[i] = u[i]
      /\ \A i \in (Len(u) + 1)..(Len(u) + m) : t[i] = b[i - Len(u)]
  <2>1. u \in Seq(Results)
    BY <1>1
  <2> QED
    BY <2>1, ConcatLog
<1>4. /\ \A i \in 1..n : s[i].finished_at \in Nat
      /\ \A i \in 1..m : b[i].finished_at \in Nat
  BY FinishedAtNat
<1>5. \A i \in 1..m : u[n + i] = b[i] /\ n + i \in 1..Len(u) /\ t[n + i] = b[i]
  <2> SUFFICES ASSUME NEW i \in 1..m PROVE u[n + i] = b[i] /\ n + i \in 1..Len(u) /\ t[n + i] = b[i]
    OBVIOUS
  <2> HIDE DEF n, m, t
  <2>1. n + i \in (n + 1)..(n + m) /\ (n + i) - n = i /\ n + i \in 1..Len(u)
    BY <1>1
  <2> QED
    BY <1>1, <1>3, <2>1
<1>6. \A i \in 1..m : t[Len(u) + i] = b[i]
  <2> SUFFICES ASSUME NEW i \in 1..m PROVE t[Len(u) + i] = b[i]
    OBVIOUS
  <2> HIDE DEF n, m, t
  <2>1. Len(u) + i \in (Len(u) + 1)..(Len(u) + m) /\ (Len(u) + i) - Len(u) = i
    BY <1>1
  <2> QED
    BY <1>3, <2>1
<1> HIDE DEF n, m, t
<1>7. ASSUME NEW i \in 1..Len(t), NEW j \in 1..Len(t), i < j, t[j].finished_at < t[i].finished_at
      PROVE  Repeats(t, i, j)
  <2>1. CASE j \in 1..Len(u)
    <3>1. i \in 1..Len(u) /\ t[i] = u[i] /\ t[j] = u[j]
      BY <1>1, <1>3, <1>7, <2>1
    <3>2. PICK k \in 1..(i - 1) : u[k] = u[j]
      BY <1>2, <1>7, <2>1, <3>1 DEF InOrder, Repeats
    <3>3. PICK l \in (j + 1)..Len(u) : u[l] = u[i]
      BY <1>2, <1>7, <2>1, <3>1 DEF InOrder, Repeats
    <3>4. k \in 1..Len(u) /\ l \in 1..Len(u) /\ l \in (j + 1)..Len(t)
      BY <1>1, <1>3, <2>1, <3>1, <3>2, <3>3
    <3>5. t[k] = t[j] /\ t[l] = t[i]
      BY <1>3, <3>1, <3>2, <3>3, <3>4
    <3> QED
      BY <3>2, <3>4, <3>5 DEF Repeats
  <2>2. CASE j \notin 1..Len(u)
    <3> DEFINE q == j - Len(u)
    <3>0. Len(u) \in Nat /\ m \in Nat /\ Len(t) = Len(u) + m /\ j \in 1..Len(t)
      BY <1>1, <1>3
    <3>1. q \in 1..m /\ t[j] = b[q] /\ j = Len(u) + q
      <4>1. j \in (Len(u) + 1)..(Len(u) + m)
        BY <2>2, <3>0
      <4>2. q \in 1..m /\ j = Len(u) + q
        BY <3>0, <4>1
      <4> QED
        BY <1>3, <4>1, <4>2
    <3> HIDE DEF q
    <3>2. CASE i \in 1..n
      <4>1. t[i] = s[i]
        BY <1>1, <1>3, <3>2
      <4>2. s[i].finished_at < b[q].finished_at
        BY <3>1, <3>2 DEF Older, n, m
      <4> QED
        BY <1>4, <1>7, <3>1, <3>2, <4>1, <4>2
    <3>3. CASE i \notin 1..n /\ i \in 1..Len(u)
      <4> DEFINE p == i - n
      <4>1. p \in 1..m /\ i = n + p
        BY <1>1, <3>3
      <4> HIDE DEF p
      <4>2. t[i] = b[p]
        BY <1>5, <4>1
      <4>3. b[q].finished_at < b[p].finished_at
        BY <1>7, <3>1, <4>2
      <4>4. q < p
        <5>1. p < q => b[p].finished_at < b[q].finished_at
          BY <3>1, <4>1 DEF Sorted, m
        <5>2. b[p].finished_at \in Nat /\ b[q].finished_at \in Nat
          BY <1>4, <3>1, <4>1
        <5> QED
          BY <3>1, <4>1, <4>3, <5>1, <5>2
      <4>5. n + q \in 1..(i - 1) /\ t[n + q] = t[j]
        BY <1>1, <1>5, <3>1, <4>1, <4>4
      <4>6. Len(u) + p \in (j + 1)..Len(t) /\ t[Len(u) + p] = t[i]
        BY <1>1, <1>3, <1>6, <3>1, <4>1, <4>2, <4>4
      <4>7. \E k \in 1..(i - 1) : t[k] = t[j]
        BY <4>5
      <4>8. \E k \in (j + 1)..Len(t) : t[k] = t[i]
        BY <4>6
      <4> QED
        BY <4>7, <4>8 DEF Repeats
    <3>4. CASE i \notin 1..Len(u)
      <4> DEFINE p == i - Len(u)
      <4>1. p \in 1..m /\ i = Len(u) + p
        BY <1>1, <1>3, <3>4
      <4>2. p < q
        BY <1>1, <1>7, <3>1, <4>1
      <4> HIDE DEF p
      <4>3. t[i] = b[p] /\ b[p].finished_at < b[q].finished_at
        BY <1>6, <3>1, <4>1, <4>2 DEF Sorted, m
      <4>4. b[p].finished_at \in Nat /\ b[q].finished_at \in Nat
        BY <1>4, <3>1, <4>1
      <4> QED
        BY <1>7, <3>1, <4>3, <4>4
    <3> QED
      BY <3>2, <3>3, <3>4
  <2> QED
    BY <2>1, <2>2
<1> QED
  BY <1>7 DEF InOrder, t, u

\* A batch of the worker's buffer is delivered, once or twice.
LEMMA RunOrderFlush ==
  ASSUME TypeOK, RunOrder, FlushResult
  PROVE  RunOrder'
<1>0. runs' = runs
  BY DEF FlushResult
<1>1. PICK n \in 1..Len(wbuf) :
        results' \in Delivered(results, Batch(wbuf, n)) /\ wbuf' = Rest(wbuf, n)
  BY DEF FlushResult
<1>2. wbuf \in Seq(Results) /\ results \in Seq(Results) /\ runs \in Nat
  BY DEF TypeOK
<1> DEFINE b == Batch(wbuf, n)
           rest == Rest(wbuf, n)
<1>3. /\ b \in Seq(Results) /\ Len(b) = n /\ \A i \in 1..n : b[i] = wbuf[i]
      /\ rest \in Seq(Results) /\ Len(rest) = Len(wbuf) - n /\ Len(wbuf) \in Nat
      /\ \A i \in 1..(Len(wbuf) - n) : rest[i] = wbuf[n + i]
      /\ Elements(b) \subseteq Elements(wbuf) /\ Elements(rest) \subseteq Elements(wbuf)
  BY <1>2, BatchLog
<1>4. results' \in Seq(Results) /\ Elements(results') = Elements(results) \cup Elements(b)
  BY <1>1, <1>2, <1>3, DeliveredLog
<1>5. results' \in {results \o b, (results \o b) \o b}
  BY <1>1 DEF Delivered
<1>6. wbuf' = rest
  BY <1>1
<1> HIDE DEF b, rest
<1>7. Sorted(b) /\ Sorted(rest) /\ Older(b, rest)
  <2>1. \A i \in 1..n : i \in 1..Len(wbuf)
    BY <1>3
  <2>2. \A i \in 1..(Len(wbuf) - n) : n + i \in 1..Len(wbuf)
    BY <1>3
  <2>3. Sorted(b)
    BY <1>3, <2>1 DEF Sorted, RunOrder
  <2>4. Sorted(rest)
    BY <1>3, <2>2 DEF Sorted, RunOrder
  <2>5. Older(b, rest)
    BY <1>3, <2>1, <2>2 DEF Older, Sorted, RunOrder
  <2> QED
    BY <2>3, <2>4, <2>5
<1>8. Older(results, b) /\ Older(results, rest)
  <2>1. \A i \in 1..Len(results) : \A j \in 1..Len(wbuf) :
          results[i].finished_at < wbuf[j].finished_at
    BY DEF RunOrder, Older
  <2>2. /\ \A i \in 1..n : i \in 1..Len(wbuf)
        /\ \A i \in 1..(Len(wbuf) - n) : n + i \in 1..Len(wbuf)
    BY <1>3
  <2>3. Older(results, b)
    BY <1>3, <2>1, <2>2 DEF Older
  <2>4. Older(results, rest)
    BY <1>3, <2>1, <2>2 DEF Older
  <2> QED
    BY <2>3, <2>4
<1>9. InOrder(results')
  BY <1>2, <1>3, <1>5, <1>7, <1>8, OrderedBehind, OrderedTwice DEF RunOrder
<1>10. Older(results', rest)
  <2>1. \A x \in Elements(results) \cup Elements(b) : \A j \in 1..Len(rest) :
          x.finished_at < rest[j].finished_at
    BY <1>7, <1>8 DEF Older, Elements
  <2>2. \A i \in 1..Len(results') : results'[i] \in Elements(results')
    BY DEF Elements
  <2> QED
    BY <1>4, <2>1, <2>2 DEF Older
<1>11. \A x \in Elements(results') \cup Elements(wbuf') : x.finished_at < runs'
  BY <1>0, <1>3, <1>4, <1>6 DEF RunOrder
<1> QED
  BY <1>6, <1>7, <1>9, <1>10, <1>11 DEF RunOrder

\* The buffer loses its oldest message.
LEMMA RunOrderExpires ==
  ASSUME TypeOK, RunOrder, ResultExpires
  PROVE  RunOrder'
<1>1. wbuf # <<>> /\ wbuf' = Tail(wbuf) /\ runs' = runs /\ results' = results
  BY DEF ResultExpires
<1>2. wbuf \in Seq(Results) /\ Len(wbuf) \in Nat
  BY DEF TypeOK
<1>3. /\ Len(wbuf') = Len(wbuf) - 1 /\ Elements(wbuf') \subseteq Elements(wbuf)
      /\ \A i \in 1..Len(wbuf') : wbuf'[i] = wbuf[i + 1]
  BY <1>1, <1>2, TailLog
<1>4. \A i \in 1..Len(wbuf') : i + 1 \in 1..Len(wbuf)
  BY <1>2, <1>3
<1>5. Sorted(wbuf')
  BY <1>3, <1>4 DEF Sorted, RunOrder
<1>6. Older(results', wbuf')
  BY <1>1, <1>3, <1>4 DEF Older, RunOrder
<1>7. \A x \in Elements(results') \cup Elements(wbuf') : x.finished_at < runs'
  BY <1>1, <1>3 DEF RunOrder
<1> QED
  BY <1>1, <1>5, <1>6, <1>7 DEF RunOrder

LEMMA RunOrderProcess ==
  ASSUME TypeOK, RunOrder, Process \/ SendFails
  PROVE  RunOrder'
<1>1. runs' = runs + 1 /\ results' = results /\ worker = "up" /\ wpos < Len(requests)
  BY DEF Process, SendFails, NextRun
<1>2. wbuf \in Seq(Results) /\ results \in Seq(Results) /\ runs \in Nat
  BY DEF TypeOK
<1>3. /\ \A x \in Elements(results) : x.finished_at \in Nat
      /\ \A x \in Elements(wbuf) : x.finished_at \in Nat
  BY <1>2, FinishedAtNat
<1>4. CASE SendFails
  <2>1. wbuf' = wbuf
    BY <1>4 DEF SendFails
  <2>2. \A x \in Elements(results) \cup Elements(wbuf) : x.finished_at < runs'
    BY <1>1, <1>2, <1>3 DEF RunOrder
  <2> QED
    BY <1>1, <2>1, <2>2 DEF RunOrder
<1>5. CASE Process
  <2>1. PICK status \in Statuses :
          wbuf' = Append(wbuf, [id |-> requests[wpos + 1], status |-> status,
                                finished_at |-> runs])
    BY <1>5 DEF Process
  <2> DEFINE result == [id |-> requests[wpos + 1], status |-> status, finished_at |-> runs]
  <2>2. requests[wpos + 1] \in Requests
    BY <1>1 DEF TypeOK
  <2>3. result \in Results /\ result.finished_at = runs
    BY <1>2, <2>2 DEF Results
  <2> HIDE DEF result
  <2>4. /\ wbuf' \in Seq(Results) /\ Len(wbuf') = Len(wbuf) + 1 /\ Len(wbuf) \in Nat
        /\ \A i \in 1..Len(wbuf) : wbuf'[i] = wbuf[i] /\ wbuf[i] \in Elements(wbuf)
        /\ wbuf'[Len(wbuf) + 1] = result
        /\ Elements(wbuf') = Elements(wbuf) \cup {result}
    BY <1>2, <2>1, <2>3, AppendLog DEF result, Elements
  <2>5. ASSUME NEW i \in 1..Len(wbuf'), NEW j \in 1..Len(wbuf'), i < j
        PROVE  wbuf'[i].finished_at < wbuf'[j].finished_at
    <3>1. i \in 1..Len(wbuf)
      BY <2>4, <2>5
    <3>2. CASE j \in 1..Len(wbuf)
      BY <2>4, <2>5, <3>1, <3>2 DEF RunOrder, Sorted
    <3>3. CASE j = Len(wbuf) + 1
      <4>1. wbuf[i].finished_at < runs
        BY <2>4, <3>1 DEF RunOrder
      <4> QED
        BY <2>3, <2>4, <3>1, <3>3, <4>1
    <3> QED
      BY <2>4, <3>2, <3>3
  <2>6. ASSUME NEW i \in 1..Len(results), NEW j \in 1..Len(wbuf')
        PROVE  results[i].finished_at < wbuf'[j].finished_at
    <3>1. CASE j \in 1..Len(wbuf)
      BY <2>4, <3>1 DEF RunOrder, Older
    <3>2. CASE j = Len(wbuf) + 1
      <4>1. results[i].finished_at < runs
        BY DEF RunOrder, Elements
      <4> QED
        BY <2>3, <2>4, <3>2, <4>1
    <3> QED
      BY <2>4, <3>1, <3>2
  <2>7. \A x \in Elements(results') \cup Elements(wbuf') : x.finished_at < runs'
    BY <1>1, <1>2, <1>3, <2>3, <2>4 DEF RunOrder
  <2>8. InOrder(results')
    BY <1>1 DEF RunOrder
  <2>9. Sorted(wbuf')
    BY <2>5 DEF Sorted
  <2>10. Older(results', wbuf')
    BY <1>1, <2>6 DEF Older
  <2> QED
    BY <2>7, <2>8, <2>9, <2>10 DEF RunOrder
<1> QED
  BY <1>4, <1>5

LEMMA RunOrderEnds ==
  ASSUME TypeOK, RunOrder, WorkerShutdown \/ WorkerKilled
  PROVE  RunOrder'
<1>1. wbuf' = <<>> /\ runs' = runs /\ results' \in {results, results \o wbuf}
  BY DEF WorkerShutdown, WorkerKilled, WorkerEnds
<1>2. wbuf \in Seq(Results) /\ results \in Seq(Results)
  BY DEF TypeOK
<1>3. Elements(wbuf') = {} /\ Sorted(wbuf') /\ Older(results', wbuf')
  BY <1>1 DEF Elements, Sorted, Older
<1>4. CASE results' = results
  BY <1>1, <1>3, <1>4 DEF RunOrder
<1>5. CASE results' = results \o wbuf
  <2>1. Elements(results \o wbuf) = Elements(results) \cup Elements(wbuf)
    BY <1>2, ConcatGrown
  <2>2. InOrder(results \o wbuf)
    BY <1>2, OrderedBehind DEF RunOrder
  <2> QED
    BY <1>1, <1>3, <1>5, <2>1, <2>2 DEF RunOrder
<1> QED
  BY <1>1, <1>4, <1>5

LEMMA RunOrderHolds == Spec => []RunOrder
<1>1. Init => RunOrder
  BY DEF Init, RunOrder, InOrder, Sorted, Older, Elements
<1>2. ASSUME TypeOK, RunOrder, [Next]_vars PROVE RunOrder'
  <2>1. CASE UNCHANGED <<wbuf, runs, results>>
    BY <1>2, <2>1 DEF RunOrder
  <2>2. CASE ~UNCHANGED <<wbuf, runs, results>>
    <3>1. Process \/ SendFails \/ FlushResult \/ ResultExpires \/ WorkerShutdown \/ WorkerKilled
      BY <1>2, <2>2
      DEF Next, vars, Enqueue, FlushRequest, RequestExpires, StartWait, WaitAnswered,
          WaitGivesUp, Assign, Deliver, SkipDuplicate, BeginSave, Save, MongoFails, AutoCommit,
          BackendStart, BackendShutdown, BackendKilled, BackendEnds, WorkerStart
    <3> QED
      BY <1>2, <3>1, RunOrderFlush, RunOrderExpires, RunOrderProcess, RunOrderEnds
  <2> QED
    BY <2>1, <2>2
<1> QED
  BY <1>1, <1>2, TypesHold, PTL DEF Spec

\* The reruns of a request are in the topic in the order they were made, but for whole
\* batches that came twice: the newest result of a request is always its last one.
THEOREM RerunsOrdered == Spec => []RerunsStayInOrder
<1>1. RunOrder => RerunsStayInOrder
  BY DEF RunOrder, InOrder, Repeats, RerunsStayInOrder
<1> QED
  BY <1>1, RunOrderHolds, PTL

-----------------------------------------------------------------------------
(* The ledger. *)

Steps == LedgerInv' /\ [Ledger!Next]_Ledger!vars

LEMMA Unnoticed ==
  UNCHANGED <<accepted, results, store, answer>> => UNCHANGED Ledger!vars
BY DEF Ledger!vars

\* The requests' way into their topic.
LEMMA RequestSteps ==
  ASSUME TypeOK, LedgerInv, (\E r \in Requests : Enqueue(r)) \/ FlushRequest \/ RequestExpires
  PROVE  Steps
<1>1. outbox \in Seq(Requests) /\ requests \in Seq(Requests)
  BY LogTypes
<1>2. UNCHANGED <<wbuf, results, store, waiter, answer>>
  BY DEF Enqueue, FlushRequest, RequestExpires, workerVars, consumerVars
<1>3. Kept(store)' /\ Kept(answer)' /\ Unanswered'
  BY <1>2 DEF LedgerInv, Origins, Kept, Unanswered
<1>4. ASSUME NEW r \in Requests, Enqueue(r) PROVE Steps
  <2>1. /\ r \notin accepted /\ accepted' = accepted \cup {r} /\ outbox' = Append(outbox, r)
        /\ requests' = requests
    BY <1>4 DEF Enqueue
  <2>2. Elements(outbox') = Elements(outbox) \cup {r}
    BY <1>1, <2>1, AppendLog
  <2>3. Travelling'
    BY <1>2, <2>1, <2>2 DEF LedgerInv, Origins, Travelling
  <2>4. Ledger!Accept(r)
    BY <1>2, <2>1 DEF Ledger!Accept
  <2> QED
    BY <1>3, <2>3, <2>4 DEF Steps, LedgerInv, Origins, Ledger!Next
<1>5. CASE FlushRequest \/ RequestExpires
  <2>1. accepted' = accepted
    BY <1>5 DEF FlushRequest, RequestExpires
  <2>2. ASSUME FlushRequest PROVE Travelling'
    <3>1. PICK n \in 1..Len(outbox) :
            requests' \in Delivered(requests, Batch(outbox, n)) /\ outbox' = Rest(outbox, n)
      BY <2>2 DEF FlushRequest
    <3>2. /\ Batch(outbox, n) \in Seq(Requests)
          /\ Elements(Batch(outbox, n)) \subseteq Elements(outbox)
          /\ Elements(Rest(outbox, n)) \subseteq Elements(outbox)
      BY <1>1, BatchLog
    <3>3. Elements(requests') = Elements(requests) \cup Elements(Batch(outbox, n))
      BY <1>1, <3>1, <3>2, DeliveredLog
    <3> QED
      BY <1>2, <2>1, <3>1, <3>2, <3>3 DEF LedgerInv, Origins, Travelling
  <2>3. ASSUME RequestExpires PROVE Travelling'
    <3>1. outbox # <<>> /\ outbox' = Tail(outbox) /\ requests' = requests
      BY <2>3 DEF RequestExpires
    <3>2. Elements(Tail(outbox)) \subseteq Elements(outbox)
      BY <1>1, <3>1, TailLog
    <3> QED
      BY <1>2, <2>1, <3>1, <3>2 DEF LedgerInv, Origins, Travelling
  <2>4. Travelling'
    BY <1>5, <2>2, <2>3
  <2> QED
    BY <1>2, <1>3, <2>1, <2>4, Unnoticed DEF Steps, LedgerInv, Origins
<1> QED
  BY <1>4, <1>5

\* The clients who wait.
LEMMA WaiterSteps ==
  ASSUME TypeOK, LedgerInv, NEW r \in Requests, StartWait(r) \/ WaitAnswered(r) \/ WaitGivesUp(r)
  PROVE  Steps
<1>1. /\ UNCHANGED <<accepted, outbox, requests, wbuf, results, store>>
      /\ waiter \in [Requests -> {"none", "waiting", "answered"}]
      /\ answer \in [Requests -> StoredResults]
  BY DEF TypeOK, StartWait, WaitAnswered, WaitGivesUp
<1>2. Travelling' /\ Kept(store)'
  BY <1>1 DEF LedgerInv, Origins, Travelling, Kept
<1>3. CASE WaitAnswered(r)
  <2>1. /\ waiter[r] = "waiting" /\ store[r] # NoResult
        /\ waiter' = [waiter EXCEPT ![r] = "answered"]
        /\ answer' = [answer EXCEPT ![r] = store[r]]
    BY <1>3 DEF WaitAnswered
  <2>2. answer[r] = NoResult
    BY <2>1 DEF LedgerInv, Unanswered
  <2>3. Kept(answer)' /\ Unanswered'
    BY <1>1, <2>1 DEF LedgerInv, Origins, Kept, Unanswered
  <2>4. Ledger!Answer(r)
    BY <1>1, <2>1, <2>2 DEF Ledger!Answer
  <2> QED
    BY <1>2, <2>3, <2>4 DEF Steps, LedgerInv, Origins, Ledger!Next
<1>4. CASE StartWait(r) \/ WaitGivesUp(r)
  <2>1. /\ answer' = answer /\ waiter[r] # "answered"
        /\ \A q \in Requests : waiter'[q] # "answered" => waiter[q] # "answered"
    BY <1>1, <1>4 DEF StartWait, WaitGivesUp
  <2>2. Kept(answer)' /\ Unanswered'
    BY <1>1, <2>1 DEF LedgerInv, Origins, Kept, Unanswered
  <2> QED
    BY <1>1, <1>2, <2>1, <2>2, Unnoticed DEF Steps, LedgerInv, Origins
<1> QED
  BY <1>3, <1>4

\* A save, complete or cut short, writes a published result under its own id.
LEMMA SavedRecord ==
  ASSUME TypeOK, LedgerInv, store' \in MaybeSaved, UNCHANGED <<accepted, results, answer>>
  PROVE  Kept(store)' /\ Kept(answer)' /\ [Ledger!Next]_Ledger!vars
<1>1. Kept(answer)'
  BY DEF LedgerInv, Origins, Kept
<1>2. CASE store' = store
  BY <1>1, <1>2, Unnoticed DEF LedgerInv, Origins, Kept
<1>3. CASE consumer = "saving" /\ store' = Saved(Current)
  <2>1. Current \in Elements(results) /\ Current.id \in Requests
    BY <1>3, CurrentType
  <2>2. store' = [store EXCEPT ![Current.id] = Current] /\ store \in [Requests -> StoredResults]
    BY <1>3 DEF Saved, TypeOK
  <2>3. Kept(store)'
    BY <2>1, <2>2 DEF LedgerInv, Origins, Kept
  <2>4. Ledger!Record(Current)
    BY <2>1, <2>2 DEF Ledger!Record, Elements
  <2>5. Ledger!Next
    BY <2>1, <2>4 DEF Ledger!Next, Elements
  <2> QED
    BY <1>1, <2>3, <2>5
<1> QED
  BY <1>2, <1>3 DEF MaybeSaved

LEMMA ConsumerSteps ==
  ASSUME TypeOK, LedgerInv,
         \/ Assign \/ Deliver \/ SkipDuplicate \/ BeginSave \/ Save \/ MongoFails
         \/ AutoCommit \/ BackendStart \/ BackendShutdown \/ BackendKilled
  PROVE  Steps
<1>1. store' \in MaybeSaved /\ UNCHANGED <<accepted, wbuf, results, answer>>
  BY DEF MaybeSaved, Assign, Deliver, SkipDuplicate, BeginSave, Save, MongoFails, AutoCommit,
         BackendStart, BackendShutdown, BackendKilled, BackendEnds
<1>2. Kept(store)' /\ Kept(answer)' /\ [Ledger!Next]_Ledger!vars
  BY <1>1, SavedRecord
<1>3. CASE BackendShutdown \/ BackendKilled
  <2>1. /\ outbox' = <<>> /\ requests' \in {requests, requests \o outbox}
        /\ waiter' = [r \in Requests |-> IF waiter[r] = "waiting" THEN "none" ELSE waiter[r]]
    BY <1>3 DEF BackendShutdown, BackendKilled, BackendEnds
  <2>2. Elements(outbox') = {}
    BY <2>1 DEF Elements
  <2>3. Elements(requests \o outbox) = Elements(requests) \cup Elements(outbox)
    BY LogTypes, ConcatGrown
  <2>4. Travelling'
    BY <1>1, <2>1, <2>2, <2>3 DEF LedgerInv, Origins, Travelling
  <2>5. Unanswered'
    BY <1>1, <2>1 DEF LedgerInv, Unanswered
  <2> QED
    BY <1>2, <2>4, <2>5 DEF Steps, LedgerInv, Origins
<1>4. CASE ~(BackendShutdown \/ BackendKilled)
  <2>1. UNCHANGED <<outbox, requests, waiter>>
    BY <1>4 DEF Assign, Deliver, SkipDuplicate, BeginSave, Save, MongoFails, AutoCommit,
                BackendStart
  <2>2. Travelling' /\ Unanswered'
    BY <1>1, <2>1 DEF LedgerInv, Origins, Travelling, Unanswered
  <2> QED
    BY <1>2, <2>2 DEF Steps, LedgerInv, Origins
<1> QED
  BY <1>3, <1>4

\* What the worker publishes was requested.
LEMMA Publishes ==
  ASSUME TypeOK, LedgerInv, UNCHANGED <<accepted, outbox, requests, store, waiter, answer>>,
         results' \in Seq(Results), Elements(results) \subseteq Elements(results'),
         \A result \in Elements(wbuf') \cup Elements(results') : result.id \in accepted
  PROVE  Steps
<1>1. Travelling' /\ Unanswered'
  BY DEF LedgerInv, Origins, Travelling, Unanswered
<1>2. Kept(store)' /\ Kept(answer)'
  BY DEF LedgerInv, Origins, Kept
<1>3. Elements(results') \subseteq Results
  BY DEF Elements
<1>4. Ledger!Produce
  BY <1>3 DEF Ledger!Produce, Elements
<1> QED
  BY <1>1, <1>2, <1>4 DEF Steps, LedgerInv, Origins, Ledger!Next

LEMMA WorkerSteps ==
  ASSUME TypeOK, LedgerInv,
         \/ WorkerStart \/ Process \/ SendFails \/ FlushResult \/ ResultExpires
         \/ WorkerShutdown \/ WorkerKilled
  PROVE  Steps
<1>1. UNCHANGED <<accepted, outbox, requests, store, waiter, answer>>
  BY DEF WorkerStart, Process, SendFails, FlushResult, ResultExpires, WorkerShutdown,
         WorkerKilled, WorkerEnds
<1>2. wbuf \in Seq(Results) /\ results \in Seq(Results) /\ requests \in Seq(Requests)
  BY LogTypes
<1>3. \A result \in Elements(wbuf) \cup Elements(results) : result.id \in accepted
  BY DEF LedgerInv, Origins, Travelling
<1>4. CASE WorkerStart \/ SendFails
  <2>1. UNCHANGED <<wbuf, results>>
    BY <1>4 DEF WorkerStart, SendFails
  <2> QED
    BY <1>1, <1>2, <1>3, <2>1, Publishes
<1>5. CASE Process
  <2>1. PICK status \in Statuses :
          wbuf' = Append(wbuf, [id |-> requests[wpos + 1], status |-> status,
                                finished_at |-> runs])
    BY <1>5 DEF Process
  <2> DEFINE result == [id |-> requests[wpos + 1], status |-> status, finished_at |-> runs]
  <2>2. wpos + 1 \in 1..Len(requests) /\ runs \in Nat /\ results' = results
    BY <1>5 DEF TypeOK, Process, NextRun
  <2>3. requests[wpos + 1] \in Requests /\ requests[wpos + 1] \in Elements(requests)
    BY <1>2, <2>2 DEF Elements
  <2>4. result \in Results /\ result.id \in accepted
    BY <2>2, <2>3 DEF Results, LedgerInv, Origins, Travelling
  <2> HIDE DEF result
  <2>5. Elements(wbuf') = Elements(wbuf) \cup {result}
    BY <1>2, <2>1, <2>4, AppendLog DEF result
  <2> QED
    BY <1>1, <1>2, <1>3, <2>2, <2>4, <2>5, Publishes
<1>6. CASE FlushResult
  <2>1. PICK n \in 1..Len(wbuf) :
          results' \in Delivered(results, Batch(wbuf, n)) /\ wbuf' = Rest(wbuf, n)
    BY <1>6 DEF FlushResult
  <2>2. /\ Batch(wbuf, n) \in Seq(Results)
        /\ Elements(Batch(wbuf, n)) \subseteq Elements(wbuf)
        /\ Elements(Rest(wbuf, n)) \subseteq Elements(wbuf)
    BY <1>2, BatchLog
  <2>3. /\ results' \in Seq(Results)
        /\ Elements(results') = Elements(results) \cup Elements(Batch(wbuf, n))
    BY <1>2, <2>1, <2>2, DeliveredLog
  <2> QED
    BY <1>1, <1>3, <2>1, <2>2, <2>3, Publishes
<1>7. CASE ResultExpires
  <2>1. wbuf # <<>> /\ wbuf' = Tail(wbuf) /\ results' = results
    BY <1>7 DEF ResultExpires
  <2>2. Elements(Tail(wbuf)) \subseteq Elements(wbuf)
    BY <1>2, <2>1, TailLog
  <2> QED
    BY <1>1, <1>2, <1>3, <2>1, <2>2, Publishes
<1>8. CASE WorkerShutdown \/ WorkerKilled
  <2>1. wbuf' = <<>> /\ results' \in {results, results \o wbuf}
    BY <1>8 DEF WorkerShutdown, WorkerKilled, WorkerEnds
  <2>2. Elements(wbuf') = {}
    BY <2>1 DEF Elements
  <2>3. /\ results \o wbuf \in Seq(Results)
        /\ Elements(results \o wbuf) = Elements(results) \cup Elements(wbuf)
    BY <1>2, ConcatGrown
  <2>4. /\ results' \in Seq(Results) /\ Elements(results) \subseteq Elements(results')
        /\ Elements(results') \subseteq Elements(results) \cup Elements(wbuf)
    BY <1>2, <2>1, <2>3
  <2> QED
    BY <1>1, <1>3, <2>2, <2>4, Publishes
<1> QED
  BY <1>4, <1>5, <1>6, <1>7, <1>8

LEMMA NextSteps == TypeOK /\ LedgerInv /\ [Next]_vars => Steps
<1> SUFFICES ASSUME TypeOK, LedgerInv, [Next]_vars PROVE Steps
  OBVIOUS
<1>1. CASE UNCHANGED vars
  <2>1. UNCHANGED <<accepted, outbox, requests, wbuf, results, store, waiter, answer>>
    BY <1>1 DEF vars
  <2>2. LedgerInv'
    BY <2>1 DEF LedgerInv, Origins, Travelling, Kept, Unanswered
  <2> QED
    BY <2>1, <2>2, Unnoticed DEF Steps
<1> QED
  BY <1>1, RequestSteps, WaiterSteps, ConsumerSteps, WorkerSteps DEF Next

LEMMA LedgerHolds == Spec => []LedgerInv
<1>1. Init => LedgerInv
  BY DEF Init, LedgerInv, Origins, Travelling, Kept, Unanswered, Elements
<1>2. TypeOK /\ LedgerInv /\ [Next]_vars => LedgerInv'
  BY NextSteps DEF Steps
<1> QED
  BY <1>1, <1>2, TypesHold, PTL DEF Spec

\* Restarts, redelivery and reprocessing never mix up two requests: a stored result
\* and a client's answer were published, for that request, which had been accepted.
THEOREM OwnResults == Spec => []ResultsBelongToRequests
<1>1. LedgerInv => ResultsBelongToRequests
  BY DEF LedgerInv, Origins, Travelling, Kept, ResultsBelongToRequests, Logged, Elements
<1> QED
  BY <1>1, LedgerHolds, PTL

\* Backend, topics, worker and MongoDB implement InferenceLedger: a record is only
\* replaced by another published result of its request, and an answer given stays.
THEOREM LedgerKept == Spec => KeepsLedger
<1>1. Init => Ledger!Init
  BY DEF Init, Ledger!Init
<1>2. TypeOK /\ LedgerInv /\ [Next]_vars => [Ledger!Next]_Ledger!vars
  BY NextSteps DEF Steps
<1> QED
  BY <1>1, <1>2, TypesHold, LedgerHolds, PTL DEF Spec, KeepsLedger, Ledger!Spec
=============================================================================
