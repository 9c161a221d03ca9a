-------------------------- MODULE InferencePipeline --------------------------
(***************************************************************************)
(* The model-inference round trip: the backend's enqueue command and wait  *)
(* endpoints, Kafka's request and result topics, the model-service worker  *)
(* (kafka_worker.py), the backend's result consumer (lifespan.py) and the  *)
(* result records in MongoDB.                                              *)
(*                                                                         *)
(* producer.send() only appends to the client library's buffer: a request  *)
(* is accepted (200) before it is in the topic, and the buffer dies with   *)
(* the process.  The worker's consumer has no group, so each start reads   *)
(* the request topic from its first offset.  The backend's consumer has a  *)
(* group with auto-commit: it commits its position, which includes the     *)
(* result it is still working on, and starts at the end of the topic when  *)
(* nothing was committed.  A topic is one partition, a sequence that only  *)
(* grows; offsets are prefix lengths of it.                                *)
(***************************************************************************)
EXTENDS Naturals, Sequences

CONSTANTS
  Requests,         \* request ids (a new uuid per enqueue command)
  Statuses,         \* outcomes of run_inference: "completed" or "failed"
  NoResult,         \* no record in MongoDB
  NoOffset,         \* no committed offset
  Faults,           \* what may go wrong, a subset of FaultKinds
  MaxRuns,          \* bound: inference runs (each has its own finished_at)
  MaxBackendStops,  \* bound: ends of a backend process
  MaxWorkerStops    \* bound: ends of a worker process

\* "mongo": an operation raises; "send": producer.send() raises in the worker;
\* "expire": a buffered message is given up; "duplicate": the client library
\* retries a batch that had arrived; "kill": a process ends without its shutdown.
FaultKinds == {"mongo", "send", "expire", "duplicate", "kill"}

Results == [id : Requests, status : Statuses, finished_at : Nat]

ASSUME PipelineAssumption ==
  /\ Statuses \subseteq {"completed", "failed"}
  /\ NoResult \notin Results
  /\ NoOffset \notin Nat
  /\ Faults \subseteq FaultKinds
  /\ MaxRuns \in Nat /\ MaxBackendStops \in Nat /\ MaxWorkerStops \in Nat

VARIABLES
  accepted,   \* requests a client got a 200 for
  outbox,     \* the backend producer's buffer
  requests,   \* the topic model-inference-request
  worker,     \* "down", "up", or "dead": the process runs but _loop has ended
  wpos,       \* the worker consumer's position
  wbuf,       \* the worker producer's buffer
  runs,       \* inference runs so far; the next one's finished_at
  results,    \* the topic model-inference-result
  consumer,   \* where consume_model_inference_results is
  cpos,       \* the backend consumer's position
  from,       \* its position when it was assigned the partition
  handled,    \* the results it has got through: saved or skipped (history)
  committed,  \* the group's committed offset
  store,      \* the record in MongoDB for each request id
  waiter,     \* a client waiting for each request's result
  answer,     \* the result that client was given
  stops       \* process ends so far

backendVars  == <<accepted, outbox, waiter, answer>>
workerVars   == <<worker, wpos, wbuf, runs>>
consumerVars == <<consumer, cpos, from, handled, committed, store>>
vars == <<backendVars, requests, workerVars, results, consumerVars, stops>>

-----------------------------------------------------------------------------
\* "joining": waits for the partition; "idle": in async for; "reading": in
\* get_by_request_id; "saving": in save_result; "dead": an exception ended it.
ConsumerStates == {"down", "joining", "idle", "reading", "saving", "dead"}

Attached == consumer \in {"idle", "reading", "saving", "dead"}
BackendUp == consumer # "down"

\* The result the consumer is working on.
Current == results[cpos]

Init ==
  /\ accepted = {} /\ outbox = <<>> /\ requests = <<>>
  /\ worker = "down" /\ wpos = 0 /\ wbuf = <<>> /\ runs = 0
  /\ results = <<>>
  /\ consumer = "down" /\ cpos = 0 /\ from = 0 /\ handled = 0
  /\ committed = NoOffset
  /\ store  = [r \in Requests |-> NoResult]
  /\ waiter = [r \in Requests |-> "none"]
  /\ answer = [r \in Requests |-> NoResult]
  /\ stops = [backend |-> 0, worker |-> 0]

\* What a batch leaves in a topic: itself, or after a retry itself twice over (a
\* partition has one batch in flight, so nothing comes between; bound: one retry).
Delivered(topic, batch) ==
  {topic \o batch} \cup
  (IF "duplicate" \in Faults THEN {(topic \o batch) \o batch} ELSE {})

\* The client library sends what is in the buffer in batches, from the front.
Batch(buffer, n) == SubSeq(buffer, 1, n)
Rest(buffer, n) == SubSeq(buffer, n + 1, Len(buffer))

-----------------------------------------------------------------------------
(* The backend's endpoints. *)

Enqueue(r) ==
  /\ BackendUp /\ r \notin accepted
  /\ accepted' = accepted \cup {r}
  /\ outbox' = Append(outbox, r)
  /\ UNCHANGED <<waiter, answer, requests, workerVars, results, consumerVars, stops>>

FlushRequest ==
  /\ BackendUp
  /\ \E n \in 1..Len(outbox) :
       /\ requests' \in Delivered(requests, Batch(outbox, n))
       /\ outbox' = Rest(outbox, n)
  /\ UNCHANGED <<accepted, waiter, answer, workerVars, results, consumerVars, stops>>

\* A batch cannot be delivered; nobody awaits the futures that say so.  A batch of
\* several messages is several of these steps.
RequestExpires ==
  /\ "expire" \in Faults /\ BackendUp /\ outbox # <<>>
  /\ outbox' = Tail(outbox)
  /\ UNCHANGED <<accepted, waiter, answer, requests, workerVars, results, consumerVars, stops>>

\* _wait_for_inference_result polls the record until its deadline.  Polls that
\* find nothing before the deadline change nothing.
StartWait(r) ==
  /\ BackendUp /\ r \in accepted /\ waiter[r] = "none"
  /\ waiter' = [waiter EXCEPT ![r] = "waiting"]
  /\ UNCHANGED <<accepted, outbox, answer, requests, workerVars, results, consumerVars, stops>>

\* Mutant of WaitAnswered: the record is looked up without its request id.
WaitAnsweredAny(r) ==
  /\ waiter[r] = "waiting"
  /\ \E s \in Requests :
       /\ store[s] # NoResult
       /\ answer' = [answer EXCEPT ![r] = store[s]]
  /\ waiter' = [waiter EXCEPT ![r] = "answered"]
  /\ UNCHANGED <<accepted, outbox, requests, workerVars, results, consumerVars, stops>>

WaitAnswered(r) ==
  /\ waiter[r] = "waiting" /\ store[r] # NoResult
  /\ waiter' = [waiter EXCEPT ![r] = "answered"]
  /\ answer' = [answer EXCEPT ![r] = store[r]]
  /\ UNCHANGED <<accepted, outbox, requests, workerVars, results, consumerVars, stops>>

\* 504 when the deadline has passed, 503 when MongoDB fails.  The last poll may
\* have read the record just before it was saved.
WaitGivesUp(r) ==
  /\ waiter[r] = "waiting"
  /\ waiter' = [waiter EXCEPT ![r] = "none"]
  /\ UNCHANGED <<accepted, outbox, answer, requests, workerVars, results, consumerVars, stops>>

-----------------------------------------------------------------------------
(* The backend's result consumer. *)

\* Mutant of Assign: the end of the topic is one offset too far.
AssignPastEnd ==
  /\ consumer = "joining"
  /\ consumer' = "idle"
  /\ cpos' = IF committed = NoOffset THEN Len(results) + 1 ELSE committed
  /\ from' = cpos'
  /\ handled' = cpos'
  /\ UNCHANGED <<backendVars, requests, workerVars, results, committed, store, stops>>

\* subscribe() and the first fetch: the committed offset, else the end.
Assign ==
  /\ consumer = "joining"
  /\ consumer' = "idle"
  /\ cpos' = IF committed = NoOffset THEN Len(results) ELSE committed
  /\ from' = cpos'
  /\ handled' = cpos'
  /\ UNCHANGED <<backendVars, requests, workerVars, results, committed, store, stops>>

\* Mutant of Deliver: all available results are taken, and so committed, at once.
DeliverBatch ==
  /\ consumer = "idle" /\ cpos < Len(results)
  /\ cpos' = Len(results)
  /\ consumer' = "reading"
  /\ UNCHANGED <<backendVars, requests, workerVars, results,
                 from, handled, committed, store, stops>>

Deliver ==
  /\ consumer = "idle" /\ cpos < Len(results)
  /\ cpos' = cpos + 1
  /\ consumer' = "reading"
  /\ UNCHANGED <<backendVars, requests, workerVars, results,
                 from, handled, committed, store, stops>>

\* Mutant of IsDuplicate: one record per request id is enough.
IsDuplicateById(existing, incoming) == existing # NoResult

\* _is_duplicate_result: every field of the record equals the payload's.
IsDuplicate(existing, incoming) == existing = incoming

SkipDuplicate ==
  /\ consumer = "reading" /\ IsDuplicate(store[Current.id], Current)
  /\ consumer' = "idle"
  /\ handled' = cpos
  /\ UNCHANGED <<backendVars, requests, workerVars, results,
                 cpos, from, committed, store, stops>>

\* Mutant of BeginSave: the old record is deleted before the new one is inserted.
BeginSaveDeletes ==
  /\ consumer = "reading" /\ ~IsDuplicate(store[Current.id], Current)
  /\ consumer' = "saving"
  /\ store' = [store EXCEPT ![Current.id] = NoResult]
  /\ UNCHANGED <<backendVars, requests, workerVars, results,
                 cpos, from, handled, committed, stops>>

BeginSave ==
  /\ consumer = "reading" /\ ~IsDuplicate(store[Current.id], Current)
  /\ consumer' = "saving"
  /\ UNCHANGED <<backendVars, requests, workerVars, results,
                 cpos, from, handled, committed, store, stops>>

\* update_one({'request_id': ...}, {'$set': ...}, upsert=True)
Saved(result) == [store EXCEPT ![result.id] = result]

Save ==
  /\ consumer = "saving"
  /\ store' = Saved(Current)
  /\ consumer' = "idle"
  /\ handled' = cpos
  /\ UNCHANGED <<backendVars, requests, workerVars, results, cpos, from, committed, stops>>

\* When a save is interrupted the server may or may not have applied it.
MaybeSaved == {store} \cup (IF consumer = "saving" THEN {Saved(Current)} ELSE {})

\* InfrastructureUnavailableException leaves the async for: the coroutine ends,
\* the backend goes on without it.
MongoFails ==
  /\ "mongo" \in Faults /\ consumer \in {"reading", "saving"}
  /\ store' \in MaybeSaved
  /\ consumer' = "dead"
  /\ UNCHANGED <<backendVars, requests, workerVars, results,
                 cpos, from, handled, committed, stops>>

\* enable_auto_commit: the position, every few seconds.
AutoCommit ==
  /\ Attached
  /\ committed' = cpos
  /\ UNCHANGED <<backendVars, requests, workerVars, results,
                 consumer, cpos, from, handled, store, stops>>

-----------------------------------------------------------------------------
(* The backend process. *)

BackendStart ==
  /\ consumer = "down"
  /\ consumer' = "joining"
  /\ UNCHANGED <<backendVars, requests, workerVars, results,
                 cpos, from, handled, committed, store, stops>>

BackendEnds ==
  /\ BackendUp /\ stops.backend < MaxBackendStops
  /\ stops' = [stops EXCEPT !.backend = @ + 1]
  /\ consumer' = "down"
  /\ store' \in MaybeSaved
  /\ outbox' = <<>>
  /\ waiter' = [r \in Requests |-> IF waiter[r] = "waiting" THEN "none" ELSE waiter[r]]
  /\ UNCHANGED <<accepted, answer, workerVars, results, cpos, from, handled>>

\* Lifespan shutdown: job.close(), consumer.stop() with a last commit,
\* producer.stop() with a flush.
BackendShutdown ==
  /\ BackendEnds
  /\ requests' = requests \o outbox
  /\ committed' = IF Attached THEN cpos ELSE committed

BackendKilled ==
  /\ "kill" \in Faults
  /\ BackendEnds
  /\ UNCHANGED <<requests, committed>>

-----------------------------------------------------------------------------
(* The model-service worker. *)

\* Mutant of WorkerStart: the worker goes on after the requests it has read.
WorkerResumes ==
  /\ worker = "down"
  /\ worker' = "up"
  /\ UNCHANGED <<backendVars, requests, wpos, wbuf, runs, results, consumerVars, stops>>

\* No group id: the position starts at auto_offset_reset='earliest'.
WorkerStart ==
  /\ worker = "down"
  /\ worker' = "up"
  /\ wpos' = 0
  /\ UNCHANGED <<backendVars, requests, wbuf, runs, results, consumerVars, stops>>

\* One turn of _loop: run the inference on the next request.
NextRun ==
  /\ worker = "up" /\ wpos < Len(requests) /\ runs < MaxRuns
  /\ wpos' = wpos + 1
  /\ runs' = runs + 1

\* Mutant of Process: runs are tasks of their own and may finish out of order.
ProcessConcurrently ==
  /\ NextRun
  /\ \E status \in Statuses :
       LET result == [id |-> requests[wpos + 1], status |-> status, finished_at |-> runs]
       IN  wbuf' \in {Append(wbuf, result), <<result>> \o wbuf}
  /\ UNCHANGED <<backendVars, requests, worker, results, consumerVars, stops>>

Process ==
  /\ NextRun
  /\ \E status \in Statuses :
       wbuf' = Append(wbuf, [id |-> requests[wpos + 1], status |-> status,
                             finished_at |-> runs])
  /\ UNCHANGED <<backendVars, requests, worker, results, consumerVars, stops>>

\* send() raises: _loop has no handler and ends; the result is gone.
SendFails ==
  /\ "send" \in Faults
  /\ NextRun
  /\ worker' = "dead"
  /\ UNCHANGED <<backendVars, requests, wbuf, results, consumerVars, stops>>

FlushResult ==
  /\ worker # "down"
  /\ \E n \in 1..Len(wbuf) :
       /\ results' \in Delivered(results, Batch(wbuf, n))
       /\ wbuf' = Rest(wbuf, n)
  /\ UNCHANGED <<backendVars, requests, worker, wpos, runs, consumerVars, stops>>

ResultExpires ==
  /\ "expire" \in Faults /\ worker # "down" /\ wbuf # <<>>
  /\ wbuf' = Tail(wbuf)
  /\ UNCHANGED <<backendVars, requests, worker, wpos, runs, results, consumerVars, stops>>

WorkerEnds ==
  /\ worker # "down" /\ stops.worker < MaxWorkerStops
  /\ stops' = [stops EXCEPT !.worker = @ + 1]
  /\ worker' = "down"
  /\ wbuf' = <<>>
  /\ UNCHANGED <<backendVars, requests, wpos, runs, consumerVars>>

\* stop(): producer.stop() flushes.  When _loop has ended with an exception, its
\* await raises that again and the producer is not stopped.
WorkerShutdown ==
  /\ WorkerEnds
  /\ results' = IF worker = "up" THEN results \o wbuf ELSE results

WorkerKilled == "kill" \in Faults /\ WorkerEnds /\ UNCHANGED results

-----------------------------------------------------------------------------
Next ==
  \/ \E r \in Requests : Enqueue(r)
  \/ FlushRequest
  \/ RequestExpires
  \/ \E r \in Requests : StartWait(r)
  \/ \E r \in Requests : WaitAnswered(r)
  \/ \E r \in Requests : WaitGivesUp(r)
  \/ Assign
  \/ Deliver
  \/ SkipDuplicate
  \/ BeginSave
  \/ Save
  \/ MongoFails
  \/ AutoCommit
  \/ BackendStart
  \/ BackendShutdown
  \/ BackendKilled
  \/ WorkerStart
  \/ Process
  \/ SendFails
  \/ FlushResult
  \/ ResultExpires
  \/ WorkerShutdown
  \/ WorkerKilled

Spec == Init /\ [][Next]_vars

\* A running process drains its buffers and goes through its topic.  Nothing is
\* assumed of the clients, of the faults or of the auto-commit timer, nor that an
\* ended process is started again.
Fairness ==
  /\ WF_vars(FlushRequest)
  /\ WF_vars(Deliver \/ SkipDuplicate \/ BeginSave \/ Save)
  /\ WF_vars(Process)
  /\ WF_vars(FlushResult)

FairSpec == Spec /\ Fairness

-----------------------------------------------------------------------------
(* Properties. *)

StoredResults == Results \cup {NoResult}

TypeOK ==
  /\ accepted \subseteq Requests
  /\ outbox \in Seq(Requests)
  /\ requests \in Seq(Requests)
  /\ worker \in {"down", "up", "dead"}
  /\ wpos \in 0..Len(requests)
  /\ wbuf \in Seq(Results)
  /\ runs \in Nat
  /\ results \in Seq(Results)
  /\ consumer \in ConsumerStates
  /\ cpos \in 0..Len(results)
  /\ consumer \in {"reading", "saving"} => cpos > 0
  /\ from \in 0..Len(results)
  /\ handled \in 0..Len(results)
  /\ committed \in Nat \cup {NoOffset}
  /\ store \in [Requests -> StoredResults]
  /\ waiter \in [Requests -> {"none", "waiting", "answered"}]
  /\ answer \in [Requests -> StoredResults]
  /\ stops \in [backend : Nat, worker : Nat]

Logged(result) == \E i \in 1..Len(results) : results[i] = result

\* A client is only ever given, and MongoDB only ever holds, a result that the
\* worker produced for that very request, and only for a request the backend had
\* accepted: restarts, redelivery and reprocessing never mix up two requests.
ResultsBelongToRequests ==
  \A r \in Requests : \A result \in {store[r], answer[r]} \ {NoResult} :
    /\ result.id = r
    /\ r \in accepted
    /\ Logged(result)

\* Whoever re-reads the same offsets ends with the same records: for each request
\* the newest result the consumer has got through since it was assigned the
\* partition is the one in MongoDB, whatever older ones a redelivery brought back
\* on the way.  Only a save cut short by a failure may already show the next one.
NewestHandledIsStored ==
  \A i \in (from + 1)..handled :
    LET r == results[i].id
        newest == \A j \in (i + 1)..handled : results[j].id # r
    IN  newest => \/ store[r] = results[i]
                  \/ consumer \in {"dead", "down", "joining"} /\ store[r] = results[cpos]

\* The committed offset passes the results that have been saved or skipped by at
\* most the one in hand: a restart loses one result at most, however the process
\* ended ("commit offsets only after successful durable side effects" would make
\* it none).
CommitAtMostOneAhead == committed # NoOffset => committed <= handled + 1

\* The reruns of a request reach the result topic in the order they were made,
\* but for retried batches, though each worker process has a buffer of its own: an
\* older result behind a newer one is a repeat, and the newer one comes again after
\* it.  So the last result of a request is its newest, and whoever reads to the end
\* of the topic keeps that one.
RerunsStayInOrder ==
  \A i, j \in 1..Len(results) :
    /\ i < j /\ results[i].id = results[j].id
    /\ results[j].finished_at < results[i].finished_at
    => /\ \E k \in 1..(i - 1) : results[k] = results[j]
       /\ \E k \in (j + 1)..Len(results) : results[k] = results[i]

InSequence(x, s) == \E i \in 1..Len(s) : s[i] = x

\* "Transient infrastructure errors: retry with backoff"
\* (docs/KAFKA_EVENT_POLICY.md:53): a running backend still has a consumer that
\* works on the result topic.
TransientErrorsRetried == BackendUp => consumer # "dead"

\* The operator starts a worker whenever there is none.
WorkerIsRestarted == WF_vars(WorkerStart)

\* When a send has raised, the worker process stays up without its _loop and reports
\* nothing: somebody has to notice and end it.
DeadLoopIsNoticed == []<>(worker # "dead")

LastBackend == BackendUp /\ stops.backend = MaxBackendStops

\* A request in the buffer of a backend that keeps running, with its consumer
\* attached, ends up with a stored result, even if workers are killed or their _loop
\* ends on the way, as long as they are started again.
AcceptedIsAnswered ==
  WorkerIsRestarted /\ DeadLoopIsNoticed => \A r \in Requests :
    LastBackend /\ Attached /\ InSequence(r, outbox) ~> store[r] # NoResult

\* A worker that starts goes through the whole request topic again: whatever a
\* killed worker or a restarted backend had lost before, each request in the topic
\* ends up with a stored result, unless a send raises in the last worker as well.
RestartRedoesLostRequests ==
  WorkerIsRestarted /\ DeadLoopIsNoticed => \A r \in Requests :
    /\ LastBackend /\ Attached
    /\ worker = "down" /\ stops.worker = MaxWorkerStops
    /\ InSequence(r, requests)
    ~> store[r] # NoResult

Ledger == INSTANCE InferenceLedger WITH
  produced <- {results[i] : i \in 1..Len(results)}

\* Backend, topics, worker and MongoDB together keep the promises of
\* InferenceLedger: redelivery and reruns may replace a record by another result of
\* the same request, nothing else changes it, and an answer given stays.
KeepsLedger == Ledger!Spec
=============
