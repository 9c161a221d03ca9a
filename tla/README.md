# Verification of the Alpaca Astro Center

TLA+ models of the backend (`src/backend`), the model service
(`src/model-service`) and what they share, model-checked with TLC; theorems about
them checked by TLAPS. Paths below are relative to `src/`; `A/` is
`backend/app/`.

## The system

| Component | State | Operations | Talks to |
|---|---|---|---|
| Video relay, `A/infra/integrations/telescope/rtsp_cv2_relay.py`, endpoint `A/application/api/telescope/video_stream.py` | list of subscriber queues (2 items each), the producer task, its capture and backoff | subscribe, unsubscribe, the producer loop | HTTP clients, OpenCV in worker threads |
| Inference pipeline, `A/logic/commands/model_inference.py`, `A/application/api/lifespan.py`, `A/infra/message_brokers/kafka.py`, `model-service/app/kafka_worker.py` | producer buffers, two topics, consumer positions, the committed offset, result records | enqueue, wait, consume-and-save, the worker loop, start and stop of both processes | Kafka, MongoDB, HTTP clients |
| Telescope commands, `A/logic/commands/telescope_control.py`, adapter `A/infra/integrations/alpaca/telescope_client.py`, handlers `A/application/api/telescope/handlers.py` | the mount (external), events, audit records | slew, sync, tracking, nudge, mount read, status snapshot | the Alpaca device, Kafka, MongoDB |
| Telescope repository and status query, `A/infra/repositories/telescope/`, `A/logic/queries/telescope.py` | the primary telescope document | find-or-create, save, merge with the snapshot | MongoDB, adapter |
| MCP manifest, execution plan, bootstrap (`handlers.py`) | none | pure construction from capabilities and configuration | status query |
| Operator WebSocket (`handlers.py:592-622`) and dashboard (`frontend/src/App.tsx`) | one session per socket; `wsRef`, the page's state | tick, connect, disconnect | status query |
| MCP context (`handlers.py:682-777`) with catalog, ephemeris and weather adapters | none of their own; the shared thread pool | a lookup in a thread, a computation on the event loop, an HTTP request | remote services, status query |
| Preflight script, `backend/scripts/hardware_smoke_runner.py` | its results | a fixed sequence of API calls, a gate, a report | the HTTP API |
| Mediator and container, LAN probe | handler maps filled at start | dispatch; read-only requests | everything |

Everything in the backend runs on one event loop plus the default thread pool.
The components meet at the Kafka topics, at MongoDB's operation collection
(inference results and audit records), at the mount and at the thread pool.

What is hard, and what makes each component correct:

- *Video relay.* Producer generations overlap after a cancellation, cancellation
  does not stop a worker thread, full queues drop items, a generator can be
  abandoned at a `yield`. Correct: one active producer, never one without an
  audience; frames in camera order; the end of the stream reaches whoever listens;
  leaving never hangs and lets the camera go.
- *Inference pipeline.* Buffers die with processes, the worker re-reads its topic
  at every start, offsets are committed on a timer, MongoDB may fail in the middle.
  Correct: a result belongs to its request, replays end in the same records, a
  restart skips little, and requests are answered if processes are restarted.
- *Telescope commands.* Unserialised transactions on one connection, each of which
  disconnects; motion, event and audit are three steps; calls can take effect and
  still raise. Correct: the records are true, an acknowledged command is recorded
  and complete, a lone transaction keeps its connection.
- *Status repository.* Concurrent first reads create several records. Correct: the
  primary settles; a status keeps its contract from whatever it was merged.
- *MCP plan.* Made from one snapshot, carried out later. Correct: fails closed; a
  tool is enabled only with its capability, and the token gate and the manifest agree
  where it matters.
- *Operator socket.* Close events are late, sessions never read. Correct: the page can
  close what it opened until a late close event, errors do not end a session, a closed
  socket does.
- *Preflight script.* Gives calls up that the backend goes on with, and runs among
  others. Correct: nothing moves unauthorised, what it calls passed has happened, a
  green run is a clean one.
- *MCP context and lookups.* Four sources fail in their own ways; threads outlive
  their timeouts; the event loop may be held up. Correct: it degrades source by
  source, late results reach nobody, requests end.

`PROJECT.json` lists the hazards with their lines and the properties for them.

## Modules

| Module | What it models |
|---|---|
| `VideoRelay` | the relay and its endpoint |
| `InferencePipeline` | enqueue, wait, both topics, worker, result consumer, MongoDB records, process ends |
| `InferenceLedger` | what the pipeline promises: accepted, produced, stored, answered; implemented by `InferencePipeline` |
| `TelescopeControl` | requests, device transactions, event and audit steps, the mount |
| `CommandLedger` | what a command promises: obeyed, published, recorded, a verdict; implemented by `TelescopeControl` |
| `McpPlan` | operators: manifest, token gate, effective manifest, execution plan |
| `HardwareSmoke` | extends `TelescopeControl` and `McpPlan`: the preflight script and other status clients against that backend |
| `OperatorTelemetry` | the page's sockets, their sessions, the status query and the telescope repository |
| `McpContext` | the context endpoint and the lookup endpoints over one event loop and one thread pool |
| `MC...` | instances for TLC with their `.cfg` files |
| `VideoRelay_proofs`, `TelescopeControl_proofs`, `InferencePipeline_proofs`, `OperatorTelemetry_proofs`, `McpContext_proofs`, `McpPlan_proofs`, `HardwareSmoke_proofs` | the theorems about each of these modules, among them that `TelescopeControl` implements `CommandLedger`, `InferencePipeline` implements `InferenceLedger`, and that the server of `HardwareSmoke` is `TelescopeControl` |

### VideoRelay

A step runs from one suspension point of asyncio to the next. `sub[c]` is where a
subscription's generator is suspended, `pc[p]` where a producer task is: the
locations are named after the OpenCV call it awaits. The critical sections under
`self._lock` hold no `await`, so the lock never makes anyone wait and has no
variable. `inflight[p]` holds the thread calls started for a producer: cancelling
the task removes it from the await, not the call from the thread. A finished
task's name may be used again once nothing refers to it (`Fresh`), so a fixed set
of names stands for an unbounded number of generations. `cancelReq` is the set of
tasks with a cancellation to deliver. Frames are numbered by the camera
(`clock`), and `MaxFrame` caps the numbers: the last number stands for all later
frames. The RTSP URL is assumed to be configured; without it the endpoint answers
503 and the relay is never entered. A client that disconnects during a send leaves
the generator at its `yield` (`"gone"`) until it is finalised.

### InferencePipeline

Topics are sequences of one partition; an offset is the length of the prefix before
it. `producer.send()` appends to `outbox` or `wbuf`; `FlushRequest` and
`FlushResult` are the client library's delivery: a batch, any number of messages from
the front of the buffer, reaches the topic once, or twice over when it was retried
(`Delivered`; neither producer is idempotent, and a partition has one batch in flight). `consumer` is the location of
`consume_model_inference_results`: between its two MongoDB calls the process may
end, MongoDB may fail (with the write applied or not), or the position may be
committed. `handled` and `from` are history variables: the results got through, and
the position at which the partition was assigned. The worker has no consumer group
and starts at the first offset; its `finished_at` is modelled by the number of the
inference run, so two runs differ (timestamps have microseconds). A consumer that
died stays a member of its group and its position is still committed
(`Attached`). The backend's own shutdown commits and flushes; `stop()` of the
worker flushes only if its loop did not end with an exception.
Malformed payloads, the status of a group with several backends, and topics of
several partitions are left out (the key of a message is its request id, so
one request stays in one partition).

### TelescopeControl

A request goes through `Connect`, the `Connected` check, the calls of
`work(driver)`, the polls of `Slewing`, and the `finally` block that sets
`Connected = False`; a nudge does this twice, reading and then slewing. The mount
is external: one connection flag, since every driver object of the process has the
same Alpaca client id; a position on the RA circle (`Nudged` wraps like
`normalize_ra_hours`; declination and its clamp are left to a later module); a goal
it turns to; its capabilities, chosen once. The reads of one `work` before its
first command are one step with it: a disconnection between them ends the same way
as one before. A call may raise before or after the mount obeyed (`Obeyed`). The
mount is taken to accept a new slew while slewing and to refuse a sync. `moves`,
`outcome`, `overlapped` and `leftOpen` are history. Requests refused before any
device call (missing token, control disabled) change nothing and are not modelled.
`Quiet` is the state with no request left, so that TLC's deadlock check finds any
other stop.

`Ledger == INSTANCE CommandLedger WITH ...` maps the mount's motions, the events, the
audit records and the outcomes of requests to the ledger's variables; a step of a
transaction is a step of the ledger or a stutter.

### HardwareSmoke

The composition: every step of the server is a step of `TelescopeControl` (`Serve`),
and the script adds the variables of its `main()`. It waits for one request at a
time; `Lost` is a call that does not get through or that it gives up after 20 s, whose
request, if there is one, stays in the server and is met by what the script does
next. `OtherAsks` is everybody who makes status queries: dashboard sessions and MCP
clients. Results of checks are abstracted to `green` and, for commands, to `acks`. The
plan handed out to MCP clients is evaluated for every set of capability flags a
status query has been answered with (`reports`). Static endpoints answer with
constants that satisfy the script's assertions. The texts of the report and the notes are left out.

### OperatorTelemetry

A session is at `"tick"` while it sleeps, at `"insert"` and `"live"` inside the query,
at `"send"` with a frame in hand. A query may fail in any of these places, the last one
up to the validation of its status by the schema (`QueryFails`). `sock[s]` is the browser's view of a socket, whose
close event (`Closed`) comes some time after `close()` and clears `wsRef` whatever it
holds by then; `stale` remembers that it has hit another socket, after which
`PageInControl` claims nothing: that is the defect of `App.tsx:99-102`, stated as the
exact limit of what holds. The telescope collection is a set of records, `created` is
in MongoDB's milliseconds, so two records made in a race may tie. Error and close
event of a socket are one step, as browsers fire both in one task.

### McpContext

A coroutine at a `Synchronous` location has the event loop: nobody else moves until it
awaits. That is how an ephemeris (`"computing"`) holds up everything, timeouts
included. The pool is one sequence of jobs, of which the first `Workers` run. A lookup
that is given up while it waits for a thread is cancelled; one that runs goes on for
nobody (`for = None`). `wait_for` (Python 3.12) may report a timeout although the
result has just arrived. `warnings` keeps which exception it was; the context's own
warning codes are coarser names for them.

## Runs

| Run | Shows |
|---|---|
| `video_safety` | 2 subscribers, 2 producer names, queues of 2, every OpenCV call may raise. One active producer, a producer exactly while there is an audience, frames in order, failure reaches the audience, threads meet on a capture only after a cancellation |
| `video_liveness` | every OpenCV call may raise. Leaving ends, the camera is released when the audience is gone, and a waiting subscriber gets a frame or `_EOF` if the camera answers now and then, unless it joined a producer that had already failed (that is `video_stuck`) |
| `video_stuck` | *violation*: a subscriber that comes while a failed producer awaits its release blocks for good on an empty queue |
| `inference_safety` | 2 requests, 3 inference runs, 2 ends of the backend, 1 of the worker, all faults, batches of several messages once or twice. Results belong to their requests, the newest handled result is stored, the commit is at most one ahead, reruns stay in order but for whole retried batches, the last result of a request being its newest; it implements `InferenceLedger` |
| `inference_liveness` | one death or shutdown of each process: what the running backend has in its buffer gets a stored result, and a restarted worker redoes whatever was lost |
| `inference_retry` | *violation*: a MongoDB error ends the consumer of a running backend |
| `telescope_safety` | 2 overlapping requests of six kinds, three kinds of mount, all faults, one death of the process; it implements `CommandLedger` |
| `smoke_run` | the script with five command lines and backend tokens on a full and on a lesser mount, one call lost, given up or without MongoDB, one status query of others: motion is authorised, passed commands happened in order, a green strict run is clean, plans offer nothing the adapter refuses, and a first failure has a cause |
| `operator_telemetry` | 2 sockets, 1 status client, up to 2 created records, an old record or none, three snapshots: contract of the status, settled primary, page in control, sessions survive errors and end with their socket if their snapshots get a thread |
| `context_lookups` | 2 clients on 2 threads, both of which may be stuck in abandoned lookups, three settings, six requests: degradation source by source, whom the pool works for, which requests end |
| `telescope_ack` | *violation*: with nothing failing, a status poll that ends between a command's `Connect` and its `Connected` check disconnects it: the command ends in 502 and the mount never hears of it |
| `telescope_audit` | *violation*: a slew that timed out moved the mount and has no audit record |

The four violations disagree with sentences of the repository quoted in
`PROJECT.json`'s findings.

**Bounds.** Two subscribers give the last-to-leave and the newcomer; two producer
names give a cancelled generation beside the current one (a third can only start
when one of them is over). A queue of 2 is the code's; frames up to 3 fill and
overflow it. `BackoffMax` 2 makes the cap of the backoff bite. In the liveness run
queue, backoff and frame bounds are 1: what ends or is served does not depend on
their values. Its calls raise as in the safety run. Two requests show mixing of requests, three runs a rerun behind another request. The safety run is cut (`TopicsBounded`) beyond two requests and
four results: room for a batch of a run and its rerun twice over, which is where an
older result comes behind a newer one. A batch is retried once at most. `MaxRuns` is 4 in the liveness run because two processes of the
worker run two requests each, so the bound never stops a worker that has something
to do. Two telescope requests, one of them a nudge, give up to four transactions in
any overlap. `Circle` is 3, enough to wrap. The preflight run has two
server slots, so a command the script gave up overlaps with its successor, or another's
status query with either; one mishap is enough for a lost call to be met by the next
one. Two sockets give a replaced one and its successor; two records give a race.
Two threads and two abandoned lookups (`MaxAbandoned`) are the pool at its limit, with a
snapshot behind them.

**Fairness.** Video: the event loop resumes tasks whose await is over, OpenCV calls
get a thread and return (FFmpeg's own timeouts; the pool is the one that abandoned
lookups may fill, see Context), abandoned generators are collected: a generator that
never is keeps the camera busy for nobody, which no property can exclude. Nothing is
assumed of clients, and "the camera answers" is a premise of `WaitingIsServed`
only. Inference: buffers drain and running loops go on. Nothing is assumed of
clients, faults or the commit timer. Nothing restarts an ended worker by itself (the
compose files do not), so "the operator starts a worker whenever there is none" is
a premise of both liveness properties (`WorkerIsRestarted`), which are about a
backend that keeps running from then on. A worker whose loop died on a failing `send`
looks alive from outside: that somebody notices it (`DeadLoopIsNoticed`) is a second
premise. The liveness run has no MongoDB error, which stops the consumer for good as
`inference_retry` shows, and no expiring batch, which loses a request for good.
Telemetry: sessions go on, since MongoDB calls have timeouts, and a closing socket gets
its close event; nothing is assumed of the user. A snapshot needs a thread of the
pool, which the code does not guarantee: that it gets one and ends is the premise
`SnapshotsEnd` of `SessionEnds`. The event loop is taken to come free. Context:
strong fairness for each coroutine, as asyncio runs what is ready in turn and
everything a coroutine awaits but a thread has a timeout, and weak fairness for
snapshots that have a thread. Lookups may never end. `RequestsEnd` has two premises
the code does not provide: ephemeris computations end (`LoopComesFree`; the kernel is
downloaded without a timeout), and, for requests that need a thread, not all threads
are stuck in lookups for ever (`ThreadsComeFree`).

## Proofs

`VideoRelay_proofs` proves for every set of subscribers and producers and every
bound: `TypeCorrect`, `ActiveProducerUnique`, `AudienceServed`, `CaptureOverlap`,
`StreamsOrdered` and `FailureSignalled`. The only assumption is
`ConstantsAssumption` of `VideoRelay`.

The six invariants are not inductive alone. `ControlInv` adds what ties the
subscriptions to the tasks: a queue is registered exactly while its subscription
has not ended (`Registration`); the current producer has no cancellation pending, no
leaver waits for it, and the only thread working for it is the one it awaits
(`CurrentProducer`); a finished task keeps no cancellation (`EndedTasks`).
`OneActiveProducer` and `ProducerServesAudience` are among its conjuncts,
`OverlapOnlyAfterCancel` follows from it. `StreamInv` builds on it: an ended
subscription has no items (`NoStreamOutside`), nothing queued is newer than the
camera (`WithinClock`), and the frame being encoded is newer than all that any
subscriber has (`FrameInHand`); `FramesInOrder` and `FailureReachesAudience` are
among its conjuncts.
Each is shown for `Init`, for every action, and combined by temporal logic. Facts
about a bounded queue (`PutLatest` keeps order, bound and its newest item) are
lemmas.

`TelescopeControl_proofs` proves, for any number of overlapping requests, every set
of mount kinds and faults and every bound, and from `ControlAssumption` alone:
`TypeCorrect`, `SoloConnection`, `QuietDisconnected`, `TrueRecords`,
`AcknowledgedRecorded`, `SlewComplete`, and `LedgerKept`, the refinement of
`CommandLedger`. Four inductive invariants carry them:

- `TypeOK` needs `Arguments`: a transaction that slews or syncs carries a position, one
  that sets tracking a switch, although one field holds all three kinds (and an offset
  until the nudge has read the position it starts from).
- `ConnectionInv` adds `Meeting` to the two connection properties: two open transactions
  have both been noted as overlapping. Every step keeps a request outside its
  transaction, opens it, leaves it open or closes it; there is a lemma for each.
- `RecordInv` says that an id belongs to one request that has not ended (`Requests`), that
  the logs hold requests made so far (`Logged`), how far the logs are at each location of
  a request (`Progress`), and the record properties themselves (`Logs`, `Acknowledged`).
  `NextSteps` shows for each action that it preserves `RecordInv` and is one step of
  `CommandLedger` or none.
- `MotionInv` follows each slew as long as it is the last motion the mount obeyed
  (`Slewing`): during its polls the goal is its target, and the mount is on its way or
  there (`Heading`); beyond them it has arrived (`Arrived`).
  `SlewIsComplete` speaks of the last motion through `MovedLast`, a quantifier over
  positions of the log, since the prover cannot reason about `SelectSeq`.

`InferencePipeline_proofs` proves, for any number of requests and of ends of either
process and for every set of faults, from `PipelineAssumption` alone: `TypeCorrect`, `CommitBounded`,
`NewestStored`, `RerunsOrdered`, `OwnResults`, and `LedgerKept`, the refinement of
`InferenceLedger`. `TypeOK` needs `CommitInTopic` (a committed offset lies in the
topic, which a restarted consumer takes its position from). `OffsetInv` relates the
position, the results got through and the commit at each location of the consumer;
with it `NewestHandledIsStored` is inductive, the two failed MongoDB calls being the
case where the record may already be the next one. For `RerunsStayInOrder`
the invariant is `RunOrder`: the worker's buffer is strictly in the order of the runs, newer
than everything of the same request in the topic, and older than the runs to come; so
a batch appended once keeps the order, and one appended twice breaks it only by
repeats (`OrderedTwice`). `LedgerInv`
follows a result from the topic or the buffer to the record and the answer.

`OperatorTelemetry_proofs` proves, for any number of sockets and pollers, every
collection to start with and every snapshot, from `TelemetryAssumption`:
`TypeCorrect`, `StatusSound`, `RaceSettles`, `PageControls` and the action property
`StreamsSurvive`. `StatusIsSound` needs `InHand` (a query at the mount holds a record of
the collection: records are never deleted), `PrimarySettles` needs `RaceOver` (once the
race is settled nobody is left to insert). `PageInControl` is inductive as it stands.

`McpContext_proofs` proves, for any number of clients, threads and abandoned lookups
and every set of settings, from `ContextAssumption`: `TypeCorrect`, `Degrades` and
`PoolServes`. One inductive invariant carries all three: `DealtInv` says which sources
have been dealt with at each location, in their order and one warning each; `PoolInv`
that clients and jobs of the pool correspond, each queued job to one client at an await.
Removing a job shifts those behind it, so the proof rests on lemmas about where the
i-th job stood before; cardinalities appear only in the last step. `ContextAssumption`
asks for some request to be made at all (`Requests # {}`), without which there is no
first value for the variable of a client that has made none.

`HardwareSmoke_proofs` proves, for every set of command lines, any number of server
slots and every bound, from `ControlAssumption` and `SmokeAssumption`:
`ServerIsControl`, `SmokeTypeCorrect`, `MotionAuthorized`, `PassedOrdered`,
`FailureCaused`, `GreenRunClean` and `PlansSafe`. A step of the composition is a step of `TelescopeControl` or leaves it
alone (`ServerIsControl`), so the invariants proved there hold here without being proved
again (`ServerInv`). On top of them: `Course` says what is left to do and which
checks were made in each phase; `AuthInv` that commands are sent only past the gate and
the token; `OrderInv` that what the script was told of or waits for stands in both
logs in the script's order; `SentInv` which requests in the server are the script's own,
and that a slewing mount is due to one that was lost or to the one awaited.
`FailureCaused` has a hypothesis: `Sound`, the faults `"connect"`, `"call"` and `"timeout"` are
not in `Faults`, since the property is about a sound mount and network. The run
`smoke_run` has no faults at all; the other theorems hold with every fault.
`GreenRunClean` rests on `CleanInv`: while a run is green, the mount has obeyed at most
the awaited command before the first result (`FirstMove`), the audit records are in
step with the results or ahead of them by that command (`InStep`), and from the
record of the slew on the mount rests at the target (`AtTarget`), which is where
`MotionInv` of `TelescopeControl_proofs` is needed again. `CleanInv` was checked by TLC with
calls and audit inserts that fail, on the first seven million states, before it was
proved.

`McpPlan_proofs` proves `PlansFailClosed`, about the operator `ExecutionPlan` for any set of
flags; `PlansSafe` adds that no report claims a flag the mount lacks (`ReportsTrue`).
`ExecutionPlan` appends its last four steps, the only ones the code's loop can skip,
one by one (`WithStep`) because a `SelectSeq` over all of them, the same value, is a
recursion the prover cannot reason about.

Model-checked only: the liveness properties, since the prover has no fairness and no
ENABLED. Every safety invariant and every other action property of the passing runs is a
theorem.

## Not modelled

The components with status `not_modelled` in `PROJECT.json`, each with its reason:
the mediator and the container (maps filled once), the model runtime and the
coordinate transform (pure functions), the LAN probe (prints what it reads). Of the
page, only the socket: its forms make one call each and are disabled meanwhile.
Some hazards have no property. Concurrent nudges start from the same position, audit
records may be inserted out of order, and a late close event makes the page forget a
live socket: nothing is promised about these. Starved threads, a held event loop and a
generator that is never finalised are in the models, but nothing in the code excludes
them, so they are premises. Floating-point wrap is out of TLC's reach.
OpenCV, Kafka, MongoDB and the mount appear as the environment of the code. Image
contents, prompts, texts and HTTP formats are abstracted away.

## Plan

Every safety property is proved. What can be added to the proofs are invariants the
liveness arguments rest on: that an idle inference consumer has everything up to its
position handled, or that a request at an await is owed a step by the pool. Liveness
itself stays with TLC; recursive definitions, if any, stay out of the modules with
theorems.
