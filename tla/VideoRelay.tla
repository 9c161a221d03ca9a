----------------------------- MODULE VideoRelay -----------------------------
(***************************************************************************)
(* The RTSP-to-MJPEG relay (infra/integrations/telescope/rtsp_cv2_relay.py *)
(* and the endpoint application/api/telescope/video_stream.py).            *)
(*                                                                         *)
(* Subscribers (HTTP requests) own a bounded queue each.  The first one    *)
(* creates a producer task, which opens the camera, reads and encodes      *)
(* frames and broadcasts them; the last one to leave cancels it and waits  *)
(* for it.  Everything runs on one event loop, so a step of the model runs *)
(* from one suspension point to the next.  The critical sections of        *)
(* self._lock hold no await: the lock is never contended and never         *)
(* suspends, and it needs no variable of its own.                          *)
(*                                                                         *)
(* The OpenCV calls run in worker threads (asyncio.to_thread).  Cancelling *)
(* the producer abandons the call it awaits but does not stop the thread,  *)
(* so "inflight" tracks the threads apart from the producer's pc.          *)
(***************************************************************************)
EXTENDS Naturals, Sequences

CONSTANTS
  Subscribers,     \* HTTP clients; each has at most one subscription at a time
  Producers,       \* producer tasks; a finished task's name may be used again
  NoProducer,      \* self._producer is None
  EOF,             \* the _EOF sentinel
  QueueMax,        \* asyncio.Queue(maxsize=2)
  BackoffInitial,  \* telescope_rtsp_reconnect_initial_seconds
  BackoffMax,      \* telescope_rtsp_reconnect_max_seconds
  MaxFrame,        \* bound: camera frames are numbered up to this, then alike
  Faults           \* the OpenCV calls that may raise

ASSUME ConstantsAssumption ==
  /\ NoProducer \notin Producers
  /\ QueueMax \in Nat \ {0}
  /\ BackoffInitial \in Nat \ {0}
  /\ BackoffMax \in Nat \ {0}
  /\ MaxFrame \in Nat \ {0}
  /\ EOF \notin Nat
  /\ Faults \subseteq {"open", "probe", "read", "encode"}

VARIABLES
  sub,        \* where each subscription's generator is suspended
  waitFor,    \* the cancelled producer a leaving subscriber awaits
  queue,      \* each subscription's queue (empty before and after it)
  last,       \* the newest frame each subscription has yielded (0: none)
  queues,     \* self._queues
  producer,   \* self._producer
  pc,         \* where each producer task is suspended
  cancelReq,  \* the tasks with a cancellation to deliver at their await
  inflight,   \* worker-thread calls started for each producer and not ended
  backoff,    \* the producer's local backoff
  frame,      \* the producer's local frame
  clock       \* the newest frame taken from the camera

vars == <<sub, waitFor, queue, last, queues, producer,
          pc, cancelReq, inflight, backoff, frame, clock>>

subscriberVars == <<sub, waitFor, queue, last, queues, producer>>
taskVars       == <<pc, cancelReq, inflight, backoff, frame>>

-----------------------------------------------------------------------------
(* Control locations. *)

\* "get": at queue.get(); "send": at yield, the frame being sent; "gone": at
\* yield, the client left and nobody iterates; "leaving": awaits the producer.
SubStates == {"idle", "get", "send", "gone", "leaving"}

\* The awaits of _producer_loop that run OpenCV in a thread, named after the
\* call: "drop" is the release of a capture that failed (l.140, l.153), "final"
\* the one of the finally block (l.172).
ThreadCalls == {"open", "probe", "read", "encode", "drop", "final"}

PcStates == ThreadCalls \cup {"new", "sleep", "done"}

\* The locations at which the local variable cap holds a capture.
Holding == {"probe", "read", "encode", "drop"}

\* A task that still runs the body of the loop.
Working == PcStates \ {"final", "done"}

\* What a queue holds: the numbers of frames (for their JPEGs) and the sentinel.
Items == 0..MaxFrame \cup {EOF}

Smaller(a, b) == IF a < b THEN a ELSE b

\* Mutants of PutLatest: the queue has no limit; a full queue refuses the item.
PutUnbounded(q, x) == Append(q, x)
PutIfRoom(q, x) == IF Len(q) < QueueMax THEN Append(q, x) ELSE q

\* put_nowait; on QueueFull the oldest item makes room.
PutLatest(q, x) ==
  IF Len(q) < QueueMax THEN Append(q, x) ELSE Append(Tail(q), x)

\* One item for every registered queue, in one step: no await inside the loop.
PutAll(x) ==
  queue' = [c \in Subscribers |->
              IF c \in queues THEN PutLatest(queue[c], x) ELSE queue[c]]

NextFrame == IF clock < MaxFrame THEN clock + 1 ELSE clock

-----------------------------------------------------------------------------
Init ==
  /\ sub       = [c \in Subscribers |-> "idle"]
  /\ waitFor   = [c \in Subscribers |-> NoProducer]
  /\ queue     = [c \in Subscribers |-> <<>>]
  /\ last      = [c \in Subscribers |-> 0]
  /\ queues    = {}
  /\ producer  = NoProducer
  /\ pc        = [p \in Producers |-> "done"]
  /\ cancelReq = {}
  /\ inflight  = [p \in Producers |-> {}]
  /\ backoff   = [p \in Producers |-> BackoffInitial]
  /\ frame     = [p \in Producers |-> 0]
  /\ clock     = 0

-----------------------------------------------------------------------------
(* Subscriptions. *)

\* Nothing refers to the task any more, so its name can stand for a new one.
Fresh(p) ==
  /\ pc[p] = "done"
  /\ p # producer
  /\ inflight[p] = {}
  /\ \A c \in Subscribers : waitFor[c] # p

\* self._producer is not None and not done().
ProducerRuns == \E p \in Producers : p = producer /\ pc[p] # "done"

Subscribe(c) ==
  /\ sub[c] = "idle"
  /\ sub' = [sub EXCEPT ![c] = "get"]
  /\ queues' = queues \cup {c}
  /\ \/ /\ ~ProducerRuns
        /\ \E p \in Producers :
             /\ Fresh(p)
             /\ producer' = p
             /\ pc' = [pc EXCEPT ![p] = "new"]
             /\ backoff' = [backoff EXCEPT ![p] = BackoffInitial]
     \/ /\ ProducerRuns
        /\ UNCHANGED <<producer, pc, backoff>>
  /\ UNCHANGED <<waitFor, queue, last, cancelReq, inflight, frame, clock>>

\* Mutant of RequestCancel: the task is forgotten without being cancelled.
RequestCancelForgotten(p) == UNCHANGED cancelReq

\* Task.cancel(): remembered until the task's next resumption; a finished task
\* ignores it.
RequestCancel(p) ==
  cancelReq' = IF pc[p] = "done" THEN cancelReq ELSE cancelReq \cup {p}

\* Mutant of LastToLeave: whoever leaves takes the producer down.
AnyoneToLeave(c) == producer # NoProducer

\* len(self._queues) == 0 after the removal, and there is a producer to cancel.
LastToLeave(c) == queues \ {c} = {} /\ producer # NoProducer

\* _unregister_queue, up to the await of the cancelled producer.  The queue goes
\* with the generator: the _EOF put in it (l.57-67) has no reader any more.
UnregisterQueue(c) ==
  /\ queue' = [queue EXCEPT ![c] = <<>>]
  /\ last' = [last EXCEPT ![c] = 0]
  /\ queues' = queues \ {c}
  /\ \/ /\ LastToLeave(c)
        /\ sub' = [sub EXCEPT ![c] = "leaving"]
        /\ waitFor' = [waitFor EXCEPT ![c] = producer]
        /\ producer' = NoProducer
        /\ RequestCancel(producer)
     \/ /\ ~LastToLeave(c)
        /\ sub' = [sub EXCEPT ![c] = "idle"]
        /\ UNCHANGED <<waitFor, producer, cancelReq>>

\* queue.get() returns a frame, which is yielded and sent.
ReceiveFrame(c) ==
  /\ sub[c] = "get" /\ queue[c] # <<>> /\ Head(queue[c]) # EOF
  /\ sub' = [sub EXCEPT ![c] = "send"]
  /\ last' = [last EXCEPT ![c] = Head(queue[c])]
  /\ queue' = [queue EXCEPT ![c] = Tail(@)]
  /\ UNCHANGED <<waitFor, queues, producer, taskVars, clock>>

\* queue.get() returns _EOF: the loop ends and the finally block runs.
ReceiveEof(c) ==
  /\ sub[c] = "get" /\ queue[c] # <<>> /\ Head(queue[c]) = EOF
  /\ UnregisterQueue(c)
  /\ UNCHANGED <<pc, inflight, backoff, frame, clock>>

\* The chunk is written and the generator is asked for the next one.
Sent(c) ==
  /\ sub[c] = "send"
  /\ sub' = [sub EXCEPT ![c] = "get"]
  /\ UNCHANGED <<waitFor, queue, last, queues, producer, taskVars, clock>>

\* The client disconnects and StreamingResponse cancels its task: at
\* queue.get() the finally block runs in that task.
DisconnectInGet(c) ==
  /\ sub[c] = "get"
  /\ UnregisterQueue(c)
  /\ UNCHANGED <<pc, inflight, backoff, frame, clock>>

\* While a chunk is being sent the generator is only abandoned at its yield.
DisconnectInSend(c) ==
  /\ sub[c] = "send"
  /\ sub' = [sub EXCEPT ![c] = "gone"]
  /\ UNCHANGED <<waitFor, queue, last, queues, producer, taskVars, clock>>

\* The event loop's async-generator hook closes the abandoned generator.
FinalizeGenerator(c) ==
  /\ sub[c] = "gone"
  /\ UnregisterQueue(c)
  /\ UNCHANGED <<pc, inflight, backoff, frame, clock>>

\* The await of the cancelled producer returns; its CancelledError is swallowed.
Leave(c) ==
  /\ sub[c] = "leaving" /\ pc[waitFor[c]] = "done"
  /\ sub' = [sub EXCEPT ![c] = "idle"]
  /\ waitFor' = [waitFor EXCEPT ![c] = NoProducer]
  /\ UNCHANGED <<queue, last, queues, producer, taskVars, clock>>

\* The response's cancel scope cancels the leaving task again, which passes the
\* cancellation on to the producer it awaits.
CancelAgain(c) ==
  /\ sub[c] = "leaving" /\ pc[waitFor[c]] # "done"
  /\ RequestCancel(waitFor[c])
  /\ UNCHANGED <<subscriberVars, pc, inflight, backoff, frame, clock>>

-----------------------------------------------------------------------------
(* The producer task. *)

\* Mutant of Await: a task that should end is started again.
AwaitRestarting(p, next, ended) ==
  /\ pc' = [pc EXCEPT ![p] = IF next = "done" THEN "new" ELSE next]
  /\ inflight' = [inflight EXCEPT
                    ![p] = (@ \ ended) \cup ({next} \cap ThreadCalls)]

\* The task suspends at location next, where a thread call starts if it is one;
\* ended is the set of calls whose result it has just got.
Await(p, next, ended) ==
  /\ pc' = [pc EXCEPT ![p] = next]
  /\ inflight' = [inflight EXCEPT
                    ![p] = (@ \ ended) \cup ({next} \cap ThreadCalls)]

\* The finally block: a held capture is released in a thread.
Finish(p, ended) ==
  Await(p, IF pc[p] \in Holding THEN "final" ELSE "done", ended)

\* The top of the while loop: the audience check, then open or read.
LoopTop(p, held, ended) ==
  LET next == IF queues = {} THEN IF held THEN "final" ELSE "done"
              ELSE IF held THEN "read" ELSE "open"
  IN  Await(p, next, ended)

\* Mutant of Returned: a pending cancellation does not keep the task from going on.
ReturnedDespiteCancel(p, call) ==
  pc[p] = call /\ call \in inflight[p]

\* The awaited thread call returns and the task, not being cancelled, resumes.
Returned(p, call) ==
  pc[p] = call /\ call \in inflight[p] /\ p \notin cancelReq

StartTask(p) ==
  /\ pc[p] = "new" /\ p \notin cancelReq
  /\ LoopTop(p, FALSE, {})
  /\ UNCHANGED <<subscriberVars, cancelReq, backoff, frame, clock>>

CaptureCreated(p) ==
  /\ Returned(p, "open")
  /\ Await(p, "probe", {"open"})
  /\ UNCHANGED <<subscriberVars, cancelReq, backoff, frame, clock>>

CaptureOpened(p) ==
  /\ Returned(p, "probe")
  /\ Await(p, "read", {"probe"})
  /\ backoff' = [backoff EXCEPT ![p] = BackoffInitial]
  /\ UNCHANGED <<subscriberVars, cancelReq, frame, clock>>

\* Mutant of CaptureNotOpened: the task gives up instead of retrying.
CaptureNotOpenedGivesUp(p) ==
  /\ Returned(p, "probe")
  /\ Await(p, "final", {"probe"})
  /\ UNCHANGED <<subscriberVars, cancelReq, backoff, frame, clock>>

CaptureNotOpened(p) ==
  /\ Returned(p, "probe")
  /\ Await(p, "drop", {"probe"})
  /\ UNCHANGED <<subscriberVars, cancelReq, backoff, frame, clock>>

FrameRead(p) ==
  /\ Returned(p, "read")
  /\ Await(p, "encode", {"read"})
  /\ clock' = NextFrame
  /\ frame' = [frame EXCEPT ![p] = NextFrame]
  /\ UNCHANGED <<subscriberVars, cancelReq, backoff>>

\* Mutant of FrameMissing: the release is started but not awaited.
FrameMissingNoWait(p) ==
  /\ Returned(p, "read")
  /\ pc' = [pc EXCEPT ![p] = "sleep"]
  /\ inflight' = [inflight EXCEPT ![p] = {"drop"}]
  /\ UNCHANGED <<subscriberVars, cancelReq, backoff, frame, clock>>

FrameMissing(p) ==
  /\ Returned(p, "read")
  /\ Await(p, "drop", {"read"})
  /\ UNCHANGED <<subscriberVars, cancelReq, backoff, frame, clock>>

CaptureDropped(p) ==
  /\ Returned(p, "drop")
  /\ Await(p, "sleep", {"drop"})
  /\ UNCHANGED <<subscriberVars, cancelReq, backoff, frame, clock>>

\* sleep(backoff), then the backoff doubles up to its cap.
BackoffElapsed(p) ==
  /\ pc[p] = "sleep" /\ p \notin cancelReq
  /\ backoff' = [backoff EXCEPT ![p] = Smaller(@ * 2, BackoffMax)]
  /\ LoopTop(p, FALSE, {})
  /\ UNCHANGED <<subscriberVars, cancelReq, frame, clock>>

\* A JPEG: broadcast it and go on.
FrameEncoded(p) ==
  /\ Returned(p, "encode")
  /\ PutAll(frame[p])
  /\ backoff' = [backoff EXCEPT ![p] = BackoffInitial]
  /\ LoopTop(p, TRUE, {"encode"})
  /\ UNCHANGED <<sub, waitFor, last, queues, producer, cancelReq, frame, clock>>

\* imencode refuses the frame: it is skipped.
FrameNotEncoded(p) ==
  /\ Returned(p, "encode")
  /\ LoopTop(p, TRUE, {"encode"})
  /\ UNCHANGED <<subscriberVars, cancelReq, backoff, frame, clock>>

\* The awaited call raises: every registered queue gets _EOF.
ProducerFails(p) ==
  /\ pc[p] \in Faults /\ Returned(p, pc[p])
  /\ PutAll(EOF)
  /\ Finish(p, {pc[p]})
  /\ UNCHANGED <<sub, waitFor, last, queues, producer,
                 cancelReq, backoff, frame, clock>>

CaptureReleased(p) ==
  /\ Returned(p, "final")
  /\ Await(p, "done", {"final"})
  /\ UNCHANGED <<subscriberVars, cancelReq, backoff, frame, clock>>

\* Mutant of DeliverCancel: the loop swallows the CancelledError and goes on.
DeliverCancelSwallowed(p) ==
  /\ p \in cancelReq
  /\ cancelReq' = cancelReq \ {p}
  /\ Await(p, "sleep", {})
  /\ UNCHANGED <<subscriberVars, backoff, frame, clock>>

\* CancelledError is raised at the task's await.  A task that never ran ends at
\* once; in the finally block it cuts the wait for the release short.
DeliverCancel(p) ==
  /\ p \in cancelReq
  /\ cancelReq' = cancelReq \ {p}
  /\ Finish(p, {})
  /\ UNCHANGED <<subscriberVars, backoff, frame, clock>>

\* A thread call that no task waits for, or whose task is cancelled, ends.
AbandonedCallEnds(p, call) ==
  /\ call \in inflight[p]
  /\ pc[p] # call \/ p \in cancelReq
  /\ inflight' = [inflight EXCEPT ![p] = @ \ {call}]
  /\ UNCHANGED <<subscriberVars, pc, cancelReq, backoff, frame, clock>>

-----------------------------------------------------------------------------
SubscriberStep(c) ==
  \/ Subscribe(c)
  \/ ReceiveFrame(c)
  \/ ReceiveEof(c)
  \/ Sent(c)
  \/ DisconnectInGet(c)
  \/ DisconnectInSend(c)
  \/ FinalizeGenerator(c)
  \/ Leave(c)
  \/ CancelAgain(c)

ProducerTask(p) ==
  \/ StartTask(p)
  \/ CaptureCreated(p)
  \/ CaptureOpened(p)
  \/ CaptureNotOpened(p)
  \/ FrameRead(p)
  \/ FrameMissing(p)
  \/ CaptureDropped(p)
  \/ BackoffElapsed(p)
  \/ FrameEncoded(p)
  \/ FrameNotEncoded(p)
  \/ ProducerFails(p)
  \/ CaptureReleased(p)
  \/ DeliverCancel(p)

Next ==
  \/ \E c \in Subscribers : SubscriberStep(c)
  \/ \E p \in Producers : ProducerTask(p)
  \/ \E p \in Producers, call \in ThreadCalls : AbandonedCallEnds(p, call)

Spec == Init /\ [][Next]_vars

\* The event loop resumes every task that can go on, OpenCV calls get a thread (of
\* the pool McpContext models) and return, and abandoned generators are collected.
\* Nothing is assumed of the clients (Subscribe, Sent, the disconnects).
Fairness ==
  /\ \A c \in Subscribers :
       /\ WF_vars(ReceiveFrame(c) \/ ReceiveEof(c))
       /\ WF_vars(FinalizeGenerator(c))
       /\ WF_vars(Leave(c))
  /\ \A p \in Producers :
       /\ WF_vars(ProducerTask(p))
       /\ \A call \in ThreadCalls : WF_vars(AbandonedCallEnds(p, call))

FairSpec == Spec /\ Fairness

-----------------------------------------------------------------------------
(* Properties. *)

TypeOK ==
  /\ sub \in [Subscribers -> SubStates]
  /\ waitFor \in [Subscribers -> Producers \cup {NoProducer}]
  /\ \A c \in Subscribers : sub[c] = "leaving" => waitFor[c] \in Producers
  /\ queue \in [Subscribers -> Seq(Items)]
  /\ \A c \in Subscribers : Len(queue[c]) <= QueueMax
  /\ last \in [Subscribers -> 0..MaxFrame]
  /\ queues \subseteq Subscribers
  /\ producer \in Producers \cup {NoProducer}
  /\ pc \in [Producers -> PcStates]
  /\ cancelReq \subseteq Producers
  /\ inflight \in [Producers -> SUBSET ThreadCalls]
  /\ backoff \in [Producers -> Nat \ {0}]
  /\ frame \in [Producers -> 0..MaxFrame]
  /\ clock \in 0..MaxFrame

\* Generations of producers overlap (a cancelled one is still ending when a new
\* subscriber starts the next), but a task that still runs its loop without a
\* pending cancellation is always the one self._producer refers to: two tasks
\* never both drive the camera and broadcast.
OneActiveProducer ==
  \A p \in Producers : pc[p] \in Working /\ p \notin cancelReq => p = producer

\* The camera is never kept busy for nobody, and no audience is left without a
\* producer task: self._producer is set exactly while queues are registered.
ProducerServesAudience == producer # NoProducer <=> queues # {}

Newer(a, b) == a < b \/ (a = MaxFrame /\ b = MaxFrame)

\* What a subscriber has been sent and what its queue still holds are frames in
\* the order the camera took them, none twice, whatever was dropped on a full
\* queue and whichever producer generation captured them.
FramesInOrder ==
  \A c \in queues : \A j \in 1..Len(queue[c]) :
    queue[c][j] # EOF =>
      /\ Newer(last[c], queue[c][j])
      /\ \A i \in 1..(j - 1) :
           queue[c][i] # EOF => Newer(queue[c][i], queue[c][j])

\* Once the current producer has stopped by itself (it failed), each registered
\* subscriber finds _EOF as the last item of its queue - neither dropped nor
\* followed by a frame - unless it is a newcomer that has received nothing yet.
FailureReachesAudience ==
  producer # NoProducer /\ pc[producer] \in {"final", "done"} =>
    \A c \in queues :
      IF queue[c] = <<>> THEN sub[c] = "get" /\ last[c] = 0
                         ELSE queue[c][Len(queue[c])] = EOF

\* A capture is used by two worker threads at once (a release beside a read,
\* say) only when its producer was cancelled: the loop itself always waits for
\* one call on the capture before the next.
OverlapOnlyAfterCancel ==
  \A p \in Producers : \A a, b \in inflight[p] : a # b => p # producer

\* "Sentinel to unblock consumer tasks when unsubscribing or when the producer
\* stops" (rtsp_cv2_relay.py:13): a subscriber blocked in queue.get() on an empty
\* queue still has a producer that has not ended.
StoppedProducerUnblocks ==
  \A c \in queues : sub[c] = "get" /\ queue[c] = <<>> => pc[producer] # "done"

\* The last subscriber to leave awaits the task it cancelled, and that await
\* returns: the cancelled producer always ends, whatever call it was awaiting.
LeaverFinishes ==
  \A c \in Subscribers : sub[c] = "leaving" ~> sub[c] = "idle"

\* When the audience is gone and does not come back, every producer task ends
\* and no thread is left using a capture.
CameraReleased ==
  queues = {} ~> \/ queues # {}
                 \/ \A p \in Producers : pc[p] = "done" /\ inflight[p] = {}

\* The camera answers now and then: open, read and encode do not fail for ever.
CameraAnswers ==
  \A p \in Producers :
    SF_vars(CaptureOpened(p)) /\ SF_vars(FrameRead(p)) /\ SF_vars(FrameEncoded(p))

\* If the camera answers now and then, a subscriber that waits while the producer
\* is at work, or with something in its queue, gets a frame or _EOF or leaves:
\* through every reconnection, and also when a call on the capture raises.  Only
\* who joins a producer that has already failed is left out: nothing ever comes
\* for it (StoppedProducerUnblocks).
WaitingIsServed ==
  CameraAnswers => \A c \in Subscribers :
    sub[c] = "get" /\ (queue[c] # <<>> \/ pc[producer] \in Working) ~> sub[c] # "get"
=============================================================================
