--------------------------- MODULE JudgePublisher ---------------------------
(***************************************************************************)
(* The Judge source publisher: collectors hand it encoded device events,   *)
(* a fixed pool of workers publishes them to Redis.  Each device has its   *)
(* own queue; a device with work is represented by ONE token in the        *)
(* bounded channel readyDevices, so a device never has two publications in *)
(* flight.  The channel is sent to while queueMu is held, which is safe    *)
(* only if the send can never block.                                       *)
(*                                                                         *)
(* Source: src/internal/collector/judge_source_publisher.go.  A map entry  *)
(* that does not exist is the record NoQueue: enqueue reads a nil entry as *)
(* zero counts and creates a zero record, and nothing else tells the two   *)
(* apart.  The failure log called after each critical section has a module *)
(* of its own (FailureLog); a rejected event leaves this state unchanged.  *)
(***************************************************************************)
EXTENDS Integers, Sequences, FiniteSets, FiniteSetsExt, SequencesExt

CONSTANTS
  Devices,              \* device identifiers
  Workers,              \* the publisher's goroutines, config.workerCount of them
  Payloads,             \* encoded events
  Bytes,                \* len(payload), for every payload
  NoDevice,             \* no device: "nothing held"
  NoPayload,            \* nothing being published
  QueueSize,            \* config.queueSize
  QueueMaxBytes,        \* config.queueMaxBytes
  DeviceQueueSize,      \* config.deviceQueueSize
  DeviceQueueMaxBytes   \* config.deviceQueueMaxBytes

\* What newJudgeSourcePublisher checks before it starts (judge_source_publisher.go:51),
\* and that enqueue refuses an empty payload (:78).
ASSUME PublisherAssumption ==
  /\ IsFiniteSet(Workers) /\ Workers # {}
  /\ Bytes \in [Payloads -> Nat \ {0}]
  /\ NoDevice \notin Devices /\ NoPayload \notin Payloads
  /\ QueueSize \in Nat \ {0} /\ QueueMaxBytes \in Nat \ {0}
  /\ DeviceQueueSize \in Nat \ {0} /\ DeviceQueueMaxBytes \in Nat \ {0}
  /\ Cardinality(Workers) <= QueueSize

VARIABLES
  deviceQueues,        \* the map deviceID -> judgeSourceDeviceQueue
  readyDevices,        \* the channel of ready tokens, of capacity QueueSize
  queuedPublications,  \* accepted and not yet dequeued, over all devices
  queueBytes,          \* bytes accepted and not yet returned from PUBLISH
  enqueuing,           \* the device whose token enqueue is sending, queueMu held
  at,                  \* where each worker is
  holds,               \* the device whose token a worker has taken
  payload,             \* what a worker in "publish" is publishing
  cancelled,           \* ctx is done
  closed               \* stop() has returned: the Redis client is closed

queues == <<deviceQueues, readyDevices, queuedPublications, queueBytes, enqueuing>>
workerVars == <<at, holds, payload>>
vars == <<queues, workerVars, cancelled, closed>>

\* judgeSourceDeviceQueue
DeviceQueue == [pending : Seq(Payloads), scheduled : BOOLEAN,
                outstandingCount : Int, outstandingBytes : Int]

NoQueue == [pending |-> <<>>, scheduled |-> FALSE,
            outstandingCount |-> 0, outstandingBytes |-> 0]

\* "publish" covers the PUBLISH call; "requeue" is completePublication with the
\* mutex held, about to send the device's token back.
Places == {"select", "next", "publish", "requeue", "exited"}

Init ==
  /\ deviceQueues = [d \in Devices |-> NoQueue]
  /\ readyDevices = <<>>
  /\ queuedPublications = 0
  /\ queueBytes = 0
  /\ enqueuing = NoDevice
  /\ at = [w \in Workers |-> "select"]
  /\ holds = [w \in Workers |-> NoDevice]
  /\ payload = [w \in Workers |-> NoPayload]
  /\ cancelled = FALSE
  /\ closed = FALSE

-----------------------------------------------------------------------------
(* The mutex and the channel. *)

MutexFree == enqueuing = NoDevice /\ \A w \in Workers : at[w] # "requeue"

\* A send blocks while the channel is full.
Send(d) ==
  /\ Len(readyDevices) < QueueSize
  /\ readyDevices' = Append(readyDevices, d)

-----------------------------------------------------------------------------
(* enqueue, called by collectors and control handlers. *)

\* Mutants: the global limit off by one; a device's room free again at dequeue
\* instead of at the end of PUBLISH.
AdmitsOneTooMany(q, size) ==
  /\ queuedPublications <= QueueSize
  /\ size <= QueueMaxBytes - queueBytes
  /\ q.outstandingCount < DeviceQueueSize
  /\ size <= DeviceQueueMaxBytes - q.outstandingBytes

AdmitsByPending(q, size) ==
  /\ queuedPublications < QueueSize
  /\ size <= QueueMaxBytes - queueBytes
  /\ Len(q.pending) < DeviceQueueSize
  /\ size <= DeviceQueueMaxBytes - q.outstandingBytes

Admits(q, size) ==
  /\ queuedPublications < QueueSize
  /\ size <= QueueMaxBytes - queueBytes
  /\ q.outstandingCount < DeviceQueueSize
  /\ size <= DeviceQueueMaxBytes - q.outstandingBytes

\* Mutants: a token for every publication; no token at all.
AlwaysNeedsToken(q) == TRUE
NeverNeedsToken(q) == FALSE

NeedsToken(q) == ~q.scheduled

Enqueue(d, p) ==
  LET q == deviceQueues[d] IN
  /\ MutexFree
  /\ Admits(q, Bytes[p])
  /\ deviceQueues' = [deviceQueues EXCEPT ![d] =
        [pending |-> Append(q.pending, p),
         scheduled |-> TRUE,
         outstandingCount |-> q.outstandingCount + 1,
         outstandingBytes |-> q.outstandingBytes + Bytes[p]]]
  /\ queuedPublications' = queuedPublications + 1
  /\ queueBytes' = queueBytes + Bytes[p]
  /\ enqueuing' = IF NeedsToken(q) THEN d ELSE NoDevice
  /\ UNCHANGED <<readyDevices, workerVars, cancelled, closed>>

EnqueueSend ==
  /\ enqueuing # NoDevice
  /\ Send(enqueuing)
  /\ enqueuing' = NoDevice
  /\ UNCHANGED <<deviceQueues, queuedPublications, queueBytes, workerVars, cancelled, closed>>

-----------------------------------------------------------------------------
(* runWorker *)

Goto(w, place) == at' = [at EXCEPT ![w] = place]

TakeToken(w) ==
  /\ at[w] = "select"
  /\ readyDevices # <<>>
  /\ holds' = [holds EXCEPT ![w] = Head(readyDevices)]
  /\ readyDevices' = Tail(readyDevices)
  /\ Goto(w, "next")
  /\ UNCHANGED <<deviceQueues, queuedPublications, queueBytes, enqueuing, payload,
                 cancelled, closed>>

\* Mutant: the newest publication first, in the oldest one's place.
NewestOfLine(q) == q.pending[Len(q.pending)]

HeadOfLine(q) == Head(q.pending)

NextPublication(w) ==
  LET d == holds[w]
      q == deviceQueues[d]
  IN
  /\ at[w] = "next"
  /\ MutexFree
  /\ IF q.pending = <<>>
     THEN /\ Goto(w, "select")
          /\ holds' = [holds EXCEPT ![w] = NoDevice]
          /\ UNCHANGED <<deviceQueues, queuedPublications, payload>>
     ELSE /\ payload' = [payload EXCEPT ![w] = HeadOfLine(q)]
          /\ deviceQueues' = [deviceQueues EXCEPT ![d] = [q EXCEPT !.pending = Tail(q.pending)]]
          /\ queuedPublications' = IF queuedPublications > 0 THEN queuedPublications - 1 ELSE 0
          /\ Goto(w, "publish")
          /\ UNCHANGED holds
  /\ UNCHANGED <<readyDevices, queueBytes, enqueuing, cancelled, closed>>

\* Mutants: the device's bytes stay charged; a device with more work is forgotten;
\* a drained device returns to the channel.
ReleaseKeepsBytes(q, size) == [q EXCEPT !.outstandingCount = @ - 1]
Release(q, size) == [q EXCEPT !.outstandingCount = @ - 1, !.outstandingBytes = @ - size]

HasMoreNever(q) == FALSE
HasMoreAlways(q) == TRUE
HasMore(q) == q.pending # <<>>

\* PUBLISH has returned, whatever its outcome: completePublication up to its send.
CompletePublication(w) ==
  LET d == holds[w]
      size == Bytes[payload[w]]
      q == Release(deviceQueues[d], size)
  IN
  /\ at[w] = "publish"
  /\ MutexFree
  /\ queueBytes' = IF queueBytes >= size THEN queueBytes - size ELSE 0
  /\ payload' = [payload EXCEPT ![w] = NoPayload]
  /\ IF HasMore(q)
     THEN /\ deviceQueues' = [deviceQueues EXCEPT ![d] = q]
          /\ Goto(w, "requeue")
          /\ UNCHANGED holds
     ELSE /\ deviceQueues' = [deviceQueues EXCEPT ![d] = NoQueue]
          /\ Goto(w, "select")
          /\ holds' = [holds EXCEPT ![w] = NoDevice]
  /\ UNCHANGED <<readyDevices, queuedPublications, enqueuing, cancelled, closed>>

\* Mutant: the worker keeps the token that it has handed back.
RequeueSendHolding(w) ==
  /\ at[w] = "requeue"
  /\ Send(holds[w])
  /\ Goto(w, "select")
  /\ UNCHANGED <<deviceQueues, queuedPublications, queueBytes, enqueuing, holds, payload,
                 cancelled, closed>>

RequeueSend(w) ==
  /\ at[w] = "requeue"
  /\ Send(holds[w])
  /\ Goto(w, "select")
  /\ holds' = [holds EXCEPT ![w] = NoDevice]
  /\ UNCHANGED <<deviceQueues, queuedPublications, queueBytes, enqueuing, payload,
                 cancelled, closed>>

\* select picks at random when a token is ready too, so a worker may still take
\* tokens after the cancellation.
WorkerExit(w) ==
  /\ cancelled
  /\ at[w] = "select"
  /\ Goto(w, "exited")
  /\ UNCHANGED <<queues, holds, payload, cancelled, closed>>

-----------------------------------------------------------------------------
(* Shutdown. *)

Cancel ==
  /\ ~cancelled
  /\ cancelled' = TRUE
  /\ UNCHANGED <<queues, workerVars, closed>>

Stop ==
  /\ cancelled /\ ~closed
  /\ \A w \in Workers : at[w] = "exited"
  /\ closed' = TRUE
  /\ UNCHANGED <<queues, workerVars, cancelled>>

\* The process is gone once stop() has returned; only then may nothing happen.
Stopped == closed /\ UNCHANGED vars

WorkerStep(w) ==
  TakeToken(w) \/ NextPublication(w) \/ CompletePublication(w) \/ RequeueSend(w) \/ WorkerExit(w)

Next ==
  \/ \E d \in Devices, p \in Payloads : Enqueue(d, p)
  \/ EnqueueSend
  \/ \E w \in Workers : WorkerStep(w)
  \/ Cancel
  \/ Stop
  \/ Stopped

Spec == Init /\ [][Next]_vars

\* A goroutine that can run does; a goroutine waiting for queueMu gets it even if
\* others keep taking it (Go's mutex hands over to a waiter after 1ms), and PUBLISH
\* returns because of its timeout.  Nobody has to enqueue, nor to cancel.
Fairness ==
  /\ WF_vars(EnqueueSend)
  /\ WF_vars(Stop)
  /\ \A w \in Workers :
       /\ WF_vars(TakeToken(w))
       /\ SF_vars(NextPublication(w))
       /\ SF_vars(CompletePublication(w))
       /\ WF_vars(RequeueSend(w))
       /\ WF_vars(WorkerExit(w))

FairSpec == Spec /\ Fairness

-----------------------------------------------------------------------------
(* Properties. *)

TypeOK ==
  /\ deviceQueues \in [Devices -> DeviceQueue]
  /\ readyDevices \in Seq(Devices)
  /\ queuedPublications \in Nat /\ queueBytes \in Nat
  /\ enqueuing \in Devices \cup {NoDevice}
  /\ at \in [Workers -> Places]
  /\ holds \in [Workers -> Devices \cup {NoDevice}]
  /\ \A w \in Workers : holds[w] = NoDevice <=> at[w] \in {"select", "exited"}
  /\ payload \in [Workers -> Payloads \cup {NoPayload}]
  /\ \A w \in Workers : payload[w] = NoPayload <=> at[w] # "publish"
  /\ cancelled \in BOOLEAN /\ closed \in BOOLEAN

InChannel(d) == \E i \in 1..Len(readyDevices) : readyDevices[i] = d

Held(d) == \E w \in Workers : holds[w] = d

\* No token is duplicated, wherever it is: in the channel, in a worker's hands or
\* being sent by enqueue.
OneTokenPerDevice ==
  /\ \A i, j \in 1..Len(readyDevices) : readyDevices[i] = readyDevices[j] => i = j
  /\ \A v, w \in Workers : holds[v] = holds[w] => v = w \/ holds[v] = NoDevice
  /\ \A d \in Devices : /\ ~(InChannel(d) /\ Held(d))
                        /\ enqueuing = d => ~InChannel(d) /\ ~Held(d)

\* A device is marked scheduled exactly while its token exists.
ScheduledMeansToken ==
  \A d \in Devices :
    deviceQueues[d].scheduled <=> InChannel(d) \/ Held(d) \/ enqueuing = d

\* Every pending event is backed by a token, so none is stranded, and every token
\* that is not publishing is backed by a pending event.
TokenMeansWork ==
  \A d \in Devices :
    LET waits == deviceQueues[d].pending # <<>> IN
    /\ waits => deviceQueues[d].scheduled
    /\ InChannel(d) \/ enqueuing = d => waits
    /\ \A w \in Workers : holds[w] = d /\ at[w] \in {"next", "requeue"} => waits

\* Single flight and no lost wake-up: a device has at most one token, exactly when
\* it has work, so its publications are never concurrent and never stuck
\* (judge_source_publisher.go:118-123 and :195-201 hand the token over).
TokenDiscipline == OneTokenPerDevice /\ ScheduledMeansToken /\ TokenMeansWork

\* The comment at judge_source_publisher.go:120-122: "Because each token has at
\* least one waiting publication, queueSize also bounds this send."  Whoever sends
\* holds queueMu, so a send that blocked would stop every collector and worker.
SendNeverBlocks == ~MutexFree => Len(readyDevices) < QueueSize

InFlight(d) == {w \in Workers : holds[w] = d /\ at[w] = "publish"}

BytesIn(ps) == SumFunction([i \in DOMAIN ps |-> Bytes[ps[i]]])

\* The four admission counters are exactly what is queued and in flight, they are
\* given back whatever the order of completions, and no limit is ever exceeded.
Accounting ==
  /\ queuedPublications = MapThenSumSet(LAMBDA d : Len(deviceQueues[d].pending), Devices)
  /\ queueBytes = MapThenSumSet(LAMBDA d : deviceQueues[d].outstandingBytes, Devices)
  /\ \A d \in Devices :
       LET q == deviceQueues[d]
           flying == MapThenSumSet(LAMBDA w : Bytes[payload[w]], InFlight(d))
       IN  /\ q.outstandingCount = Len(q.pending) + Cardinality(InFlight(d))
           /\ q.outstandingBytes = BytesIn(q.pending) + flying
           /\ q.outstandingCount <= DeviceQueueSize
           /\ q.outstandingBytes <= DeviceQueueMaxBytes
  /\ queuedPublications <= QueueSize /\ queueBytes <= QueueMaxBytes

\* The publisher implements the per-device streams of JudgeDelivery: accepted
\* events of one device are published in order, one at a time, at most once, and
\* within the device's capacity until PUBLISH returns.
Delivery == INSTANCE JudgeDelivery WITH
  outstanding <- [d \in Devices |->
                    (IF InFlight(d) = {} THEN <<>> ELSE <<payload[CHOOSE w \in InFlight(d) : TRUE]>>)
                    \o deviceQueues[d].pending],
  publishing <- {d \in Devices : InFlight(d) # {}}

ImplementsDelivery == Delivery!Spec

\* A device with pending events is published from, however busy the others keep
\* the workers, unless the publisher is shut down (README: "a device with more
\* pending events returns to the end of the ready-device queue").
EventuallyPublished ==
  \A d \in Devices :
    deviceQueues[d].pending # <<>> ~> InFlight(d) # {} \/ cancelled
=============================================================================
