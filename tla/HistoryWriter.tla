---------------------------- MODULE HistoryWriter ----------------------------
(***************************************************************************)
(* The history writer: collectors hand it points without ever waiting, one *)
(* goroutine batches them, posts each batch to InfluxDB with retries, and  *)
(* drains the queue when it is stopped.                                    *)
(*                                                                         *)
(* Source: src/internal/collector/history_writer.go, with the writer       *)
(* enabled.  A point is offered once; what makes one point different from  *)
(* another is only whether buildHistoryLineProtocol accepts it.            *)
(***************************************************************************)
EXTENDS Integers, Sequences, FiniteSets, SequencesExt

CONSTANTS
  Points,        \* what the collectors offer
  Unencodable,   \* the points buildHistoryLineProtocol refuses
  QueueSize,     \* capacity of the queue
  BatchSize,
  RetryCount

\* newHistoryWriter replaces every non-positive setting by a positive default.
ASSUME HistoryAssumption ==
  /\ IsFiniteSet(Points) /\ Unencodable \subseteq Points
  /\ QueueSize \in Nat \ {0} /\ BatchSize \in Nat \ {0} /\ RetryCount \in Nat \ {0}

VARIABLES
  queue,
  batch,
  at,         \* the goroutine: "select", "write", "drain", "last" (flush) or "exited"
  attempt,    \* of writeBatchWithRetry, 0 when it is not running
  done,       \* the writer's context is done: stop(), or the program's context
  stopped,    \* stop() has returned
  accepted,   \* history: the points that entered the queue, in that order
  settled,    \* history: the points whose batch is finished, in that order
  late,       \* history: points that entered the queue after done
  stored,     \* the points InfluxDB has
  turnedAway  \* points dropped because the queue was full, or refused after done

historyVars == <<queue, batch, at, attempt, done, stopped, accepted, settled, late, stored, turnedAway>>

HistoryInit ==
  /\ queue = <<>> /\ batch = <<>>
  /\ at = "select" /\ attempt = 0
  /\ done = FALSE /\ stopped = FALSE
  /\ accepted = <<>> /\ settled = <<>>
  /\ late = {} /\ stored = {} /\ turnedAway = {}

-----------------------------------------------------------------------------
(* writeAsync: a select over ctx.Done, the queue and default. *)

Room == Len(queue) < QueueSize

Offered(p) == p \in Range(accepted) \cup turnedAway

WriteAsync(p) ==
  /\ ~Offered(p)
  /\ Room
  /\ queue' = Append(queue, p)
  /\ accepted' = Append(accepted, p)
  /\ late' = IF done THEN late \cup {p} ELSE late
  /\ UNCHANGED <<batch, at, attempt, done, stopped, settled, stored, turnedAway>>

\* Refused when ctx is done, even if there is room: select picks at random.
TurnAway(p) ==
  /\ ~Offered(p)
  /\ done \/ ~Room
  /\ turnedAway' = turnedAway \cup {p}
  /\ UNCHANGED <<queue, batch, at, attempt, done, stopped, accepted, settled, late, stored>>

-----------------------------------------------------------------------------
(* run *)

\* Mutant: the newest point first.
TakeNewest ==
  /\ batch' = Append(batch, queue[Len(queue)])
  /\ queue' = SubSeq(queue, 1, Len(queue) - 1)

TakePoint ==
  /\ batch' = Append(batch, Head(queue))
  /\ queue' = Tail(queue)

BeginWrite == at' = "write" /\ attempt' = 1

\* Mutant: off by one.
OverfillsBatch == Len(batch) + 1 > BatchSize

FillsBatch == Len(batch) + 1 >= BatchSize

Receive ==
  /\ at = "select"
  /\ queue # <<>>
  /\ TakePoint
  /\ IF FillsBatch THEN BeginWrite ELSE UNCHANGED <<at, attempt>>
  /\ UNCHANGED <<done, stopped, accepted, settled, late, stored, turnedAway>>

\* Mutant: only a full batch is ever flushed.
TickFull == Len(batch) >= BatchSize

TickFlushes == batch # <<>>

Tick ==
  /\ at = "select"
  /\ TickFlushes
  /\ BeginWrite
  /\ UNCHANGED <<queue, batch, done, stopped, accepted, settled, late, stored, turnedAway>>

SeeDone ==
  /\ at = "select"
  /\ done
  /\ at' = "drain"
  /\ UNCHANGED <<queue, batch, attempt, done, stopped, accepted, settled, late, stored, turnedAway>>

DrainPoint ==
  /\ at = "drain"
  /\ queue # <<>>
  /\ TakePoint
  /\ UNCHANGED <<at, attempt, done, stopped, accepted, settled, late, stored, turnedAway>>

\* Mutant: the queue is abandoned.
QueueIgnored == TRUE

QueueEmpty == queue = <<>>

\* The default of the inner select: the last flush, if there is anything in it.
Drained ==
  /\ at = "drain"
  /\ QueueEmpty
  /\ at' = "last"
  /\ attempt' = IF batch = <<>> THEN 0 ELSE 1
  /\ UNCHANGED <<queue, batch, done, stopped, accepted, settled, late, stored, turnedAway>>

-----------------------------------------------------------------------------
(* writeBatchWithRetry; "write" and "last" differ in what follows the batch. *)

Writing == at \in {"write", "last"} /\ attempt > 0

EndBatch ==
  /\ settled' = settled \o batch
  /\ batch' = <<>>
  /\ attempt' = 0
  /\ at' = IF at = "write" THEN "select" ELSE "last"

\* One line that cannot be encoded fails the whole batch, before any request.
Encodes == Range(batch) \cap Unencodable = {}

WriteOk ==
  /\ Writing
  /\ Encodes
  /\ stored' = stored \cup Range(batch)
  /\ EndBatch
  /\ UNCHANGED <<queue, done, stopped, accepted, late, turnedAway>>

\* Mutant: the failed attempt is not counted.
SameAttempt == attempt

NextAttempt == attempt + 1

RetriesLeft == attempt <= RetryCount

\* An error, after a request that InfluxDB may have applied all the same, and the
\* retry interval, which nothing interrupts: the context of a flush is never done.
WriteFails ==
  /\ Writing
  /\ \/ UNCHANGED stored
     \/ Encodes /\ stored' = stored \cup Range(batch)
  /\ IF RetriesLeft
     THEN attempt' = NextAttempt /\ UNCHANGED <<at, batch, settled>>
     ELSE EndBatch
  /\ UNCHANGED <<queue, done, stopped, accepted, late, turnedAway>>

Exit ==
  /\ at = "last" /\ attempt = 0
  /\ at' = "exited"
  /\ UNCHANGED <<queue, batch, attempt, done, stopped, accepted, settled, late, stored, turnedAway>>

-----------------------------------------------------------------------------
(* stop *)

Cancel ==
  /\ ~done
  /\ done' = TRUE
  /\ UNCHANGED <<queue, batch, at, attempt, stopped, accepted, settled, late, stored, turnedAway>>

StopReturns ==
  /\ done /\ ~stopped
  /\ at = "exited"
  /\ stopped' = TRUE
  /\ UNCHANGED <<queue, batch, at, attempt, done, accepted, settled, late, stored, turnedAway>>

Finished == stopped /\ UNCHANGED historyVars

WriterStep ==
  \/ Receive \/ Tick \/ SeeDone \/ DrainPoint \/ Drained \/ WriteOk \/ WriteFails \/ Exit

HistoryNext ==
  \/ \E p \in Points : WriteAsync(p) \/ TurnAway(p)
  \/ WriterStep
  \/ Cancel
  \/ StopReturns
  \/ Finished

HistorySpec == HistoryInit /\ [][HistoryNext]_historyVars

\* The goroutine runs, its ticker ticks, and a request returns because the client has
\* a timeout.  select chooses at random among its ready cases: ctx.Done is taken at
\* last, however often points and ticks are ready too.
HistoryFairSpec ==
  /\ HistorySpec
  /\ WF_historyVars(WriterStep)
  /\ SF_historyVars(SeeDone)
  /\ WF_historyVars(StopReturns)

-----------------------------------------------------------------------------
(* Properties. *)

HistoryTypeOK ==
  /\ queue \in Seq(Points) /\ Len(queue) <= QueueSize
  /\ batch \in Seq(Points)
  /\ at \in {"select", "write", "drain", "last", "exited"}
  /\ at = "select" => Len(batch) < BatchSize
  /\ at = "write" => Len(batch) <= BatchSize
  /\ attempt \in 0..RetryCount + 1
  /\ attempt > 0 => at \in {"write", "last"} /\ batch # <<>>
  /\ at = "exited" => batch = <<>>
  /\ done \in BOOLEAN /\ stopped \in BOOLEAN
  /\ accepted \in Seq(Points) /\ settled \in Seq(Points)
  /\ late \subseteq Points /\ stored \subseteq Points /\ turnedAway \subseteq Points

\* From the queue to InfluxDB no point is lost, doubled or overtaken by a later one,
\* across batches, retries and the drain at the end; nothing is stored that was not
\* taken out of the queue (history_writer.go:126-162).
InOrderOnce ==
  /\ accepted = settled \o batch \o queue
  /\ stored \subseteq Range(settled \o batch)

\* When the writer has stopped, every point that a collector queued before the
\* cancellation has been tried; only what raced with it stays behind (:149-159).
DrainedAtExit == at = "exited" => Range(queue) \subseteq late

\* A queued point is tried within the batches before it, though they are too few to
\* fill one and InfluxDB may refuse every request; so stop() waits for it too.
EventuallySettled ==
  \A p \in Points : p \in Range(accepted) /\ p \notin late ~> p \in Range(settled)

\* stop() returns though every request fails and collectors go on writing.
StopEnds == done ~> stopped
=============================================================================
