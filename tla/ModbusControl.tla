---------------------------- MODULE ModbusControl ----------------------------
(***************************************************************************)
(* Control commands beside the device workers of one Modbus gateway: a     *)
(* command writes its attributes one after the other, waits for each       *)
(* acknowledgement, reads the value back until it matches or the time is   *)
(* up, pauses the workers meanwhile, and reports every attribute once.     *)
(*                                                                         *)
(* Source: src/internal/control/control.go, control/verification.go,       *)
(* collector/gateway_pause.go, collector/modbus.go and the deviceWorker of *)
(* collector/collector.go.  Commands come from one goroutine, so one is    *)
(* processed at a time (service/subRedisChannel.go).  The connection is a  *)
(* pair of queues: requests the gateway has not served and answers nobody  *)
(* has read; closing it loses both.  Who may hold and close it is modelled *)
(* in GatewayPool, here a guard and a reset.  An answer is taken for what  *)
(* its length, checksum and echoed address make it, never for whom it was  *)
(* sent to.  An exception answer is shorter than any reader expects, so it *)
(* ends as silence does, in a timeout.  Equal values compare as equal: the *)
(* types for which they do not are the subject of ModbusPoints.  An MQTT   *)
(* attribute is published and waits for its broker, without a deadline.    *)
(* The dispatcher of OPC UA, whose calls have one, is reduced to what it   *)
(* may report; BACnet is modelled in BacnetExchange.                       *)
(***************************************************************************)
EXTENDS Integers, SequencesExt

CONSTANTS
  Workers,       \* device workers of the gateway's devices
  Reads,         \* for each worker the points it reads, in order
  Values,        \* what a point can hold
  Protocol,      \* protocol of each configured device: "modbus", "opcua" or "mqtt"
  Attribute,     \* of each attribute key: [mapped, encodes, readable, point, target]
  Commands,      \* sequences of items [device, keys], the keys sorted
  Unnamed,       \* a device_id that is missing
  Control,       \* the commands' name among those who use the connection
  Nobody,
  MaxCommands    \* bound of the model

Devices == DOMAIN Protocol
Keys == DOMAIN Attribute
Points == {Attribute[k].point : k \in Keys} \cup UNION {ToSet(Reads[w]) : w \in Workers}
Named == UNION {{c[i].device : i \in DOMAIN c} : c \in Commands}
Items == [device : Named, keys : Seq(Keys)]

ASSUME ControlAssumption ==
  /\ Control \notin Workers /\ Nobody \notin Workers \cup {Control}
  /\ Unnamed \notin Devices
  /\ \A w \in Workers : Reads[w] \in Seq(Points) \ {<<>>}
  /\ Commands \subseteq Seq(Items)
  /\ \A k \in Keys : Attribute[k].target \in Values
  /\ MaxCommands \in Nat

VARIABLES
  boot,      \* "none"; "stored": the configuration is loaded; "ready": conn.Default() exists
  taken,     \* commands received
  job,       \* the command in progress
  report,    \* how the last command ended, until the next one starts
  pause,     \* gatewayPauseState: refCount, and the number of its open resumeCh, 0 for none
  at, next, waits, cancelled,  \* of each worker: place, index into Reads, channel it waits on, ctx
  owner,     \* holder of the gateway's guard
  link,      \* the pooled connection: state, requests and answers under way
  held       \* what the device holds at each point

workers == <<at, next, waits, cancelled>>
vars == <<boot, taken, job, report, pause, workers, owner, link, held>>

NoJob == [at |-> "idle", command |-> <<>>, items |-> <<>>, keys |-> <<>>, turn |-> 0,
          expired |-> FALSE, evidence |-> {}, status |-> "none", results |-> <<>>]

NoReport == [end |-> "none", command |-> <<>>, results |-> <<>>]

NoLink == [state |-> "none", requests |-> <<>>, answers |-> <<>>]

Init ==
  /\ boot \in {"none", "stored", "ready"}
  /\ taken = 0
  /\ job = NoJob
  /\ report = NoReport
  /\ pause = [refCount |-> 0, channel |-> 0]
  /\ at = [w \in Workers |-> "idle"]
  /\ next = [w \in Workers |-> 1]
  /\ waits = [w \in Workers |-> 0]
  /\ cancelled = [w \in Workers |-> FALSE]
  /\ owner = Nobody
  /\ link = NoLink
  /\ held \in [Points -> Values]

-----------------------------------------------------------------------------
(* The connection.  A request carries its sender, which no answer tells. *)

Sender(user) == IF user = Control THEN <<Control, job.turn>> ELSE <<user, 0>>

ReadOf(user, point) == [kind |-> "read", point |-> point, by |-> Sender(user)]

WriteOf(point, value) ==
  [kind |-> "write", point |-> point, value |-> value, by |-> Sender(Control)]

Send(request) == link' = [link EXCEPT !.requests = Append(@, request)]

\* io.ReadFull takes the first answer off the connection.
Receive == link' = [link EXCEPT !.answers = Tail(@)]

Answered == link.answers # <<>>

\* ExclusiveConnection once the guard is free: the pooled connection, or a new one.
Acquire(user) ==
  /\ owner = Nobody
  /\ owner' = user
  /\ link' = IF link.state = "none" THEN [NoLink EXCEPT !.state = "up"] ELSE link

\* The dial fails, and the guard is free again before anyone can see it taken.
DialFails == owner = Nobody /\ link.state = "none" /\ UNCHANGED <<owner, link>>

ResetConnection == link' = NoLink

-----------------------------------------------------------------------------
(* ProcessCommand: items, their keys, and what each key is worth. *)

Boot ==
  /\ boot' = IF boot = "none" THEN "stored" ELSE "ready"
  /\ boot # "ready"
  /\ UNCHANGED <<taken, job, report, pause, workers, owner, link, held>>

Start ==
  /\ job.at = "idle"
  /\ taken < MaxCommands
  /\ taken' = taken + 1
  /\ \E c \in Commands :
       IF boot = "none"
         THEN /\ report' = [end |-> "refused", command |-> c, results |-> <<>>]
              /\ UNCHANGED job
         ELSE /\ job' = [NoJob EXCEPT !.at = "item", !.command = c, !.items = c,
                                      !.turn = job.turn]
              /\ report' = NoReport
  /\ UNCHANGED <<boot, pause, workers, owner, link, held>>

Item == Head(job.items)
Key == Head(job.keys)
Attr == Attribute[Key]

Result(device, key, status) ==
  [device |-> device, key |-> key, status |-> status, turn |-> job.turn,
   evidence |-> IF status = "verified" THEN job.evidence ELSE {}]

\* dispatchOpcua: each write and readback has a deadline.
Dispatched(device, keys, results) ==
  /\ Len(results) = Len(keys)
  /\ \A i \in DOMAIN keys :
       /\ results[i].device = device /\ results[i].key = keys[i]
       /\ ~ Attribute[keys[i]].mapped => results[i].status = "failed"
       /\ ~ Attribute[keys[i]].encodes => results[i].status = "failed"
       /\ results[i].status = "verified" => Attribute[keys[i]].readable
       /\ results[i].status = "unverified" => ~ Attribute[keys[i]].readable

Outcomes(device, key) ==
  {Result(device, key, s) : s \in {"failed", "unverified", "verified"}}

NextItem(results) ==
  job' = [job EXCEPT !.at = "item", !.items = Tail(@), !.results = results]

\* One round of ProcessCommand's loop.
TakeItem ==
  /\ job.at = "item"
  /\ job.items # <<>>
  /\ \/ Item.device = Unnamed /\ NextItem(job.results) /\ UNCHANGED report
     \/ /\ Item.device \notin Devices \cup {Unnamed}
        /\ NextItem(Append(job.results, Result(Item.device, "", "failed")))
        /\ UNCHANGED report
     \/ /\ Item.device \in Devices /\ Protocol[Item.device] = "opcua"
        /\ \E results \in [DOMAIN Item.keys -> UNION {Outcomes(Item.device, k) : k \in Keys}] :
             /\ Dispatched(Item.device, Item.keys, results)
             /\ NextItem(job.results \o results)
        /\ UNCHANGED report
     \/ /\ Item.device \in Devices /\ Protocol[Item.device] \in {"modbus", "mqtt"}
        /\ Protocol[Item.device] = "modbus" => boot = "ready"
        /\ job' = [job EXCEPT !.at = "key", !.keys = Item.keys]
        /\ UNCHANGED report
     \/ /\ Item.device \in Devices /\ Protocol[Item.device] = "modbus"
        /\ boot # "ready"        \* "TCP manager not initialised": nothing is published
        /\ report' = [end |-> "aborted", command |-> job.command, results |-> job.results]
        /\ job' = [NoJob EXCEPT !.turn = job.turn]
  /\ UNCHANGED <<boot, taken, pause, workers, owner, link, held>>

\* The key's result is known: its context is cancelled and the next one follows.
KeyDone(status) ==
  job' = [job EXCEPT !.at = "key", !.keys = Tail(@), !.expired = FALSE, !.evidence = {},
                     !.status = "none", !.results = Append(@, Result(Item.device, Key, status))]

Published == Protocol[Item.device] = "mqtt"

\* dispatchModbus looks the command up and encodes it; only then the clock starts.  So does
\* dispatchMqtt, which has no clock; the manager may have no connected client to publish by.
TakeKey ==
  /\ job.at = "key"
  /\ \/ job.keys = <<>> /\ NextItem(job.results)
     \/ /\ job.keys # <<>>
        /\ Published \/ ~ (Attr.mapped /\ Attr.encodes)
        /\ job' = [job EXCEPT !.keys = Tail(@),
                             !.results = Append(@, Result(Item.device, Key, "failed"))]
     \/ /\ job.keys # <<>>
        /\ Attr.mapped /\ Attr.encodes
        /\ job' = [job EXCEPT !.at = IF Published THEN "publish" ELSE "acquire", !.turn = @ + 1]
  /\ UNCHANGED <<boot, taken, report, pause, workers, owner, link, held>>

\* The token that MqttManager.Publish waits for is done.  It is the broker's to answer, or the
\* client's to give up: nobody else ends the wait.
PublishReturns ==
  /\ job.at = "publish"
  /\ \E status \in {"failed", "unverified"} : KeyDone(status)
  /\ UNCHANGED <<boot, taken, report, pause, workers, owner, link, held>>

\* The command's context reaches its deadline.
Expire ==
  /\ job.at \in {"acquire", "pause", "write", "ack", "read", "reading", "wait"}
  /\ ~ job.expired
  /\ job' = [job EXCEPT !.expired = TRUE]
  /\ UNCHANGED <<boot, taken, report, pause, workers, owner, link, held>>

\* acquireControlConnection tries every 100 ms.
AcquireControl ==
  /\ job.at = "acquire"
  /\ Acquire(Control)
  /\ job.expired => link.state # "none"
  /\ job' = [job EXCEPT !.at = "pause"]
  /\ UNCHANGED <<boot, taken, report, pause, workers, held>>

AcquireFails ==
  /\ job.at = "acquire"
  /\ \/ DialFails
     \/ owner # Nobody /\ job.expired /\ UNCHANGED <<owner, link>>
  /\ KeyDone("failed")
  /\ UNCHANGED <<boot, taken, report, pause, workers, held>>

PauseGateway ==
  /\ job.at = "pause"
  /\ pause' = [refCount |-> pause.refCount + 1,
               channel |-> IF pause.refCount = 0 THEN job.turn ELSE pause.channel]
  /\ job' = [job EXCEPT !.at = "write"]
  /\ UNCHANGED <<boot, taken, report, workers, owner, link, held>>

\* executeModbusWrite is over; Resume, release and reset follow, in this order.
Settle(status) == job' = [job EXCEPT !.at = "resume", !.status = status]

WriteFrame ==
  /\ job.at = "write"
  /\ \/ /\ link.state = "up"
        /\ Send(WriteOf(Attr.point, Attr.target))
        /\ job' = [job EXCEPT !.at = "ack"]
     \/ /\ link.state # "up" \/ job.expired
        /\ Settle("failed")
        /\ UNCHANGED link
  /\ UNCHANGED <<boot, taken, report, pause, workers, owner, held>>

\* WaitCommandAck: length and checksum, function code and address.
IsAck(answer, point) == answer.kind = "ack" /\ answer.point = point

WaitCommandAck ==
  /\ job.at = "ack"
  /\ \/ /\ Answered
        /\ Receive
        /\ IF ~ IsAck(Head(link.answers), Attr.point) THEN Settle("failed")
           ELSE IF ~ Attr.readable
             THEN job' = [job EXCEPT !.at = "resume", !.status = "unverified",
                                     !.evidence = {Head(link.answers).by}]
           ELSE job' = [job EXCEPT !.at = "read", !.evidence = {Head(link.answers).by}]
     \/ /\ link.state # "up" \/ job.expired
        /\ Settle("failed")
        /\ UNCHANGED link
  /\ UNCHANGED <<boot, taken, report, pause, workers, owner, held>>

\* verifyControlReadback after a read that confirms nothing: give up once ctx is over.
Retry(j) == IF j.expired THEN [j EXCEPT !.at = "resume", !.status = "failed"]
            ELSE [j EXCEPT !.at = "wait"]

Readback ==
  /\ job.at = "read"
  /\ \/ /\ link.state = "up"
        /\ Send(ReadOf(Control, Attr.point))
        /\ job' = [job EXCEPT !.at = "reading"]
     \/ /\ link.state # "up"
        /\ job' = Retry(job)
        /\ UNCHANGED link
  /\ UNCHANGED <<boot, taken, report, pause, workers, owner, held>>

Verifies(answer) == answer.kind = "value" /\ answer.value = Attr.target

ReadbackReturns ==
  /\ job.at = "reading"
  /\ \/ /\ Answered
        /\ Receive
        /\ job' = IF Verifies(Head(link.answers))
                    THEN [job EXCEPT !.at = "resume", !.status = "verified",
                                     !.evidence = @ \cup {Head(link.answers).by}]
                    ELSE Retry(job)
     \/ /\ link.state # "up" \/ job.expired
        /\ job' = Retry(job)
        /\ UNCHANGED link
  /\ UNCHANGED <<boot, taken, report, pause, workers, owner, held>>

\* The select between ctx.Done and the 100 ms timer; with ctx done the timer has lost.
RetryWait ==
  /\ job.at = "wait"
  /\ job' = IF job.expired THEN [job EXCEPT !.at = "resume", !.status = "failed"]
            ELSE [job EXCEPT !.at = "read"]
  /\ UNCHANGED <<boot, taken, report, pause, workers, owner, link, held>>

\* Mutant: the last one to resume leaves the channel open.
KeepsChannel == [refCount |-> pause.refCount - 1, channel |-> pause.channel]

Resumed ==
  IF pause.refCount = 0 THEN pause
  ELSE [refCount |-> pause.refCount - 1,
        channel |-> IF pause.refCount = 1 THEN 0 ELSE pause.channel]

ResumeGateway ==
  /\ job.at = "resume"
  /\ pause' = Resumed
  /\ job' = [job EXCEPT !.at = "release"]
  /\ UNCHANGED <<boot, taken, report, workers, owner, link, held>>

\* Mutant: the connection of a failed command stays in the pool.
NeverDirty == FALSE

MustReset == job.status = "failed"

ReleaseControl ==
  /\ job.at = "release"
  /\ owner' = Nobody
  /\ IF MustReset THEN job' = [job EXCEPT !.at = "reset"] ELSE KeyDone(job.status)
  /\ UNCHANGED <<boot, taken, report, pause, workers, link, held>>

ResetAfterRelease ==
  /\ job.at = "reset"
  /\ ResetConnection
  /\ KeyDone(job.status)
  /\ UNCHANGED <<boot, taken, report, pause, workers, owner, held>>

-----------------------------------------------------------------------------
(* The report. *)

Merge(a, b) ==
  IF "failed" \in {a, b} THEN "failed"
  ELSE IF "unverified" \in {a, b} THEN "unverified" ELSE "verified"

\* Mutant: an attribute that was only dispatched does not lower the outcome.
MergeFailures(results) ==
  IF \E i \in DOMAIN results : results[i].status = "failed" THEN "failed" ELSE "verified"

\* The status of buildCommandResultEnvelope, merged over devices and attributes.
Overall(results) == FoldLeft(LAMBDA s, r : Merge(s, r.status), "verified", results)

\* publishCommandResults: nothing is sent for no results, and the publish may fail.
Finish ==
  /\ job.at = "item"
  /\ job.items = <<>>
  /\ \E end \in IF job.results = <<>> THEN {"silent"} ELSE {"published", "lost"} :
       report' = [end |-> end, command |-> job.command, results |-> job.results]
  /\ job' = [NoJob EXCEPT !.turn = job.turn]
  /\ UNCHANGED <<boot, taken, pause, workers, owner, link, held>>

CommandStep ==
  TakeItem \/ TakeKey \/ AcquireControl \/ AcquireFails \/ PauseGateway \/ WriteFrame
  \/ WaitCommandAck \/ Readback \/ ReadbackReturns \/ RetryWait \/ ResumeGateway
  \/ ReleaseControl \/ ResetAfterRelease \/ Finish

-----------------------------------------------------------------------------
(* The device workers. *)

Goto(w, place) == at' = [at EXCEPT ![w] = place]

\* The ticker fires; waitGatewayResume lets the worker through or has it wait.
Tick(w) ==
  /\ at[w] \in {"idle", "check"}
  /\ IF pause.refCount = 0
       THEN /\ at' = [at EXCEPT ![w] = "acquire"]
            /\ next' = [next EXCEPT ![w] = 1]
            /\ UNCHANGED waits
       ELSE /\ Goto(w, "paused")
            /\ waits' = [waits EXCEPT ![w] = pause.channel]
            /\ UNCHANGED next
  /\ UNCHANGED <<boot, taken, job, report, pause, cancelled, owner, link, held>>

\* The channel it waits on has been closed: it looks again.
Wake(w) ==
  /\ at[w] = "paused"
  /\ waits[w] # pause.channel
  /\ Goto(w, "check")
  /\ waits' = [waits EXCEPT ![w] = 0]
  /\ UNCHANGED <<boot, taken, job, report, pause, next, cancelled, owner, link, held>>

\* run ends where it looks at its context, between rounds and while it is paused.
Leave(w) ==
  /\ cancelled[w]
  /\ at[w] \in {"idle", "paused"}
  /\ Goto(w, "gone")
  /\ waits' = [waits EXCEPT ![w] = 0]
  /\ UNCHANGED <<boot, taken, job, report, pause, next, cancelled, owner, link, held>>

\* stop() cancels the worker's context and waits for it to be gone.
Stop(w) ==
  /\ at[w] # "gone"
  /\ ~ cancelled[w]
  /\ cancelled' = [cancelled EXCEPT ![w] = TRUE]
  /\ UNCHANGED <<boot, taken, job, report, pause, at, next, waits, owner, link, held>>

\* collectOnce goes on with the next batch or parameter, whatever became of this one.
NextRead(w) ==
  IF next[w] < Len(Reads[w])
    THEN Goto(w, "acquire") /\ next' = [next EXCEPT ![w] = @ + 1]
    ELSE Goto(w, "idle") /\ next' = [next EXCEPT ![w] = 1]

\* acquireExclusiveConnection tries every 100 ms until the context is cancelled.
AcquireRead(w) ==
  /\ at[w] = "acquire"
  /\ Acquire(w)
  /\ Goto(w, "send")
  /\ UNCHANGED <<boot, taken, job, report, pause, next, waits, cancelled, held>>

ReadRefused(w) ==
  /\ at[w] = "acquire"
  /\ \/ DialFails
     \/ owner # Nobody /\ cancelled[w] /\ UNCHANGED <<owner, link>>
  /\ NextRead(w)
  /\ UNCHANGED <<boot, taken, job, report, pause, waits, cancelled, held>>

SendRead(w) ==
  /\ at[w] = "send"
  /\ IF link.state = "up"
       THEN /\ Send(ReadOf(w, Reads[w][next[w]]))
            /\ Goto(w, "await")
       ELSE Goto(w, "reset") /\ UNCHANGED link
  /\ UNCHANGED <<boot, taken, job, report, pause, next, waits, cancelled, owner, held>>

\* Mutant: the connection of a failed read goes back to the pool as it is.
ForgetsReset == "release"

AfterFault == "reset"

\* A value of the expected length is recorded; anything else, or the timeout, is a fault.
ReadReturns(w) ==
  /\ at[w] = "await"
  /\ \/ /\ Answered
        /\ Receive
        /\ Goto(w, IF Head(link.answers).kind = "value" THEN "release" ELSE AfterFault)
     \/ /\ Goto(w, AfterFault)
        /\ UNCHANGED link
  /\ UNCHANGED <<boot, taken, job, report, pause, next, waits, cancelled, owner, held>>

ResetRead(w) ==
  /\ at[w] = "reset"
  /\ ResetConnection
  /\ Goto(w, "release")
  /\ UNCHANGED <<boot, taken, job, report, pause, next, waits, cancelled, owner, held>>

ReleaseRead(w) ==
  /\ at[w] = "release"
  /\ owner' = Nobody
  /\ NextRead(w)
  /\ UNCHANGED <<boot, taken, job, report, pause, waits, cancelled, link, held>>

WorkerStep(w) ==
  Tick(w) \/ Wake(w) \/ Leave(w) \/ AcquireRead(w) \/ ReadRefused(w) \/ SendRead(w)
  \/ ReadReturns(w) \/ ResetRead(w) \/ ReleaseRead(w)

-----------------------------------------------------------------------------
(* The gateway and its device: requests are served in order, or lost. *)

AnswerTo(request) ==
  IF request.kind = "write"
    THEN [kind |-> "ack", point |-> request.point, by |-> request.by]
    ELSE [kind |-> "value", value |-> held[request.point], by |-> request.by]

Garbled(request) == [kind |-> "garbled", by |-> request.by]

Serve ==
  /\ link.state = "up"
  /\ link.requests # <<>>
  /\ LET r == Head(link.requests) IN
       /\ \E replies \in {<<AnswerTo(r)>>, <<Garbled(r)>>, <<>>} :
            link' = [link EXCEPT !.requests = Tail(@), !.answers = @ \o replies]
       /\ held' = IF r.kind = "write" THEN [held EXCEPT ![r.point] = r.value] ELSE held
  /\ UNCHANGED <<boot, taken, job, report, pause, workers, owner>>

\* A point changes by itself, or under another master.
Drift ==
  /\ \E p \in Points, v \in Values : held' = [held EXCEPT ![p] = v]
  /\ UNCHANGED <<boot, taken, job, report, pause, workers, owner, link>>

\* The peer closes; what it had sent can still be read.
ConnectionLost ==
  /\ link.state = "up"
  /\ link' = [link EXCEPT !.state = "broken", !.requests = <<>>]
  /\ UNCHANGED <<boot, taken, job, report, pause, workers, owner, held>>

Next ==
  \/ Boot \/ Start \/ CommandStep \/ PublishReturns \/ Expire
  \/ \E w \in Workers : WorkerStep(w) \/ Stop(w)
  \/ Serve \/ Drift \/ ConnectionLost

Spec == Init /\ [][Next]_vars

\* Goroutines run on and timers fire.  A worker whose ticker and cancelled context are
\* both ready picks one at random, so it cannot go on ticking for ever.  The gateway
\* owes nothing: it may serve no request at all.  Nor does a broker: PublishReturns has no
\* fairness.
FairSpec ==
  /\ Spec
  /\ WF_vars(CommandStep)
  /\ WF_vars(Expire)
  /\ \A w \in Workers : WF_vars(WorkerStep(w)) /\ SF_vars(Leave(w))

-----------------------------------------------------------------------------
(* Properties. *)

\* What a report on a command has to speak of: the unknown device once, every key of the
\* others, in the order of the command.
Expected(command) ==
  FlattenSeq([i \in DOMAIN command |->
    IF command[i].device = Unnamed THEN <<>>
    ELSE IF command[i].device \notin Devices THEN <<[device |-> command[i].device, key |-> ""]>>
    ELSE [j \in DOMAIN command[i].keys |->
            [device |-> command[i].device, key |-> command[i].keys[j]]]])

OwnEvidence(r) == r.evidence = {<<Control, r.turn>>}

\* A published report lists every attribute of its command once, in the order they were
\* dispatched (the envelope groups them by device, control.go:472-482), it calls
\* the command a success only if each of them was verified, and a Modbus attribute is
\* verified only by an acknowledgement and a value the gateway sent in answer to this
\* very write and its readbacks, never by what an earlier exchange left behind
\* (control.go:49-98 and :481-545, verification.go:46, modbus.go:149-169).
HonestReport ==
  report.end = "published" =>
    LET rs == report.results IN
      /\ [i \in DOMAIN rs |-> [device |-> rs[i].device, key |-> rs[i].key]]
           = Expected(report.command)
      /\ Overall(rs) = "verified" => \A i \in DOMAIN rs : rs[i].status = "verified"
      /\ \A i \in DOMAIN rs :
           rs[i].status = "verified" /\ Protocol[rs[i].device] = "modbus" => OwnEvidence(rs[i])

Traffic == ToSet(link.requests) \cup ToSet(link.answers)

\* Whoever holds the gateway finds on its connection only traffic of its own exchange,
\* except between a failed command's release and its reset (control.go:316-318, where
\* late_reset shows what that leads to): every other failure closes the connection
\* before the guard is free (modbus.go:63-71 and :229, :252, :276).
CleanHandover ==
  job.at # "reset" => \A m \in Traffic : owner # Nobody /\ m.by = Sender(owner)

\* A command comes to its end however the gateway behaves and the workers compete for
\* it, unless a publish of it never returns; a paused worker is let go, and a stopped worker
\* is gone, whether it was paused, waiting for the guard or reading (control.go:212 and
\* :326-341, verification.go:44-66, gateway_pause.go:71-93, collector.go:232-252).
EveryoneMovesOn ==
  /\ (job.at # "idle") ~> (job.at = "idle" \/ [](job.at = "publish"))
  /\ \A w \in Workers :
       /\ (at[w] = "paused") ~> (at[w] # "paused")
       /\ cancelled[w] ~> (at[w] = "gone")
=============================================================================
