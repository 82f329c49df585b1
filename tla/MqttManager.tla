----------------------------- MODULE MqttManager -----------------------------
(***************************************************************************)
(* The shared MQTT connection: collector workers register subscriptions on *)
(* it, one goroutine reconciles them with the broker, control commands     *)
(* publish over it, and a reload hands it over to other options.           *)
(*                                                                         *)
(* Source: src/internal/conn/mqtt_manager.go and the worker of             *)
(* src/internal/collector/mqtt.go.  All of it is about one client key      *)
(* (broker and client ID): entries of different keys share nothing.  A     *)
(* worker has one topic; QoS is 1 or 2, and 0 stands for "not subscribed". *)
(* Payloads, routing and parsing are left out.  Paho and the broker are    *)
(* external: connections are lost, acknowledgements are lost or late, a    *)
(* subscription is refused, as often as the plan of the run allows.        *)
(***************************************************************************)
EXTENDS Integers, Sequences, FiniteSets, SequencesExt, FiniteSetsExt

CONSTANTS
  Workers,      \* one per device on this connection
  Topics,
  NoTopic,      \* of a device that a configuration does not have
  Qos,          \* what each worker subscribes with
  Plans         \* what a run goes through: two configurations, before and after a
                \*   reload, each with its options and the topic of every device,
                \*   and the bounds publishes, troubles and closes

ASSUME MqttAssumption ==
  /\ IsFiniteSet(Workers) /\ IsFiniteSet(Topics) /\ NoTopic \notin Topics
  /\ Qos \in [Workers -> 1..2]
  /\ \A p \in Plans :
       /\ p.publishes \in Nat /\ p.troubles \in Nat /\ p.closes \in BOOLEAN
       /\ \A v \in 1..2 : /\ p.config[v].opts.clean \in BOOLEAN
                          /\ p.config[v].topic \in [Workers -> Topics \cup {NoTopic}]

VARIABLES
  plan, version,  \* the configuration in force is plan.config[version]
  worker,         \* at: "off", "watching" (in Watch, or waiting to retry it), "owning",
                  \*   "stopping", or "refused" by a closed manager; v: its version
  entry,          \* the MqttClient of the key; gen is its generation
  run,            \* its goroutine: at, restart, and reconcile's g and todo
  op,             \* the subscription change in flight: where its Paho call is, what
                  \*   became of its token, whether it waits on the replaced client
  client,         \* entry.client: its link, OnConnect callbacks still to run,
                  \*   and whether one of them ran
  old,            \* the client a restart has just replaced
  wire, session,  \* packets the broker has not read; its subscriptions
  leaked,         \* history: topics whose final Unsubscribe was not confirmed
  publisher,      \* of control commands: at, and how many publishes are left
  closed,
  trouble

vars == <<plan, version, worker, entry, run, op, client, old, wire, session, leaked,
          publisher, closed, trouble>>

config == <<plan, version>>
broker == <<wire, session, leaked>>
paho   == <<client, old>>

Nothing == [t \in Topics |-> 0]

NoEntry ==
  [state |-> "none", opts |-> plan.config[1].opts, owners |-> [t \in Topics |-> {}], known |-> {},
   applied |-> Nothing, gen |-> 0, publishes |-> 0, restarting |-> FALSE]

NoOp == [kind |-> "none", topic |-> NoTopic, qos |-> 0, method |-> "idle",
         token |-> "pending", old |-> FALSE]

Closed == [link |-> "closed", greetings |-> 0, greeted |-> FALSE]

\* makeClient
NewClient == [Closed EXCEPT !.link = "new"]

NewRun == [at |-> "connect", restart |-> FALSE, g |-> 0, todo |-> {}]

Init ==
  /\ plan \in Plans /\ version = 1
  /\ worker = [w \in Workers |->
       [at |-> IF plan.config[1].topic[w] = NoTopic THEN "off" ELSE "watching", v |-> 1]]
  /\ entry = NoEntry
  /\ run = [NewRun EXCEPT !.at = "gone"] /\ op = NoOp
  /\ client = Closed /\ old = Closed
  /\ wire = <<>> /\ session = Nothing /\ leaked = {}
  /\ publisher = [at |-> "idle", left |-> plan.publishes]
  /\ closed = FALSE /\ trouble = 0

-----------------------------------------------------------------------------
(* Entries and owners. *)

TopicOf(w) == plan.config[worker[w].v].topic[w]

OptsOf(w) == plan.config[worker[w].v].opts

Live == entry.state = "live"

Cancelled == entry.state = "cancelled"

Clean == entry.opts.clean

Unowned(e) == \A t \in Topics : e.owners[t] = {}

\* Called under the lock.  A publish in flight pins the connection.
ReleaseUnused(e) ==
  IF e.state = "live" /\ e.publishes = 0 /\ Unowned(e)
  THEN [e EXCEPT !.state = "cancelled"]
  ELSE e

\* What reconcile asks the broker for.
Wanted(t) == IF entry.owners[t] = {} THEN 0 ELSE Max({Qos[w] : w \in entry.owners[t]})

WithOwner(e, w) ==
  [e EXCEPT !.owners[TopicOf(w)] = @ \cup {w}, !.known = @ \cup {TopicOf(w)}]

Trouble == trouble < plan.troubles /\ trouble' = trouble + 1

-----------------------------------------------------------------------------
(* The workers: Watch and release, and the reload that restarts them.  Watch on a
   cancelled entry waits until it is gone; on one with other options it fails, and
   subscribeAfterConfigHandoff tries again. *)

Shares(w) == Live /\ entry.opts = OptsOf(w)

Watch(w) ==
  /\ worker[w].at = "watching"
  /\ ~closed
  /\ \/ /\ entry.state = "none"
        /\ entry' = WithOwner([NoEntry EXCEPT !.state = "live", !.opts = OptsOf(w)], w)
        /\ run' = NewRun /\ client' = NewClient
     \/ /\ Shares(w)
        /\ entry' = WithOwner(entry, w)
        /\ UNCHANGED <<run, client>>
  /\ worker' = [worker EXCEPT ![w].at = "owning"]
  /\ UNCHANGED <<config, op, old, broker, publisher, closed, trouble>>

WatchRefused(w) ==
  /\ worker[w].at = "watching"
  /\ closed
  /\ worker' = [worker EXCEPT ![w].at = "refused"]
  /\ UNCHANGED <<config, entry, run, op, paho, broker, publisher, closed, trouble>>

\* A reload: the collector manager stops and starts one worker after the other.
Reload ==
  /\ version = 1
  /\ version' = 2
  /\ UNCHANGED <<plan, worker, entry, run, op, paho, broker, publisher, closed, trouble>>

Stopping == {w \in Workers : worker[w].at = "stopping"}

StopWorker(w) ==
  /\ worker[w].v < version
  /\ Stopping = {}
  /\ worker' = [worker EXCEPT ![w].at = "stopping"]
  /\ UNCHANGED <<config, entry, run, op, paho, broker, publisher, closed, trouble>>

\* The worker's deferred releases, its done channel, and its replacement.
Released(w) ==
  /\ worker[w].at = "stopping"
  /\ entry' = ReleaseUnused([entry EXCEPT !.owners = [t \in Topics |-> @[t] \ {w}]])
  /\ worker' = [worker EXCEPT ![w] =
       [at |-> IF plan.config[version].topic[w] = NoTopic THEN "off" ELSE "watching",
        v |-> version]]
  /\ UNCHANGED <<config, run, op, paho, broker, publisher, closed, trouble>>

WorkerStep(w) == Watch(w) \/ WatchRefused(w) \/ StopWorker(w) \/ Released(w)

-----------------------------------------------------------------------------
(* Publish: it checks the key, not the options. *)

Connected == client.link \in {"connecting", "up", "down"}

\* Mutant: a restart is not looked at.
AdmitsWhileRestarting == Live /\ entry.gen # 0 /\ Connected

Admits == Live /\ entry.gen # 0 /\ ~entry.restarting /\ Connected

StartPublish ==
  /\ publisher.at = "idle" /\ publisher.left > 0
  /\ Admits
  /\ entry' = [entry EXCEPT !.publishes = 1]
  /\ publisher' = [at |-> "waiting", left |-> publisher.left - 1]
  /\ UNCHANGED <<config, worker, run, op, paho, broker, closed, trouble>>

\* Mutant: the last owner may have left during the publish.
KeepsUnused(e) == e

AfterPublish(e) == ReleaseUnused(e)

\* The token completes, with or without an error.
EndPublish ==
  /\ publisher.at = "waiting"
  /\ entry' = AfterPublish([entry EXCEPT !.publishes = 0])
  /\ publisher' = [publisher EXCEPT !.at = "idle"]
  /\ UNCHANGED <<config, worker, run, op, paho, broker, closed, trouble>>

\* Close: nobody calls it in production; it ends the model of a run.
Close ==
  /\ ~closed /\ plan.closes
  /\ closed' = TRUE
  /\ entry' = [entry EXCEPT !.state = IF @ = "none" THEN @ ELSE "cancelled",
                            !.owners = [t \in Topics |-> {}]]
  /\ UNCHANGED <<config, worker, run, op, paho, broker, publisher, trouble>>

-----------------------------------------------------------------------------
(* run: connect, the loop, and the replacement of a client.  Its ticker wakes it
   every second: the loop needs no signal. *)

Goto(p) == run' = [run EXCEPT !.at = p]

Connect ==
  /\ run.at = "connect"
  /\ IF Cancelled
     THEN Goto("exit") /\ UNCHANGED client
     ELSE Goto("connecting") /\ client' = [client EXCEPT !.link = "connecting"]
  /\ UNCHANGED <<config, worker, entry, op, old, broker, publisher, closed, trouble>>

ConnectReturns ==
  /\ run.at = "connecting"
  /\ \/ Cancelled /\ Goto("exit")
     \/ ~Cancelled /\ client.link \in {"up", "down"}
        /\ run' = [run EXCEPT !.at = "loop", !.restart = FALSE]
  /\ UNCHANGED <<config, worker, entry, op, paho, broker, publisher, closed, trouble>>

SeeCancelled ==
  /\ run.at \in {"loop", "reconcile"}
  /\ Cancelled
  /\ Goto("exit")
  /\ UNCHANGED <<config, worker, entry, op, paho, broker, publisher, closed, trouble>>

\* Mutant: the publish in flight is not looked at.
RestartsAtOnce == TRUE

MayRestart == entry.publishes = 0

\* The new identity is installed first, under the lock.
Replace ==
  /\ run.at = "loop" /\ ~Cancelled
  /\ run.restart
  /\ MayRestart
  /\ entry' = [entry EXCEPT !.restarting = TRUE, !.applied = Nothing]
  /\ old' = client /\ client' = NewClient
  /\ op' = [op EXCEPT !.old = TRUE]
  /\ Goto("discard")
  /\ UNCHANGED <<config, worker, broker, publisher, closed, trouble>>

Perform(s, p) == [t \in Topics |-> IF t \in p.topics THEN p.qos ELSE s[t]]

\* The end of a connection: a clean session ends with it; of what a persistent one
\* was still sent, the broker may have read any part.
Hangup ==
  /\ wire' = <<>>
  /\ IF Clean
     THEN session' = Nothing
     ELSE \E n \in 0..Len(wire) : session' = FoldLeft(Perform, session, SubSeq(wire, 1, n))

\* oldClient.Disconnect; a call still waiting in it fails.
Discard ==
  /\ run.at = "discard"
  /\ old' = [old EXCEPT !.link = "closed"]
  /\ op' = NoOp
  /\ Hangup
  /\ Goto("connect")
  /\ UNCHANGED <<config, worker, entry, client, leaked, publisher, closed, trouble>>

-----------------------------------------------------------------------------
(* reconcile and waitSubscription. *)

Reconcile ==
  /\ run.at = "loop" /\ ~Cancelled
  /\ ~run.restart /\ client.link = "up" /\ entry.gen # 0
  /\ run' = [run EXCEPT !.at = "reconcile", !.g = entry.gen, !.todo = entry.known]
  /\ UNCHANGED <<config, worker, entry, op, paho, broker, publisher, closed, trouble>>

ReconcileEnds ==
  /\ run.at = "reconcile" /\ ~Cancelled
  /\ run.todo = {}
  /\ Goto("loop")
  /\ UNCHANGED <<config, worker, entry, op, paho, broker, publisher, closed, trouble>>

Unchanged(t) == Wanted(t) # 0 /\ entry.applied[t] = Wanted(t)

Change(t) ==
  /\ run.at = "reconcile" /\ ~Cancelled
  /\ t \in run.todo
  /\ IF Unchanged(t)
     THEN run' = [run EXCEPT !.todo = @ \ {t}] /\ UNCHANGED op
     ELSE /\ run' = [run EXCEPT !.at = "operate", !.todo = @ \ {t}]
          /\ op' = [NoOp EXCEPT !.kind = IF Wanted(t) = 0 THEN "unsubscribe" ELSE "subscribe",
                                !.topic = t, !.qos = Wanted(t), !.method = "calling"]
  /\ UNCHANGED <<config, worker, entry, paho, broker, publisher, closed, trouble>>

\* The runner turns its back on the operation: nobody reads its token any more, but
\* its Paho call may be under way still.
Abandon ==
  /\ wire' = [i \in DOMAIN wire |-> [wire[i] EXCEPT !.to = "nobody"]]
  /\ op' = IF op.method = "calling" THEN [op EXCEPT !.kind = "abandoned"] ELSE NoOp

OperateCancelled ==
  /\ run.at = "operate"
  /\ Cancelled
  /\ Abandon
  /\ Goto("exit")
  /\ UNCHANGED <<config, worker, entry, paho, session, leaked, publisher, closed, trouble>>

\* No acknowledgement is on its way.
Unanswerable == op.method = "returned" /\ \A i \in DOMAIN wire : wire[i].to # "op"

\* operationTimeout: DeadlineExceeded asks for a new client.
Expire ==
  /\ run.at = "operate" /\ ~Cancelled
  /\ op.token = "pending"
  /\ IF Unanswerable THEN UNCHANGED trouble ELSE Trouble
  /\ Abandon
  /\ run' = [run EXCEPT !.at = "loop", !.restart = TRUE]
  /\ UNCHANGED <<config, worker, entry, paho, session, leaked, publisher, closed>>

\* Woken by OnConnect: "connection changed during subscription".
ConnectionChanged ==
  /\ run.at = "operate" /\ ~Cancelled
  /\ op.method = "returned" /\ entry.gen # run.g
  /\ Abandon
  /\ Goto("loop")
  /\ UNCHANGED <<config, worker, entry, paho, session, leaked, publisher, closed, trouble>>

OperationFails ==
  /\ run.at = "operate" /\ ~Cancelled
  /\ op.token \in {"failed", "rejected"}
  /\ op' = NoOp
  /\ Goto("loop")
  /\ UNCHANGED <<config, worker, entry, paho, broker, publisher, closed, trouble>>

Acknowledged ==
  /\ run.at = "operate" /\ ~Cancelled
  /\ op.token = "acked"
  /\ Goto("apply")
  /\ UNCHANGED <<config, worker, entry, op, paho, broker, publisher, closed, trouble>>

\* Mutant: an answer of the connection before is taken for one of this connection.
AnyGeneration == TRUE

SameGeneration == entry.gen = run.g

\* Mutant: an owner that came back during the Unsubscribe is overlooked.
ForgetsAlways(t) == TRUE

Forgets(t) == entry.owners[t] = {}

\* The lock is taken again after the token.
Apply ==
  /\ run.at = "apply"
  /\ entry' =
       IF ~SameGeneration THEN entry
       ELSE IF op.kind = "subscribe" THEN [entry EXCEPT !.applied[op.topic] = op.qos]
       ELSE [entry EXCEPT !.applied[op.topic] = 0,
                          !.known = IF Forgets(op.topic) THEN @ \ {op.topic} ELSE @]
  /\ leaked' = IF op.kind = "unsubscribe" THEN leaked \ {op.topic} ELSE leaked
  /\ op' = NoOp
  /\ Goto(IF SameGeneration THEN "reconcile" ELSE "loop")
  /\ UNCHANGED <<config, worker, paho, wire, session, publisher, closed, trouble>>

-----------------------------------------------------------------------------
(* The end of run: cleanupSubscriptions, Disconnect and the removal of the entry. *)

\* Mutant: the final Unsubscribe may overtake a Subscribe that Paho has not sent.
CallIgnored == TRUE

CallOver == op.method # "calling"

Final ==
  /\ run.at = "exit"
  /\ client.link = "up" /\ entry.known # {}
  /\ CallOver
  /\ wire' = Append(wire, [kind |-> "unsubscribe", topics |-> entry.known, qos |-> 0,
                           to |-> "final"])
  /\ op' = [op EXCEPT !.token = "pending"]
  /\ Goto("final")
  /\ UNCHANGED <<config, worker, entry, paho, session, leaked, publisher, closed, trouble>>

\* No connection, no filter, or cleanupTimeout before the call is over.
SkipFinal ==
  /\ run.at = "exit"
  /\ client.link # "up" \/ entry.known = {} \/ ~CallOver
  /\ Goto("disconnect")
  /\ UNCHANGED <<config, worker, entry, op, paho, broker, publisher, closed, trouble>>

\* The answer, an error, or cleanupTimeout.
FinalEnds ==
  /\ run.at = "final"
  /\ Goto("disconnect")
  /\ UNCHANGED <<config, worker, entry, op, paho, broker, publisher, closed, trouble>>

\* Mutant: the entry stays in the manager's map.
StaysListed == entry

Delisted == NoEntry

Disconnect ==
  /\ run.at = "disconnect"
  /\ leaked' = IF Clean THEN {}
               ELSE IF op.token = "final" THEN leaked \ entry.known
               ELSE leaked \cup entry.known
  /\ Hangup
  /\ entry' = Delisted /\ client' = Closed /\ old' = Closed /\ op' = NoOp
  /\ Goto("gone")
  /\ UNCHANGED <<config, worker, publisher, closed, trouble>>

RunStep ==
  \/ Connect \/ ConnectReturns \/ SeeCancelled \/ Replace \/ Discard
  \/ Reconcile \/ ReconcileEnds \/ \E t \in Topics : Change(t)
  \/ OperateCancelled \/ Expire \/ ConnectionChanged \/ OperationFails
  \/ Acknowledged \/ Apply
  \/ Final \/ SkipFinal \/ FinalEnds \/ Disconnect

-----------------------------------------------------------------------------
(* Paho and the broker. *)

\* The goroutine of mqttToken: Paho's Subscribe or Unsubscribe sends, or fails.
CallReturns ==
  /\ op.method = "calling"
  /\ LET link == IF op.old THEN old.link ELSE client.link IN
     IF link = "up"
     THEN /\ wire' = Append(wire,
               [kind |-> IF op.qos = 0 THEN "unsubscribe" ELSE "subscribe",
                topics |-> {op.topic}, qos |-> op.qos,
                to |-> IF op.kind = "abandoned" THEN "nobody" ELSE "op"])
          /\ op' = [op EXCEPT !.method = "returned"]
     ELSE /\ op' = [op EXCEPT !.method = "returned", !.token = "failed"]
          /\ UNCHANGED wire
  /\ UNCHANGED <<config, worker, entry, run, paho, session, leaked, publisher, closed, trouble>>

\* The broker reads a packet; the token it completes is read only by its waiter.
Serve ==
  /\ wire # <<>>
  /\ wire' = Tail(wire)
  /\ LET p == Head(wire) IN
     \/ /\ session' = Perform(session, p)
        /\ op' = CASE p.to = "op" -> [op EXCEPT !.token = "acked"]
                   [] p.to = "final" -> [op EXCEPT !.token = "final"]
                   [] OTHER -> op
        /\ UNCHANGED trouble
     \/ \* The acknowledgement never comes.
        /\ p.to = "op" /\ Trouble
        /\ session' = Perform(session, p)
        /\ UNCHANGED op
     \/ \* 0x80
        /\ p.to = "op" /\ p.kind = "subscribe" /\ Trouble
        /\ op' = [op EXCEPT !.token = "rejected"]
        /\ UNCHANGED session
  /\ UNCHANGED <<config, worker, entry, run, paho, leaked, publisher, closed>>

LinkUp ==
  /\ client.link \in {"connecting", "down"}
  /\ client' = [client EXCEPT !.link = "up", !.greetings = @ + 1]
  /\ IF Clean THEN session' = Nothing /\ leaked' = {} ELSE UNCHANGED <<session, leaked>>
  /\ UNCHANGED <<config, worker, entry, run, op, old, wire, publisher, closed, trouble>>

\* Paho reconnects by itself; a token of the lost connection fails or stays pending.
LinkLost ==
  /\ client.link = "up"
  /\ Trouble
  /\ client' = [client EXCEPT !.link = "down"]
  /\ Hangup
  /\ \/ UNCHANGED op
     \/ /\ op.method = "returned" /\ op.token = "pending"
        /\ op' = [op EXCEPT !.token = "failed"]
  /\ UNCHANGED <<config, worker, entry, run, old, leaked, publisher, closed>>

\* Mutant: what the broker granted before the reconnect is believed still.
KeepsApplied(e) == [e EXCEPT !.restarting = FALSE, !.gen = @ + 1]

Greeted(e) == [e EXCEPT !.restarting = FALSE, !.gen = @ + 1, !.applied = Nothing]

\* OnConnect runs in a goroutine of its own, at any time after the connection is up.
OnConnect ==
  /\ client.greetings > 0
  /\ client' = [client EXCEPT !.greetings = @ - 1, !.greeted = TRUE]
  /\ entry' = IF Live THEN Greeted(entry) ELSE entry
  /\ UNCHANGED <<config, worker, run, op, old, broker, publisher, closed, trouble>>

\* Mutant: the callback of any client of the entry is heard.
HeardFromOld == Greeted(entry)

FromOld == entry

\* A late one of the replaced client: entry.client is another by now.
OldOnConnect ==
  /\ old.greetings > 0
  /\ old' = [old EXCEPT !.greetings = @ - 1]
  /\ entry' = IF Live THEN FromOld ELSE entry
  /\ UNCHANGED <<config, worker, run, op, client, broker, publisher, closed, trouble>>

Next ==
  \/ \E w \in Workers : WorkerStep(w)
  \/ Reload
  \/ StartPublish \/ EndPublish
  \/ Close
  \/ RunStep
  \/ CallReturns \/ Serve
  \/ LinkUp \/ LinkLost
  \/ OnConnect \/ OldOnConnect

Spec == Init /\ [][Next]_vars

\* Goroutines run, timers fire, the collector manager restarts every worker of a
\* reload, Paho's calls return and its reconnects succeed in the end.
\* Only publishes, or troubles, without end could put off a new client for ever.
FairSpec ==
  /\ Spec
  /\ \A w \in Workers : WF_vars(WorkerStep(w))
  /\ WF_vars(RunStep)
  /\ WF_vars(EndPublish)
  /\ WF_vars(CallReturns) /\ WF_vars(Serve)
  /\ WF_vars(LinkUp)
  /\ WF_vars(OnConnect)

-----------------------------------------------------------------------------
(* Properties. *)

TypeOK ==
  /\ version \in 1..2
  /\ worker \in [Workers -> [at : {"off", "watching", "owning", "stopping", "refused"},
                             v : 1..2]]
  /\ entry.state \in {"none", "live", "cancelled"}
  /\ entry.owners \in [Topics -> SUBSET Workers] /\ entry.known \subseteq Topics
  /\ entry.applied \in [Topics -> 0..2] /\ session \in [Topics -> 0..2]
  /\ entry.gen \in Nat /\ entry.publishes \in 0..1 /\ entry.restarting \in BOOLEAN
  /\ run.at \in {"connect", "connecting", "loop", "discard", "reconcile", "operate", "apply",
                 "exit", "final", "disconnect", "gone"}
  /\ (run.at = "gone") = (entry.state = "none")
  /\ run.at = "apply" => op.kind \in {"subscribe", "unsubscribe"}
  /\ run.todo \subseteq Topics
  /\ op.method \in {"idle", "calling", "returned"}
  /\ op.token \in {"pending", "acked", "rejected", "failed", "final"}
  /\ client.link \in {"new", "connecting", "up", "down", "closed"}
  /\ leaked \subseteq Topics
  /\ closed \in BOOLEAN /\ trouble \in 0..plan.troubles

\* What the manager believes to be subscribed is subscribed, at that QoS, whenever the
\* connection is up, its OnConnect callbacks have run and no change of that topic is
\* under way: reconcile sends nothing for it any more (mqtt_manager.go:386-392,
\* 418-428), so a wrong belief would silence the topic for good.
AppliedIsSubscribed ==
  \A t \in Topics :
    \/ entry.applied[t] \in {0, session[t]}
    \/ ~Live \/ client.link # "up" \/ client.greetings > 0 \/ run.restart
    \/ op.topic = t
    \/ \E i \in DOMAIN wire : t \in wire[i].topics

\* A broker filter is never forgotten: one that a persistent session holds is known to
\* the entry, which will remove it, or the entry's final Unsubscribe was not confirmed
\* (:324-361, 418-424).  That is logged as incomplete where one was sent; where the last
\* owner leaves offline none is, and nothing logged (:325-327).
NoForgottenFilter ==
  \A t \in Topics : session[t] # 0 => t \in entry.known \cup leaked

\* A publish waits on a client whose OnConnect has run, and that client is neither
\* replaced nor disconnected under it, whatever the subscriptions go through and
\* whichever owners leave; only Close does that (:253-270, 476-505).
PublishPinsClient ==
  publisher.at = "waiting" /\ ~closed => client.greeted /\ client.link # "closed"

Served(w) ==
  LET t == plan.config[version].topic[w] IN
  \/ t = NoTopic
  \/ /\ worker[w] = [at |-> "owning", v |-> version]
     /\ client.link = "up"
     /\ w \in entry.owners[t] /\ session[t] = Wanted(t)

\* In the end every device of the configuration in force is subscribed: through the
\* handover to other options that begins while workers and a publish still hold the
\* old connection, lost connections, refused, lost and late answers and the
\* replacement of the client (:226-289, collector/mqtt.go:164-186).
OwnersServed == <>[](closed \/ \A w \in Workers : Served(w))
=============================================================================
