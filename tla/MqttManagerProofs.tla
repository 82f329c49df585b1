-------------------------- MODULE MqttManagerProofs --------------------------
(***************************************************************************)
(* The shared MQTT connection for any workers, topics and plans, hence any *)
(* number of publishes and of lost connections and acknowledgements: its   *)
(* types, that what is believed to be subscribed is, that no filter is     *)
(* forgotten, and that a publish pins its client.                          *)
(*                                                                         *)
(* The packets on the wire are read in the order they were written, and    *)
(* the one a token waits for is the last of them (WireInv): when it is     *)
(* answered, no packet is left that could undo what was answered           *)
(* (TokenInv).  A reconnect that nobody has heard of yet shows as a        *)
(* callback still to run, one that was heard as another generation, with   *)
(* nothing believed (FreshInv).  Every action has a lemma that it keeps    *)
(* the invariant; EntryMoves serves those of the workers, publishes and    *)
(* Close, which leave to the runner what is believed and known.            *)
(***************************************************************************)
EXTENDS MqttManager, Sums

Options == {p.config[v].opts : p \in Plans, v \in 1..2}

Entries ==
  [state : {"none", "live", "cancelled"}, opts : Options, owners : [Topics -> SUBSET Workers],
   known : SUBSET Topics, applied : [Topics -> 0..2], gen : Nat, publishes : 0..1,
   restarting : BOOLEAN]

Places == {"connect", "connecting", "loop", "discard", "reconcile", "operate", "apply",
           "exit", "final", "disconnect", "gone"}

Runs == [at : Places, restart : BOOLEAN, g : Nat, todo : SUBSET Topics]

Ops == [kind : {"none", "subscribe", "unsubscribe", "abandoned"}, topic : Topics \cup {NoTopic},
        qos : 0..2, method : {"idle", "calling", "returned"},
        token : {"pending", "acked", "rejected", "failed", "final"}, old : BOOLEAN]

Clients == [link : {"new", "connecting", "up", "down", "closed"}, greetings : Nat,
            greeted : BOOLEAN]

Packets == [kind : {"subscribe", "unsubscribe"}, topics : SUBSET Topics, qos : 0..2,
            to : {"op", "nobody", "final"}]

WorkerTypes ==
  /\ plan \in Plans /\ version \in 1..2
  /\ worker \in [Workers -> [at : {"off", "watching", "owning", "stopping", "refused"},
                             v : 1..2]]
  /\ \A w \in Workers : worker[w].at = "watching" => TopicOf(w) \in Topics
  /\ publisher \in [at : {"idle", "waiting"}, left : Nat]
  /\ closed \in BOOLEAN /\ trouble \in 0..plan.troubles

RunTypes ==
  /\ entry \in Entries /\ run \in Runs /\ op \in Ops
  /\ client \in Clients /\ old \in Clients

BrokerTypes ==
  /\ wire \in Seq(Packets) /\ session \in [Topics -> 0..2] /\ leaked \subseteq Topics

\* The goroutine's life is the entry's, and what it still has to look at is known.
RunInv ==
  /\ run.at = "gone" <=> entry.state = "none"
  /\ run.at \in {"exit", "final", "disconnect"} => Cancelled
  /\ run.at \in {"reconcile", "operate", "apply"} =>
       run.todo \subseteq entry.known /\ run.g <= entry.gen /\ ~run.restart

\* The operation: one at a time, and only a runner that goes on for a new client, or to
\* its end, leaves one behind.
OpInv ==
  /\ op.kind = "none" => op.topic = NoTopic /\ op.method = "idle"
  /\ op.kind # "none" => op.topic \in entry.known
  /\ op.kind \in {"subscribe", "unsubscribe"} <=> run.at \in {"operate", "apply"}
  /\ op.kind \in {"subscribe", "unsubscribe"} =>
       /\ op.topic \notin run.todo /\ ~op.old
       /\ (op.qos = 0) = (op.kind = "unsubscribe")
  /\ op.kind = "abandoned" => Cancelled \/ (run.at \in {"loop", "discard"} /\ run.restart)
  /\ op.old => run.at = "discard"

GoneInv == run.at = "gone" => entry.known = {} /\ op = NoOp /\ wire = <<>>

\* What has become of its token.
TokenInv ==
  /\ op.token # "pending" => op.method # "calling"
  /\ op.token \in {"acked", "rejected"} => run.at \in {"operate", "apply"} /\ wire = <<>>
  /\ run.at = "apply" => op.token = "acked"
  /\ op.token = "acked" => session[op.topic] \in {0, op.qos}
  /\ op.token = "final" => /\ run.at \in {"final", "disconnect"} /\ wire = <<>>
                           /\ \A t \in entry.known : session[t] = 0

\* The packet that a token waits for is the last one.
WireInv ==
  \A i \in DOMAIN wire :
    /\ wire[i].qos # 0 => wire[i].topics \subseteq entry.known
    /\ wire[i].to = "op" =>
         /\ i = Len(wire) /\ run.at = "operate" /\ op.method = "returned"
         /\ op.token = "pending" /\ wire[i].topics = {op.topic} /\ wire[i].qos = op.qos
    /\ wire[i].to = "final" =>
         /\ i = Len(wire) /\ run.at \in {"final", "disconnect"} /\ op.method # "calling"
         /\ wire[i].topics = entry.known /\ wire[i].qos = 0

\* The connection is the one whose last OnConnect has run.
Steady == Live /\ client.link = "up" /\ client.greetings = 0

\* A connection heard of, or a client replaced, since the reconciling began: nothing is
\* believed.
FreshInv ==
  /\ run.at \in {"connect", "connecting", "discard"} => entry.applied = Nothing
  /\ run.at \in {"reconcile", "operate", "apply"} /\ entry.gen # run.g =>
       entry.applied = Nothing
  /\ Live /\ ~run.restart /\ (\E i \in DOMAIN wire : wire[i].to # "op") =>
       entry.applied = Nothing
  /\ Steady /\ run.at \in {"operate", "apply"} /\ entry.gen = run.g =>
       /\ op.token = "acked" => session[op.topic] = op.qos
       /\ op.token # "failed"

\* The broker has not carried out the operation yet, if it is about t.
Untouched(t) ==
  op.topic = t => \/ op.method = "calling" \/ op.token = "rejected"
                  \/ \E i \in DOMAIN wire : wire[i].to = "op"

BeliefInv ==
  Steady /\ ~run.restart =>
    \A t \in Topics : Untouched(t) => entry.applied[t] \in {0, session[t]}

PinInv ==
  /\ entry.gen # 0 /\ ~entry.restarting => client.greeted
  /\ publisher.at = "waiting" /\ ~closed =>
       Live /\ entry.publishes = 1 /\ client.greeted /\ client.link # "closed"

IInv ==
  /\ WorkerTypes /\ RunTypes /\ BrokerTypes
  /\ RunInv /\ GoneInv /\ OpInv /\ TokenInv /\ WireInv /\ FreshInv /\ BeliefInv /\ PinInv
  /\ NoForgottenFilter

-----------------------------------------------------------------------------
(* What the broker makes of the packets. *)

Sessions == [Topics -> 0..2]

\* h goes through the sessions of a broker that reads the packets of s, from b on.
PerformSteps(h, n, s, b) ==
  /\ h \in [0..n -> Sessions]
  /\ h[0] = b /\ h[n] = FoldLeft(Perform, b, s)
  /\ \A k \in 1..n : h[k] = Perform(h[k - 1], s[k])

LEMMA PerformType ==
  ASSUME NEW s \in Sessions, NEW p \in Packets
  PROVE  /\ Perform(s, p) \in Sessions
         /\ \A t \in Topics : Perform(s, p)[t] = IF t \in p.topics THEN p.qos ELSE s[t]
<1>1. p.qos \in 0..2
  BY DEF Packets
<1>2. QED
  BY <1>1 DEF Perform, Sessions

LEMMA PerformTrace ==
  ASSUME NEW s \in Seq(Packets), NEW b \in Sessions, NEW n, Len(s) = n
  PROVE  \E h : PerformSteps(h, n, s, b)
<1> DEFINE D == DOMAIN s
           F(f) == [u \in SUBSET D |->
                      IF u = {} THEN b ELSE Perform(f[u \ {Top(u)}], s[Top(u)])]
           fold == CHOOSE f : f = F(f)
           G == [p \in Sessions \X (1..n) |-> Perform(p[1], s[p[2]])]
<1>1. FoldLeft(Perform, b, s) = fold[D]
  BY DEF FoldLeft, MapThenFoldSet, Top, Max
<1>2. n \in Nat /\ D = 1..n /\ \A k \in 1..n : s[k] \in Packets
  OBVIOUS
<1>3. Steps(G, n, Sessions)
  BY <1>2, PerformType DEF Steps
<1>4. PICK f : IsWalk(f, n, Sessions, b, G)
  <2> DEFINE V == Sessions
  <2>1. n \in Nat /\ b \in V /\ Steps(G, n, V)
    BY <1>2, <1>3
  <2> HIDE DEF G, V
  <2>2. \E f : IsWalk(f, n, V, b, G)
    BY ONLY <2>1, WalkExists
  <2>3. QED
    BY <2>2 DEF V
<1>5. \A u \in SUBSET D : u # {} => Top(u) \in 1..n /\ u \ {Top(u)} \in SUBSET D
  <2> HIDE DEF D
  <2>1. QED
    BY <1>2, TopIsGreatest
<1>6. f = F(f)
  <2>1. \A u \in SUBSET D : u # {} =>
          G[<<f[u \ {Top(u)}], Top(u)>>] = Perform(f[u \ {Top(u)}], s[Top(u)])
    BY <1>2, <1>4, <1>5 DEF IsWalk
  <2> HIDE DEF G, D
  <2>2. QED
    BY <1>2, <1>4, <2>1 DEF IsWalk
<1>7. fold = F(fold)
  <2> HIDE DEF F
  <2>1. QED
    BY <1>6
<1>8. \A u \in SUBSET D : fold[u] =
        IF u = {} THEN b ELSE Perform(fold[u \ {Top(u)}], s[Top(u)])
  <2> HIDE DEF fold, D
  <2>1. QED
    BY <1>7
<1> HIDE DEF fold, F, D
<1>9. Walks(fold, n, Sessions, b, G)
  BY <1>2, <1>5, <1>8 DEF Walks
<1>10. PICK h : IsTrace(h, n, Sessions, b, G) /\ h[n] = fold[1..n]
  <2> DEFINE V == Sessions
  <2>1. n \in Nat /\ b \in V /\ Steps(G, n, V) /\ Walks(fold, n, V, b, G)
    BY <1>2, <1>3, <1>9
  <2> HIDE DEF G, V
  <2>2. \E h : IsTrace(h, n, V, b, G) /\ h[n] = fold[1..n]
    BY ONLY <2>1, FoldTrace
  <2>3. QED
    BY <2>2 DEF V
<1>11. \A k \in 1..n : h[k] = Perform(h[k - 1], s[k])
  <2> SUFFICES ASSUME NEW k \in 1..n
               PROVE  h[k] = Perform(h[k - 1], s[k])
    OBVIOUS
  <2>1. h[k] = G[<<h[k - 1], k>>] /\ h[k - 1] \in Sessions
    <3> HIDE DEF G
    <3>1. k - 1 \in 0..n
      BY <1>2
    <3>2. QED
      BY <1>10, <3>1 DEF IsTrace
  <2>2. QED
    BY <1>2, <2>1
<1>12. QED
  BY <1>1, <1>2, <1>10, <1>11 DEF IsTrace, PerformSteps

\* The topics that packets of w subscribe.
Subscribed(w) == {t \in Topics : \E i \in DOMAIN w : w[i].qos # 0 /\ t \in w[i].topics}

\* A filter is there because it was, or because a packet subscribed it.
LEMMA FoldPerform ==
  ASSUME NEW s \in Seq(Packets), NEW b \in Sessions
  PROVE  /\ FoldLeft(Perform, b, s) \in Sessions
         /\ s = <<>> => FoldLeft(Perform, b, s) = b
         /\ \A t \in Topics : FoldLeft(Perform, b, s)[t] # 0 => b[t] # 0 \/ t \in Subscribed(s)
<1> DEFINE n == Len(s)
           K == {t \in Topics : b[t] # 0} \cup Subscribed(s)
<1>1. PICK h : PerformSteps(h, n, s, b)
  BY PerformTrace
<1>2. n \in Nat /\ \A k \in 1..n : k \in DOMAIN s /\ s[k] \in Packets
  OBVIOUS
<1>3. \A k \in 1..n : h[k] = Perform(h[k - 1], s[k]) /\ h[k - 1] \in Sessions
  <2>1. \A k \in 1..n : k - 1 \in 0..n
    BY <1>2
  <2>2. QED
    BY <1>1, <2>1 DEF PerformSteps
<1> DEFINE T == {k \in 0..n : \A t \in Topics \ K : h[k][t] = 0}
<1>4. \A k \in 0..n : k \in T
  <2>1. 0 \in T
    BY <1>1, <1>2 DEF PerformSteps
  <2>2. ASSUME NEW k \in 1..n, k - 1 \in T PROVE k \in T
    <3>1. ASSUME NEW t \in Topics \ K PROVE h[k][t] = 0
      <4>1. h[k - 1][t] = 0
        BY <2>2
      <4>2. s[k].qos # 0 => t \notin s[k].topics
        BY <1>2 DEF Subscribed
      <4>3. h[k][t] = IF t \in s[k].topics THEN s[k].qos ELSE h[k - 1][t]
        <5>1. /\ s[k] \in Packets /\ h[k - 1] \in Sessions /\ t \in Topics
              /\ h[k] = Perform(h[k - 1], s[k])
          BY <1>2, <1>3
        <5>2. QED
          BY ONLY <5>1, PerformType
      <4>4. QED
        BY <4>1, <4>2, <4>3
    <3>2. QED
      BY <1>2, <3>1
  <2>3. n \in Nat /\ 0 \in T /\ \A k \in 1..n : k - 1 \in T => k \in T
    BY <1>2, <2>1, <2>2
  <2> HIDE DEF T, n
  <2>4. QED
    BY ONLY <2>3, UpTo
<1>5. n \in 0..n /\ (s = <<>> => n = 0)
  BY <1>2
<1>6. QED
  BY <1>1, <1>4, <1>5 DEF PerformSteps

LEMMA HangupEffect ==
  ASSUME BrokerTypes, Hangup
  PROVE  /\ wire' = <<>> /\ session' \in Sessions
         /\ \A t \in Topics : session'[t] # 0 => session[t] # 0 \/ t \in Subscribed(wire)
         /\ Clean => session' = Nothing
         /\ wire = <<>> => session' \in {session, Nothing}
<1>1. CASE Clean
  BY <1>1 DEF Hangup, Nothing, Sessions
<1>2. CASE ~Clean
  <2>1. PICK n \in 0..Len(wire) : session' = FoldLeft(Perform, session, SubSeq(wire, 1, n))
    BY <1>2 DEF Hangup
  <2> DEFINE s == SubSeq(wire, 1, n)
  <2>2. /\ wire \in Seq(Packets) /\ session \in Sessions /\ s \in Seq(Packets)
        /\ \A i \in DOMAIN s : i \in DOMAIN wire /\ s[i] = wire[i]
        /\ wire = <<>> => s = <<>>
    BY DEF BrokerTypes, Sessions
  <2>3. Subscribed(s) \subseteq Subscribed(wire)
    BY <2>2 DEF Subscribed
  <2> HIDE DEF s
  <2>4. /\ FoldLeft(Perform, session, s) \in Sessions
        /\ s = <<>> => FoldLeft(Perform, session, s) = session
        /\ \A t \in Topics :
             FoldLeft(Perform, session, s)[t] # 0 => session[t] # 0 \/ t \in Subscribed(s)
    BY ONLY <2>2, FoldPerform
  <2>5. session' = FoldLeft(Perform, session, s)
    BY <2>1 DEF s
  <2>6. wire' = <<>>
    BY DEF Hangup
  <2>7. QED
    BY <1>2, <2>2, <2>3, <2>4, <2>5, <2>6
<1>3. QED
  BY <1>1, <1>2

-----------------------------------------------------------------------------
(* Workers, publishes and Close. *)

\* Nobody but its runner takes a filter from an entry, believes or disbelieves.
LEMMA EntryMoves ==
  ASSUME IInv, WorkerTypes', PinInv', entry' \in Entries,
         UNCHANGED <<run, op, client, old, wire, session, leaked>>,
         entry'.applied = entry.applied, entry'.gen = entry.gen,
         entry'.known = entry.known \/ (Live /\ entry.known \subseteq entry'.known),
         \/ entry'.state = entry.state
         \/ entry.state # "none" /\ entry'.state = "cancelled"
  PROVE  IInv'
<1> USE DEF IInv
<1>1. RunTypes' /\ BrokerTypes'
  BY DEF RunTypes, BrokerTypes
<1>2. /\ entry.known \subseteq entry'.known
      /\ Cancelled => Cancelled' /\ entry'.known = entry.known
      /\ Live' => Live
      /\ (entry'.state = "none") = (entry.state = "none")
  BY DEF Cancelled, Live
<1>3. RunInv' /\ GoneInv'
  BY <1>2 DEF RunInv, GoneInv, Live
<1>4. OpInv'
  BY <1>2 DEF OpInv
<1>5. TokenInv'
  BY <1>2 DEF TokenInv, RunInv
<1>6. WireInv'
  BY <1>2 DEF WireInv, RunInv
<1>7. FreshInv'
  BY <1>2 DEF FreshInv, Steady
<1>8. BeliefInv'
  BY <1>2 DEF BeliefInv, Steady, Untouched
<1>9. NoForgottenFilter'
  BY <1>2 DEF NoForgottenFilter
<1>10. QED
  BY <1>1, <1>3, <1>4, <1>5, <1>6, <1>7, <1>8, <1>9

LEMMA OptionsOf ==
  ASSUME WorkerTypes, NEW w \in Workers
  PROVE  OptsOf(w) \in Options /\ plan.config[1].opts \in Options
<1>1. worker[w].v \in 1..2 /\ 1 \in 1..2 /\ plan \in Plans
  BY DEF WorkerTypes
<1>2. QED
  BY <1>1 DEF OptsOf, Options

\* Everything but the workers and the version stays.
LEMMA IdleMoves ==
  ASSUME IInv, NEW w \in Workers, WatchRefused(w) \/ StopWorker(w) \/ Reload
  PROVE  IInv'
<1>1. /\ UNCHANGED <<plan, entry, run, op, client, old, wire, session, leaked, publisher,
                     closed, trouble>>
      /\ version' \in 1..2
      /\ worker' \in [Workers -> [at : {"off", "watching", "owning", "stopping", "refused"},
                                  v : 1..2]]
      /\ \A x \in Workers : worker'[x].at = "watching" => worker'[x] = worker[x]
  BY DEF IInv, WorkerTypes, WatchRefused, StopWorker, Reload, config, paho, broker
<1>2. WorkerTypes'
  BY <1>1 DEF IInv, WorkerTypes, TopicOf
<1>3. PinInv'
  BY <1>1 DEF IInv, PinInv, Live
<1>4. QED
  BY <1>1, <1>2, <1>3, EntryMoves DEF IInv, RunTypes

LEMMA OwnerJoins ==
  ASSUME NEW e \in Entries, NEW w \in Workers, TopicOf(w) \in Topics
  PROVE  /\ WithOwner(e, w) \in Entries
         /\ WithOwner(e, w).known = e.known \cup {TopicOf(w)}
         /\ WithOwner(e, w).state = e.state /\ WithOwner(e, w).applied = e.applied
         /\ WithOwner(e, w).gen = e.gen /\ WithOwner(e, w).publishes = e.publishes
         /\ WithOwner(e, w).restarting = e.restarting
<1> DEFINE t == TopicOf(w)
           owners == [e.owners EXCEPT ![t] = @ \cup {w}]
<1>1. e.owners \in [Topics -> SUBSET Workers] /\ e.known \subseteq Topics
  BY DEF Entries
<1>2. owners \in [Topics -> SUBSET Workers]
  BY <1>1
<1>3. WithOwner(e, w) = [e EXCEPT !.owners = owners, !.known = @ \cup {t}]
  BY DEF WithOwner, Entries
<1> HIDE DEF owners, t
<1>4. t \in Topics
  BY DEF t
<1>5. /\ WithOwner(e, w).owners = owners /\ WithOwner(e, w).known = e.known \cup {t}
      /\ WithOwner(e, w).state = e.state /\ WithOwner(e, w).applied = e.applied
      /\ WithOwner(e, w).gen = e.gen /\ WithOwner(e, w).publishes = e.publishes
      /\ WithOwner(e, w).restarting = e.restarting
  BY <1>3 DEF Entries
<1>6. WithOwner(e, w) \in Entries
  <2>1. WithOwner(e, w) =
          [state |-> e.state, opts |-> e.opts, owners |-> owners, known |-> e.known \cup {t},
           applied |-> e.applied, gen |-> e.gen, publishes |-> e.publishes,
           restarting |-> e.restarting]
    BY <1>3 DEF Entries
  <2>2. e.known \cup {t} \in SUBSET Topics
    BY <1>1, <1>4
  <2>3. QED
    BY <1>2, <2>1, <2>2 DEF Entries
<1>7. QED
  BY <1>5, <1>6 DEF t

LEMMA WatchStep ==
  ASSUME IInv, NEW w \in Workers, Watch(w)
  PROVE  IInv'
<1>1. /\ UNCHANGED <<plan, version, op, old, wire, session, leaked, publisher, closed, trouble>>
      /\ worker[w].at = "watching" /\ ~closed /\ TopicOf(w) \in Topics
      /\ worker' = [worker EXCEPT ![w].at = "owning"]
  BY DEF IInv, WorkerTypes, Watch, config, broker
<1>2. WorkerTypes'
  BY <1>1 DEF IInv, WorkerTypes, TopicOf
<1>3. CASE Shares(w) /\ entry' = WithOwner(entry, w) /\ UNCHANGED <<run, client>>
  <2>1. entry \in Entries /\ Live
    BY <1>3 DEF IInv, RunTypes, Shares
  <2>2. /\ entry' \in Entries /\ entry'.known = entry.known \cup {TopicOf(w)}
        /\ entry'.state = entry.state /\ entry'.applied = entry.applied
        /\ entry'.gen = entry.gen /\ entry'.publishes = entry.publishes
        /\ entry'.restarting = entry.restarting
    BY <1>1, <1>3, <2>1, OwnerJoins
  <2>3. PinInv'
    BY <1>1, <1>3, <2>2 DEF IInv, PinInv, Live
  <2>4. QED
    BY <1>1, <1>2, <1>3, <2>1, <2>2, <2>3, EntryMoves
<1>4. CASE /\ entry.state = "none"
           /\ entry' = WithOwner([NoEntry EXCEPT !.state = "live", !.opts = OptsOf(w)], w)
           /\ run' = NewRun /\ client' = NewClient
  <2> DEFINE e == [NoEntry EXCEPT !.state = "live", !.opts = OptsOf(w)]
  <2>1. e \in Entries /\ e.state = "live" /\ e.known = {} /\ e.applied = Nothing /\ e.gen = 0
        /\ e.restarting = FALSE
    <3> DEFINE none == [t \in Topics |-> {}]
    <3>1. /\ none \in [Topics -> SUBSET Workers]
          /\ Nothing \in [Topics -> 0..2] /\ OptsOf(w) \in Options
      BY OptionsOf DEF IInv, Nothing
    <3>2. NoEntry = [state |-> "none", opts |-> plan.config[1].opts, owners |-> none,
                     known |-> {}, applied |-> Nothing, gen |-> 0, publishes |-> 0,
                     restarting |-> FALSE]
      BY DEF NoEntry
    <3> HIDE DEF none
    <3>3. /\ NoEntry \in Entries /\ NoEntry.known = {} /\ NoEntry.applied = Nothing
          /\ NoEntry.gen = 0 /\ NoEntry.restarting = FALSE
      BY <3>1, <3>2, OptionsOf DEF Entries, IInv
    <3>4. QED
      BY <3>1, <3>3 DEF Entries
  <2> HIDE DEF e
  <2>2. /\ entry' \in Entries /\ entry'.known = {TopicOf(w)} /\ entry'.state = "live"
        /\ entry'.applied = Nothing /\ entry'.gen = 0 /\ entry'.restarting = FALSE
    BY <1>1, <1>4, <2>1, OwnerJoins DEF e
  <2>3. /\ run' \in Runs /\ client' \in Clients /\ client'.link = "new"
        /\ run'.at = "connect" /\ run'.restart = FALSE /\ run'.g = 0
    BY <1>4 DEF NewRun, NewClient, Closed, Runs, Places, Clients
  <2>4. RunTypes' /\ BrokerTypes'
    BY <1>1, <2>2, <2>3 DEF IInv, RunTypes, BrokerTypes
  <2>5. run.at = "gone" /\ entry.known = {} /\ op = NoOp /\ wire = <<>>
    BY <1>4 DEF IInv, RunInv, GoneInv
  <2>6. RunInv' /\ GoneInv' /\ OpInv' /\ TokenInv'
    BY <1>1, <2>2, <2>3, <2>5 DEF RunInv, GoneInv, OpInv, TokenInv, NoOp
  <2>7. WireInv' /\ BeliefInv'
    BY <1>1, <2>3, <2>5 DEF WireInv, BeliefInv, Steady
  <2>7a. FreshInv'
    BY <1>1, <2>2, <2>3, <2>5 DEF FreshInv, Steady
  <2>7b. PinInv'
    BY <1>1, <1>4, <2>2 DEF IInv, PinInv, Live
  <2>8. NoForgottenFilter'
    BY <1>1, <2>2, <2>5 DEF IInv, NoForgottenFilter
  <2>9. QED
    BY <1>2, <2>4, <2>6, <2>7, <2>7a, <2>7b, <2>8 DEF IInv
<1>5. QED
  BY <1>3, <1>4 DEF Watch

\* ReleaseUnused only ends a live entry.
LEMMA Releases ==
  ASSUME NEW e \in Entries
  PROVE  /\ ReleaseUnused(e) \in Entries
         /\ ReleaseUnused(e).known = e.known /\ ReleaseUnused(e).applied = e.applied
         /\ ReleaseUnused(e).gen = e.gen /\ ReleaseUnused(e).publishes = e.publishes
         /\ ReleaseUnused(e).restarting = e.restarting
         /\ \/ ReleaseUnused(e).state = e.state
            \/ /\ e.state = "live" /\ e.publishes = 0
               /\ ReleaseUnused(e).state = "cancelled"
<1> DEFINE c == [e EXCEPT !.state = "cancelled"]
<1>1. /\ c \in Entries /\ c.known = e.known /\ c.applied = e.applied /\ c.gen = e.gen
      /\ c.publishes = e.publishes /\ c.restarting = e.restarting /\ c.state = "cancelled"
  BY DEF Entries
<1> HIDE DEF c
<1>2. ReleaseUnused(e) = IF e.state = "live" /\ e.publishes = 0 /\ Unowned(e) THEN c ELSE e
  BY DEF ReleaseUnused, c
<1>3. QED
  BY <1>1, <1>2

LEMMA ReleasedStep ==
  ASSUME IInv, NEW w \in Workers, Released(w)
  PROVE  IInv'
<1> DEFINE owners == [t \in Topics |-> entry.owners[t] \ {w}]
           e == [entry EXCEPT !.owners = owners]
<1>1. /\ UNCHANGED <<plan, version, run, op, client, old, wire, session, leaked, publisher,
                     closed, trouble>>
      /\ entry' = ReleaseUnused([entry EXCEPT !.owners = [t \in Topics |-> @[t] \ {w}]])
      /\ worker' = [worker EXCEPT ![w] =
           [at |-> IF plan.config[version].topic[w] = NoTopic THEN "off" ELSE "watching",
            v |-> version]]
  BY DEF Released, config, paho, broker
<1>2. entry' = ReleaseUnused(e)
  BY <1>1
<1>3. entry \in Entries
  BY DEF IInv, RunTypes
<1>4. owners \in [Topics -> SUBSET Workers]
  BY <1>3 DEF Entries
<1> HIDE DEF owners
<1>5. /\ e \in Entries /\ e.known = entry.known /\ e.applied = entry.applied
      /\ e.gen = entry.gen /\ e.publishes = entry.publishes
      /\ e.restarting = entry.restarting /\ e.state = entry.state
  BY <1>3, <1>4 DEF Entries
<1> HIDE DEF e
<1>6. /\ entry' \in Entries /\ entry'.known = entry.known /\ entry'.applied = entry.applied
      /\ entry'.gen = entry.gen /\ entry'.publishes = entry.publishes
      /\ entry'.restarting = entry.restarting
      /\ \/ entry'.state = entry.state
         \/ entry.state = "live" /\ entry.publishes = 0 /\ entry'.state = "cancelled"
  BY <1>2, <1>5, Releases
<1>7. WorkerTypes'
  <2>1. plan.config[version].topic[w] \in Topics \cup {NoTopic}
    BY MqttAssumption DEF MqttAssumption, IInv, WorkerTypes
  <2>2. worker' \in [Workers -> [at : {"off", "watching", "owning", "stopping", "refused"},
                                 v : 1..2]]
    BY <1>1 DEF IInv, WorkerTypes
  <2>3. ASSUME NEW x \in Workers, worker'[x].at = "watching" PROVE TopicOf(x)' \in Topics
    <3>1. CASE x = w
      BY <1>1, <2>1, <2>3, <3>1 DEF IInv, WorkerTypes, TopicOf
    <3>2. CASE x # w
      BY <1>1, <2>3, <3>2 DEF IInv, WorkerTypes, TopicOf
    <3>3. QED
      BY <3>1, <3>2
  <2>4. QED
    BY <1>1, <2>2, <2>3 DEF IInv, WorkerTypes
<1>8. PinInv'
  BY <1>1, <1>6 DEF IInv, PinInv, Live
<1>9. QED
  BY <1>1, <1>6, <1>7, <1>8, EntryMoves

LEMMA PublishStep ==
  ASSUME IInv, StartPublish \/ EndPublish
  PROVE  IInv'
<1>1. /\ UNCHANGED <<plan, version, worker, run, op, client, old, wire, session, leaked, closed,
                     trouble>>
      /\ entry \in Entries
  BY DEF IInv, RunTypes, StartPublish, EndPublish, config, paho, broker
<1>2. WorkerTypes'
  BY <1>1 DEF StartPublish, EndPublish, IInv, WorkerTypes, TopicOf
<1>3. CASE StartPublish
  <2>1. /\ entry' \in Entries /\ entry'.known = entry.known /\ entry'.applied = entry.applied
        /\ entry'.gen = entry.gen /\ entry'.publishes = 1
        /\ entry'.restarting = entry.restarting /\ entry'.state = entry.state
    BY <1>1, <1>3 DEF StartPublish, Entries
  <2>2. PinInv'
    BY <1>1, <1>3, <2>1 DEF StartPublish, Admits, Connected, IInv, PinInv, Live
  <2>3. QED
    BY <1>1, <1>2, <2>1, <2>2, EntryMoves
<1>4. CASE EndPublish
  <2> DEFINE e == [entry EXCEPT !.publishes = 0]
  <2>1. /\ e \in Entries /\ e.known = entry.known /\ e.applied = entry.applied
        /\ e.gen = entry.gen /\ e.restarting = entry.restarting /\ e.state = entry.state
    BY <1>1 DEF Entries
  <2>2. entry' = ReleaseUnused(e) /\ publisher'.at = "idle"
    BY <1>4 DEF EndPublish, AfterPublish, IInv, WorkerTypes
  <2> HIDE DEF e
  <2>3. /\ entry' \in Entries /\ entry'.known = entry.known /\ entry'.applied = entry.applied
        /\ entry'.gen = entry.gen /\ entry'.restarting = entry.restarting
        /\ \/ entry'.state = entry.state
           \/ entry.state = "live" /\ entry'.state = "cancelled"
    BY <2>1, <2>2, Releases
  <2>4. PinInv'
    BY <1>1, <2>2, <2>3 DEF IInv, PinInv
  <2>5. QED
    BY <1>1, <1>2, <2>3, <2>4, EntryMoves
<1>5. QED
  BY <1>3, <1>4

LEMMA CloseStep ==
  ASSUME IInv, Close
  PROVE  IInv'
<1> DEFINE none == [t \in Topics |-> {}]
           s == IF entry.state = "none" THEN "none" ELSE "cancelled"
<1>1. /\ UNCHANGED <<plan, version, worker, run, op, client, old, wire, session, leaked,
                     publisher, trouble>>
      /\ entry \in Entries /\ closed' = TRUE
      /\ entry' = [entry EXCEPT !.state = s, !.owners = none]
  BY DEF IInv, RunTypes, Close, config, paho, broker, Entries
<1>2. WorkerTypes'
  BY <1>1 DEF IInv, WorkerTypes, TopicOf
<1>3. none \in [Topics -> SUBSET Workers] /\ s \in {"none", "cancelled"}
  OBVIOUS
<1> HIDE DEF none
<1>4. /\ entry' \in Entries /\ entry'.known = entry.known /\ entry'.applied = entry.applied
      /\ entry'.gen = entry.gen /\ entry'.restarting = entry.restarting /\ entry'.state = s
  BY <1>1, <1>3 DEF Entries
<1>5. PinInv'
  BY <1>1, <1>4 DEF IInv, PinInv
<1>6. QED
  BY <1>1, <1>2, <1>4, <1>5, EntryMoves

-----------------------------------------------------------------------------
(* The runner alone moves. *)

LEMMA FrameTypes ==
  ASSUME WorkerTypes, UNCHANGED <<plan, version, worker, publisher, closed, trouble>>
  PROVE  WorkerTypes'
BY DEF WorkerTypes, TopicOf

LEMMA NothingIsTyped == Nothing \in [Topics -> 0..2] /\ \A t \in Topics : Nothing[t] = 0
BY DEF Nothing

\* An entry whose runner is about is live until it is cancelled.
LEMMA AliveOrCancelled ==
  ASSUME RunTypes, RunInv, run.at # "gone"
  PROVE  Live <=> ~Cancelled
BY DEF RunTypes, RunInv, Live, Cancelled, Entries

LEMMA EndStep ==
  ASSUME IInv, \/ (Connect \/ ConnectReturns) /\ Cancelled
               \/ SeeCancelled \/ SkipFinal \/ FinalEnds
  PROVE  IInv'
<1> USE DEF IInv
<1>1. /\ UNCHANGED <<plan, version, worker, entry, op, client, old, wire, session, leaked,
                     publisher, closed, trouble>>
      /\ run.at \in {"connect", "connecting", "loop", "reconcile", "exit", "final"}
      /\ run' = [run EXCEPT !.at = IF run.at \in {"exit", "final"} THEN "disconnect" ELSE "exit"]
      /\ Cancelled /\ Cancelled' /\ run \in Runs
  BY DEF Connect, ConnectReturns, SeeCancelled, SkipFinal, FinalEnds, Goto, config, paho, broker,
         RunTypes, RunInv, Cancelled
<1>2. /\ run' \in Runs /\ run'.at \in {"exit", "disconnect"}
      /\ run.at = "final" => run'.at = "disconnect"
      /\ ~Live /\ ~Live' /\ entry.state # "none"
  BY <1>1 DEF Runs, Places, Live, Cancelled
<1>3. WorkerTypes' /\ RunTypes' /\ BrokerTypes'
  BY <1>1, <1>2, FrameTypes DEF RunTypes, BrokerTypes
<1>4. RunInv' /\ GoneInv'
  BY <1>1, <1>2 DEF RunInv, GoneInv
<1>5. OpInv'
  BY <1>1, <1>2 DEF OpInv
<1>6. TokenInv' /\ WireInv'
  BY <1>1, <1>2 DEF TokenInv, WireInv
<1>7. FreshInv' /\ BeliefInv'
  BY <1>1, <1>2 DEF FreshInv, BeliefInv, Steady
<1>8. PinInv' /\ NoForgottenFilter'
  BY <1>1, <1>2 DEF PinInv, NoForgottenFilter, Live
<1>9. QED
  BY <1>3, <1>4, <1>5, <1>6, <1>7, <1>8

LEMMA ConnectStep ==
  ASSUME IInv, Connect, ~Cancelled
  PROVE  IInv'
<1> USE DEF IInv
<1>1. /\ UNCHANGED <<plan, version, worker, entry, op, old, wire, session, leaked,
                     publisher, closed, trouble>>
      /\ run.at = "connect" /\ run' = [run EXCEPT !.at = "connecting"]
      /\ client' = [client EXCEPT !.link = "connecting"]
      /\ run \in Runs /\ client \in Clients
  BY DEF Connect, Goto, config, broker, RunTypes
<1>2. /\ run' \in Runs /\ run'.at = "connecting" /\ run'.restart = run.restart
      /\ client' \in Clients /\ client'.link = "connecting"
      /\ client'.greeted = client.greeted
  BY <1>1 DEF Runs, Places, Clients
<1>3. WorkerTypes' /\ RunTypes' /\ BrokerTypes'
  BY <1>1, <1>2, FrameTypes DEF RunTypes, BrokerTypes
<1>4. RunInv' /\ GoneInv'
  BY <1>1, <1>2 DEF RunInv, GoneInv
<1>5. OpInv'
  BY <1>1, <1>2 DEF OpInv, Cancelled
<1>6. TokenInv' /\ WireInv'
  BY <1>1, <1>2 DEF TokenInv, WireInv
<1>7. FreshInv' /\ BeliefInv'
  BY <1>1, <1>2 DEF FreshInv, BeliefInv, Steady
<1>8. PinInv' /\ NoForgottenFilter'
  BY <1>1, <1>2 DEF PinInv, NoForgottenFilter, Live
<1>9. QED
  BY <1>3, <1>4, <1>5, <1>6, <1>7, <1>8

LEMMA ConnectedStep ==
  ASSUME IInv, ConnectReturns, ~Cancelled
  PROVE  IInv'
<1> USE DEF IInv
<1>1. /\ UNCHANGED <<plan, version, worker, entry, op, client, old, wire, session, leaked,
                     publisher, closed, trouble>>
      /\ run.at = "connecting" /\ run' = [run EXCEPT !.at = "loop", !.restart = FALSE]
      /\ run \in Runs
  BY DEF ConnectReturns, config, paho, broker, RunTypes
<1>2. /\ run' \in Runs /\ run'.at = "loop" /\ run'.restart = FALSE
  BY <1>1 DEF Runs, Places
<1>3. WorkerTypes' /\ RunTypes' /\ BrokerTypes'
  BY <1>1, <1>2, FrameTypes DEF RunTypes, BrokerTypes
<1>4. RunInv' /\ GoneInv'
  BY <1>1, <1>2 DEF RunInv, GoneInv
<1>5. OpInv'
  BY <1>1, <1>2 DEF OpInv, Cancelled
<1>6. TokenInv' /\ WireInv'
  BY <1>1, <1>2 DEF TokenInv, WireInv
<1>7. entry.applied = Nothing
  BY <1>1 DEF FreshInv
<1>8. FreshInv' /\ BeliefInv'
  BY <1>1, <1>2, <1>7, NothingIsTyped DEF FreshInv, BeliefInv
<1>9. PinInv' /\ NoForgottenFilter'
  BY <1>1, <1>2 DEF PinInv, NoForgottenFilter, Live
<1>10. QED
  BY <1>3, <1>4, <1>5, <1>6, <1>8, <1>9

LEMMA ReconcileStep ==
  ASSUME IInv, Reconcile
  PROVE  IInv'
<1> USE DEF IInv
<1>1. /\ UNCHANGED <<plan, version, worker, entry, op, client, old, wire, session, leaked,
                     publisher, closed, trouble>>
      /\ run.at = "loop" /\ ~Cancelled /\ ~run.restart
      /\ run' = [run EXCEPT !.at = "reconcile", !.g = entry.gen, !.todo = entry.known]
      /\ run \in Runs /\ entry.gen \in Nat /\ entry.known \subseteq Topics
  BY DEF Reconcile, config, paho, broker, RunTypes, Entries
<1>2. /\ run' \in Runs /\ run'.at = "reconcile" /\ run'.g = entry.gen
      /\ run'.todo = entry.known /\ run'.restart = run.restart
  BY <1>1 DEF Runs, Places
<1>3. WorkerTypes' /\ RunTypes' /\ BrokerTypes'
  BY <1>1, <1>2, FrameTypes DEF RunTypes, BrokerTypes
<1>4. RunInv' /\ GoneInv'
  BY <1>1, <1>2 DEF RunInv, GoneInv
<1>5. OpInv'
  BY <1>1, <1>2 DEF OpInv, Cancelled
<1>6. TokenInv' /\ WireInv'
  BY <1>1, <1>2 DEF TokenInv, WireInv
<1>7. FreshInv' /\ BeliefInv'
  BY <1>1, <1>2 DEF FreshInv, BeliefInv, Steady, Untouched, Live
<1>8. PinInv' /\ NoForgottenFilter'
  BY <1>1, <1>2 DEF PinInv, NoForgottenFilter, Live
<1>9. QED
  BY <1>3, <1>4, <1>5, <1>6, <1>7, <1>8

\* A topic is looked at and left as it is, or all have been looked at.
LEMMA LookStep ==
  ASSUME IInv, ReconcileEnds \/ \E t \in Topics : Change(t) /\ Unchanged(t)
  PROVE  IInv'
<1> USE DEF IInv
<1>1. /\ UNCHANGED <<plan, version, worker, entry, op, client, old, wire, session, leaked,
                     publisher, closed, trouble>>
      /\ run.at = "reconcile" /\ ~Cancelled /\ run \in Runs
      /\ \/ run' = [run EXCEPT !.at = "loop"]
         \/ \E t \in Topics : run' = [run EXCEPT !.todo = @ \ {t}]
  BY DEF ReconcileEnds, Change, Goto, config, paho, broker, RunTypes
<1>2. /\ run' \in Runs /\ run'.at \in {"loop", "reconcile"} /\ run'.g = run.g
      /\ run'.todo \subseteq run.todo /\ run'.restart = run.restart
  BY <1>1 DEF Runs, Places
<1>3. WorkerTypes' /\ RunTypes' /\ BrokerTypes'
  BY <1>1, <1>2, FrameTypes DEF RunTypes, BrokerTypes
<1>4. RunInv' /\ GoneInv'
  BY <1>1, <1>2 DEF RunInv, GoneInv
<1>5. OpInv'
  BY <1>1, <1>2 DEF OpInv, Cancelled
<1>6. TokenInv' /\ WireInv'
  BY <1>1, <1>2 DEF TokenInv, WireInv
<1>7. FreshInv' /\ BeliefInv'
  BY <1>1, <1>2 DEF FreshInv, BeliefInv, Steady, Untouched, Live
<1>8. PinInv' /\ NoForgottenFilter'
  BY <1>1, <1>2 DEF PinInv, NoForgottenFilter, Live
<1>9. QED
  BY <1>3, <1>4, <1>5, <1>6, <1>7, <1>8

LEMMA AcknowledgedStep ==
  ASSUME IInv, Acknowledged
  PROVE  IInv'
<1> USE DEF IInv
<1>1. /\ UNCHANGED <<plan, version, worker, entry, op, client, old, wire, session, leaked,
                     publisher, closed, trouble>>
      /\ run.at = "operate" /\ ~Cancelled /\ run \in Runs /\ op.token = "acked"
      /\ run' = [run EXCEPT !.at = "apply"]
  BY DEF Acknowledged, Goto, config, paho, broker, RunTypes
<1>2. /\ run' \in Runs /\ run'.at = "apply" /\ run'.g = run.g
      /\ run'.todo = run.todo /\ run'.restart = run.restart
  BY <1>1 DEF Runs, Places
<1>3. WorkerTypes' /\ RunTypes' /\ BrokerTypes'
  BY <1>1, <1>2, FrameTypes DEF RunTypes, BrokerTypes
<1>4. RunInv' /\ GoneInv'
  BY <1>1, <1>2 DEF RunInv, GoneInv
<1>5. OpInv'
  BY <1>1, <1>2 DEF OpInv, Cancelled
<1>6. TokenInv' /\ WireInv'
  BY <1>1, <1>2 DEF TokenInv, WireInv
<1>7. FreshInv' /\ BeliefInv'
  BY <1>1, <1>2 DEF FreshInv, BeliefInv, Steady, Untouched, Live
<1>8. PinInv' /\ NoForgottenFilter'
  BY <1>1, <1>2 DEF PinInv, NoForgottenFilter, Live
<1>9. QED
  BY <1>3, <1>4, <1>5, <1>6, <1>7, <1>8

-----------------------------------------------------------------------------
(* An operation begins and ends without an answer that counts. *)

LEMMA NoOpFields ==
  /\ NoOp \in Ops /\ NoOp.kind = "none" /\ NoOp.topic = NoTopic /\ NoOp.method = "idle"
  /\ NoOp.token = "pending" /\ NoOp.old = FALSE
BY DEF NoOp, Ops

LEMMA WantedType ==
  ASSUME RunTypes, NEW t \in Topics
  PROVE  Wanted(t) \in 0..2
<1> DEFINE Q == {Qos[w] : w \in entry.owners[t]}
<1>1. entry.owners[t] \subseteq Workers
  BY DEF RunTypes, Entries
<1>2. CASE entry.owners[t] = {}
  BY <1>2 DEF Wanted
<1>3. CASE entry.owners[t] # {}
  <2>1. Q # {} /\ Q \subseteq {1, 2}
    <3>1. \A w \in Workers : Qos[w] \in {1, 2}
      BY MqttAssumption DEF MqttAssumption
    <3>2. QED
      BY <1>1, <1>3, <3>1
  <2> HIDE DEF Q
  <2>2. \E x \in Q : \A y \in Q : x >= y
    <3>1. CASE 2 \in Q
      <4>1. \A y \in Q : 2 >= y
        BY <2>1
      <4>2. QED
        BY <3>1, <4>1
    <3>2. CASE 2 \notin Q
      <4>1. 1 \in Q /\ \A y \in Q : y = 1
        BY <2>1, <3>2
      <4>2. 1 >= 1
        OBVIOUS
      <4>3. QED
        BY <4>1, <4>2
    <3>3. QED
      BY <3>1, <3>2
  <2>3. Max(Q) \in Q
    BY <2>2 DEF Max
  <2>4. Wanted(t) = Max(Q)
    BY <1>3 DEF Wanted, Q
  <2>5. Wanted(t) \in {1, 2}
    BY <2>1, <2>3, <2>4
  <2>6. QED
    BY <2>5
<1>4. QED
  BY <1>2, <1>3

LEMMA ChangeStep ==
  ASSUME IInv, NEW t \in Topics, Change(t), ~Unchanged(t)
  PROVE  IInv'
<1> USE DEF IInv
<1>1. /\ UNCHANGED <<plan, version, worker, entry, client, old, wire, session, leaked,
                     publisher, closed, trouble>>
      /\ run.at = "reconcile" /\ ~Cancelled /\ run \in Runs /\ t \in run.todo
      /\ run' = [run EXCEPT !.at = "operate", !.todo = @ \ {t}]
      /\ op' = [NoOp EXCEPT !.kind = IF Wanted(t) = 0 THEN "unsubscribe" ELSE "subscribe",
                            !.topic = t, !.qos = Wanted(t), !.method = "calling"]
  BY DEF Change, config, paho, broker, RunTypes
<1>2. /\ run' \in Runs /\ run'.at = "operate" /\ run'.g = run.g
      /\ run'.todo = run.todo \ {t} /\ run'.restart = run.restart
  BY <1>1 DEF Runs, Places
<1>3. /\ op' \in Ops /\ op'.kind \in {"subscribe", "unsubscribe"} /\ op'.topic = t
      /\ op'.qos = Wanted(t) /\ (op'.qos = 0) = (op'.kind = "unsubscribe")
      /\ op'.method = "calling" /\ op'.token = "pending" /\ op'.old = FALSE
  <2>1. Wanted(t) \in 0..2
    BY WantedType
  <2>2. QED
    BY <1>1, <2>1, NoOpFields DEF Ops
<1>4. op.kind = "none" /\ op.topic = NoTopic
  BY <1>1 DEF OpInv, RunTypes, Ops
<1>5. WorkerTypes' /\ RunTypes' /\ BrokerTypes'
  BY <1>1, <1>2, <1>3, FrameTypes DEF RunTypes, BrokerTypes
<1>6. RunInv' /\ GoneInv'
  BY <1>1, <1>2 DEF RunInv, GoneInv
<1>7. t \in entry.known
  BY <1>1 DEF RunInv
<1>8. OpInv'
  BY <1>1, <1>2, <1>3, <1>7 DEF OpInv
<1>9. TokenInv' /\ WireInv'
  BY <1>1, <1>2, <1>3 DEF TokenInv, WireInv
<1>10. FreshInv'
  BY <1>1, <1>2, <1>3 DEF FreshInv, Live
<1>11. BeliefInv'
  BY <1>1, <1>2, <1>4, MqttAssumption DEF BeliefInv, Steady, Untouched, Live, MqttAssumption
<1>12. PinInv' /\ NoForgottenFilter'
  BY <1>1, <1>2 DEF PinInv, NoForgottenFilter, Live
<1>13. QED
  BY <1>5, <1>6, <1>8, <1>9, <1>10, <1>11, <1>12

LEMMA AbandonEffect ==
  ASSUME RunTypes, BrokerTypes, TokenInv, Abandon
  PROVE  /\ wire' \in Seq(Packets) /\ DOMAIN wire' = DOMAIN wire
         /\ \A i \in DOMAIN wire : /\ wire'[i].to = "nobody" /\ wire'[i].qos = wire[i].qos
                                   /\ wire'[i].topics = wire[i].topics
         /\ op' \in Ops /\ op'.token = "pending"
         /\ \/ op.method # "calling" /\ op' = NoOp
            \/ /\ op.method = "calling" /\ op'.kind = "abandoned" /\ op'.topic = op.topic
               /\ op'.method = "calling" /\ op'.old = op.old
<1>1. /\ wire' = [i \in DOMAIN wire |-> [wire[i] EXCEPT !.to = "nobody"]]
      /\ op' = IF op.method = "calling" THEN [op EXCEPT !.kind = "abandoned"] ELSE NoOp
      /\ op \in Ops /\ wire \in Seq(Packets)
  BY DEF Abandon, RunTypes, BrokerTypes
<1>2. \A i \in DOMAIN wire :
        /\ [wire[i] EXCEPT !.to = "nobody"] \in Packets
        /\ wire'[i].to = "nobody" /\ wire'[i].qos = wire[i].qos
        /\ wire'[i].topics = wire[i].topics
  <2>1. \A i \in DOMAIN wire : wire[i] \in Packets
    BY <1>1
  <2>2. \A p \in Packets : /\ [p EXCEPT !.to = "nobody"] \in Packets
                           /\ [p EXCEPT !.to = "nobody"].to = "nobody"
                           /\ [p EXCEPT !.to = "nobody"].qos = p.qos
                           /\ [p EXCEPT !.to = "nobody"].topics = p.topics
    BY DEF Packets
  <2>3. QED
    BY <1>1, <2>1, <2>2
<1>3. wire' \in Seq(Packets) /\ DOMAIN wire' = DOMAIN wire
  <2>1. DOMAIN wire = 1..Len(wire) /\ Len(wire) \in Nat
    BY <1>1
  <2>2. wire' \in [1..Len(wire) -> Packets]
    BY <1>1, <1>2, <2>1
  <2>3. QED
    BY <2>1, <2>2
<1>4. CASE op.method = "calling"
  <2>1. op.token = "pending"
    BY <1>4 DEF TokenInv
  <2>2. QED
    BY <1>1, <1>2, <1>3, <1>4, <2>1 DEF Ops
<1>5. CASE op.method # "calling"
  BY <1>1, <1>2, <1>3, <1>5, NoOpFields
<1>6. QED
  BY <1>4, <1>5

LEMMA AbandonStep ==
  ASSUME IInv, OperateCancelled \/ Expire \/ ConnectionChanged
  PROVE  IInv'
<1> USE DEF IInv
<1>1. /\ UNCHANGED <<plan, version, worker, entry, client, old, session, leaked,
                     publisher, closed>>
      /\ run.at = "operate" /\ run \in Runs /\ Abandon
      /\ trouble' \in {trouble, trouble + 1}
      /\ trouble' # trouble => trouble < plan.troubles
      /\ \/ Cancelled /\ run' = [run EXCEPT !.at = "exit"]
         \/ ~Cancelled /\ run' = [run EXCEPT !.at = "loop", !.restart = TRUE]
         \/ /\ ~Cancelled /\ run' = [run EXCEPT !.at = "loop"]
            /\ op.method = "returned" /\ entry.gen # run.g
  BY DEF OperateCancelled, Expire, ConnectionChanged, Goto, Trouble, config, paho, RunTypes
<1>2. /\ run' \in Runs
      /\ \/ Cancelled /\ run'.at = "exit"
         \/ ~Cancelled /\ run'.at = "loop" /\ run'.restart = TRUE
         \/ /\ ~Cancelled /\ run'.at = "loop" /\ run'.restart = run.restart
            /\ op.method = "returned" /\ entry.gen # run.g
  BY <1>1 DEF Runs, Places
<1>3. /\ wire' \in Seq(Packets) /\ DOMAIN wire' = DOMAIN wire
      /\ \A i \in DOMAIN wire : /\ wire'[i].to = "nobody" /\ wire'[i].qos = wire[i].qos
                                /\ wire'[i].topics = wire[i].topics
      /\ op' \in Ops /\ op'.token = "pending"
      /\ \/ op.method # "calling" /\ op' = NoOp
         \/ /\ op.method = "calling" /\ op'.kind = "abandoned" /\ op'.topic = op.topic
            /\ op'.method = "calling" /\ op'.old = op.old
  BY <1>1, AbandonEffect
<1>4. WorkerTypes'
  <2>1. plan.troubles \in Nat
    BY MqttAssumption DEF MqttAssumption, WorkerTypes
  <2>2. trouble' \in 0..plan.troubles
    <3>1. trouble \in 0..plan.troubles
      BY DEF WorkerTypes
    <3>2. trouble' \in {trouble, trouble + 1} /\ (trouble' # trouble => trouble < plan.troubles)
      BY <1>1
    <3>3. QED
      BY ONLY <2>1, <3>1, <3>2
  <2>3. QED
    BY <1>1, <2>2 DEF WorkerTypes, TopicOf
<1>5. RunTypes' /\ BrokerTypes'
  BY <1>1, <1>2, <1>3 DEF RunTypes, BrokerTypes
<1>6. RunInv' /\ GoneInv'
  BY <1>1, <1>2 DEF RunInv, GoneInv, Cancelled
<1>7. ~op.old /\ op.topic \in entry.known
  BY <1>1 DEF OpInv, RunTypes, Ops
<1>8. OpInv'
  BY <1>1, <1>2, <1>3, <1>7, NoOpFields DEF OpInv, Cancelled
<1>9. TokenInv' /\ WireInv'
  BY <1>1, <1>2, <1>3 DEF TokenInv, WireInv
<1>10. run'.at = "loop" => run'.restart \/ entry.applied = Nothing
  BY <1>1, <1>2 DEF FreshInv
<1>11. FreshInv'
  BY <1>1, <1>2, <1>10 DEF FreshInv, Live, Cancelled
<1>12. BeliefInv'
  BY <1>1, <1>2, <1>10, NothingIsTyped DEF BeliefInv, Steady, Live, Cancelled
<1>13. PinInv' /\ NoForgottenFilter'
  BY <1>1 DEF PinInv, NoForgottenFilter, Live
<1>14. QED
  BY <1>4, <1>5, <1>6, <1>8, <1>9, <1>11, <1>12, <1>13

LEMMA FailStep ==
  ASSUME IInv, OperationFails
  PROVE  IInv'
<1> USE DEF IInv
<1>1. /\ UNCHANGED <<plan, version, worker, entry, client, old, wire, session, leaked,
                     publisher, closed, trouble>>
      /\ run.at = "operate" /\ ~Cancelled /\ run \in Runs
      /\ op.token \in {"failed", "rejected"} /\ op' = NoOp
      /\ run' = [run EXCEPT !.at = "loop"]
  BY DEF OperationFails, Goto, config, paho, broker, RunTypes
<1>2. /\ run' \in Runs /\ run'.at = "loop" /\ run'.restart = run.restart
  BY <1>1 DEF Runs, Places
<1>3. WorkerTypes' /\ RunTypes' /\ BrokerTypes'
  BY <1>1, <1>2, NoOpFields, FrameTypes DEF RunTypes, BrokerTypes
<1>4. RunInv' /\ GoneInv'
  BY <1>1, <1>2 DEF RunInv, GoneInv
<1>5. OpInv'
  BY <1>1, <1>2, NoOpFields DEF OpInv
<1>6. TokenInv' /\ WireInv'
  BY <1>1, <1>2, NoOpFields DEF TokenInv, WireInv
<1>7. FreshInv'
  BY <1>1, <1>2 DEF FreshInv, Live
<1>8. BeliefInv'
  <2>1. CASE Steady /\ entry.gen = run.g
    <3>1. op.token = "rejected"
      BY <1>1, <2>1 DEF FreshInv
    <3>2. QED
      BY <1>1, <1>2, <3>1 DEF BeliefInv, Steady, Untouched, Live
  <2>2. CASE entry.gen # run.g
    <3>1. entry.applied = Nothing
      BY <1>1, <2>2 DEF FreshInv
    <3>2. QED
      BY <1>1, <3>1, NothingIsTyped DEF BeliefInv
  <2>3. CASE ~Steady
    BY <1>1, <2>3 DEF BeliefInv, Steady, Live
  <2>4. QED
    BY <2>1, <2>2, <2>3
<1>9. PinInv' /\ NoForgottenFilter'
  BY <1>1 DEF PinInv, NoForgottenFilter, Live
<1>10. QED
  BY <1>3, <1>4, <1>5, <1>6, <1>7, <1>8, <1>9


-----------------------------------------------------------------------------
(* A client is replaced. *)

\* No publish waits: it would pin the client.
LEMMA ReplaceStep ==
  ASSUME IInv, Replace
  PROVE  IInv'
<1> USE DEF IInv
<1>1. /\ UNCHANGED <<plan, version, worker, wire, session, leaked, publisher, closed, trouble>>
      /\ run.at = "loop" /\ run.restart /\ ~Cancelled /\ entry.publishes = 0
      /\ entry' = [entry EXCEPT !.restarting = TRUE, !.applied = Nothing]
      /\ old' = client /\ client' = NewClient
      /\ op' = [op EXCEPT !.old = TRUE] /\ run' = [run EXCEPT !.at = "discard"]
      /\ entry \in Entries /\ run \in Runs /\ op \in Ops /\ client \in Clients
  BY DEF Replace, MayRestart, Goto, config, broker, RunTypes
<1>2. /\ entry' \in Entries /\ entry'.restarting = TRUE /\ entry'.applied = Nothing
      /\ entry'.state = entry.state /\ entry'.known = entry.known
  BY <1>1, NothingIsTyped DEF Entries
<1>3. /\ run' \in Runs /\ run'.at = "discard" /\ run'.restart
      /\ op' \in Ops /\ op'.kind = op.kind /\ op'.topic = op.topic /\ op'.method = op.method
      /\ op'.token = op.token
      /\ client' \in Clients
  BY <1>1 DEF Runs, Places, Ops, Clients, NewClient, Closed
<1>4. WorkerTypes' /\ RunTypes' /\ BrokerTypes'
  BY <1>1, <1>2, <1>3, FrameTypes DEF RunTypes, BrokerTypes
<1>5. RunInv' /\ GoneInv'
  BY <1>1, <1>2, <1>3 DEF RunInv, GoneInv
<1>6. OpInv'
  BY <1>1, <1>2, <1>3 DEF OpInv
<1>7. TokenInv' /\ WireInv'
  BY <1>1, <1>2, <1>3 DEF TokenInv, WireInv
<1>8. FreshInv' /\ BeliefInv'
  BY <1>1, <1>2, <1>3 DEF FreshInv, BeliefInv
<1>9. PinInv'
  BY <1>1, <1>2 DEF PinInv
<1>10. NoForgottenFilter'
  BY <1>1, <1>2 DEF NoForgottenFilter
<1>11. QED
  BY <1>4, <1>5, <1>6, <1>7, <1>8, <1>9, <1>10

\* What the lost packets could have subscribed is known.
LEMMA SubscribedIsKnown ==
  ASSUME WireInv
  PROVE  Subscribed(wire) \subseteq entry.known
BY DEF WireInv, Subscribed

LEMMA DiscardStep ==
  ASSUME IInv, Discard
  PROVE  IInv'
<1> USE DEF IInv
<1>1. /\ UNCHANGED <<plan, version, worker, entry, client, leaked, publisher, closed, trouble>>
      /\ run.at = "discard" /\ run' = [run EXCEPT !.at = "connect"]
      /\ old' = [old EXCEPT !.link = "closed"] /\ op' = NoOp /\ Hangup
      /\ run \in Runs /\ old \in Clients
  BY DEF Discard, Goto, config, RunTypes
<1>2. /\ run' \in Runs /\ run'.at = "connect" /\ run'.restart = run.restart
      /\ old' \in Clients
  BY <1>1 DEF Runs, Places, Clients
<1>3. /\ wire' = <<>> /\ session' \in Sessions
      /\ \A t \in Topics : session'[t] # 0 => session[t] # 0 \/ t \in entry.known
  BY <1>1, HangupEffect, SubscribedIsKnown
<1>4. WorkerTypes' /\ RunTypes' /\ BrokerTypes'
  BY <1>1, <1>2, <1>3, NoOpFields, FrameTypes DEF RunTypes, BrokerTypes, Sessions
<1>5. RunInv' /\ GoneInv'
  BY <1>1, <1>2 DEF RunInv, GoneInv
<1>6. OpInv' /\ TokenInv' /\ WireInv'
  BY <1>1, <1>2, <1>3, NoOpFields DEF OpInv, TokenInv, WireInv
<1>7. entry.applied = Nothing
  BY <1>1 DEF FreshInv
<1>8. FreshInv' /\ BeliefInv'
  BY <1>1, <1>2, <1>7, NothingIsTyped DEF FreshInv, BeliefInv
<1>9. PinInv'
  BY <1>1 DEF PinInv, Live
<1>10. NoForgottenFilter'
  BY <1>1, <1>3 DEF NoForgottenFilter
<1>11. QED
  BY <1>4, <1>5, <1>6, <1>8, <1>9, <1>10

-----------------------------------------------------------------------------
(* An answer is applied: the packet it answers was the last on the wire. *)

LEMMA ApplyMoves ==
  ASSUME IInv, Apply
  PROVE  /\ UNCHANGED <<plan, version, worker, client, old, wire, session, publisher, closed,
                        trouble>>
         /\ run.at = "apply" /\ run' \in Runs
         /\ run'.at = (IF entry.gen = run.g THEN "reconcile" ELSE "loop")
         /\ run'.g = run.g /\ run'.todo = run.todo /\ run'.restart = run.restart
         /\ op' = NoOp
         /\ op.kind = "subscribe" => leaked' = leaked
         /\ op.kind = "unsubscribe" => leaked' = leaked \ {op.topic}
         /\ entry' \in Entries
         /\ entry'.state = entry.state /\ entry'.gen = entry.gen
         /\ entry'.publishes = entry.publishes /\ entry'.restarting = entry.restarting
         /\ entry'.known \subseteq entry.known /\ entry.known \ {op.topic} \subseteq entry'.known
         /\ op.kind = "subscribe" => entry'.known = entry.known
         /\ entry.gen # run.g => entry'.applied = entry.applied /\ entry'.known = entry.known
         /\ entry.gen = run.g => /\ entry'.applied[op.topic] = op.qos
                                 /\ \A t \in Topics : t # op.topic =>
                                      entry'.applied[t] = entry.applied[t]
<1> USE DEF IInv
<1>1. /\ UNCHANGED <<plan, version, worker, client, old, wire, session, publisher, closed,
                     trouble>>
      /\ run.at = "apply" /\ run \in Runs /\ op \in Ops /\ entry \in Entries
      /\ run' = [run EXCEPT !.at = IF entry.gen = run.g THEN "reconcile" ELSE "loop"]
      /\ leaked' = IF op.kind = "unsubscribe" THEN leaked \ {op.topic} ELSE leaked
      /\ op' = NoOp
  BY DEF Apply, SameGeneration, Goto, config, paho, RunTypes
<1>2. /\ run' \in Runs
      /\ run'.at = (IF entry.gen = run.g THEN "reconcile" ELSE "loop")
      /\ run'.g = run.g /\ run'.todo = run.todo /\ run'.restart = run.restart
  BY <1>1 DEF Runs, Places
<1>3. /\ op.kind \in {"subscribe", "unsubscribe"} /\ op.topic \in Topics /\ op.qos \in 0..2
      /\ op.kind = "unsubscribe" => op.qos = 0
  BY <1>1 DEF OpInv, Entries, Ops
<1> DEFINE believed == [entry.applied EXCEPT ![op.topic] = op.qos]
           kept == IF op.kind = "unsubscribe" /\ Forgets(op.topic)
                   THEN entry.known \ {op.topic} ELSE entry.known
<1>4. /\ believed \in [Topics -> 0..2] /\ believed[op.topic] = op.qos
      /\ \A t \in Topics : t # op.topic => believed[t] = entry.applied[t]
  BY <1>1, <1>3 DEF Entries
<1>5. /\ kept \in SUBSET Topics /\ kept \subseteq entry.known
      /\ entry.known \ {op.topic} \subseteq kept
      /\ op.kind = "subscribe" => kept = entry.known
  BY <1>1 DEF Entries
<1>6. CASE entry.gen = run.g
  <2>1. entry' = [entry EXCEPT !.applied = believed, !.known = kept]
    <3>1. CASE op.kind = "subscribe"
      <4>1. entry' = [entry EXCEPT !.applied[op.topic] = op.qos]
        BY <1>6, <3>1 DEF Apply, SameGeneration
      <4>2. kept = entry.known
        BY <1>5, <3>1
      <4>3. QED
        BY <1>1, <4>1, <4>2 DEF Entries
    <3>2. CASE op.kind = "unsubscribe"
      <4>1. entry' = [entry EXCEPT !.applied[op.topic] = 0,
                        !.known = IF Forgets(op.topic) THEN @ \ {op.topic} ELSE @]
        BY <1>6, <3>2 DEF Apply, SameGeneration
      <4>2. op.qos = 0
        BY <1>3, <3>2
      <4>3. QED
        BY <1>1, <3>2, <4>1, <4>2 DEF Entries
    <3>3. QED
      BY <1>3, <3>1, <3>2
  <2> HIDE DEF believed, kept
  <2>2. /\ entry' \in Entries
        /\ entry'.state = entry.state /\ entry'.gen = entry.gen
        /\ entry'.publishes = entry.publishes /\ entry'.restarting = entry.restarting
        /\ entry'.applied = believed /\ entry'.known = kept
    BY <1>1, <1>4, <1>5, <2>1 DEF Entries
  <2>3. QED
    BY <1>1, <1>2, <1>4, <1>5, <1>6, <2>2
<1>7. CASE entry.gen # run.g
  <2>1. entry' = entry
    BY <1>7 DEF Apply, SameGeneration
  <2>2. QED
    BY <1>1, <1>2, <1>7, <2>1
<1>8. QED
  BY <1>6, <1>7

LEMMA ApplyStep ==
  ASSUME IInv, Apply
  PROVE  IInv'
<1> DEFINE same == entry.gen = run.g
<1>1. /\ UNCHANGED <<plan, version, worker, client, old, wire, session, publisher, closed,
                     trouble>>
      /\ run.at = "apply" /\ run' \in Runs
      /\ run'.at = (IF entry.gen = run.g THEN "reconcile" ELSE "loop")
      /\ run'.g = run.g /\ run'.todo = run.todo /\ run'.restart = run.restart
      /\ op' = NoOp
      /\ op.kind = "subscribe" => leaked' = leaked
      /\ op.kind = "unsubscribe" => leaked' = leaked \ {op.topic}
      /\ entry' \in Entries
      /\ entry'.state = entry.state /\ entry'.gen = entry.gen
      /\ entry'.publishes = entry.publishes /\ entry'.restarting = entry.restarting
      /\ entry'.known \subseteq entry.known /\ entry.known \ {op.topic} \subseteq entry'.known
      /\ op.kind = "subscribe" => entry'.known = entry.known
  BY ApplyMoves
<1>2. /\ ~same => entry'.applied = entry.applied /\ entry'.known = entry.known
      /\ same => /\ entry'.applied[op.topic] = op.qos
                 /\ \A t \in Topics : t # op.topic => entry'.applied[t] = entry.applied[t]
  BY ApplyMoves
<1> USE DEF IInv
<1>3. /\ op.kind \in {"subscribe", "unsubscribe"} /\ op.topic \in entry.known
      /\ op.topic \notin run.todo
      /\ op.kind = "unsubscribe" => op.qos = 0
  BY <1>1 DEF OpInv
<1>4. op.token = "acked" /\ wire = <<>> /\ session[op.topic] \in {0, op.qos}
  BY <1>1 DEF TokenInv
<1>5. WorkerTypes' /\ RunTypes' /\ BrokerTypes'
  <2>1. leaked' \subseteq leaked
    BY <1>1, <1>3
  <2>2. QED
    BY <1>1, <2>1, NoOpFields, FrameTypes DEF RunTypes, BrokerTypes
<1>6. RunInv' /\ GoneInv'
  <2>1. run.todo \subseteq entry'.known
    BY <1>1, <1>3 DEF RunInv
  <2>2. QED
    BY <1>1, <2>1 DEF RunInv, GoneInv
<1>7. OpInv' /\ TokenInv' /\ WireInv'
  BY <1>1, <1>4, NoOpFields DEF OpInv, TokenInv, WireInv
<1>8. ~same => entry.applied = Nothing
  BY <1>1 DEF FreshInv
<1>9. FreshInv'
  BY <1>1, <1>2, <1>4, <1>8 DEF FreshInv
<1>10. BeliefInv'
  <2>1. CASE ~same
    BY <1>1, <1>2, <1>8, <2>1, NothingIsTyped DEF BeliefInv
  <2>2. CASE same
    <3>1. SUFFICES ASSUME Steady', ~run'.restart, NEW t \in Topics
                   PROVE  entry'.applied[t] \in {0, session[t]}
      BY <1>1 DEF BeliefInv
    <3>2. Steady /\ ~run.restart
      BY <1>1, <3>1 DEF Steady, Live
    <3>3. session[op.topic] = op.qos
      BY <1>1, <1>4, <2>2, <3>2 DEF FreshInv
    <3>4. CASE t = op.topic
      BY <1>2, <2>2, <3>3, <3>4
    <3>5. CASE t # op.topic
      BY <1>2, <2>2, <3>2, <3>5 DEF BeliefInv, Untouched
    <3>6. QED
      BY <3>4, <3>5
  <2>3. QED
    BY <2>1, <2>2
<1>11. PinInv'
  BY <1>1 DEF PinInv, Live
<1>12. NoForgottenFilter'
  <2>1. SUFFICES ASSUME NEW t \in Topics, session[t] # 0
                 PROVE  t \in entry'.known \cup leaked'
    BY <1>1 DEF NoForgottenFilter
  <2>2. t \in entry.known \cup leaked
    BY <2>1 DEF NoForgottenFilter
  <2>3. op.kind = "unsubscribe" => t # op.topic
    BY <1>3, <1>4, <2>1
  <2>4. QED
    BY <1>1, <1>3, <2>2, <2>3
<1>13. QED
  BY <1>5, <1>6, <1>7, <1>9, <1>10, <1>11, <1>12

-----------------------------------------------------------------------------
(* The end of a runner, and the calls of Paho. *)

LEMMA NoEntryFields ==
  ASSUME plan \in Plans
  PROVE  /\ NoEntry \in Entries /\ NoEntry.state = "none" /\ NoEntry.known = {}
         /\ NoEntry.applied = Nothing /\ NoEntry.gen = 0
<1> DEFINE none == [t \in Topics |-> {}]
<1>1. none \in [Topics -> SUBSET Workers] /\ plan.config[1].opts \in Options
  <2>1. 1 \in 1..2
    OBVIOUS
  <2>2. QED
    BY <2>1 DEF Options
<1>2. NoEntry = [state |-> "none", opts |-> plan.config[1].opts, owners |-> none,
                 known |-> {}, applied |-> Nothing, gen |-> 0, publishes |-> 0,
                 restarting |-> FALSE]
  BY DEF NoEntry
<1> HIDE DEF none
<1>3. QED
  BY <1>1, <1>2, NothingIsTyped DEF Entries

LEMMA AppendFacts ==
  ASSUME wire \in Seq(Packets), NEW p \in Packets, wire' = Append(wire, p)
  PROVE  /\ wire' \in Seq(Packets)
         /\ \A i \in DOMAIN wire' : \/ wire'[i] = p /\ i = Len(wire')
                                    \/ i \in DOMAIN wire /\ wire'[i] = wire[i]
OBVIOUS

LEMMA FinalStep ==
  ASSUME IInv, Final
  PROVE  IInv'
<1> USE DEF IInv
<1> DEFINE p == [kind |-> "unsubscribe", topics |-> entry.known, qos |-> 0, to |-> "final"]
<1>1. /\ UNCHANGED <<plan, version, worker, entry, client, old, session, leaked, publisher,
                     closed, trouble>>
      /\ run.at = "exit" /\ run' = [run EXCEPT !.at = "final"] /\ run \in Runs
      /\ op.method # "calling" /\ op' = [op EXCEPT !.token = "pending"] /\ op \in Ops
      /\ wire' = Append(wire, p) /\ wire \in Seq(Packets) /\ entry.known \subseteq Topics
  BY DEF Final, CallOver, Goto, config, paho, RunTypes, BrokerTypes, Entries
<1>2. /\ run' \in Runs /\ run'.at = "final" /\ op' \in Ops /\ op'.token = "pending"
      /\ op'.kind = op.kind /\ op'.topic = op.topic /\ op'.method = op.method
      /\ op'.old = op.old
  BY <1>1 DEF Runs, Places, Ops
<1>3. p \in Packets /\ p.qos = 0 /\ p.topics = entry.known /\ p.to = "final"
  BY <1>1 DEF Packets
<1> HIDE DEF p
<1>4. /\ wire' \in Seq(Packets)
      /\ \A i \in DOMAIN wire' : \/ wire'[i] = p /\ i = Len(wire')
                                 \/ i \in DOMAIN wire /\ wire'[i] = wire[i]
  BY <1>1, <1>3, AppendFacts
<1>5. Cancelled /\ ~Live
  BY <1>1 DEF RunInv, Live, Cancelled
<1>6. WorkerTypes' /\ RunTypes' /\ BrokerTypes'
  BY <1>1, <1>2, <1>4, FrameTypes DEF RunTypes, BrokerTypes
<1>7. RunInv' /\ GoneInv'
  BY <1>1, <1>2 DEF RunInv, GoneInv, Cancelled
<1>8. OpInv' /\ TokenInv'
  BY <1>1, <1>2, <1>5 DEF OpInv, TokenInv, Cancelled
<1>9. WireInv'
  <2>1. ASSUME NEW i \in DOMAIN wire
        PROVE  /\ wire[i].qos # 0 => wire[i].topics \subseteq entry.known
               /\ wire[i].to # "op" /\ wire[i].to # "final"
    BY <1>1 DEF WireInv
  <2>2. QED
    BY <1>1, <1>2, <1>3, <1>4, <2>1 DEF WireInv
<1>10. FreshInv' /\ BeliefInv'
  BY <1>1, <1>2, <1>5 DEF FreshInv, BeliefInv, Steady, Live
<1>11. PinInv' /\ NoForgottenFilter'
  BY <1>1 DEF PinInv, NoForgottenFilter, Live
<1>12. QED
  BY <1>6, <1>7, <1>8, <1>9, <1>10, <1>11

LEMMA DisconnectStep ==
  ASSUME IInv, Disconnect
  PROVE  IInv'
<1> USE DEF IInv
<1>1. /\ UNCHANGED <<plan, version, worker, publisher, closed, trouble>>
      /\ run.at = "disconnect" /\ run' = [run EXCEPT !.at = "gone"] /\ run \in Runs
      /\ leaked' = IF Clean THEN {}
                   ELSE IF op.token = "final" THEN leaked \ entry.known
                   ELSE leaked \cup entry.known
      /\ Hangup /\ entry' = NoEntry /\ client' = Closed /\ old' = Closed /\ op' = NoOp
      /\ leaked \subseteq Topics /\ entry.known \subseteq Topics /\ plan \in Plans
  BY DEF Disconnect, Delisted, Goto, config, RunTypes, BrokerTypes, Entries, WorkerTypes
<1>2. /\ run' \in Runs /\ run'.at = "gone" /\ leaked' \subseteq Topics
      /\ client' \in Clients /\ old' \in Clients
  BY <1>1 DEF Runs, Places, Closed, Clients
<1>3. /\ entry' \in Entries /\ entry'.state = "none" /\ entry'.known = {}
      /\ entry'.applied = Nothing /\ entry'.gen = 0
  BY <1>1, NoEntryFields
<1>4. /\ wire' = <<>> /\ session' \in Sessions
      /\ \A t \in Topics : session'[t] # 0 => session[t] # 0 \/ t \in entry.known
      /\ Clean => session' = Nothing
      /\ wire = <<>> => session' \in {session, Nothing}
  BY <1>1, HangupEffect, SubscribedIsKnown
<1>5. WorkerTypes' /\ RunTypes' /\ BrokerTypes'
  BY <1>1, <1>2, <1>3, <1>4, NoOpFields, FrameTypes DEF RunTypes, BrokerTypes, Sessions
<1>6. RunInv' /\ GoneInv'
  BY <1>1, <1>2, <1>3, <1>4 DEF RunInv, GoneInv
<1>7. OpInv' /\ TokenInv' /\ WireInv'
  BY <1>1, <1>2, <1>4, NoOpFields DEF OpInv, TokenInv, WireInv
<1>8. FreshInv' /\ BeliefInv'
  BY <1>2, <1>3 DEF FreshInv, BeliefInv, Steady, Live
<1>9. PinInv'
  <2>1. ~Live
    BY <1>1 DEF RunInv, Live, Cancelled
  <2>2. QED
    BY <1>1, <1>3, <2>1 DEF PinInv
<1>10. NoForgottenFilter'
  <2>1. SUFFICES ASSUME NEW t \in Topics, session'[t] # 0 PROVE t \in leaked'
    BY <1>3 DEF NoForgottenFilter
  <2>2. ~Clean
    BY <1>4, <2>1, NothingIsTyped
  <2>3. session[t] # 0 \/ t \in entry.known
    BY <1>4, <2>1
  <2>4. t \in entry.known \cup leaked
    BY <2>3 DEF NoForgottenFilter
  <2>5. CASE op.token = "final"
    <3>1. wire = <<>> /\ \A x \in entry.known : session[x] = 0
      BY <2>5 DEF TokenInv
    <3>2. session[t] # 0
      BY <1>4, <2>1, <3>1, NothingIsTyped
    <3>3. QED
      BY <1>1, <2>2, <2>4, <2>5, <3>1, <3>2
  <2>6. CASE op.token # "final"
    BY <1>1, <2>2, <2>4, <2>6
  <2>7. QED
    BY <2>5, <2>6
<1>11. QED
  BY <1>5, <1>6, <1>7, <1>8, <1>9, <1>10

LEMMA CallReturnsStep ==
  ASSUME IInv, CallReturns
  PROVE  IInv'
<1> USE DEF IInv
<1> DEFINE link == IF op.old THEN old.link ELSE client.link
           p == [kind |-> IF op.qos = 0 THEN "unsubscribe" ELSE "subscribe",
                 topics |-> {op.topic}, qos |-> op.qos,
                 to |-> IF op.kind = "abandoned" THEN "nobody" ELSE "op"]
<1>1. /\ UNCHANGED <<plan, version, worker, entry, run, client, old, session, leaked, publisher,
                     closed, trouble>>
      /\ op.method = "calling" /\ op \in Ops /\ wire \in Seq(Packets)
      /\ entry.known \subseteq Topics
      /\ \/ /\ link = "up" /\ wire' = Append(wire, p)
            /\ op' = [op EXCEPT !.method = "returned"]
         \/ /\ link # "up" /\ wire' = wire
            /\ op' = [op EXCEPT !.method = "returned", !.token = "failed"]
  BY DEF CallReturns, config, paho, RunTypes, BrokerTypes, Entries
<1>2. /\ op' \in Ops /\ op'.method = "returned" /\ op'.kind = op.kind /\ op'.topic = op.topic
      /\ op'.qos = op.qos /\ op'.old = op.old
      /\ op'.token = IF link = "up" THEN op.token ELSE "failed"
  BY <1>1 DEF Ops
<1>3. /\ op.token = "pending" /\ op.kind # "none" /\ op.topic \in entry.known
      /\ run.at # "gone"
  BY <1>1, NoOpFields DEF TokenInv, OpInv, GoneInv
<1>4. /\ p \in Packets /\ p.topics = {op.topic} /\ p.qos = op.qos
      /\ p.to = IF op.kind = "abandoned" THEN "nobody" ELSE "op"
  BY <1>1, <1>3 DEF Packets, Ops
<1> HIDE DEF p
<1>5. /\ wire' \in Seq(Packets)
      /\ \A i \in DOMAIN wire' :
           \/ wire'[i] = p /\ i = Len(wire') /\ link = "up"
           \/ i \in DOMAIN wire /\ wire'[i] = wire[i]
  BY <1>1, <1>4, AppendFacts
<1>6. \A i \in DOMAIN wire : wire[i].to # "op" /\ wire[i].to # "final"
  BY <1>1 DEF WireInv
<1>7. op.kind # "abandoned" => run.at = "operate" /\ ~op.old
  <2>1. op.kind # "abandoned" => op.kind \in {"subscribe", "unsubscribe"}
    BY <1>1, <1>3 DEF Ops
  <2>2. run.at # "apply"
    BY <1>3 DEF TokenInv
  <2>3. QED
    BY <2>1, <2>2 DEF OpInv
<1> HIDE DEF link
<1>8. WorkerTypes' /\ RunTypes' /\ BrokerTypes'
  BY <1>1, <1>2, <1>5, FrameTypes DEF RunTypes, BrokerTypes
<1>9. RunInv' /\ GoneInv'
  BY <1>1, <1>3 DEF RunInv, GoneInv, Cancelled
<1>10. OpInv'
  BY <1>1, <1>2, <1>3 DEF OpInv, Cancelled
<1>11. TokenInv'
  BY <1>1, <1>2, <1>3 DEF TokenInv
<1>12. WireInv'
  <2>1. ASSUME NEW i \in DOMAIN wire'
        PROVE  /\ wire'[i].qos # 0 => wire'[i].topics \subseteq entry.known
               /\ wire'[i].to # "final"
               /\ wire'[i].to = "op" =>
                    /\ i = Len(wire') /\ run.at = "operate" /\ op'.token = "pending"
                    /\ wire'[i].topics = {op.topic} /\ wire'[i].qos = op.qos
    <3>1. CASE wire'[i] = p /\ i = Len(wire') /\ link = "up"
      BY <1>2, <1>3, <1>4, <1>7, <3>1
    <3>2. CASE i \in DOMAIN wire /\ wire'[i] = wire[i]
      BY <1>6, <3>2 DEF WireInv
    <3>3. QED
      BY <1>5, <3>1, <3>2
  <2>2. QED
    BY <1>1, <1>2, <2>1 DEF WireInv
<1>13. FreshInv'
  <2>1. Live /\ ~run.restart /\ (\E i \in DOMAIN wire' : wire'[i].to # "op") =>
          entry.applied = Nothing
    <3>1. SUFFICES ASSUME Live, ~run.restart, NEW i \in DOMAIN wire', wire'[i].to # "op"
                   PROVE  entry.applied = Nothing
      OBVIOUS
    <3>2. op.kind # "abandoned"
      BY <3>1 DEF OpInv, Live, Cancelled
    <3>3. i \in DOMAIN wire /\ wire'[i] = wire[i]
      BY <1>4, <1>5, <3>1, <3>2
    <3>4. QED
      BY <3>1, <3>3 DEF FreshInv
  <2>2. Steady /\ run.at \in {"operate", "apply"} => op'.token = "pending"
    <3>1. run.at \in {"operate", "apply"} => ~op.old
      BY DEF OpInv
    <3>2. QED
      BY <1>2, <1>3, <3>1 DEF Steady, link
  <2>3. QED
    BY <1>1, <2>1, <2>2 DEF FreshInv, Steady, Live
<1>14. BeliefInv'
  BY <1>1 DEF BeliefInv, Steady, Untouched, Live
<1>15. PinInv' /\ NoForgottenFilter'
  BY <1>1 DEF PinInv, NoForgottenFilter, Live
<1>16. QED
  BY <1>8, <1>9, <1>10, <1>11, <1>12, <1>13, <1>14, <1>15

-----------------------------------------------------------------------------
(* The broker reads a packet. *)

LEMMA TailFacts ==
  ASSUME wire \in Seq(Packets), wire # <<>>, wire' = Tail(wire)
  PROVE  /\ wire' \in Seq(Packets) /\ wire[1] = Head(wire) /\ wire[1] \in Packets
         /\ 1 \in DOMAIN wire
         /\ \A i \in DOMAIN wire' : /\ i + 1 \in DOMAIN wire /\ wire'[i] = wire[i + 1]
                                    /\ i + 1 = Len(wire) => i = Len(wire')
         /\ Len(wire) = 1 => wire' = <<>>
OBVIOUS

LEMMA TroubleType ==
  ASSUME WorkerTypes, UNCHANGED plan, UNCHANGED trouble \/ Trouble
  PROVE  trouble' \in 0..plan'.troubles
<1>1. plan.troubles \in Nat
  BY MqttAssumption DEF MqttAssumption, WorkerTypes
<1>2. trouble \in 0..plan.troubles /\ (trouble' = trouble \/ trouble' = trouble + 1)
  BY DEF WorkerTypes, Trouble
<1>3. trouble' # trouble => trouble < plan.troubles
  BY DEF Trouble
<1>4. trouble' \in 0..plan.troubles
  BY ONLY <1>1, <1>2, <1>3
<1>5. QED
  BY <1>4

\* What all packets have in common.
LEMMA ServeMoves ==
  ASSUME IInv, Serve
  PROVE  /\ UNCHANGED <<plan, version, worker, entry, run, client, old, leaked, publisher,
                        closed>>
         /\ wire # <<>> /\ WorkerTypes' /\ RunTypes' /\ BrokerTypes'
         /\ RunInv' /\ GoneInv' /\ OpInv' /\ PinInv' /\ NoForgottenFilter'
         /\ op'.kind = op.kind /\ op'.topic = op.topic /\ op'.qos = op.qos
         /\ op'.method = op.method
<1> USE DEF IInv
<1> DEFINE p == wire[1]
<1>1. /\ UNCHANGED <<plan, version, worker, entry, run, client, old, leaked, publisher, closed>>
      /\ wire # <<>> /\ wire' = Tail(wire) /\ wire \in Seq(Packets) /\ op \in Ops
      /\ session \in Sessions
  BY DEF Serve, config, paho, RunTypes, BrokerTypes, Sessions
<1>2. /\ wire' \in Seq(Packets) /\ p = Head(wire) /\ p \in Packets /\ 1 \in DOMAIN wire
  BY <1>1, TailFacts
<1> HIDE DEF p
<1>3. /\ op' = op \/ \E k \in {"acked", "final", "rejected"} : op' = [op EXCEPT !.token = k]
      /\ session' \in {session, Perform(session, p)}
      /\ UNCHANGED trouble \/ Trouble
  BY <1>2 DEF Serve
<1>4. /\ op' \in Ops /\ op'.kind = op.kind /\ op'.topic = op.topic /\ op'.qos = op.qos
      /\ op'.method = op.method /\ op'.old = op.old
  BY <1>1, <1>3 DEF Ops
<1>5. /\ session' \in Sessions
      /\ \A t \in Topics : session'[t] # 0 => session[t] # 0 \/ (p.qos # 0 /\ t \in p.topics)
  BY <1>1, <1>2, <1>3, PerformType
<1>6. WorkerTypes'
  BY <1>1, <1>3, TroubleType DEF WorkerTypes, TopicOf
<1>7. RunTypes' /\ BrokerTypes'
  BY <1>1, <1>2, <1>4, <1>5 DEF RunTypes, BrokerTypes, Sessions
<1>8. RunInv' /\ GoneInv'
  BY <1>1 DEF RunInv, GoneInv, Cancelled
<1>9. OpInv'
  BY <1>1, <1>4 DEF OpInv, Cancelled
<1>10. PinInv'
  BY <1>1 DEF PinInv, Live
<1>11. NoForgottenFilter'
  <2>1. p.qos # 0 => p.topics \subseteq entry.known
    BY <1>2 DEF WireInv, p
  <2>2. QED
    BY <1>1, <1>5, <2>1 DEF NoForgottenFilter
<1>12. QED
  BY <1>1, <1>4, <1>6, <1>7, <1>8, <1>9, <1>10, <1>11

LEMMA ServeStep ==
  ASSUME IInv, Serve
  PROVE  IInv'
<1> DEFINE p == wire[1]
<1>1. /\ UNCHANGED <<plan, version, worker, entry, run, client, old, leaked, publisher, closed>>
      /\ WorkerTypes' /\ RunTypes' /\ BrokerTypes'
      /\ RunInv' /\ GoneInv' /\ OpInv' /\ PinInv' /\ NoForgottenFilter'
      /\ op'.kind = op.kind /\ op'.topic = op.topic /\ op'.qos = op.qos
      /\ op'.method = op.method
  BY ServeMoves
<1> USE DEF IInv
<1>2. /\ wire # <<>> /\ wire' = Tail(wire) /\ wire \in Seq(Packets) /\ op \in Ops
      /\ session \in Sessions
  BY DEF Serve, RunTypes, BrokerTypes, Sessions
<1>3. /\ p = Head(wire) /\ p \in Packets /\ 1 \in DOMAIN wire
      /\ \A i \in DOMAIN wire' : /\ i + 1 \in DOMAIN wire /\ wire'[i] = wire[i + 1]
                                 /\ i + 1 = Len(wire) => i = Len(wire')
      /\ Len(wire) = 1 => wire' = <<>>
  BY <1>2, TailFacts
<1> HIDE DEF p
<1>4. \A t \in Topics : Perform(session, p)[t] = IF t \in p.topics THEN p.qos ELSE session[t]
  BY <1>2, <1>3, PerformType
<1>5. TokenInv' /\ WireInv' /\ FreshInv' /\ BeliefInv'
  <2>1. CASE p.to = "op"
    <3>1. /\ wire' = <<>> /\ run.at = "operate" /\ op.method = "returned"
          /\ op.token = "pending" /\ p.topics = {op.topic} /\ p.qos = op.qos
      BY <1>3, <2>1 DEF WireInv, p
    <3>2. op.topic \in Topics
      BY <3>1 DEF OpInv, RunTypes, Entries
    <3>3. \/ /\ op'.token = "acked" /\ session' = Perform(session, p)
          \/ /\ op'.token = "pending" /\ session' = Perform(session, p)
          \/ /\ op'.token = "rejected" /\ session' = session
      BY <1>2, <1>3, <2>1, <3>1 DEF Serve, Ops
    <3>4. op'.token # "rejected" => /\ session'[op.topic] = op.qos
                                    /\ \A t \in Topics : t # op.topic => session'[t] = session[t]
      BY <1>4, <3>1, <3>2, <3>3
    <3>5. TokenInv' /\ WireInv'
      BY <1>1, <3>1, <3>3, <3>4 DEF TokenInv, WireInv
    <3>6. FreshInv'
      BY <1>1, <3>1, <3>3, <3>4 DEF FreshInv, Live
    <3>7. BeliefInv'
      <4>1. SUFFICES ASSUME Steady', ~run.restart, NEW t \in Topics, Untouched(t)'
                     PROVE  entry.applied[t] \in {0, session'[t]}
        BY <1>1 DEF BeliefInv
      <4>2. Untouched(t)
        BY <1>3, <2>1 DEF Untouched, p
      <4>3. entry.applied[t] \in {0, session[t]}
        BY <1>1, <4>1, <4>2 DEF BeliefInv, Steady, Live
      <4>4. t = op.topic => op'.token = "rejected"
        BY <1>1, <3>1, <4>1 DEF Untouched
      <4>5. QED
        BY <3>3, <3>4, <4>3, <4>4
    <3>8. QED
      BY <3>5, <3>6, <3>7
  <2>2. CASE p.to = "final"
    <3>1. /\ wire' = <<>> /\ run.at \in {"final", "disconnect"} /\ op.method # "calling"
          /\ p.topics = entry.known /\ p.qos = 0
      BY <1>3, <2>2 DEF WireInv, p
    <3>2. op'.token = "final" /\ session' = Perform(session, p)
      BY <1>2, <1>3, <2>2 DEF Serve, Ops
    <3>3. ~Live /\ entry.known \subseteq Topics
      BY <3>1 DEF RunInv, Live, Cancelled, RunTypes, Entries
    <3>4. \A t \in entry.known : session'[t] = 0
      BY <1>4, <3>1, <3>2, <3>3
    <3>5. TokenInv' /\ WireInv'
      BY <1>1, <3>1, <3>2, <3>4 DEF TokenInv, WireInv
    <3>6. FreshInv' /\ BeliefInv'
      BY <1>1, <3>1, <3>3 DEF FreshInv, BeliefInv, Steady, Live
    <3>7. QED
      BY <3>5, <3>6
  <2>3. CASE p.to = "nobody"
    <3>1. op' = op
      BY <1>2, <1>3, <2>3 DEF Serve
    <3>2. TokenInv'
      BY <1>1, <1>2, <3>1 DEF TokenInv
    <3>3. WireInv'
      BY <1>1, <1>3, <3>1 DEF WireInv
    <3>4. Live /\ ~run.restart => entry.applied = Nothing
      BY <1>3, <2>3 DEF FreshInv, p
    <3>5. FreshInv'
      BY <1>1, <1>2, <3>1, <3>4 DEF FreshInv, TokenInv, Steady, Live
    <3>6. BeliefInv'
      BY <1>1, <3>4, NothingIsTyped DEF BeliefInv, Steady, Live
    <3>7. QED
      BY <3>2, <3>3, <3>5, <3>6
  <2>4. QED
    BY <1>3, <2>1, <2>2, <2>3 DEF Packets
<1>6. QED
  BY <1>1, <1>5

-----------------------------------------------------------------------------
(* The connection comes and goes, and is heard of. *)

LEMMA LinkUpStep ==
  ASSUME IInv, LinkUp
  PROVE  IInv'
<1> USE DEF IInv
<1>1. /\ UNCHANGED <<plan, version, worker, entry, run, op, old, wire, publisher, closed, trouble>>
      /\ client' = [client EXCEPT !.link = "up", !.greetings = @ + 1] /\ client \in Clients
      /\ \/ session' = Nothing /\ leaked' = {}
         \/ session' = session /\ leaked' = leaked
  BY DEF LinkUp, config, RunTypes
<1>2. /\ client' \in Clients /\ client'.link = "up" /\ client'.greetings # 0
      /\ client'.greeted = client.greeted
  <2> DEFINE n == client.greetings + 1
  <2>1. n \in Nat /\ n # 0
    BY <1>1 DEF Clients
  <2>2. client' = [client EXCEPT !.link = "up", !.greetings = n]
    BY <1>1
  <2> HIDE DEF n
  <2>3. QED
    BY <1>1, <2>1, <2>2 DEF Clients
<1>3. WorkerTypes' /\ RunTypes' /\ BrokerTypes'
  BY <1>1, <1>2, NothingIsTyped, FrameTypes DEF RunTypes, BrokerTypes
<1>4. RunInv' /\ GoneInv' /\ OpInv' /\ WireInv'
  BY <1>1 DEF RunInv, GoneInv, OpInv, WireInv, Cancelled
<1>5. TokenInv'
  <2>1. op.kind \in {"subscribe", "unsubscribe"} => op.topic \in Topics
    BY DEF OpInv, RunTypes, Entries
  <2>2. op.token = "acked" => op.topic \in Topics
    BY <2>1 DEF TokenInv, OpInv
  <2>3. entry.known \subseteq Topics
    BY DEF RunTypes, Entries
  <2>4. CASE session' = session
    BY <1>1, <2>4 DEF TokenInv
  <2>5. CASE session' = Nothing
    BY <1>1, <2>2, <2>3, <2>5, NothingIsTyped DEF TokenInv
  <2>6. QED
    BY <1>1, <2>4, <2>5
<1>6. FreshInv' /\ BeliefInv'
  BY <1>1, <1>2 DEF FreshInv, BeliefInv, Steady, Live
<1>7. PinInv'
  BY <1>1, <1>2 DEF PinInv, Live
<1>8. NoForgottenFilter'
  BY <1>1, NothingIsTyped DEF NoForgottenFilter
<1>9. QED
  BY <1>3, <1>4, <1>5, <1>6, <1>7, <1>8

LEMMA LinkLostStep ==
  ASSUME IInv, LinkLost
  PROVE  IInv'
<1> USE DEF IInv
<1>1. /\ UNCHANGED <<plan, version, worker, entry, run, old, leaked, publisher, closed>>
      /\ client' = [client EXCEPT !.link = "down"] /\ client \in Clients /\ client.link = "up"
      /\ Hangup /\ Trouble /\ op \in Ops
      /\ \/ op' = op
         \/ op.method = "returned" /\ op' = [op EXCEPT !.token = "failed"]
  BY DEF LinkLost, config, RunTypes
<1>2. /\ client' \in Clients /\ client'.link = "down" /\ client'.greeted = client.greeted
      /\ op' \in Ops /\ op'.kind = op.kind /\ op'.topic = op.topic /\ op'.qos = op.qos
      /\ op'.method = op.method /\ op'.old = op.old
      /\ op' = op \/ (op.method = "returned" /\ op'.token = "failed")
  BY <1>1 DEF Clients, Ops
<1>3. /\ wire' = <<>> /\ session' \in Sessions
      /\ \A t \in Topics : session'[t] # 0 => session[t] # 0 \/ t \in entry.known
      /\ wire = <<>> => session' \in {session, Nothing}
  BY <1>1, HangupEffect, SubscribedIsKnown
<1>4. WorkerTypes'
  BY <1>1, TroubleType DEF WorkerTypes, TopicOf
<1>5. RunTypes' /\ BrokerTypes'
  BY <1>1, <1>2, <1>3 DEF RunTypes, BrokerTypes, Sessions
<1>6. RunInv' /\ GoneInv'
  BY <1>1, <1>2, <1>3, NoOpFields DEF RunInv, GoneInv, Cancelled
<1>7. OpInv' /\ WireInv'
  BY <1>1, <1>2, <1>3 DEF OpInv, WireInv, Cancelled
<1>8. TokenInv'
  <2>1. CASE op' = op
    <3>1. op.token \in {"acked", "final"} => session' \in {session, Nothing}
      BY <1>3 DEF TokenInv
    <3>2. op.token = "acked" => op.topic \in Topics
      BY DEF TokenInv, OpInv, RunTypes, Entries
    <3>3. entry.known \subseteq Topics
      BY DEF RunTypes, Entries
    <3>4. op.token = "acked" => session'[op.topic] \in {0, op.qos}
      BY <3>1, <3>2, NothingIsTyped DEF TokenInv
    <3>5. op.token = "final" => \A t \in entry.known : session'[t] = 0
      BY <3>1, <3>3, NothingIsTyped DEF TokenInv
    <3>6. QED
      BY <1>1, <1>3, <2>1, <3>4, <3>5 DEF TokenInv
  <2>2. CASE op.method = "returned" /\ op'.token = "failed"
    <3>1. run.at # "apply" \/ op.token = "acked"
      BY DEF TokenInv
    <3>2. CASE run.at # "apply"
      BY <1>1, <1>2, <2>2, <3>2 DEF TokenInv
    <3>3. CASE run.at = "apply"
      BY <1>1, <2>2, <3>3 DEF TokenInv, LinkLost
    <3>4. QED
      BY <3>2, <3>3
  <2>3. QED
    BY <1>2, <2>1, <2>2
<1>9. FreshInv' /\ BeliefInv'
  BY <1>1, <1>2, <1>3 DEF FreshInv, BeliefInv, Steady, Live
<1>10. PinInv'
  BY <1>1, <1>2 DEF PinInv, Live
<1>11. NoForgottenFilter'
  BY <1>1, <1>3 DEF NoForgottenFilter
<1>12. QED
  BY <1>4, <1>5, <1>6, <1>7, <1>8, <1>9, <1>10, <1>11

LEMMA OnConnectStep ==
  ASSUME IInv, OnConnect
  PROVE  IInv'
<1> USE DEF IInv
<1>1. /\ UNCHANGED <<plan, version, worker, run, op, old, wire, session, leaked, publisher,
                     closed, trouble>>
      /\ client' = [client EXCEPT !.greetings = @ - 1, !.greeted = TRUE]
      /\ client.greetings > 0 /\ client \in Clients /\ entry \in Entries
      /\ entry' = IF Live THEN Greeted(entry) ELSE entry
  BY DEF OnConnect, config, broker, RunTypes
<1>2. /\ client' \in Clients /\ client'.link = client.link /\ client'.greeted
  <2> DEFINE n == client.greetings - 1
  <2>1. n \in Nat
    BY <1>1 DEF Clients
  <2>2. client' = [client EXCEPT !.greetings = n, !.greeted = TRUE]
    BY <1>1
  <2> HIDE DEF n
  <2>3. QED
    BY <1>1, <2>1, <2>2 DEF Clients
<1>3. /\ entry' \in Entries /\ entry'.state = entry.state /\ entry'.known = entry.known
      /\ entry'.publishes = entry.publishes
      /\ entry'.gen \in {entry.gen, entry.gen + 1}
      /\ Live => entry'.gen = entry.gen + 1 /\ entry'.applied = Nothing
      /\ ~Live => entry' = entry
  <2>1. /\ Greeted(entry) \in Entries /\ Greeted(entry).state = entry.state
        /\ Greeted(entry).known = entry.known /\ Greeted(entry).publishes = entry.publishes
        /\ Greeted(entry).gen = entry.gen + 1 /\ Greeted(entry).applied = Nothing
    <3> DEFINE n == entry.gen + 1
    <3>1. n \in Nat
      BY <1>1 DEF Entries
    <3>2. Greeted(entry) = [entry EXCEPT !.restarting = FALSE, !.gen = n, !.applied = Nothing]
      BY DEF Greeted
    <3> HIDE DEF n
    <3>3. /\ Greeted(entry) \in Entries /\ Greeted(entry).state = entry.state
          /\ Greeted(entry).known = entry.known /\ Greeted(entry).publishes = entry.publishes
          /\ Greeted(entry).gen = n /\ Greeted(entry).applied = Nothing
      BY <1>1, <3>1, <3>2, NothingIsTyped DEF Entries
    <3>4. QED
      BY <3>3 DEF n
  <2>2. QED
    BY <1>1, <2>1
<1>4. WorkerTypes' /\ RunTypes' /\ BrokerTypes'
  BY <1>1, <1>2, <1>3, FrameTypes DEF RunTypes, BrokerTypes
<1>5. RunInv' /\ GoneInv'
  <2>1. run.g \in Nat /\ entry.gen \in Nat
    BY DEF RunTypes, Runs, Entries
  <2>2. run.g <= entry.gen => run.g <= entry'.gen
    BY <1>3, <2>1
  <2>3. QED
    BY <1>1, <1>3, <2>2 DEF RunInv, GoneInv, Cancelled
<1>6. OpInv' /\ TokenInv' /\ WireInv'
  BY <1>1, <1>3 DEF OpInv, TokenInv, WireInv, Cancelled
<1>7. FreshInv'
  <2>1. CASE Live
    <3>1. run.at \in {"reconcile", "operate", "apply"} => entry'.gen # run.g
      <4>1. run.g \in Nat /\ entry.gen \in Nat
        BY DEF RunTypes, Runs, Entries
      <4>2. QED
        BY <1>3, <2>1, <4>1 DEF RunInv
    <3>2. QED
      BY <1>1, <1>3, <2>1, <3>1 DEF FreshInv
  <2>2. CASE ~Live
    BY <1>1, <1>3, <2>2 DEF FreshInv, Steady, Live
  <2>3. QED
    BY <2>1, <2>2
<1>8. BeliefInv'
  <2>1. CASE Live
    BY <1>1, <1>3, <2>1, NothingIsTyped DEF BeliefInv
  <2>2. CASE ~Live
    BY <1>1, <1>3, <2>2 DEF BeliefInv, Steady, Live
  <2>3. QED
    BY <2>1, <2>2
<1>9. PinInv'
  BY <1>1, <1>2, <1>3 DEF PinInv, Live
<1>10. NoForgottenFilter'
  BY <1>1, <1>3 DEF NoForgottenFilter
<1>11. QED
  BY <1>4, <1>5, <1>6, <1>7, <1>8, <1>9, <1>10

LEMMA OldOnConnectStep ==
  ASSUME IInv, OldOnConnect
  PROVE  IInv'
<1> USE DEF IInv
<1>1. /\ UNCHANGED <<plan, version, worker, entry, run, op, client, wire, session, leaked,
                     publisher, closed, trouble>>
      /\ old' = [old EXCEPT !.greetings = @ - 1] /\ old.greetings > 0 /\ old \in Clients
  BY DEF OldOnConnect, FromOld, config, broker, RunTypes
<1>2. old' \in Clients
  BY <1>1 DEF Clients
<1>3. WorkerTypes' /\ RunTypes' /\ BrokerTypes'
  BY <1>1, <1>2, FrameTypes DEF RunTypes, BrokerTypes
<1>4. RunInv' /\ GoneInv' /\ OpInv' /\ TokenInv' /\ WireInv'
  BY <1>1 DEF RunInv, GoneInv, OpInv, TokenInv, WireInv, Cancelled
<1>5. FreshInv' /\ BeliefInv'
  BY <1>1 DEF FreshInv, BeliefInv, Steady, Untouched, Live
<1>6. PinInv' /\ NoForgottenFilter'
  BY <1>1 DEF PinInv, NoForgottenFilter, Live
<1>7. QED
  BY <1>3, <1>4, <1>5, <1>6

-----------------------------------------------------------------------------
(* Theorems. *)

LEMMA InitIInv ==
  ASSUME Init
  PROVE  IInv
<1>1. /\ plan \in Plans /\ version = 1
      /\ worker = [w \in Workers |->
           [at |-> IF plan.config[1].topic[w] = NoTopic THEN "off" ELSE "watching", v |-> 1]]
      /\ entry = NoEntry /\ run = [NewRun EXCEPT !.at = "gone"] /\ op = NoOp
      /\ client = Closed /\ old = Closed
      /\ wire = <<>> /\ session = Nothing /\ leaked = {}
      /\ publisher = [at |-> "idle", left |-> plan.publishes]
      /\ closed = FALSE /\ trouble = 0
  BY DEF Init
<1>2. /\ entry \in Entries /\ entry.state = "none" /\ entry.known = {}
      /\ entry.applied = Nothing /\ entry.gen = 0
  BY <1>1, NoEntryFields
<1>3. run \in Runs /\ run.at = "gone" /\ client \in Clients /\ old \in Clients
  BY <1>1 DEF NewRun, Runs, Places, Closed, Clients
<1>4. WorkerTypes
  <2>1. /\ plan.publishes \in Nat /\ plan.troubles \in Nat
        /\ plan.config[1].topic \in [Workers -> Topics \cup {NoTopic}]
    <3>1. 1 \in 1..2
      OBVIOUS
    <3>2. QED
      BY <1>1, <3>1, MqttAssumption DEF MqttAssumption
  <2>2. publisher \in [at : {"idle", "waiting"}, left : Nat] /\ trouble \in 0..plan.troubles
    BY <1>1, <2>1
  <2>3. worker \in [Workers -> [at : {"off", "watching", "owning", "stopping", "refused"},
                                v : 1..2]]
    BY <1>1
  <2>4. \A w \in Workers : worker[w].at = "watching" => TopicOf(w) \in Topics
    BY <1>1, <2>1 DEF TopicOf
  <2>5. closed \in BOOLEAN
    BY <1>1, Zenon
  <2>6. plan \in Plans /\ version \in 1..2
    <3>1. 1 \in 1..2
      OBVIOUS
    <3>2. QED
      BY <1>1, <3>1
  <2>7. QED
    BY <2>2, <2>3, <2>4, <2>5, <2>6 DEF WorkerTypes
<1>5. RunTypes /\ BrokerTypes
  BY <1>1, <1>2, <1>3, NoOpFields, NothingIsTyped DEF RunTypes, BrokerTypes
<1>6. RunInv /\ GoneInv
  BY <1>1, <1>2, <1>3 DEF RunInv, GoneInv
<1>7. OpInv /\ TokenInv /\ WireInv
  BY <1>1, <1>3, NoOpFields DEF OpInv, TokenInv, WireInv
<1>8. FreshInv /\ BeliefInv
  BY <1>2, <1>3 DEF FreshInv, BeliefInv, Steady, Live
<1>9. PinInv /\ NoForgottenFilter
  BY <1>1, <1>2, NothingIsTyped DEF PinInv, NoForgottenFilter
<1>10. QED
  BY <1>4, <1>5, <1>6, <1>7, <1>8, <1>9 DEF IInv

LEMMA RunnerStep ==
  ASSUME IInv, RunStep
  PROVE  IInv'
<1>1. CASE Connect \/ ConnectReturns
  BY <1>1, EndStep, ConnectStep, ConnectedStep
<1>2. CASE SeeCancelled \/ SkipFinal \/ FinalEnds
  BY <1>2, EndStep
<1>3. CASE Replace \/ Discard \/ Reconcile
  BY <1>3, ReplaceStep, DiscardStep, ReconcileStep
<1>4. CASE ReconcileEnds \/ \E t \in Topics : Change(t)
  BY <1>4, LookStep, ChangeStep
<1>5. CASE OperateCancelled \/ Expire \/ ConnectionChanged
  BY <1>5, AbandonStep
<1>6. CASE OperationFails \/ Acknowledged \/ Apply
  BY <1>6, FailStep, AcknowledgedStep, ApplyStep
<1>7. CASE Final \/ Disconnect
  BY <1>7, FinalStep, DisconnectStep
<1>8. QED
  BY <1>1, <1>2, <1>3, <1>4, <1>5, <1>6, <1>7 DEF RunStep

LEMMA StutterStep ==
  ASSUME IInv, UNCHANGED vars
  PROVE  IInv'
<1>1. WorkerTypes' /\ RunTypes' /\ BrokerTypes'
  BY FrameTypes DEF IInv, vars, RunTypes, BrokerTypes
<1>2. RunInv' /\ GoneInv' /\ OpInv' /\ TokenInv' /\ WireInv'
  BY DEF IInv, vars, RunInv, GoneInv, OpInv, TokenInv, WireInv, Cancelled
<1>3. FreshInv' /\ BeliefInv' /\ PinInv' /\ NoForgottenFilter'
  BY DEF IInv, vars, FreshInv, BeliefInv, PinInv, NoForgottenFilter, Steady, Untouched, Live
<1>4. QED
  BY <1>1, <1>2, <1>3 DEF IInv

LEMMA NextIInv ==
  ASSUME IInv, [Next]_vars
  PROVE  IInv'
<1>1. ASSUME NEW w \in Workers, WorkerStep(w) PROVE IInv'
  BY <1>1, WatchStep, IdleMoves, ReleasedStep DEF WorkerStep
<1>2. CASE Reload
  <2>1. CASE Workers = {}
    <3>1. WorkerTypes'
      BY <1>2, <2>1 DEF IInv, WorkerTypes, Reload
    <3>2. QED
      BY <1>2, <3>1, EntryMoves DEF IInv, Reload, PinInv, Live, RunTypes, paho, broker
  <2>2. CASE Workers # {}
    BY <1>2, <2>2, IdleMoves
  <2>3. QED
    BY <2>1, <2>2
<1>3. CASE StartPublish \/ EndPublish
  BY <1>3, PublishStep
<1>4. CASE Close
  BY <1>4, CloseStep
<1>5. CASE RunStep
  BY <1>5, RunnerStep
<1>6. CASE CallReturns \/ Serve
  BY <1>6, CallReturnsStep, ServeStep
<1>7. CASE LinkUp \/ LinkLost
  BY <1>7, LinkUpStep, LinkLostStep
<1>8. CASE OnConnect \/ OldOnConnect
  BY <1>8, OnConnectStep, OldOnConnectStep
<1>9. CASE UNCHANGED vars
  BY <1>9, StutterStep
<1>10. QED
  BY <1>1, <1>2, <1>3, <1>4, <1>5, <1>6, <1>7, <1>8, <1>9 DEF Next

LEMMA Invariance == Spec => []IInv
BY InitIInv, NextIInv, PTL DEF Spec

\* Every variable of the manager keeps its type, the goroutine of an entry lives exactly as
\* long as the entry, and only a change of a subscription is ever applied
\* (mqtt_manager.go:226-289, 418-428).
THEOREM TypeCorrect == Spec => []TypeOK
<1>1. IInv => TypeOK
  <2>1. SUFFICES ASSUME IInv PROVE TypeOK
    OBVIOUS
  <2>2. /\ version \in 1..2 /\ closed \in BOOLEAN /\ trouble \in 0..plan.troubles
        /\ worker \in [Workers -> [at : {"off", "watching", "owning", "stopping", "refused"},
                                   v : 1..2]]
    BY <2>1 DEF IInv, WorkerTypes
  <2>3. /\ entry \in Entries /\ run \in Runs /\ op \in Ops /\ client \in Clients
        /\ session \in [Topics -> 0..2] /\ leaked \subseteq Topics
        /\ (run.at = "gone") = (entry.state = "none")
        /\ run.at = "apply" => op.kind \in {"subscribe", "unsubscribe"}
    BY <2>1 DEF IInv, RunTypes, BrokerTypes, RunInv, OpInv
  <2>4. QED
    BY <2>2, <2>3 DEF TypeOK, Entries, Runs, Places, Ops, Clients
<1>2. QED
  BY <1>1, Invariance, PTL

\* What the manager believes to be subscribed is subscribed at that QoS, while the
\* connection is up, its callbacks have run and no change of the topic is under way:
\* nothing else would make reconcile send again (mqtt_manager.go:386-392, 418-428).
THEOREM AppliedIsSubscribedHolds == Spec => []AppliedIsSubscribed
<1>1. IInv => AppliedIsSubscribed
  BY DEF IInv, AppliedIsSubscribed, BeliefInv, Steady, Untouched, RunTypes, Clients
<1>2. QED
  BY <1>1, Invariance, PTL

\* A filter that a session of the broker holds is known to the entry, or the entry's final
\* Unsubscribe was not confirmed (mqtt_manager.go:324-361, 418-424).
THEOREM NoForgottenFilterHolds == Spec => []NoForgottenFilter
<1>1. IInv => NoForgottenFilter
  BY DEF IInv
<1>2. QED
  BY <1>1, Invariance, PTL

\* The client of a publish in flight is greeted and stays open until the publish ends,
\* unless the manager is closed (mqtt_manager.go:253-270, 476-505).
THEOREM PublishPinsClientHolds == Spec => []PublishPinsClient
<1>1. IInv => PublishPinsClient
  BY DEF IInv, PublishPinsClient, PinInv
<1>2. QED
  BY <1>1, Invariance, PTL
=============================================================================
