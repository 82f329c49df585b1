----------------------------- MODULE GatewayPool -----------------------------
(***************************************************************************)
(* The TCP connection pool of the Modbus gateways: one cached connection   *)
(* per endpoint, an exclusive guard per endpoint, transactions of          *)
(* collectors and control commands, the health check of pure gateways, and *)
(* the configuration refresh that closes everything.                       *)
(*                                                                         *)
(* Source: src/internal/conn/manager.go and gateway_health.go; the order   *)
(* in which callers reset and release is that of collector/modbus.go and   *)
(* control/control.go.  A step holds no lock across its end, except where  *)
(* the code keeps one over something that takes time: ApplyConfig and      *)
(* Close keep m.mu while they visit the entries (variable sweep),          *)
(* ensureGatewayConn keeps entry.mu while it dials, ResetConnection keeps  *)
(* m.mu from closing a connection to clearing it.  What a health check     *)
(* reports, its failure counters and its Redis writes are not here;        *)
(* preDialGateways opens and closes a connection the pool never sees.      *)
(***************************************************************************)
EXTENDS Integers, FiniteSets, Functions

CONSTANTS
  Keys,           \* endpoints ip:port; a pure gateway has one health checker
  Collectors,     \* device workers: they reset a failed connection, then release
  Controls,       \* control commands: they release, then reset
  Entries,        \* gatewayConn records
  Conns,          \* net.Conn values
  Configs,        \* the configurations a refresh may bring
  NoKey, NoEntry, NoConn,
  MaxGeneration   \* bound of the model: refreshes

Users == Collectors \cup Controls

\* A configuration: the endpoint of each user's device, and the pure gateways.
Config == [endpoint : [Users -> Keys \cup {NoKey}], targets : SUBSET Keys]

ASSUME PoolAssumption ==
  /\ Collectors \cap Controls = {}
  /\ NoKey \notin Keys /\ NoEntry \notin Entries /\ NoConn \notin Conns
  /\ Configs \subseteq Config
  /\ MaxGeneration \in Nat \ {0}

VARIABLES
  config,      \* m.devices, m.gateways and m.gatewayTargets
  generation,  \* m.configGeneration
  conns,       \* m.conns
  entryConn,   \* the conn field of each entry
  link,        \* each connection: not closed, and dialled under this configuration
  busy,        \* the endpoints whose guard is taken
  sweep,       \* ApplyConfig or Close under way
  closed,      \* Close has emptied the manager
  at, key, entry, conn, resetKey,       \* of each user
  checkAt, checkGeneration, checkConn   \* of each endpoint's health check

users == <<at, key, entry, conn, resetKey>>
checks == <<checkAt, checkGeneration, checkConn>>
admin == <<config, generation, sweep, closed>>
vars == <<admin, conns, entryConn, link, busy, users, checks>>

NoConfig == [endpoint |-> [u \in Users |-> NoKey], targets |-> {}]

NoSweep == [op |-> "none", todo |-> {}, next |-> NoConfig]

Gateways == Range(config.endpoint) \ {NoKey}

Down == [up |-> FALSE, current |-> FALSE]
Dialling == [up |-> FALSE, current |-> TRUE]

\* InitDefault applies the first configuration before anyone can reach the manager.
Init ==
  /\ config \in Configs
  /\ generation = 1
  /\ conns = [k \in Keys |-> NoEntry]
  /\ entryConn = [e \in Entries |-> NoConn]
  /\ link = [c \in Conns |-> Down]
  /\ busy = {}
  /\ sweep = NoSweep
  /\ closed = FALSE
  /\ at = [u \in Users |-> "idle"]
  /\ key = [u \in Users |-> NoKey]
  /\ entry = [u \in Users |-> NoEntry]
  /\ conn = [u \in Users |-> NoConn]
  /\ resetKey = [u \in Users |-> NoKey]
  /\ checkAt = [k \in Keys |-> "idle"]
  /\ checkGeneration = [k \in Keys |-> 0]
  /\ checkConn = [k \in Keys |-> NoConn]

-----------------------------------------------------------------------------
(* The locks, and what is free to be allocated. *)

\* m.mu: held by a sweep, and by ResetConnection from its close to its clear.
MuFree == /\ sweep.op \notin {"apply", "close"}
          /\ \A u \in Users : at[u] # "clear"

\* entry.mu: held by ensureGatewayConn while it dials.
Unlocked(e) == ~ \E u \in Users : at[u] = "dialling" /\ entry[u] = e

\* What the pool or a user still refers to.  A record out of reach is garbage, and
\* so is a connection nobody has closed: Go's finalizer closes its socket.
FreshEntries == Entries \ (Range(conns) \cup Range(entry))

FreshConns == Conns \ ({entryConn[e] : e \in Entries \ FreshEntries}
                       \cup Range(conn) \cup Range(checkConn))

NewConn == CHOOSE c \in FreshConns : TRUE
NewEntry == CHOOSE e \in FreshEntries : TRUE

Pooled(k) == IF conns[k] = NoEntry THEN NoConn ELSE entryConn[conns[k]]

\* The links after closing one connection.
CloseLink(c) == [x \in Conns |-> IF x = c THEN Down ELSE link[x]]

-----------------------------------------------------------------------------
(* A transaction of a user: ExclusiveConnection, use, release and reset. *)

Goto(u, place) == at' = [at EXCEPT ![u] = place]

Resolve(u) ==
  /\ at[u] = "idle"
  /\ MuFree
  /\ config.endpoint[u] # NoKey
  /\ key' = [key EXCEPT ![u] = config.endpoint[u]]
  /\ Goto(u, "resolved")
  /\ UNCHANGED <<admin, conns, entryConn, link, busy, entry, conn, resetKey, checks>>

\* Mutant: the guard is not tested.
GuardAlwaysFree(k) == TRUE

GuardFree(k) == k \notin busy

\* getGatewayGuard and markBusy; ErrGatewayBusy sends the caller back to try again.
MarkBusy(u) ==
  /\ at[u] = "resolved"
  /\ IF GuardFree(key[u])
     THEN busy' = busy \cup {key[u]} /\ Goto(u, "guarded") /\ UNCHANGED key
     ELSE Goto(u, "idle") /\ key' = [key EXCEPT ![u] = NoKey] /\ UNCHANGED busy
  /\ UNCHANGED <<admin, conns, entryConn, link, entry, conn, resetKey, checks>>

\* Mutant: the user keeps its reference to a connection that is no longer its own.
LeaveHolding(u) ==
  /\ Goto(u, "idle")
  /\ key' = [key EXCEPT ![u] = NoKey]
  /\ entry' = [entry EXCEPT ![u] = NoEntry]
  /\ resetKey' = [resetKey EXCEPT ![u] = NoKey]
  /\ UNCHANGED conn

\* The user is done with everything.
Leave(u) ==
  /\ Goto(u, "idle")
  /\ key' = [key EXCEPT ![u] = NoKey]
  /\ entry' = [entry EXCEPT ![u] = NoEntry]
  /\ conn' = [conn EXCEPT ![u] = NoConn]
  /\ resetKey' = [resetKey EXCEPT ![u] = NoKey]

\* Mutant: the guard stays taken when the connection could not be made.
GiveUpBusy(u) == Leave(u) /\ UNCHANGED busy

\* exclusiveGatewayConn returns an error.
GiveUp(u) == Leave(u) /\ busy' = busy \ {key[u]}

HasEntry(u, e) ==
  /\ entry' = [entry EXCEPT ![u] = e]
  /\ Goto(u, "ready")
  /\ UNCHANGED <<busy, key, conn, resetKey>>

\* gatewayPoolEntry under the read lock.
LookupEntry(u) ==
  LET k == key[u] IN
  /\ at[u] = "guarded"
  /\ MuFree
  /\ CASE k \notin Gateways -> GiveUp(u)
       [] k \in Gateways /\ conns[k] # NoEntry -> HasEntry(u, conns[k])
       [] OTHER -> Goto(u, "missing") /\ UNCHANGED <<busy, key, entry, conn, resetKey>>
  /\ UNCHANGED <<admin, conns, entryConn, link, checks>>

\* Mutant: the endpoint is not looked up again under the write lock.
WantedAsBefore(k) == ~closed

StillWanted(k) == k \in Gateways /\ ~closed

\* gatewayPoolEntry under the write lock.
CreateEntry(u) ==
  LET k == key[u] IN
  /\ at[u] = "missing"
  /\ MuFree
  /\ CASE ~StillWanted(k) -> GiveUp(u) /\ UNCHANGED <<conns, entryConn>>
       [] StillWanted(k) /\ conns[k] # NoEntry ->
            HasEntry(u, conns[k]) /\ UNCHANGED <<conns, entryConn>>
       [] OTHER ->
            /\ FreshEntries # {}
            /\ HasEntry(u, NewEntry)
            /\ conns' = [conns EXCEPT ![k] = NewEntry]
            /\ entryConn' = [entryConn EXCEPT ![NewEntry] = NoConn]
  /\ UNCHANGED <<admin, link, checks>>

\* ensureGatewayConn with entry.mu taken: reuse, or begin to dial.
OpenConn(u) ==
  LET pooled == entryConn[entry[u]] IN
  /\ at[u] = "ready"
  /\ Unlocked(entry[u])
  /\ IF pooled # NoConn
     THEN conn' = [conn EXCEPT ![u] = pooled] /\ Goto(u, "using") /\ UNCHANGED link
     ELSE /\ FreshConns # {}
          /\ conn' = [conn EXCEPT ![u] = NewConn]
          /\ link' = [link EXCEPT ![NewConn] = Dialling]
          /\ Goto(u, "dialling")
  /\ UNCHANGED <<admin, conns, entryConn, busy, key, entry, resetKey, checks>>

\* Mutant, of a comment at manager.go:405: m.mu is wanted while entry.mu is held.
StoresUnderMu == MuFree

\* What the end of a dial waits for besides entry.mu, which it holds: nothing.
MayStore == TRUE

DialOk(u) ==
  /\ at[u] = "dialling"
  /\ MayStore
  /\ link' = [link EXCEPT ![conn[u]].up = TRUE]
  /\ entryConn' = [entryConn EXCEPT ![entry[u]] = conn[u]]
  /\ Goto(u, "using")
  /\ UNCHANGED <<admin, conns, busy, key, entry, conn, resetKey, checks>>

DialFails(u) ==
  /\ at[u] = "dialling"
  /\ MayStore
  /\ GiveUp(u)
  /\ link' = CloseLink(conn[u])
  /\ UNCHANGED <<admin, conns, entryConn, checks>>

UseOk(u) ==
  /\ at[u] = "using"
  /\ GiveUp(u)
  /\ UNCHANGED <<admin, conns, entryConn, link, checks>>

\* A write, read or checksum error: a collector resets while it owns the guard
\* (modbus.go:233, deferred release), a control command once it no longer does
\* (control.go:316-318).
UseFails(u) ==
  /\ at[u] = "using"
  /\ Goto(u, "reset")
  /\ conn' = [conn EXCEPT ![u] = NoConn]
  /\ entry' = [entry EXCEPT ![u] = NoEntry]
  /\ IF u \in Controls
     THEN busy' = busy \ {key[u]} /\ key' = [key EXCEPT ![u] = NoKey]
     ELSE UNCHANGED <<busy, key>>
  /\ UNCHANGED <<admin, conns, entryConn, link, resetKey, checks>>

\* The deferred release of a collector; a control command has none left.
AfterReset(u) == IF u \in Collectors THEN GiveUp(u) ELSE Leave(u) /\ UNCHANGED busy

\* ResetConnection: resolveDevice again, under the configuration of the moment.
ResetResolve(u) ==
  /\ at[u] = "reset"
  /\ MuFree
  /\ IF config.endpoint[u] = NoKey
     THEN AfterReset(u)
     ELSE /\ resetKey' = [resetKey EXCEPT ![u] = config.endpoint[u]]
          /\ Goto(u, "closing")
          /\ UNCHANGED <<busy, key, entry, conn>>
  /\ UNCHANGED <<admin, conns, entryConn, link, checks>>

ResetClose(u) ==
  LET e == conns[resetKey[u]] IN
  /\ at[u] = "closing"
  /\ MuFree
  /\ IF e = NoEntry
     THEN AfterReset(u) /\ UNCHANGED <<entryConn, link>>
     ELSE /\ Unlocked(e)
          /\ link' = CloseLink(entryConn[e])
          /\ entryConn' = [entryConn EXCEPT ![e] = NoConn]
          /\ entry' = [entry EXCEPT ![u] = e]
          /\ Goto(u, "clear")
          /\ UNCHANGED <<busy, key, conn, resetKey>>
  /\ UNCHANGED <<admin, conns, checks>>

\* entry.conn = nil, without entry.mu (manager.go:380): a connection that someone
\* dialled since the close is forgotten.
ResetClear(u) ==
  /\ at[u] = "clear"
  /\ entryConn' = [entryConn EXCEPT ![entry[u]] = NoConn]
  /\ AfterReset(u)
  /\ UNCHANGED <<admin, conns, link, checks>>

UserStep(u) ==
  \/ MarkBusy(u) \/ LookupEntry(u) \/ CreateEntry(u) \/ OpenConn(u)
  \/ DialOk(u) \/ DialFails(u) \/ UseOk(u) \/ UseFails(u)
  \/ ResetResolve(u) \/ ResetClose(u) \/ ResetClear(u)

-----------------------------------------------------------------------------
(* CheckGateway of one pure gateway; rounds do not overlap. *)

CheckGoto(k, place) == checkAt' = [checkAt EXCEPT ![k] = place]

CheckDone(k) ==
  /\ CheckGoto(k, "idle")
  /\ checkConn' = [checkConn EXCEPT ![k] = NoConn]
  /\ checkGeneration' = [checkGeneration EXCEPT ![k] = 0]

CheckEnds(k) == CheckDone(k) /\ busy' = busy \ {k}

\* gatewayTarget
CheckStart(k) ==
  /\ checkAt[k] = "idle"
  /\ MuFree
  /\ k \in config.targets
  /\ checkGeneration' = [checkGeneration EXCEPT ![k] = generation]
  /\ CheckGoto(k, "picked")
  /\ UNCHANGED <<admin, conns, entryConn, link, busy, users, checkConn>>

\* While a transaction owns the guard the check only looks.
CheckMarkBusy(k) ==
  /\ checkAt[k] = "picked"
  /\ IF GuardFree(k)
     THEN busy' = busy \cup {k} /\ CheckGoto(k, "guarded")
          /\ UNCHANGED <<checkGeneration, checkConn>>
     ELSE CheckDone(k) /\ UNCHANGED busy
  /\ UNCHANGED <<admin, conns, entryConn, link, users>>

CheckDials(k) ==
  /\ FreshConns # {}
  /\ checkConn' = [checkConn EXCEPT ![k] = NewConn]
  /\ CheckGoto(k, "dialling")

\* The second pooledGatewayConn, under the guard.
CheckLookup(k) ==
  /\ checkAt[k] = "guarded"
  /\ MuFree
  /\ conns[k] # NoEntry => Unlocked(conns[k])
  /\ IF Pooled(k) = NoConn
     THEN CheckDials(k) /\ link' = [link EXCEPT ![NewConn] = Dialling]
     ELSE /\ checkConn' = [checkConn EXCEPT ![k] = Pooled(k)]
          /\ CheckGoto(k, "inspect")
          /\ UNCHANGED link
  /\ UNCHANGED <<admin, conns, entryConn, busy, users, checkGeneration>>

\* inspectPooledGateway says dead, or alive but without keepalive: needsDial.
CheckRejects(k) ==
  /\ checkAt[k] = "inspect"
  /\ link[checkConn[k]].up
  /\ CheckGoto(k, "drop")
  /\ UNCHANGED <<admin, conns, entryConn, link, busy, users, checkGeneration, checkConn>>

\* Healthy or unknown, the only verdict on a connection this process has closed.
CheckAccepts(k) ==
  /\ checkAt[k] = "inspect"
  /\ CheckEnds(k)
  /\ UNCHANGED <<admin, conns, entryConn, link, users>>

\* dropGatewayConn, and the dial that follows.
CheckDrop(k) ==
  LET c == checkConn[k]
      links == IF Pooled(k) = c THEN CloseLink(c) ELSE link
  IN
  /\ checkAt[k] = "drop"
  /\ MuFree
  /\ conns[k] # NoEntry => Unlocked(conns[k])
  /\ IF Pooled(k) = c
     THEN entryConn' = [entryConn EXCEPT ![conns[k]] = NoConn]
     ELSE UNCHANGED entryConn
  /\ CheckDials(k)
  /\ link' = [links EXCEPT ![NewConn] = Dialling]
  /\ UNCHANGED <<admin, conns, busy, users, checkGeneration>>

CheckDialOk(k) ==
  /\ checkAt[k] = "dialling"
  /\ link' = [link EXCEPT ![checkConn[k]].up = TRUE]
  /\ CheckGoto(k, "store")
  /\ UNCHANGED <<admin, conns, entryConn, busy, users, checkGeneration, checkConn>>

\* The dial fails, or its keepalive cannot be configured.
CheckDialFails(k) ==
  /\ checkAt[k] = "dialling"
  /\ CheckEnds(k)
  /\ link' = CloseLink(checkConn[k])
  /\ UNCHANGED <<admin, conns, entryConn, users>>

\* Mutant: an endpoint that still exists takes the result of any generation.
AcceptsAnyGeneration(k) == ~closed /\ k \in Gateways

AcceptsResult(k) == generation = checkGeneration[k] /\ ~closed /\ k \in Gateways

\* storeGatewayConn
CheckStore(k) ==
  LET c == checkConn[k]
      e == IF conns[k] = NoEntry THEN NewEntry ELSE conns[k]
  IN
  /\ checkAt[k] = "store"
  /\ MuFree
  /\ IF AcceptsResult(k)
     THEN /\ conns[k] = NoEntry => FreshEntries # {}
          /\ Unlocked(e)
          /\ conns' = [conns EXCEPT ![k] = e]
          /\ entryConn' = [entryConn EXCEPT ![e] = c]
          /\ link' = CloseLink(Pooled(k))
     ELSE link' = CloseLink(c) /\ UNCHANGED <<conns, entryConn>>
  /\ CheckEnds(k)
  /\ UNCHANGED <<admin, users>>

CheckStep(k) ==
  \/ CheckMarkBusy(k) \/ CheckLookup(k) \/ CheckRejects(k) \/ CheckAccepts(k)
  \/ CheckDrop(k) \/ CheckDialOk(k) \/ CheckDialFails(k) \/ CheckStore(k)

-----------------------------------------------------------------------------
(* ApplyConfig and Close. *)

PooledKeys == {k \in Keys : conns[k] # NoEntry}

ApplyConfig(next) ==
  /\ MuFree /\ sweep.op = "none"
  /\ generation < MaxGeneration
  /\ generation' = generation + 1
  /\ link' = [c \in Conns |-> [link[c] EXCEPT !.current = FALSE]]
  /\ sweep' = [op |-> "apply", todo |-> PooledKeys, next |-> next]
  /\ UNCHANGED <<config, closed, conns, entryConn, busy, users, checks>>

CloseManager ==
  /\ MuFree /\ sweep.op = "none"
  /\ ~closed
  /\ sweep' = [op |-> "close", todo |-> PooledKeys, next |-> NoConfig]
  /\ UNCHANGED <<config, generation, closed, conns, entryConn, link, busy, users, checks>>

\* Mutant: connections that are in use survive a refresh.
VictimIfIdle(k) == IF k \in busy THEN NoConn ELSE entryConn[conns[k]]

Victim(k) == entryConn[conns[k]]

\* The map is visited in any order; an entry being dialled is waited for.
SweepEntry(k) ==
  LET e == conns[k] IN
  /\ k \in sweep.todo
  /\ Unlocked(e)
  /\ link' = CloseLink(Victim(k))
  /\ entryConn' = [entryConn EXCEPT ![e] = IF @ = Victim(k) THEN NoConn ELSE @]
  /\ conns' = [conns EXCEPT ![k] = IF k \in Range(sweep.next.endpoint) THEN e ELSE NoEntry]
  /\ sweep' = [sweep EXCEPT !.todo = @ \ {k}]
  /\ UNCHANGED <<config, generation, closed, busy, users, checks>>

SweepDone ==
  /\ sweep.op \in {"apply", "close"} /\ sweep.todo = {}
  /\ config' = sweep.next
  /\ closed' = (closed \/ sweep.op = "close")
  /\ sweep' = IF sweep.op = "close" THEN [NoSweep EXCEPT !.op = "guards"] ELSE NoSweep
  /\ UNCHANGED <<generation, conns, entryConn, link, busy, users, checks>>

\* Close drops the guards once it no longer holds m.mu; a guard that is looked up
\* afterwards is a new one.
DropGuards ==
  /\ sweep.op = "guards"
  /\ busy' = {}
  /\ sweep' = NoSweep
  /\ UNCHANGED <<config, generation, closed, conns, entryConn, link, users, checks>>

Sweep == (\E k \in Keys : SweepEntry(k)) \/ SweepDone \/ DropGuards

\* The process is about to exit: only then may nothing happen.
Finished ==
  /\ closed
  /\ \A u \in Users : at[u] = "idle"
  /\ \A k \in Keys : checkAt[k] = "idle"
  /\ UNCHANGED vars

Next ==
  \/ \E u \in Users : Resolve(u) \/ UserStep(u)
  \/ \E k \in Keys : CheckStart(k) \/ CheckStep(k)
  \/ \E next \in Configs : ApplyConfig(next)
  \/ CloseManager
  \/ Sweep
  \/ Finished

Spec == Init /\ [][Next]_vars

\* Dials, transactions and socket checks have deadlines, and Go's locks serve a
\* waiter even if others keep coming.  Nobody has to start anything.
FairSpec ==
  /\ Spec
  /\ WF_vars(Sweep)
  /\ \A u \in Users : SF_vars(UserStep(u))

-----------------------------------------------------------------------------
(* Properties. *)

AdminTypeOK ==
  /\ config \in Configs \cup {NoConfig}
  /\ generation \in 1..MaxGeneration
  /\ sweep \in [op : {"none", "apply", "close", "guards"}, todo : SUBSET Keys,
                next : Configs \cup {NoConfig}]
  /\ closed \in BOOLEAN

PoolTypeOK ==
  /\ conns \in [Keys -> Entries \cup {NoEntry}]
  /\ entryConn \in [Entries -> Conns \cup {NoConn}]
  /\ link \in [Conns -> [up : BOOLEAN, current : BOOLEAN]]
  /\ busy \subseteq Keys

UserTypeOK ==
  /\ at \in [Users -> {"idle", "resolved", "guarded", "missing", "ready", "dialling",
                       "using", "reset", "closing", "clear"}]
  /\ key \in [Users -> Keys \cup {NoKey}] /\ resetKey \in [Users -> Keys \cup {NoKey}]
  /\ entry \in [Users -> Entries \cup {NoEntry}] /\ conn \in [Users -> Conns \cup {NoConn}]

CheckTypeOK ==
  /\ checkAt \in [Keys -> {"idle", "picked", "guarded", "inspect", "drop", "dialling", "store"}]
  /\ checkGeneration \in [Keys -> 0..MaxGeneration]
  /\ checkConn \in [Keys -> Conns \cup {NoConn}]

\* The types, and what exists exactly when: a connection in hand from the dial to the
\* end of its use, an entry for each endpoint that a sweep has yet to visit.
TypeOK ==
  /\ AdminTypeOK /\ PoolTypeOK /\ UserTypeOK /\ CheckTypeOK
  /\ \A u \in Users : conn[u] # NoConn <=> at[u] \in {"dialling", "using"}
  /\ \A k \in Keys : checkConn[k] # NoConn <=> checkAt[k] \notin {"idle", "picked", "guarded"}
  /\ \A k \in sweep.todo : conns[k] # NoEntry

\* Users and checks between markBusy and clearBusy of an endpoint.
Owners(k) == {u \in Users : key[u] = k /\ at[u] \notin {"idle", "resolved"}}
             \cup {c \in {k} : checkAt[k] \notin {"idle", "picked"}}

\* An endpoint's guard is taken exactly while one transaction or check owns it, on
\* every error path too, until Close drops the guards; and no connection ever
\* serves two transactions (manager.go:316-333, :385-402).
SoleOwner ==
  /\ ~closed => \A k \in Keys : Cardinality(Owners(k)) = IF k \in busy THEN 1 ELSE 0
  /\ \A u, v \in Users : at[u] = "using" /\ at[v] = "using" /\ conn[u] = conn[v] => u = v

\* The pool holds entries of configured endpoints only, and every connection in it
\* is open and was dialled under the present configuration, whatever was being
\* dialled during the refresh (comments at manager.go:235 and :469-470,
\* gateway_health.go:340-341).
PoolMatchesConfig ==
  sweep.op # "apply" =>
    \A k \in PooledKeys :
      /\ k \in Gateways
      /\ Pooled(k) # NoConn => link[Pooled(k)] = [up |-> TRUE, current |-> TRUE]

\* The open connections to an endpoint that the pool, its owner or its check has.
Live(k) == {c \in Conns : /\ link[c].up
                          /\ \/ c = Pooled(k)
                             \/ c = checkConn[k]
                             \/ \E u \in Users : key[u] = k /\ conn[u] = c}

\* No second connection to a gateway is opened beside the first (comments at
\* manager.go:262 and gateway_health.go:195).
OneConnection == ~closed => \A k \in Keys : Cardinality(Live(k)) <= 1

\* The users whose open connection a step closes.
Robbed == {u \in Users : at[u] = "using" /\ link[conn[u]].up /\ ~link'[conn[u]].up}

OthersReset == \E v \in Users : at[v] = "closing" /\ at'[v] # "closing"

\* A health check never closes a connection that a transaction is using (the
\* comment at gateway_health.go:233): only a refresh, Close or a reset does.
HealthSparesBusiness ==
  [][Robbed # {} => sweep.op \in {"apply", "close"} \/ OthersReset]_vars

\* A refresh or Close that waits for a dial gets on, and every transaction comes to
\* its end, whatever the health checks do: the locks are taken in the order m.mu, entry.mu (manager.go:405-407).
EveryCallReturns ==
  /\ sweep.op # "none" ~> sweep.op = "none"
  /\ \A u \in Users : at[u] # "idle" ~> at[u] = "idle"

-----------------------------------------------------------------------------
(* What the comments promise and the code does not keep. *)

\* The owner of a connection is the only one to close it, but for a refresh or
\* Close: ExclusiveConnection is "similar to sync.Mutex semantics" (manager.go:317).
\* control.go:318 resets after its release.
OwnerKeepsConnection ==
  [][Robbed # {} => sweep.op \in {"apply", "close"}]_vars

\* "ResetConnection closes and clears the cached connection" (manager.go:367): what
\* it clears it has closed.
ResetClosesWhatItClears ==
  [][\A e \in Entries :
       /\ entryConn[e] # NoConn /\ entryConn'[e] = NoConn
       /\ \E u \in Users : at[u] = "clear" /\ entry[u] = e
       => ~link'[entryConn[e]].up]_vars
=============================================================================
