---------------------------- MODULE GatewayStatus ----------------------------
(***************************************************************************)
(* The online status of pure gateways: rounds that probe every endpoint, a *)
(* few at a time, and refresh one Redis key for every device ID behind it, *)
(* while the configuration moves IDs between endpoints and transactions    *)
(* use the same connections.                                               *)
(*                                                                         *)
(* Source: src/internal/collector/gateway_status.go and the verdicts of    *)
(* src/internal/conn/gateway_health.go.  The pool itself is GatewayPool's: *)
(* here an endpoint has a guard and at most one connection, and            *)
(* transactions are seen only by what they leave there.  The context of    *)
(* the program, which ends everything, is never done here.                 *)
(***************************************************************************)
EXTENDS Integers, Sequences, FiniteSets

CONSTANTS
  Keys,         \* endpoints ip:port
  Ids,          \* device IDs of pure gateways
  Shared,       \* bound of the model: endpoints with transactions, a network that comes
                \*   and goes and keepalives that fail; the others are good or bad for good
  Configs,      \* the configuration of each generation, [Keys -> SUBSET Ids]: the
                \*   targets; no ID, no target
  Threshold,    \* gatewayDialFailureThreshold
  Concurrency

ASSUME StatusAssumption ==
  /\ IsFiniteSet(Keys) /\ IsFiniteSet(Ids) /\ Shared \subseteq Keys
  /\ Configs \in Seq([Keys -> SUBSET Ids]) /\ Configs # <<>>
  /\ Threshold \in Nat \ {0} /\ Concurrency \in Nat \ {0}

VARIABLES
  generation,  \* configGeneration
  purge,     \* ApplyConfig has still to drop the failures of removed targets
  failures,  \* dialFailures
  pool,      \* each endpoint: "none", "kept" (keepalive set) or "bare" connection
  guards,    \* who has the guard of each endpoint: "free", "check", or a transaction that is
             \*   "dialling" or in "business"
  bad,       \* the endpoints that cannot be reached at the moment
  round,     \* at: "idle", "start" or "wait"; the targets it read; those to start
  check,     \* of each endpoint: at, and the IDs and generation of its result
  redis      \* gateway:status:<id>: "online", "offline" or "none"

statusVars == <<generation, purge, failures, pool, guards, bad, round, check, redis>>

conns == <<pool, guards>>

Current == Configs[generation]

Idle == [at |-> "idle", ids |-> {}, gen |-> 0, status |-> "none", left |-> {}]

NoRound == [at |-> "idle", targets |-> [k \in Keys |-> {}], todo |-> {}]

StatusInit ==
  /\ generation = 1
  /\ purge = FALSE
  /\ failures = [k \in Keys |-> 0]
  /\ pool = [k \in Keys |-> "none"] /\ guards = [k \in Keys |-> "free"]
  /\ bad \in SUBSET Keys
  /\ round = NoRound
  /\ check = [k \in Keys |-> Idle]
  /\ redis = [i \in Ids |-> "none"]

-----------------------------------------------------------------------------
(* What goes on around the publisher. *)

\* ApplyConfig closes every connection under m.mu, and tidies the failures after it.
Refresh ==
  /\ generation < Len(Configs)
  /\ ~purge
  /\ generation' = generation + 1
  /\ pool' = [k \in Keys |-> "none"]
  /\ purge' = TRUE
  /\ UNCHANGED <<failures, guards, bad, round, check, redis>>

Purge ==
  /\ purge
  /\ purge' = FALSE
  /\ failures' = [k \in Keys |-> IF Current[k] = {} THEN 0 ELSE failures[k]]
  /\ UNCHANGED <<generation, conns, bad, round, check, redis>>

BusinessBegins(k) ==
  /\ guards[k] = "free"
  /\ guards' = [guards EXCEPT ![k] = IF pool[k] = "none" THEN "dialling" ELSE "business"]
  /\ UNCHANGED <<generation, purge, failures, pool, bad, round, check, redis>>

\* Keepalive is set where the system can.
BusinessDials(k) ==
  /\ guards[k] = "dialling"
  /\ IF k \in bad
     THEN guards' = [guards EXCEPT ![k] = "free"] /\ UNCHANGED pool
     ELSE /\ guards' = [guards EXCEPT ![k] = "business"]
          /\ \E p \in {"kept", "bare"} : pool' = [pool EXCEPT ![k] = p]
  /\ UNCHANGED <<generation, purge, failures, bad, round, check, redis>>

\* ResetConnection after a failed exchange: by a lost connection, a device that does
\* not answer, a bad checksum; before or after the release.
BusinessResets(k) ==
  /\ pool[k] # "none"
  /\ pool' = [pool EXCEPT ![k] = "none"]
  /\ UNCHANGED <<generation, purge, failures, guards, bad, round, check, redis>>

BusinessEnds(k) ==
  /\ guards[k] = "business"
  /\ guards' = [guards EXCEPT ![k] = "free"]
  /\ UNCHANGED <<generation, purge, failures, pool, bad, round, check, redis>>

\* External: the network breaks and heals.
Weather(k) ==
  /\ bad' = IF k \in bad THEN bad \ {k} ELSE bad \cup {k}
  /\ UNCHANGED <<generation, purge, failures, conns, round, check, redis>>

\* External: the TTL of a status runs out.
Expire(i) ==
  /\ redis[i] # "none"
  /\ redis' = [redis EXCEPT ![i] = "none"]
  /\ UNCHANGED <<generation, purge, failures, conns, bad, round, check>>

-----------------------------------------------------------------------------
(* Run and runOnce: rounds do not overlap. *)

Running == {k \in Keys : check[k].at # "idle"}

RoundStarts ==
  /\ round.at = "idle"
  /\ Current # [k \in Keys |-> {}]
  /\ round' = [at |-> "start", targets |-> Current, todo |-> {k \in Keys : Current[k] # {}}]
  /\ UNCHANGED <<generation, purge, failures, conns, bad, check, redis>>

\* Mutant: a place is given back at the end of the round.
PlaceOfRound == Cardinality({k \in Keys : round.targets[k] # {}} \ round.todo) < Concurrency

\* The semaphore; an ended check has given its place back.
PlaceFree == Cardinality(Running) < Concurrency

CheckStarts(k) ==
  /\ round.at = "start" /\ k \in round.todo
  /\ PlaceFree
  /\ check' = [check EXCEPT ![k] = [Idle EXCEPT !.at = "begin"]]
  /\ round' = [round EXCEPT !.todo = @ \ {k}]
  /\ UNCHANGED <<generation, purge, failures, conns, bad, redis>>

AllStarted ==
  /\ round.at = "start"
  /\ round.todo = {}
  /\ round' = [round EXCEPT !.at = "wait", !.todo = {}]
  /\ UNCHANGED <<generation, purge, failures, conns, bad, check, redis>>

RoundEnds ==
  /\ round.at = "wait"
  /\ Running = {}
  /\ round' = NoRound
  /\ UNCHANGED <<generation, purge, failures, conns, bad, check, redis>>

-----------------------------------------------------------------------------
(* CheckGateway *)

Ends(k) == check' = [check EXCEPT ![k] = Idle]

\* Unknown, Busy or Stale: nothing is written.
Inconclusive(k) ==
  /\ Ends(k)
  /\ guards' = [guards EXCEPT ![k] = IF @ = "check" THEN "free" ELSE @]

Judge(k, status) ==
  /\ check' = [check EXCEPT ![k].at = "judged", ![k].status = status]
  /\ guards' = [guards EXCEPT ![k] = IF @ = "check" THEN "free" ELSE @]

\* gatewayTarget: the IDs and the generation of this moment.
PickTarget(k) ==
  /\ check[k].at = "begin"
  /\ IF Current[k] = {}
     THEN Ends(k)
     ELSE check' = [check EXCEPT ![k].at = "picked", ![k].ids = Current[k],
                                 ![k].gen = generation]
  /\ UNCHANGED <<generation, purge, failures, conns, bad, round, redis>>

TakeGuard(k) ==
  /\ check[k].at = "picked"
  /\ guards[k] = "free"
  /\ guards' = [guards EXCEPT ![k] = "check"]
  /\ check' = [check EXCEPT ![k].at = IF pool[k] = "none" THEN "dial" ELSE "inspect"]
  /\ UNCHANGED <<generation, purge, failures, pool, bad, round, redis>>

\* inspectPooledGateway: the kernel's word on the socket.  A broken network shows late,
\* as a dead socket, or not at all; a platform that cannot tell says nothing.
HealthyNow(k) ==
  /\ pool[k] = "kept"
  /\ Judge(k, "online")
  /\ failures' = [failures EXCEPT ![k] = 0]

\* While a transaction has the guard, an existing connection is only looked at.
LookOnly(k) ==
  /\ check[k].at = "picked"
  /\ guards[k] \in {"dialling", "business"}
  /\ \/ HealthyNow(k)
     \/ (k \in bad \/ pool[k] # "kept") /\ Inconclusive(k) /\ UNCHANGED failures
     \/ k \in bad /\ pool[k] # "none" /\ Judge(k, "offline") /\ UNCHANGED failures
  /\ UNCHANGED <<generation, purge, pool, bad, round, redis>>

\* With the guard: a healthy connection is good, a bare or dead one is dropped.  A
\* refresh may have closed the connection since, before it was read again or after:
\* then there is none, or a local error, which is no evidence.
Inspect(k) ==
  /\ check[k].at = "inspect"
  /\ \/ HealthyNow(k) /\ UNCHANGED pool
     \/ /\ k \in bad \/ pool[k] = "none"
        /\ Inconclusive(k)
        /\ UNCHANGED <<failures, pool>>
     \/ /\ k \in bad \/ pool[k] # "kept"
        /\ check' = [check EXCEPT ![k].at = "dial"]
        /\ pool' = [pool EXCEPT ![k] = "none"]
        /\ UNCHANGED <<failures, guards>>
  /\ UNCHANGED <<generation, purge, bad, round, redis>>

\* noteGatewayDialFailure; counts beyond the threshold are all alike.
CountFailure(k) ==
  failures' = [failures EXCEPT ![k] = IF @ < Threshold THEN @ + 1 ELSE @]

Confirmed(k) == failures'[k] >= Threshold

DialFails(k) ==
  /\ check[k].at = "dial"
  /\ k \in bad
  /\ CountFailure(k)
  /\ IF Confirmed(k) THEN Judge(k, "offline") ELSE Inconclusive(k)
  /\ UNCHANGED <<generation, purge, pool, bad, round, redis>>

\* The connection is stored only under the generation it was dialled for.
DialSucceeds(k) ==
  /\ check[k].at = "dial"
  /\ k \notin bad
  /\ IF check[k].gen = generation
     THEN /\ Judge(k, "online")
          /\ pool' = [pool EXCEPT ![k] = "kept"]
          /\ failures' = [failures EXCEPT ![k] = 0]
     ELSE Inconclusive(k) /\ UNCHANGED <<pool, failures>>
  /\ UNCHANGED <<generation, purge, bad, round, redis>>

\* Without keepalive the connection is closed and says nothing.
DialWithoutKeepalive(k) ==
  /\ check[k].at = "dial"
  /\ k \in Shared \ bad
  /\ Inconclusive(k)
  /\ UNCHANGED <<generation, purge, failures, pool, bad, round, redis>>

Probe(k) ==
  \/ PickTarget(k) \/ TakeGuard(k) \/ LookOnly(k) \/ Inspect(k)
  \/ DialFails(k) \/ DialSucceeds(k) \/ DialWithoutKeepalive(k)

-----------------------------------------------------------------------------
(* checkTarget: what is done with a verdict. *)

\* Mutant: the target of the round is written whatever the probe looked at.
AnyBinding(k) == TRUE

SameBinding(k) == check[k].ids = round.targets[k]

Accept(k) ==
  /\ check[k].at = "judged"
  /\ IF check[k].gen = generation /\ SameBinding(k)
     THEN check' = [check EXCEPT ![k].at = "writing", ![k].left = round.targets[k]]
     ELSE Ends(k)
  /\ UNCHANGED <<generation, purge, failures, conns, bad, round, redis>>

\* The generation is read before every ID ...
WriteNext(k) ==
  /\ check[k].at = "writing"
  /\ IF check[k].left = {} \/ check[k].gen # generation
     THEN Ends(k)
     ELSE check' = [check EXCEPT ![k].at = "set"]
  /\ UNCHANGED <<generation, purge, failures, conns, bad, round, redis>>

\* ... and the write comes after it; one that fails does not stop the next.
Set(k, i) ==
  /\ check[k].at = "set" /\ i \in check[k].left
  /\ check' = [check EXCEPT ![k].at = "writing", ![k].left = @ \ {i}]
  /\ redis' = [redis EXCEPT ![i] = check[k].status]
  /\ UNCHANGED <<generation, purge, failures, conns, bad, round>>

SetFails(k, i) ==
  /\ check[k].at = "set" /\ i \in check[k].left
  /\ check' = [check EXCEPT ![k].at = "writing", ![k].left = @ \ {i}]
  /\ UNCHANGED <<generation, purge, failures, conns, bad, round, redis>>

CheckStep(k) ==
  Probe(k) \/ Accept(k) \/ WriteNext(k) \/ \E i \in Ids : Set(k, i) \/ SetFails(k, i)

StatusNext ==
  \/ Refresh \/ Purge
  \/ \E k \in Shared : \/ BusinessBegins(k) \/ BusinessDials(k) \/ BusinessResets(k)
                       \/ BusinessEnds(k) \/ Weather(k)
  \/ \E k \in Keys : CheckStarts(k) \/ CheckStep(k)
  \/ \E i \in Ids : Expire(i)
  \/ RoundStarts \/ AllStarted \/ RoundEnds

StatusSpec == StatusInit /\ [][StatusNext]_statusVars

\* The ticker ticks, goroutines run, dials and writes end by their timeout, and
\* transactions end; Redis does not refuse every write, nor the system every
\* keepalive of a check, for ever.
StatusFairSpec ==
  /\ StatusSpec
  /\ WF_statusVars(RoundStarts) /\ WF_statusVars(AllStarted) /\ WF_statusVars(RoundEnds)
  /\ WF_statusVars(Purge)
  /\ \A k \in Keys : /\ WF_statusVars(CheckStarts(k)) /\ WF_statusVars(CheckStep(k))
                     /\ WF_statusVars(BusinessDials(k)) /\ WF_statusVars(BusinessEnds(k))
                     /\ \A i \in UNION {Configs[g][k] : g \in DOMAIN Configs} : SF_statusVars(Set(k, i))
  /\ \A k \in Shared : SF_statusVars(DialSucceeds(k))

-----------------------------------------------------------------------------
(* Properties. *)

\* The status of an ID is the health of an endpoint that was the ID's own in the very
\* configuration under which it was probed, though the round had read its targets,
\* and writes them, under others (gateway_status.go:141-149, 162-165).
NoForeignStatus ==
  [][\A k \in Keys : \A i \in check[k].left \ check'[k].left :
       redis'[i] # redis[i] => i \in Configs[check[k].gen][k]]_statusVars

\* A gateway that stays reachable, on connections whose keepalive could be set and that
\* its transactions no longer reset, keeps its online status, though statuses expire,
\* transactions hold its guard, the other endpoint is down and few checks run at a time
\* (gateway_status.go:80-128).
OnlineIsRefreshed ==
  \A i \in Ids :
    (/\ <>[](\E k \in Keys \ bad : pool[k] # "bare" /\ i \in Current[k])
     /\ <>[][\A k \in Shared : ~ BusinessResets(k)]_statusVars)
      => []<>(redis[i] = "online")
=============================================================================
