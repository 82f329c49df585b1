--------------------------- MODULE GatewayPoolProofs ---------------------------
(***************************************************************************)
(* The connection pool for any endpoints, callers, records and connections *)
(* and any number of refreshes: its types, the sole owner of an endpoint,  *)
(* that the pool matches the configuration, that an endpoint has one open  *)
(* connection, and that a health check spares the connections in use.      *)
(*                                                                         *)
(* The guards of the code protect more than they say, and the invariant    *)
(* IInv spells it out: who owns an endpoint (GuardInv) is the only one to  *)
(* hold its entry (EntryInv), so that a connection is held by one user,    *)
(* stored in one entry, or still a check's own (ConnInv, CheckInv); and    *)
(* what is pooled or about to be is of the present configuration unless    *)
(* the sweep has yet to come by (SweepInv, WantedInv, OpenInv).  That a    *)
(* reset may forget a connection someone dialled meanwhile (ResetClear)    *)
(* breaks none of it: every part speaks of connections that are referred   *)
(* to, and allows the pool to hold none.                                   *)
(*                                                                         *)
(* Each part has a lemma that a step keeps it.  They lean on the frame     *)
(* lemmas (a step is of one user, one check, or a sweep) and on what a     *)
(* step may change of the guards, entries and connections (UserGuard,      *)
(* UserEntry, UserNoNewReference, UserPooled and their like for checks).   *)
(***************************************************************************)
EXTENDS GatewayPool, FiniteSetTheorems, TLAPS

Owns(u, k) == key[u] = k /\ at[u] \notin {"idle", "resolved"}

Checking(k) == checkAt[k] \notin {"idle", "picked"}

\* The users that hold the entry they were given for their endpoint.
Holding(u) == at[u] \in {"ready", "dialling", "using"}

\* The checks with a connection of their own, which the pool has not seen yet.
Fresh(k) == checkAt[k] \in {"dialling", "store"}

InUse(e) == (\E k \in Keys : conns[k] = e) \/ (\E u \in Users : entry[u] = e)

\* No refresh is under way, or it has visited the endpoint.
Settled(k) == sweep.op = "apply" => k \notin sweep.todo

\* What each place of a transaction has in hand.
PlaceInv ==
  \A u \in Users :
    /\ at[u] \in {"resolved", "guarded", "missing", "ready", "dialling", "using"} => key[u] # NoKey
    /\ at[u] \in {"ready", "dialling", "using", "clear"} => entry[u] # NoEntry
    /\ at[u] = "closing" => resetKey[u] # NoKey
    /\ at[u] \in {"reset", "closing", "clear"} /\ u \in Controls => key[u] = NoKey

\* A closed manager has no entries left, and gets none.
SweepInv ==
  /\ sweep.op \in {"none", "guards"} => sweep.todo = {}
  /\ sweep.op = "close" => sweep.next = NoConfig /\ PooledKeys \subseteq sweep.todo
  /\ sweep.op = "guards" => closed
  /\ closed => PooledKeys = {}

\* The guard of an endpoint is taken by one transaction, or by its check, or free.
GuardInv ==
  ~closed =>
    \A k \in Keys :
      /\ k \in busy <=> Checking(k) \/ \E u \in Users : Owns(u, k)
      /\ \A u, v \in Users : Owns(u, k) /\ Owns(v, k) => u = v
      /\ \A u \in Users : ~(Owns(u, k) /\ Checking(k))

\* An entry belongs to one endpoint, and to one transaction at a time.
EntryInv ==
  /\ \A k, l \in Keys : conns[k] = conns[l] /\ conns[k] # NoEntry => k = l
  /\ \A u \in Users : Holding(u) =>
       /\ \A k \in Keys : conns[k] = entry[u] => k = key[u]
       /\ conns[key[u]] \in {entry[u], NoEntry}
  /\ \A u, v \in Users : Holding(u) /\ Holding(v) /\ entry[u] = entry[v] => u = v

\* A connection is held by one transaction, stored in one entry, or still a check's own.
ConnInv ==
  /\ \A u, v \in Users : conn[u] # NoConn /\ conn[u] = conn[v] => u = v
  /\ \A e \in Entries, u \in Users :
       InUse(e) /\ conn[u] # NoConn /\ entryConn[e] = conn[u] => entry[u] = e
  /\ \A e, f \in Entries :
       InUse(e) /\ InUse(f) /\ entryConn[e] # NoConn /\ entryConn[e] = entryConn[f] => e = f
  /\ \A k \in Keys : Fresh(k) =>
       /\ \A u \in Users : conn[u] # checkConn[k]
       /\ \A e \in Entries : InUse(e) => entryConn[e] # checkConn[k]
       /\ \A l \in Keys : Fresh(l) /\ checkConn[k] = checkConn[l] => k = l
  /\ \A u \in Users :
       /\ at[u] = "dialling" => entryConn[entry[u]] = NoConn
       /\ at[u] = "using" => entryConn[entry[u]] \in {NoConn, conn[u]}

\* What a check holds beside the pool.
CheckInv ==
  \A k \in Keys :
    /\ checkAt[k] \in {"inspect", "drop"} => Pooled(k) \in {NoConn, checkConn[k]}
    /\ Fresh(k) => Pooled(k) = NoConn
    /\ checkGeneration[k] <= generation

\* What is pooled is configured, or a refresh has yet to visit it.
WantedInv ==
  \A k \in PooledKeys :
    /\ sweep.op # "apply" => k \in Gateways
    /\ sweep.op = "apply" /\ k \notin sweep.todo => k \in Range(sweep.next.endpoint)

\* What is pooled, or is being dialled for a pooled entry, is open and current unless a
\* refresh has yet to visit it; so is what a check of this generation will store.
PooledIsOpen(k) ==
  conns[k] # NoEntry /\ Pooled(k) # NoConn =>
    link[Pooled(k)].up /\ (Settled(k) => link[Pooled(k)].current)

DialIsCurrent(k, u) ==
  conns[k] # NoEntry /\ at[u] = "dialling" /\ entry[u] = conns[k] /\ Settled(k) =>
    link[conn[u]].current

CheckIsCurrent(k) ==
  /\ Fresh(k) /\ checkGeneration[k] = generation => link[checkConn[k]].current
  /\ checkAt[k] = "store" => link[checkConn[k]].up

OpenInv ==
  \A k \in Keys : PooledIsOpen(k) /\ CheckIsCurrent(k) /\ \A u \in Users : DialIsCurrent(k, u)

IInv == /\ TypeOK /\ PlaceInv /\ SweepInv /\ GuardInv
        /\ EntryInv /\ ConnInv /\ CheckInv /\ WantedInv /\ OpenInv

-----------------------------------------------------------------------------
(* What is configured, and what is free. *)

LEMMA ConfigTyping ==
  ASSUME NEW c \in Configs \cup {NoConfig}
  PROVE  c.endpoint \in [Users -> Keys \cup {NoKey}] /\ c.targets \subseteq Keys
BY PoolAssumption DEF PoolAssumption, Config, NoConfig

LEMMA FreshEntry ==
  ASSUME TypeOK, FreshEntries # {}
  PROVE  /\ NewEntry \in Entries
         /\ \A k \in Keys : conns[k] # NewEntry
         /\ \A u \in Users : entry[u] # NewEntry
<1>1. NewEntry \in FreshEntries
  BY DEF NewEntry
<1>2. DOMAIN conns = Keys /\ DOMAIN entry = Users
  BY DEF TypeOK, PoolTypeOK, UserTypeOK, CheckTypeOK
<1>3. QED
  BY <1>1, <1>2 DEF FreshEntries, Range

LEMMA FreshConn ==
  ASSUME TypeOK, FreshConns # {}
  PROVE  /\ NewConn \in Conns
         /\ \A e \in Entries : InUse(e) => entryConn[e] # NewConn
         /\ \A u \in Users : conn[u] # NewConn
         /\ \A k \in Keys : checkConn[k] # NewConn
<1>1. NewConn \in FreshConns
  BY DEF NewConn
<1>2. DOMAIN conns = Keys /\ DOMAIN entry = Users /\ DOMAIN conn = Users /\ DOMAIN checkConn = Keys
  BY DEF TypeOK, PoolTypeOK, UserTypeOK, CheckTypeOK
<1>3. \A e \in Entries : InUse(e) => e \notin FreshEntries
  BY <1>2 DEF FreshEntries, InUse, Range
<1>4. NewConn \in Conns
  BY <1>1 DEF FreshConns
<1>5. \A e \in Entries : InUse(e) => entryConn[e] # NewConn
  BY <1>1, <1>3 DEF FreshConns
<1>6. (\A u \in Users : conn[u] # NewConn) /\ (\A k \in Keys : checkConn[k] # NewConn)
  BY <1>1, <1>2 DEF FreshConns, Range
<1>7. QED
  BY <1>4, <1>5, <1>6

-----------------------------------------------------------------------------
(* What the steps do to the connections. *)

Links == [up : BOOLEAN, current : BOOLEAN]

LEMMA CloseLinkFacts ==
  ASSUME PoolTypeOK, NEW c
  PROVE  /\ CloseLink(c) \in [Conns -> Links]
         /\ \A x \in Conns : /\ x # c => CloseLink(c)[x] = link[x]
                             /\ x = c => ~CloseLink(c)[x].up
<1>1. Down \in Links /\ ~Down.up
  BY DEF Down, Links
<1>2. link \in [Conns -> Links]
  BY DEF PoolTypeOK, Links
<1>3. \A x \in Conns : CloseLink(c)[x] = IF x = c THEN Down ELSE link[x]
  BY DEF CloseLink
<1>4. CloseLink(c) \in [Conns -> Links]
  BY <1>1, <1>2 DEF CloseLink
<1>5. QED
  BY <1>1, <1>3, <1>4

LEMMA DialFacts ==
  ASSUME NEW links \in [Conns -> Links], NEW c \in Conns
  PROVE  /\ [links EXCEPT ![c] = Dialling] \in [Conns -> Links]
         /\ [links EXCEPT ![c] = Dialling][c].current
         /\ \A x \in Conns \ {c} : [links EXCEPT ![c] = Dialling][x] = links[x]
<1>1. Dialling \in Links /\ Dialling.current
  BY DEF Dialling, Links
<1>2. QED
  BY <1>1

LEMMA DialledFacts ==
  ASSUME PoolTypeOK, NEW c \in Conns
  PROVE  /\ [link EXCEPT ![c].up = TRUE] \in [Conns -> Links]
         /\ \A x \in Conns \ {c} : [link EXCEPT ![c].up = TRUE][x] = link[x]
         /\ [link EXCEPT ![c].up = TRUE][c].up
         /\ [link EXCEPT ![c].up = TRUE][c].current <=> link[c].current
<1>1. link \in [Conns -> Links] /\ link[c] \in Links
  BY DEF PoolTypeOK, Links
<1>2. /\ [link[c] EXCEPT !.up = TRUE] \in Links
      /\ [link[c] EXCEPT !.up = TRUE].up
      /\ [link[c] EXCEPT !.up = TRUE].current <=> link[c].current
  BY <1>1 DEF Links
<1>3. [link EXCEPT ![c].up = TRUE][c] = [link[c] EXCEPT !.up = TRUE]
  BY <1>1
<1>4. \A x \in Conns \ {c} : [link EXCEPT ![c].up = TRUE][x] = link[x]
  BY <1>1
<1>5. [link EXCEPT ![c].up = TRUE] \in [Conns -> Links]
  BY <1>1, <1>2
<1>6. QED
  BY <1>2, <1>3, <1>4, <1>5

LEMMA OutdatedFacts ==
  ASSUME PoolTypeOK
  PROVE  /\ [c \in Conns |-> [link[c] EXCEPT !.current = FALSE]] \in [Conns -> Links]
         /\ \A x \in Conns : [link[x] EXCEPT !.current = FALSE].up <=> link[x].up
<1>1. ASSUME NEW x \in Conns
      PROVE  /\ [link[x] EXCEPT !.current = FALSE] \in Links
             /\ [link[x] EXCEPT !.current = FALSE].up <=> link[x].up
  BY DEF PoolTypeOK, Links
<1>2. QED
  BY <1>1

-----------------------------------------------------------------------------
(* Type correctness. *)

LEMMA LeaveTyping ==
  ASSUME UserTypeOK, NEW u \in Users, Leave(u)
  PROVE  UserTypeOK'
BY DEF Leave, Goto, UserTypeOK

LEMMA UserTyping ==
  ASSUME TypeOK, PlaceInv, NEW u \in Users, Resolve(u) \/ UserStep(u)
  PROVE  UserTypeOK'
<1> USE DEF UserTypeOK
<1>1. /\ UserTypeOK
      /\ conns \in [Keys -> Entries \cup {NoEntry}]
      /\ entryConn \in [Entries -> Conns \cup {NoConn}]
      /\ config.endpoint[u] \in Keys \cup {NoKey}
      /\ at[u] \in {"resolved", "guarded", "missing"} => key[u] \in Keys
      /\ at[u] \in {"ready", "dialling", "using", "clear"} => entry[u] \in Entries
      /\ at[u] = "closing" => resetKey[u] \in Keys
  BY ConfigTyping DEF TypeOK, AdminTypeOK, PoolTypeOK, PlaceInv
<1>2. CASE Resolve(u)
  BY <1>1, <1>2 DEF Resolve, Goto
<1>3. CASE MarkBusy(u)
  BY <1>1, <1>3 DEF MarkBusy, Goto
<1>4. CASE LookupEntry(u)
  BY <1>1, <1>4, LeaveTyping DEF LookupEntry, GiveUp, HasEntry, Goto
<1>5. CASE CreateEntry(u)
  BY <1>1, <1>5, LeaveTyping, FreshEntry DEF CreateEntry, GiveUp, HasEntry, Goto
<1>6. CASE OpenConn(u)
  <2>1. CASE entryConn[entry[u]] # NoConn
    BY <1>1, <1>6, <2>1 DEF OpenConn, Goto
  <2>2. CASE entryConn[entry[u]] = NoConn
    <3>1. NewConn \in Conns
      BY <1>6, <2>2, FreshConn DEF OpenConn
    <3>2. QED
      BY <1>1, <1>6, <2>2, <3>1 DEF OpenConn, Goto
  <2>3. QED
    BY <2>1, <2>2
<1>7. CASE DialOk(u)
  BY <1>1, <1>7 DEF DialOk, Goto
<1>8. CASE DialFails(u) \/ UseOk(u)
  BY <1>1, <1>8, LeaveTyping DEF DialFails, UseOk, GiveUp
<1>9. CASE UseFails(u)
  BY <1>1, <1>9 DEF UseFails, Goto
<1>10. CASE ResetResolve(u)
  BY <1>1, <1>10, LeaveTyping DEF ResetResolve, AfterReset, GiveUp, Goto
<1>11. CASE ResetClose(u)
  BY <1>1, <1>11, LeaveTyping DEF ResetClose, AfterReset, GiveUp, Goto
<1>12. CASE ResetClear(u)
  BY <1>1, <1>12, LeaveTyping DEF ResetClear, AfterReset, GiveUp
<1>13. QED
  BY <1>2, <1>3, <1>4, <1>5, <1>6, <1>7, <1>8, <1>9, <1>10, <1>11, <1>12 DEF UserStep

LEMMA CheckTyping ==
  ASSUME TypeOK, NEW k \in Keys, CheckStart(k) \/ CheckStep(k)
  PROVE  CheckTypeOK'
<1> USE DEF CheckTypeOK
<1>1. CheckTypeOK /\ generation \in 0..MaxGeneration /\ 0 \in 0..MaxGeneration
  BY PoolAssumption DEF PoolAssumption, TypeOK, AdminTypeOK
<1>2. Pooled(k) \in Conns \cup {NoConn}
  BY DEF Pooled, TypeOK, PoolTypeOK
<1>3. CASE CheckStart(k)
  BY <1>1, <1>3 DEF CheckStart, CheckGoto
<1>4. CASE CheckMarkBusy(k)
  BY <1>1, <1>4 DEF CheckMarkBusy, CheckDone, CheckGoto
<1>5. CASE CheckLookup(k) \/ CheckDrop(k)
  BY <1>1, <1>2, <1>5, FreshConn DEF CheckLookup, CheckDrop, CheckDials, CheckGoto
<1>6. CASE CheckRejects(k) \/ CheckDialOk(k)
  BY <1>1, <1>6 DEF CheckRejects, CheckDialOk, CheckGoto
<1>7. CASE CheckAccepts(k) \/ CheckDialFails(k) \/ CheckStore(k)
  BY <1>1, <1>7 DEF CheckAccepts, CheckDialFails, CheckStore, CheckEnds, CheckDone, CheckGoto
<1>8. QED
  BY <1>3, <1>4, <1>5, <1>6, <1>7 DEF CheckStep

LEMMA AdminTyping ==
  ASSUME TypeOK, SweepInv, [Next]_vars
  PROVE  AdminTypeOK'
<1> USE DEF AdminTypeOK
<1>1. AdminTypeOK /\ MaxGeneration \in Nat
  BY PoolAssumption DEF PoolAssumption, TypeOK
<1>2. CASE UNCHANGED admin
  BY <1>1, <1>2 DEF admin
<1>3. ASSUME NEW next \in Configs, ApplyConfig(next) PROVE AdminTypeOK'
  BY <1>1, <1>3 DEF ApplyConfig, PooledKeys
<1>4. CASE CloseManager
  BY <1>1, <1>4 DEF CloseManager, PooledKeys
<1>5. ASSUME NEW k \in Keys, SweepEntry(k) PROVE AdminTypeOK'
  BY <1>1, <1>5 DEF SweepEntry
<1>6. CASE SweepDone
  BY <1>1, <1>6 DEF SweepDone, NoSweep
<1>7. CASE DropGuards
  BY <1>1, <1>7 DEF DropGuards, NoSweep
<1>8. QED
  BY <1>2, <1>3, <1>4, <1>5, <1>6, <1>7
  DEF Next, vars, Finished, Sweep, UserStep, CheckStep, Resolve, MarkBusy, LookupEntry, CreateEntry,
      OpenConn, DialOk, DialFails, UseOk, UseFails, ResetResolve, ResetClose, ResetClear,
      CheckStart, CheckMarkBusy, CheckLookup, CheckRejects, CheckAccepts, CheckDrop,
      CheckDialOk, CheckDialFails, CheckStore

LEMMA PoolTyping ==
  ASSUME TypeOK, PlaceInv, SweepInv, [Next]_vars
  PROVE  PoolTypeOK'
<1> USE DEF PoolTypeOK
<1>1. PoolTypeOK /\ UserTypeOK /\ CheckTypeOK /\ link \in [Conns -> Links]
  BY DEF TypeOK, Links
<1>2. SUFFICES /\ conns' \in [Keys -> Entries \cup {NoEntry}]
               /\ entryConn' \in [Entries -> Conns \cup {NoConn}]
               /\ link' \in [Conns -> Links]
               /\ busy' \subseteq Keys
  BY DEF Links
<1>3. ASSUME NEW u \in Users, Resolve(u) \/ UserStep(u)
      PROVE  PoolTypeOK'
  <2>1. /\ at[u] \in {"resolved", "guarded", "missing"} => key[u] \in Keys
        /\ at[u] \in {"ready", "dialling", "using", "clear"} => entry[u] \in Entries
        /\ at[u] = "closing" => resetKey[u] \in Keys
        /\ at[u] = "dialling" => conn[u] \in Conns
    BY <1>1 DEF TypeOK, PlaceInv, UserTypeOK
  <2>2. busy' \subseteq Keys
    BY <1>1, <1>3, <2>1
    DEF Resolve, UserStep, MarkBusy, LookupEntry, CreateEntry, HasEntry, OpenConn, DialOk, DialFails,
        UseOk, UseFails, ResetResolve, ResetClose, ResetClear, AfterReset, GiveUp
  <2>3. CASE CreateEntry(u)
    BY <1>1, <2>1, <2>2, <2>3, FreshEntry DEF CreateEntry, Links, TypeOK
  <2>4. CASE OpenConn(u)
    BY <1>1, <2>2, <2>4, FreshConn, DialFacts DEF OpenConn, Links
  <2>5. CASE DialOk(u)
    BY <1>1, <2>1, <2>2, <2>5, DialledFacts DEF DialOk, Links
  <2>6. CASE DialFails(u)
    BY <1>1, <2>2, <2>6, CloseLinkFacts DEF DialFails, Links
  <2>7. CASE ResetClose(u)
    BY <1>1, <2>1, <2>2, <2>7, CloseLinkFacts DEF ResetClose, Links
  <2>8. CASE ResetClear(u)
    BY <1>1, <2>1, <2>2, <2>8 DEF ResetClear, Links
  <2>9. CASE UNCHANGED <<conns, entryConn, link>>
    BY <1>1, <2>2, <2>9
  <2>10. QED
    BY <1>3, <2>3, <2>4, <2>5, <2>6, <2>7, <2>8, <2>9
    DEF Resolve, UserStep, MarkBusy, LookupEntry, UseOk, UseFails, ResetResolve
<1>4. ASSUME NEW k \in Keys, CheckStart(k) \/ CheckStep(k)
      PROVE  PoolTypeOK'
  <2>1. /\ Pooled(k) \in Conns \cup {NoConn}
        /\ checkAt[k] \in {"inspect", "drop", "dialling", "store"} => checkConn[k] \in Conns
        /\ conns[k] # NoEntry => conns[k] \in Entries
    BY <1>1 DEF Pooled, TypeOK, CheckTypeOK
  <2>2. busy' \subseteq Keys
    BY <1>1, <1>4
    DEF CheckStep, CheckStart, CheckMarkBusy, CheckLookup, CheckRejects, CheckAccepts, CheckDrop,
        CheckDialOk, CheckDialFails, CheckStore, CheckEnds
  <2>3. CASE CheckLookup(k)
    BY <1>1, <2>2, <2>3, FreshConn, DialFacts DEF CheckLookup, CheckDials, Links
  <2>4. CASE CheckDrop(k)
    <3>1. NewConn \in Conns
      BY <2>4, FreshConn DEF CheckDrop, CheckDials
    <3>2. link' \in [Conns -> Links]
      BY <1>1, <2>4, <3>1, CloseLinkFacts, DialFacts DEF CheckDrop
    <3>3. entryConn' \in [Entries -> Conns \cup {NoConn}]
      BY <1>1, <2>4 DEF CheckDrop
    <3>4. QED
      BY <1>1, <2>2, <2>4, <3>2, <3>3 DEF CheckDrop, Links
  <2>5. CASE CheckDialOk(k)
    BY <1>1, <2>1, <2>2, <2>5, DialledFacts DEF CheckDialOk, Links
  <2>6. CASE CheckDialFails(k)
    BY <1>1, <2>2, <2>6, CloseLinkFacts DEF CheckDialFails, Links
  <2>7. CASE CheckStore(k)
    BY <1>1, <2>1, <2>2, <2>7, FreshEntry, CloseLinkFacts DEF CheckStore, Links, TypeOK
  <2>8. CASE UNCHANGED <<conns, entryConn, link>>
    BY <1>1, <2>2, <2>8
  <2>9. QED
    BY <1>4, <2>3, <2>4, <2>5, <2>6, <2>7, <2>8
    DEF CheckStep, CheckStart, CheckMarkBusy, CheckRejects, CheckAccepts
<1>5. ASSUME NEW next \in Configs, ApplyConfig(next) PROVE PoolTypeOK'
  BY <1>1, <1>5, OutdatedFacts DEF ApplyConfig, Links
<1>6. ASSUME NEW k \in Keys, SweepEntry(k) PROVE PoolTypeOK'
  BY <1>1, <1>6, CloseLinkFacts DEF SweepEntry, TypeOK, Links
<1>7. CASE CloseManager \/ SweepDone \/ DropGuards \/ UNCHANGED vars
  BY <1>1, <1>7 DEF CloseManager, SweepDone, DropGuards, vars
<1>8. QED
  BY <1>3, <1>4, <1>5, <1>6, <1>7 DEF Next, Sweep, Finished, Links

-----------------------------------------------------------------------------
(* One caller or one check at a time. *)

SameUser(v) ==
  /\ at'[v] = at[v] /\ key'[v] = key[v] /\ entry'[v] = entry[v]
  /\ conn'[v] = conn[v] /\ resetKey'[v] = resetKey[v]

SameCheck(l) ==
  checkAt'[l] = checkAt[l] /\ checkGeneration'[l] = checkGeneration[l] /\ checkConn'[l] = checkConn[l]

LEMMA LeaveFacts ==
  ASSUME UserTypeOK, NEW u \in Users, Leave(u)
  PROVE  /\ at'[u] = "idle" /\ key'[u] = NoKey /\ entry'[u] = NoEntry
         /\ conn'[u] = NoConn /\ resetKey'[u] = NoKey
         /\ \A v \in Users \ {u} : SameUser(v)
BY DEF Leave, Goto, UserTypeOK, SameUser

LEMMA UserFrame ==
  ASSUME UserTypeOK, NEW u \in Users, Resolve(u) \/ UserStep(u)
  PROVE  /\ \A v \in Users \ {u} : SameUser(v)
         /\ UNCHANGED <<admin, checks>>
<1>1. UNCHANGED <<admin, checks>>
  BY DEF UserStep, Resolve, MarkBusy, LookupEntry, CreateEntry, OpenConn, DialOk, DialFails,
         UseOk, UseFails, ResetResolve, ResetClose, ResetClear
<1>2. CASE Leave(u)
  BY <1>1, <1>2, LeaveFacts
<1>3. CASE ~Leave(u)
  BY <1>1, <1>3
  DEF UserStep, Resolve, MarkBusy, LookupEntry, CreateEntry, OpenConn, DialOk, DialFails,
      UseOk, UseFails, ResetResolve, ResetClose, ResetClear, AfterReset, GiveUp, HasEntry, Goto,
      UserTypeOK, SameUser
<1>4. QED
  BY <1>2, <1>3

LEMMA CheckFrame ==
  ASSUME CheckTypeOK, NEW k \in Keys, CheckStart(k) \/ CheckStep(k)
  PROVE  /\ \A l \in Keys \ {k} : SameCheck(l)
         /\ UNCHANGED <<admin, users>>
BY DEF CheckStep, CheckStart, CheckMarkBusy, CheckLookup, CheckRejects, CheckAccepts, CheckDrop,
       CheckDialOk, CheckDialFails, CheckStore, CheckEnds, CheckDone, CheckDials, CheckGoto,
       CheckTypeOK, SameCheck

LEMMA AdminFrame ==
  ASSUME \/ \E next \in Configs : ApplyConfig(next)
         \/ CloseManager \/ Sweep \/ UNCHANGED vars
  PROVE  UNCHANGED <<users, checks>>
BY DEF ApplyConfig, CloseManager, Sweep, SweepEntry, SweepDone, DropGuards, vars

\* PlaceInv and the place of a connection, for one user.
Place(u) ==
  /\ at[u] \in {"resolved", "guarded", "missing", "ready", "dialling", "using"} => key[u] # NoKey
  /\ at[u] \in {"ready", "dialling", "using", "clear"} => entry[u] # NoEntry
  /\ at[u] = "closing" => resetKey[u] # NoKey
  /\ at[u] \in {"reset", "closing", "clear"} /\ u \in Controls => key[u] = NoKey
  /\ conn[u] # NoConn <=> at[u] \in {"dialling", "using"}

LEMMA PlaceOf ==
  ASSUME TypeOK, PlaceInv
  PROVE  \A u \in Users : Place(u)
BY DEF TypeOK, PlaceInv, Place

LEMMA PlaceStep ==
  ASSUME TypeOK, PlaceInv, [Next]_vars
  PROVE  \A v \in Users : Place(v)'
<1>1. UserTypeOK /\ \A v \in Users : Place(v)
  BY PlaceOf DEF TypeOK
<1>2. ASSUME NEW u \in Users, Resolve(u) \/ UserStep(u) PROVE \A v \in Users : Place(v)'
  <2>1. ASSUME NEW v \in Users \ {u} PROVE Place(v)'
    BY <1>1, <1>2, <2>1, UserFrame DEF SameUser, Place
  <2>2. Place(u)'
    <3>1. CASE Leave(u)
      BY <3>1, <1>1, LeaveFacts DEF Place
    <3>2. CASE Resolve(u) \/ (MarkBusy(u) /\ ~Leave(u))
      BY <3>2, <1>1 DEF Resolve, MarkBusy, Goto, Place, UserTypeOK
    <3>3. CASE LookupEntry(u) /\ ~Leave(u)
      BY <3>3, <1>1 DEF LookupEntry, GiveUp, HasEntry, Goto, Place, UserTypeOK
    <3>4. CASE CreateEntry(u) /\ ~Leave(u)
      BY <3>4, <1>1, FreshEntry, PoolAssumption
      DEF CreateEntry, GiveUp, HasEntry, Goto, Place, UserTypeOK, PoolAssumption
    <3>5. CASE OpenConn(u)
      BY <3>5, <1>1, FreshConn, PoolAssumption DEF OpenConn, Goto, Place, UserTypeOK, PoolAssumption
    <3>6. CASE DialOk(u) \/ UseFails(u)
      BY <3>6, <1>1 DEF DialOk, UseFails, Goto, Place, UserTypeOK
    <3>7. CASE (ResetResolve(u) \/ ResetClose(u)) /\ ~Leave(u)
      BY <3>7, <1>1 DEF ResetResolve, ResetClose, AfterReset, GiveUp, Goto, Place, UserTypeOK
    <3>8. QED
      BY <1>2, <3>1, <3>2, <3>3, <3>4, <3>5, <3>6, <3>7
      DEF UserStep, DialFails, UseOk, ResetClear, AfterReset, GiveUp, Resolve, MarkBusy
  <2>3. QED
    BY <2>1, <2>2
<1>3. CASE UNCHANGED users
  BY <1>1, <1>3 DEF users, Place
<1>4. QED
  BY <1>2, <1>3, CheckFrame, AdminFrame DEF Next, Finished, TypeOK

LEMMA CheckPlaceStep ==
  ASSUME TypeOK, [Next]_vars
  PROVE  \A l \in Keys : (checkConn[l] # NoConn <=> checkAt[l] \notin {"idle", "picked", "guarded"})'
<1>1. /\ CheckTypeOK
      /\ \A l \in Keys : checkConn[l] # NoConn <=> checkAt[l] \notin {"idle", "picked", "guarded"}
  BY DEF TypeOK
<1>2. ASSUME NEW k \in Keys, CheckStart(k) \/ CheckStep(k)
      PROVE  \A l \in Keys : (checkConn[l] # NoConn <=> checkAt[l] \notin {"idle", "picked", "guarded"})'
  <2>1. ASSUME NEW l \in Keys \ {k}
        PROVE  (checkConn[l] # NoConn <=> checkAt[l] \notin {"idle", "picked", "guarded"})'
    BY <1>1, <1>2, CheckFrame DEF SameCheck
  <2>2. (checkConn[k] # NoConn <=> checkAt[k] \notin {"idle", "picked", "guarded"})'
    <3>1. CASE CheckLookup(k) \/ CheckDrop(k)
      BY <1>1, <3>1, FreshConn, PoolAssumption
      DEF CheckLookup, CheckDrop, CheckDials, CheckGoto, CheckTypeOK, PoolAssumption
    <3>2. QED
      BY <1>1, <1>2, <3>1
      DEF CheckStep, CheckStart, CheckMarkBusy, CheckRejects, CheckAccepts, CheckDialOk, CheckDialFails,
          CheckStore, CheckEnds, CheckDone, CheckGoto, CheckTypeOK
  <2>3. QED
    BY <2>1, <2>2
<1>3. CASE UNCHANGED checks
  BY <1>1, <1>3 DEF checks
<1>4. QED
  BY <1>2, <1>3, UserFrame, AdminFrame DEF Next, Finished, TypeOK

\* What a sweep has still to visit stays in the pool until it is visited.
LEMMA TodoStep ==
  ASSUME TypeOK, SweepInv, [Next]_vars
  PROVE  (\A k \in sweep.todo : conns[k] # NoEntry)'
<1>1. /\ PoolTypeOK /\ AdminTypeOK
      /\ \A k \in sweep.todo : conns[k] # NoEntry
      /\ \A e : e \in Entries => e # NoEntry
  BY PoolAssumption DEF TypeOK, PoolAssumption
<1>2. ASSUME NEW u \in Users, Resolve(u) \/ UserStep(u) PROVE (\A k \in sweep.todo : conns[k] # NoEntry)'
  <2>1. sweep' = sweep
    BY <1>2, UserFrame DEF TypeOK, admin
  <2>2. CASE CreateEntry(u)
    BY <1>1, <2>1, <2>2 DEF CreateEntry, MuFree, SweepInv, AdminTypeOK
  <2>3. CASE UNCHANGED conns
    BY <1>1, <2>1, <2>3
  <2>4. QED
    BY <1>2, <2>2, <2>3
    DEF UserStep, Resolve, MarkBusy, LookupEntry, OpenConn, DialOk, DialFails,
        UseOk, UseFails, ResetResolve, ResetClose, ResetClear
<1>3. ASSUME NEW k \in Keys, CheckStart(k) \/ CheckStep(k) PROVE (\A l \in sweep.todo : conns[l] # NoEntry)'
  <2>1. sweep' = sweep
    BY <1>3, CheckFrame DEF TypeOK, admin
  <2>2. CASE CheckStore(k)
    BY <1>1, <2>1, <2>2 DEF CheckStore, MuFree, SweepInv, AdminTypeOK
  <2>3. CASE UNCHANGED conns
    BY <1>1, <2>1, <2>3
  <2>4. QED
    BY <1>3, <2>2, <2>3
    DEF CheckStep, CheckStart, CheckMarkBusy, CheckLookup, CheckRejects, CheckAccepts, CheckDrop,
        CheckDialOk, CheckDialFails
<1>4. ASSUME NEW next \in Configs, ApplyConfig(next) PROVE (\A l \in sweep.todo : conns[l] # NoEntry)'
  BY <1>4 DEF ApplyConfig, PooledKeys
<1>5. CASE CloseManager
  BY <1>5 DEF CloseManager, PooledKeys
<1>6. ASSUME NEW k \in Keys, SweepEntry(k) PROVE (\A l \in sweep.todo : conns[l] # NoEntry)'
  BY <1>1, <1>6 DEF SweepEntry, PoolTypeOK, AdminTypeOK
<1>7. CASE SweepDone \/ DropGuards
  BY <1>7 DEF SweepDone, DropGuards, NoSweep
<1>8. CASE UNCHANGED vars
  BY <1>1, <1>8 DEF vars, admin
<1>9. QED
  BY <1>2, <1>3, <1>4, <1>5, <1>6, <1>7, <1>8 DEF Next, Sweep, Finished

LEMMA TypeStep ==
  ASSUME TypeOK, PlaceInv, SweepInv, [Next]_vars
  PROVE  TypeOK' /\ PlaceInv'
<1>1. UserTypeOK'
  BY UserTyping, CheckFrame, AdminFrame DEF Next, Finished, TypeOK, UserTypeOK, users
<1>2. CheckTypeOK'
  BY CheckTyping, UserFrame, AdminFrame DEF Next, Finished, TypeOK, CheckTypeOK, checks
<1>3. PlaceInv'
  BY PlaceStep DEF Place, PlaceInv
<1>4. (\A u \in Users : conn[u] # NoConn <=> at[u] \in {"dialling", "using"})'
  BY PlaceStep DEF Place
<1>5. QED
  BY <1>1, <1>2, <1>3, <1>4, AdminTyping, PoolTyping, CheckPlaceStep, TodoStep DEF TypeOK

-----------------------------------------------------------------------------
(* Sweeps and closing. *)

LEMMA SweepStep ==
  ASSUME TypeOK, SweepInv, [Next]_vars
  PROVE  SweepInv'
<1> USE DEF SweepInv, PooledKeys
<1>1. /\ sweep.op \in {"none", "apply", "close", "guards"}
      /\ conns \in [Keys -> Entries \cup {NoEntry}]
  BY DEF TypeOK, AdminTypeOK, PoolTypeOK
<1>2. CASE UNCHANGED <<admin, conns>>
  BY <1>2 DEF admin
<1>3. ASSUME NEW u \in Users, Resolve(u) \/ UserStep(u), conns' # conns PROVE SweepInv'
  <2>1. CreateEntry(u) /\ ~closed /\ sweep.op \notin {"apply", "close"}
    BY <1>3
    DEF UserStep, Resolve, MarkBusy, LookupEntry, CreateEntry, StillWanted, MuFree, OpenConn, DialOk,
        DialFails, UseOk, UseFails, ResetResolve, ResetClose, ResetClear
  <2>2. QED
    BY <2>1, <1>1 DEF CreateEntry, admin
<1>4. ASSUME NEW k \in Keys, CheckStart(k) \/ CheckStep(k), conns' # conns PROVE SweepInv'
  <2>1. CheckStore(k) /\ ~closed /\ sweep.op \notin {"apply", "close"}
    BY <1>4
    DEF CheckStep, CheckStart, CheckMarkBusy, CheckLookup, CheckRejects, CheckAccepts, CheckDrop,
        CheckDialOk, CheckDialFails, CheckStore, AcceptsResult, MuFree
  <2>2. QED
    BY <2>1, <1>1 DEF CheckStore, admin
<1>5. ASSUME NEW next \in Configs, ApplyConfig(next) PROVE SweepInv'
  BY <1>5 DEF ApplyConfig
<1>6. CASE CloseManager
  BY <1>6 DEF CloseManager
<1>7. ASSUME NEW k \in Keys, SweepEntry(k) PROVE SweepInv'
  <2>1. /\ sweep'.op = sweep.op /\ sweep'.next = sweep.next /\ sweep'.todo = sweep.todo \ {k}
        /\ closed' = closed /\ sweep.op \in {"apply", "close"}
    BY <1>7, <1>1 DEF SweepEntry, TypeOK, AdminTypeOK
  <2>2. \A l \in Keys \ {k} : conns'[l] = conns[l]
    BY <1>7, <1>1 DEF SweepEntry
  <2>3. conns[k] = NoEntry => conns'[k] = NoEntry
    BY <1>7, <1>1 DEF SweepEntry
  <2>4. sweep.op = "close" => conns'[k] = NoEntry
    <3>1. NoKey \notin Keys /\ \A x \in Range(NoConfig.endpoint) : x = NoKey
      BY PoolAssumption DEF PoolAssumption, NoConfig, Range
    <3>2. QED
      BY <1>7, <1>1, <3>1 DEF SweepEntry
  <2>5. QED
    BY <2>1, <2>2, <2>3, <2>4
<1>8. CASE SweepDone
  <2>1. sweep'.todo = {} /\ sweep'.op \in {"none", "guards"}
    BY <1>8 DEF SweepDone, NoSweep
  <2>2. closed' => PooledKeys' = {}
    BY <1>8 DEF SweepDone
  <2>3. sweep'.op = "guards" => closed'
    BY <1>8, <1>1 DEF SweepDone, NoSweep
  <2>4. QED
    BY <2>1, <2>2, <2>3
<1>9. CASE DropGuards
  BY <1>9 DEF DropGuards, NoSweep
<1>10. QED
  BY <1>2, <1>3, <1>4, <1>5, <1>6, <1>7, <1>8, <1>9, UserFrame, CheckFrame
  DEF Next, Sweep, Finished, vars, TypeOK

-----------------------------------------------------------------------------
(* The guards. *)

\* A step of a caller leaves its ownership alone, or takes a free guard, or releases.
LEMMA UserGuard ==
  ASSUME TypeOK, PlaceInv, NEW u \in Users, Resolve(u) \/ UserStep(u)
  PROVE  \/ busy' = busy /\ \A k \in Keys : Owns(u, k)' <=> Owns(u, k)
         \/ \E l \in Keys : /\ l \notin busy /\ busy' = busy \cup {l}
                            /\ \A k \in Keys : ~Owns(u, k) /\ (Owns(u, k)' <=> k = l)
         \/ /\ busy' = busy \ {key[u]}
            /\ \A k \in Keys : (Owns(u, k) <=> k = key[u]) /\ ~Owns(u, k)'
<1> USE DEF Owns
<1>1. UserTypeOK /\ Place(u) /\ NoKey \notin Keys
  BY PlaceOf, PoolAssumption DEF TypeOK, PoolAssumption
<1>2. CASE GiveUp(u) /\ at[u] \notin {"idle", "resolved"}
  BY <1>1, <1>2, LeaveFacts DEF GiveUp
<1>3. CASE Leave(u) /\ busy' = busy /\ (at[u] = "resolved" \/ key[u] = NoKey)
  BY <1>1, <1>3, LeaveFacts
<1>4. CASE Resolve(u)
  BY <1>1, <1>4 DEF Resolve, Goto, UserTypeOK
<1>5. CASE MarkBusy(u)
  BY <1>1, <1>5 DEF MarkBusy, GuardFree, Goto, UserTypeOK, Place
<1>6. CASE (LookupEntry(u) \/ CreateEntry(u)) /\ ~GiveUp(u)
  BY <1>1, <1>6 DEF LookupEntry, CreateEntry, HasEntry, Goto, UserTypeOK
<1>7. CASE OpenConn(u) \/ DialOk(u)
  BY <1>1, <1>7 DEF OpenConn, DialOk, Goto, UserTypeOK
<1>8. CASE UseFails(u)
  BY <1>1, <1>8 DEF UseFails, Goto, UserTypeOK
<1>9. CASE (ResetResolve(u) \/ ResetClose(u)) /\ ~AfterReset(u)
  BY <1>1, <1>9 DEF ResetResolve, ResetClose, Goto, UserTypeOK
<1>10. CASE AfterReset(u) /\ at[u] \in {"reset", "closing", "clear"}
  BY <1>1, <1>2, <1>3, <1>10 DEF AfterReset, Place, Users
<1>11. QED
  BY <1>2, <1>4, <1>5, <1>6, <1>7, <1>8, <1>9, <1>10
  DEF UserStep, LookupEntry, CreateEntry, DialFails, UseOk, ResetResolve, ResetClose, ResetClear

LEMMA CheckGuard ==
  ASSUME TypeOK, NEW k \in Keys, CheckStart(k) \/ CheckStep(k)
  PROVE  \/ busy' = busy /\ (Checking(k)' <=> Checking(k))
         \/ k \notin busy /\ busy' = busy \cup {k} /\ ~Checking(k) /\ Checking(k)'
         \/ busy' = busy \ {k} /\ Checking(k) /\ ~Checking(k)'
<1> USE DEF Checking, CheckGoto
<1>1. CheckTypeOK
  BY DEF TypeOK
<1>2. CASE CheckStart(k) \/ CheckMarkBusy(k)
  BY <1>1, <1>2 DEF CheckStart, CheckMarkBusy, GuardFree, CheckDone, CheckTypeOK
<1>3. CASE CheckLookup(k) \/ CheckRejects(k) \/ CheckDrop(k) \/ CheckDialOk(k)
  BY <1>1, <1>3 DEF CheckLookup, CheckRejects, CheckDrop, CheckDialOk, CheckDials, CheckTypeOK
<1>4. CASE CheckAccepts(k) \/ CheckDialFails(k) \/ CheckStore(k)
  BY <1>1, <1>4 DEF CheckAccepts, CheckDialFails, CheckStore, CheckEnds, CheckDone, CheckTypeOK
<1>5. QED
  BY <1>2, <1>3, <1>4 DEF CheckStep

LEMMA GuardStep ==
  ASSUME TypeOK, PlaceInv, SweepInv, GuardInv, [Next]_vars
  PROVE  GuardInv'
<1> USE DEF GuardInv
<1>1. ASSUME NEW u \in Users, Resolve(u) \/ UserStep(u) PROVE GuardInv'
  <2>1. /\ closed' = closed /\ \A k \in Keys : Checking(k)' <=> Checking(k)
        /\ \A v \in Users \ {u}, k \in Keys : Owns(v, k)' <=> Owns(v, k)
    BY <1>1, UserFrame DEF TypeOK, admin, checks, Checking, Owns, SameUser
  <2>2. CASE busy' = busy /\ \A k \in Keys : Owns(u, k)' <=> Owns(u, k)
    BY <2>1, <2>2
  <2>3. ASSUME NEW l \in Keys, l \notin busy, busy' = busy \cup {l},
               \A k \in Keys : ~Owns(u, k) /\ (Owns(u, k)' <=> k = l)
        PROVE  GuardInv'
    BY <2>1, <2>3
  <2>4. CASE /\ busy' = busy \ {key[u]}
             /\ \A k \in Keys : (Owns(u, k) <=> k = key[u]) /\ ~Owns(u, k)'
    BY <2>1, <2>4
  <2>5. QED
    BY <1>1, <2>2, <2>3, <2>4, UserGuard
<1>2. ASSUME NEW k \in Keys, CheckStart(k) \/ CheckStep(k) PROVE GuardInv'
  <2>1. /\ closed' = closed /\ \A l \in Keys \ {k} : Checking(l)' <=> Checking(l)
        /\ \A u \in Users, l \in Keys : Owns(u, l)' <=> Owns(u, l)
    BY <1>2, CheckFrame DEF TypeOK, admin, users, Checking, Owns, SameCheck
  <2>2. QED
    BY <1>2, <2>1, CheckGuard
<1>3. CASE UNCHANGED <<users, checks, busy, closed>>
  BY <1>3 DEF users, checks, Owns, Checking
<1>4. CASE SweepDone
  <2>1. closed' \in BOOLEAN /\ (closed => closed') /\ UNCHANGED <<users, checks, busy>>
    BY <1>4 DEF SweepDone, TypeOK, AdminTypeOK
  <2>2. CASE closed'
    BY <2>2
  <2>3. CASE ~closed'
    BY <2>1, <2>3 DEF users, checks, Owns, Checking
  <2>4. QED
    BY <2>2, <2>3
<1>5. CASE DropGuards
  BY <1>5 DEF DropGuards, SweepInv
<1>6. QED
  BY <1>1, <1>2, <1>3, <1>4, <1>5
  DEF Next, Sweep, Finished, vars, admin, ApplyConfig, CloseManager, SweepEntry

-----------------------------------------------------------------------------
(* The entries. *)

NewlyPooled(k) ==
  /\ ~closed
  /\ conns[k] = NoEntry /\ FreshEntries # {}
  /\ conns' = [conns EXCEPT ![k] = NewEntry]

\* A step of a caller keeps what it holds or less, or takes the entry of its endpoint,
\* or makes that entry.
LEMMA UserEntry ==
  ASSUME TypeOK, PlaceInv, NEW u \in Users, Resolve(u) \/ UserStep(u)
  PROVE  \/ /\ conns' = conns
            /\ Holding(u)' => Holding(u) /\ entry'[u] = entry[u] /\ key'[u] = key[u]
         \/ /\ Holding(u)' /\ key[u] \in Keys /\ Owns(u, key[u]) /\ key'[u] = key[u]
            /\ \/ conns' = conns /\ conns[key[u]] # NoEntry /\ entry'[u] = conns[key[u]]
               \/ NewlyPooled(key[u]) /\ entry'[u] = NewEntry
<1> USE DEF Holding
<1>1. UserTypeOK /\ Place(u)
  BY PlaceOf DEF TypeOK
<1>2. at[u] \in {"resolved", "guarded", "missing"} => key[u] \in Keys
  BY <1>1 DEF UserTypeOK, Place
<1>3. CASE Leave(u) /\ conns' = conns
  BY <1>1, <1>3, LeaveFacts
<1>4. CASE Resolve(u) \/ (MarkBusy(u) /\ ~Leave(u))
  BY <1>1, <1>4 DEF Resolve, MarkBusy, Goto, UserTypeOK
<1>5. CASE LookupEntry(u) /\ ~Leave(u)
  BY <1>1, <1>2, <1>5 DEF LookupEntry, GiveUp, HasEntry, Goto, UserTypeOK, Owns
<1>6. CASE CreateEntry(u)
  BY <1>1, <1>2, <1>6, LeaveFacts DEF CreateEntry, StillWanted, GiveUp, HasEntry, Goto, UserTypeOK, Owns, NewlyPooled
<1>7. CASE OpenConn(u) \/ DialOk(u) \/ UseFails(u)
  BY <1>1, <1>7 DEF OpenConn, DialOk, UseFails, Goto, UserTypeOK
<1>8. CASE (ResetResolve(u) \/ ResetClose(u)) /\ ~Leave(u)
  BY <1>1, <1>8 DEF ResetResolve, ResetClose, AfterReset, GiveUp, Goto, UserTypeOK
<1>9. CreateEntry(u) \/ conns' = conns
  BY DEF UserStep, Resolve, MarkBusy, LookupEntry, OpenConn, DialOk, DialFails, UseOk, UseFails,
         ResetResolve, ResetClose, ResetClear
<1>10. DialFails(u) \/ UseOk(u) \/ ResetClear(u) => Leave(u)
  BY DEF DialFails, UseOk, ResetClear, AfterReset, GiveUp
<1>11. QED
  BY <1>3, <1>4, <1>5, <1>6, <1>7, <1>8, <1>9, <1>10 DEF UserStep

LEMMA CheckEntry ==
  ASSUME TypeOK, NEW k \in Keys, CheckStart(k) \/ CheckStep(k)
  PROVE  \/ conns' = conns
         \/ CheckStore(k) /\ Checking(k) /\ NewlyPooled(k)
<1>1. CASE CheckStore(k)
  <2>1. conns[k] # NoEntry => [conns EXCEPT ![k] = conns[k]] = conns
    BY DEF TypeOK, PoolTypeOK
  <2>2. QED
    BY <1>1, <2>1 DEF CheckStore, AcceptsResult, NewlyPooled, Checking
<1>2. QED
  BY <1>1
  DEF CheckStep, CheckStart, CheckMarkBusy, CheckLookup, CheckRejects, CheckAccepts, CheckDrop,
      CheckDialOk, CheckDialFails

LEMMA EntryStep ==
  ASSUME TypeOK, PlaceInv, SweepInv, GuardInv, EntryInv, [Next]_vars
  PROVE  EntryInv'
<1>1. /\ UserTypeOK /\ conns \in [Keys -> Entries \cup {NoEntry}]
      /\ \A v \in Users : Holding(v) => key[v] \in Keys /\ Owns(v, key[v]) /\ entry[v] # NoEntry
      /\ closed => \A k \in Keys : conns[k] = NoEntry
  BY DEF TypeOK, PoolTypeOK, UserTypeOK, PlaceInv, SweepInv, PooledKeys, Holding, Owns
<1>2. ASSUME NEW u \in Users, Resolve(u) \/ UserStep(u) PROVE EntryInv'
  <2>1. \A v \in Users \ {u} : (Holding(v)' <=> Holding(v)) /\ entry'[v] = entry[v] /\ key'[v] = key[v]
    BY <1>1, <1>2, UserFrame DEF SameUser, Holding
  <2>2. CASE /\ conns' = conns
             /\ Holding(u)' => Holding(u) /\ entry'[u] = entry[u] /\ key'[u] = key[u]
    BY <2>1, <2>2 DEF EntryInv
  <2>3. CASE /\ Holding(u)' /\ key[u] \in Keys /\ Owns(u, key[u]) /\ key'[u] = key[u]
             /\ conns' = conns /\ conns[key[u]] # NoEntry /\ entry'[u] = conns[key[u]]
    <3>1. ASSUME NEW v \in Users \ {u}, Holding(v) PROVE entry[v] # conns[key[u]]
      BY <1>1, <2>3, <3>1 DEF EntryInv, GuardInv
    <3>2. QED
      BY <2>1, <2>3, <3>1 DEF EntryInv
  <2>4. CASE /\ Holding(u)' /\ key[u] \in Keys /\ Owns(u, key[u]) /\ key'[u] = key[u]
             /\ NewlyPooled(key[u]) /\ entry'[u] = NewEntry
    <3>1. ASSUME NEW v \in Users \ {u}, Holding(v) PROVE key[v] # key[u]
      BY <1>1, <2>4, <3>1 DEF GuardInv, NewlyPooled
    <3>2. /\ NewEntry \in Entries /\ \A k \in Keys : conns[k] # NewEntry
          /\ \A v \in Users : entry[v] # NewEntry
      BY <2>4, FreshEntry DEF NewlyPooled
    <3>3. conns'[key[u]] = NewEntry /\ \A k \in Keys \ {key[u]} : conns'[k] = conns[k]
      BY <1>1, <2>4 DEF NewlyPooled
    <3>4. QED
      BY <1>1, <2>1, <2>4, <3>1, <3>2, <3>3 DEF EntryInv
  <2>5. QED
    BY <1>2, <2>2, <2>3, <2>4, UserEntry
<1>3. ASSUME NEW k \in Keys, CheckStart(k) \/ CheckStep(k) PROVE EntryInv'
  <2>1. UNCHANGED users
    BY <1>3, CheckFrame DEF TypeOK
  <2>2. CASE conns' = conns
    BY <2>1, <2>2 DEF EntryInv, users, Holding
  <2>3. CASE Checking(k) /\ NewlyPooled(k)
    <3>1. ASSUME NEW v \in Users, Holding(v) PROVE key[v] # k
      BY <1>1, <2>3, <3>1 DEF GuardInv, NewlyPooled
    <3>2. /\ NewEntry \in Entries /\ \A l \in Keys : conns[l] # NewEntry
          /\ \A v \in Users : entry[v] # NewEntry
      BY <2>3, FreshEntry DEF NewlyPooled
    <3>3. conns'[k] = NewEntry /\ \A l \in Keys \ {k} : conns'[l] = conns[l]
      BY <1>1, <2>3 DEF NewlyPooled
    <3>4. QED
      BY <1>1, <2>1, <3>1, <3>2, <3>3 DEF EntryInv, users, Holding
  <2>4. QED
    BY <1>3, <2>2, <2>3, CheckEntry
<1>4. ASSUME UNCHANGED users, \A k \in Keys : conns'[k] \in {conns[k], NoEntry} PROVE EntryInv'
  BY <1>1, <1>4 DEF EntryInv, users, Holding
<1>5. ASSUME NEW k \in Keys, SweepEntry(k) PROVE EntryInv'
  BY <1>1, <1>4, <1>5 DEF SweepEntry
<1>6. CASE UNCHANGED <<users, conns>>
  BY <1>4, <1>6
<1>7. QED
  BY <1>2, <1>3, <1>5, <1>6
  DEF Next, Sweep, Finished, vars, ApplyConfig, CloseManager, SweepDone, DropGuards

-----------------------------------------------------------------------------
(* The connections. *)

Connected(u) == at[u] \in {"dialling", "using"}

\* A step after which nothing refers to a connection that did not refer to it before.
NoNewReference ==
  /\ \A e \in Entries : InUse(e)' =>
       entryConn'[e] = NoConn \/ (InUse(e) /\ entryConn'[e] = entryConn[e])
  /\ \A u \in Users :
       /\ conn'[u] = conn[u] \/ conn'[u] = NoConn
       /\ Connected(u)' => /\ at'[u] = at[u] /\ conn'[u] = conn[u] /\ entry'[u] = entry[u]
                           /\ entryConn'[entry[u]] \in {entryConn[entry[u]], NoConn}

KeepsFresh(k) == Fresh(k)' => Fresh(k) /\ checkConn'[k] = checkConn[k]

LEMMA NoNewReferenceStep ==
  ASSUME TypeOK, TypeOK', ConnInv, NoNewReference, \A k \in Keys : KeepsFresh(k)
  PROVE  ConnInv'
<1> USE DEF ConnInv, NoNewReference
<1>1. /\ \A u \in Users : conn[u] # NoConn <=> Connected(u)
      /\ \A u \in Users : (conn[u] # NoConn)' <=> Connected(u)'
      /\ \A k \in Keys : Fresh(k) => checkConn[k] # NoConn
      /\ \A k \in Keys : Fresh(k)' => checkConn'[k] # NoConn
  BY DEF TypeOK, CheckTypeOK, Connected, Fresh
<1>2. (\A u, v \in Users : conn[u] # NoConn /\ conn[u] = conn[v] => u = v)'
  BY <1>1
<1>3. (\A e \in Entries, u \in Users : InUse(e) /\ conn[u] # NoConn /\ entryConn[e] = conn[u] => entry[u] = e)'
  BY <1>1
<1>4. (\A e, f \in Entries :
        InUse(e) /\ InUse(f) /\ entryConn[e] # NoConn /\ entryConn[e] = entryConn[f] => e = f)'
  BY <1>1
<1>5. (\A k \in Keys : Fresh(k) =>
         /\ \A u \in Users : conn[u] # checkConn[k]
         /\ \A e \in Entries : InUse(e) => entryConn[e] # checkConn[k]
         /\ \A l \in Keys : Fresh(l) /\ checkConn[k] = checkConn[l] => k = l)'
  BY <1>1 DEF KeepsFresh
<1>6. (\A u \in Users : /\ at[u] = "dialling" => entryConn[entry[u]] = NoConn
                        /\ at[u] = "using" => entryConn[entry[u]] \in {NoConn, conn[u]})'
  BY <1>1 DEF Connected
<1>7. QED
  BY <1>2, <1>3, <1>4, <1>5, <1>6

LEMMA InUseSame ==
  ASSUME UNCHANGED <<conns, entry>>
  PROVE  \A e : InUse(e)' <=> InUse(e)
BY DEF InUse

\* References that a caller drops, or takes from the pool.
LEMMA UserNoNewReference ==
  ASSUME TypeOK, PlaceInv, EntryInv, NEW u \in Users, Resolve(u) \/ UserStep(u),
         ~OpenConn(u), ~DialOk(u)
  PROVE  NoNewReference
<1>1. /\ UserTypeOK /\ conns \in [Keys -> Entries \cup {NoEntry}]
      /\ entryConn \in [Entries -> Conns \cup {NoConn}] /\ NoEntry \notin Entries
      /\ \A v \in Users : SameUser(v) \/ v = u
      /\ \A v \in Users : Place(v)
  BY UserFrame, PlaceOf, PoolAssumption DEF TypeOK, PoolTypeOK, PoolAssumption
<1>2. /\ conn'[u] \in {conn[u], NoConn} /\ ~Connected(u)'
      /\ \A v \in Users : (conn'[v] = conn[v] \/ conn'[v] = NoConn)
                          /\ (Connected(v)' => v # u /\ Connected(v) /\ at'[v] = at[v]
                                               /\ conn'[v] = conn[v] /\ entry'[v] = entry[v])
  <2>1. conn'[u] \in {conn[u], NoConn} /\ ~Connected(u)'
    <3>1. CASE Leave(u)
      BY <1>1, <3>1, LeaveFacts DEF Connected
    <3>2. CASE ~Leave(u)
      BY <1>1, <3>2
      DEF UserStep, Resolve, MarkBusy, LookupEntry, CreateEntry, HasEntry, DialFails, UseOk, UseFails,
          ResetResolve, ResetClose, ResetClear, AfterReset, GiveUp, Goto, UserTypeOK, Connected
    <3>3. QED
      BY <3>1, <3>2
  <2>2. QED
    BY <1>1, <2>1 DEF SameUser, Connected
<1>3. \A v \in Users : Connected(v)' => entry[v] \in Entries
  BY <1>1, <1>2 DEF Place, UserTypeOK, Connected
<1>4. CASE CreateEntry(u) /\ conns' # conns
  <2>1. NewlyPooled(key[u]) /\ entryConn' = [entryConn EXCEPT ![NewEntry] = NoConn] /\ entry'[u] = NewEntry
    BY <1>1, <1>4 DEF CreateEntry, StillWanted, HasEntry, NewlyPooled, UserTypeOK
  <2>2. NewEntry \in Entries /\ \A v \in Users : entry[v] # NewEntry
    BY <2>1, FreshEntry DEF NewlyPooled
  <2>3. \A e \in Entries : InUse(e)' => InUse(e) \/ e = NewEntry
    BY <1>1, <2>1 DEF InUse, NewlyPooled, SameUser
  <2>4. \A e \in Entries : entryConn'[e] = IF e = NewEntry THEN NoConn ELSE entryConn[e]
    BY <1>1, <2>1, <2>2
  <2>5. QED
    BY <1>2, <1>3, <2>2, <2>3, <2>4 DEF NoNewReference
<1>5. CASE conns' = conns
  <2>1. \A e \in Entries : InUse(e)' => InUse(e)
    <3>1. entry'[u] \in {entry[u], NoEntry} \/ \E k \in Keys : entry'[u] = conns[k]
      <4>1. CASE Leave(u)
        BY <1>1, <4>1, LeaveFacts
      <4>2. CASE LookupEntry(u) \/ CreateEntry(u)
        BY <1>1, <1>5, <4>2, FreshEntry, LeaveFacts
        DEF LookupEntry, CreateEntry, HasEntry, GiveUp, UserTypeOK, PoolTypeOK, Place
      <4>3. CASE ResetClose(u) /\ ~Leave(u)
        BY <1>1, <4>3 DEF ResetClose, AfterReset, GiveUp, UserTypeOK, Place
      <4>4. CASE (Resolve(u) \/ MarkBusy(u) \/ UseFails(u) \/ ResetResolve(u)) /\ ~Leave(u)
        BY <1>1, <4>4 DEF Resolve, MarkBusy, UseFails, ResetResolve, AfterReset, GiveUp, UserTypeOK
      <4>5. QED
        BY <4>1, <4>2, <4>3, <4>4 DEF UserStep, DialFails, UseOk, ResetResolve, ResetClear, AfterReset, GiveUp
    <3>2. QED
      BY <1>1, <1>5, <3>1 DEF InUse, SameUser
  <2>2. \A e \in Entries : entryConn'[e] \in {entryConn[e], NoConn}
    <3>1. CASE ResetClose(u) \/ ResetClear(u)
      BY <1>1, <3>1 DEF ResetClose, ResetClear
    <3>2. CASE CreateEntry(u)
      BY <1>1, <3>2 DEF CreateEntry
    <3>3. CASE entryConn' = entryConn
      BY <3>3
    <3>4. QED
      BY <3>1, <3>2, <3>3
      DEF UserStep, Resolve, MarkBusy, LookupEntry, DialFails, UseOk, UseFails, ResetResolve
  <2>3. QED
    BY <1>2, <1>3, <2>1, <2>2 DEF NoNewReference
<1>6. QED
  BY <1>4, <1>5
  DEF UserStep, Resolve, MarkBusy, LookupEntry, OpenConn, DialOk, DialFails, UseOk, UseFails,
      ResetResolve, ResetClose, ResetClear

LEMMA OpenConnStep ==
  ASSUME TypeOK, TypeOK', PlaceInv, EntryInv, ConnInv, NEW u \in Users, OpenConn(u)
  PROVE  ConnInv'
<1>1. /\ \A v \in Users : SameUser(v) \/ v = u
      /\ UNCHANGED <<conns, entryConn, entry, checks>>
      /\ at[u] = "ready" /\ entry[u] \in Entries /\ InUse(entry[u])
      /\ entryConn \in [Entries -> Conns \cup {NoConn}]
  BY UserFrame DEF UserStep, OpenConn, TypeOK, PoolTypeOK, UserTypeOK, PlaceInv, InUse
<1>2. /\ \A e : InUse(e)' <=> InUse(e)
      /\ \A k \in Keys : (Fresh(k)' <=> Fresh(k)) /\ checkConn'[k] = checkConn[k]
      /\ \A k \in Keys : Fresh(k) => checkConn[k] # NoConn
      /\ \A v \in Users : conn[v] # NoConn <=> Connected(v)
  BY <1>1, InUseSame DEF checks, Fresh, Connected, TypeOK, CheckTypeOK
<1>3. CASE entryConn[entry[u]] # NoConn
  <2>1. conn'[u] = entryConn[entry[u]] /\ at'[u] = "using"
    BY <1>1, <1>3 DEF OpenConn, Goto, TypeOK, UserTypeOK
  <2>2. ASSUME NEW v \in Users \ {u} PROVE conn[v] # entryConn[entry[u]]
    <3>1. conn[v] = entryConn[entry[u]] => entry[v] = entry[u] /\ Connected(v)
      BY <1>1, <1>2, <1>3 DEF ConnInv
    <3>2. Connected(v) => Holding(v) /\ Holding(u)
      BY <1>1 DEF Connected, Holding
    <3>3. QED
      BY <3>1, <3>2 DEF EntryInv
  <2>3. \A e \in Entries : InUse(e) /\ entryConn[e] = entryConn[entry[u]] => e = entry[u]
    BY <1>1, <1>3 DEF ConnInv
  <2>4. QED
    BY <1>1, <1>2, <1>3, <2>1, <2>2, <2>3 DEF ConnInv, SameUser
<1>4. CASE entryConn[entry[u]] = NoConn
  <2>1. conn'[u] = NewConn /\ at'[u] = "dialling" /\ FreshConns # {}
    BY <1>1, <1>4 DEF OpenConn, Goto, TypeOK, UserTypeOK
  <2>2. /\ NewConn \in Conns /\ NoConn \notin Conns
        /\ \A e \in Entries : InUse(e) => entryConn[e] # NewConn
        /\ \A v \in Users : conn[v] # NewConn
        /\ \A k \in Keys : checkConn[k] # NewConn
    BY <2>1, FreshConn, PoolAssumption DEF PoolAssumption
  <2>3. QED
    BY <1>1, <1>2, <1>4, <2>1, <2>2 DEF ConnInv, SameUser
<1>5. QED
  BY <1>3, <1>4

LEMMA DialOkStep ==
  ASSUME TypeOK, PlaceInv, EntryInv, ConnInv, NEW u \in Users, DialOk(u)
  PROVE  ConnInv'
<1>1. /\ \A v \in Users : SameUser(v) \/ v = u
      /\ UNCHANGED <<conns, conn, entry, checks>>
      /\ at[u] = "dialling" /\ at'[u] = "using" /\ entry[u] \in Entries /\ conn[u] # NoConn
      /\ InUse(entry[u])
  BY UserFrame DEF UserStep, DialOk, Goto, TypeOK, UserTypeOK, PlaceInv, InUse
<1>2. /\ \A e : InUse(e)' <=> InUse(e)
      /\ \A k \in Keys : (Fresh(k)' <=> Fresh(k)) /\ checkConn'[k] = checkConn[k]
      /\ \A v \in Users : conn[v] # NoConn <=> Connected(v)
      /\ \A v \in Users : Connected(v) => Holding(v)
  BY <1>1, InUseSame DEF checks, Fresh, Connected, Holding, TypeOK
<1>3. /\ entryConn'[entry[u]] = conn[u]
      /\ \A e \in Entries \ {entry[u]} : entryConn'[e] = entryConn[e]
  BY <1>1 DEF DialOk, TypeOK, PoolTypeOK
<1>4. \A v \in Users \ {u} : Connected(v) => entry[v] # entry[u] /\ entry[v] \in Entries
  BY <1>1, <1>2 DEF EntryInv, PlaceInv, TypeOK, UserTypeOK, Connected
<1>5. \A e \in Entries : InUse(e) /\ entryConn[e] = conn[u] => e = entry[u]
  BY <1>1 DEF ConnInv
<1>6. (\A v, w \in Users : conn[v] # NoConn /\ conn[v] = conn[w] => v = w)'
  BY <1>1 DEF ConnInv
<1>7. (\A e \in Entries, v \in Users : InUse(e) /\ conn[v] # NoConn /\ entryConn[e] = conn[v] => entry[v] = e)'
  BY <1>1, <1>2, <1>3 DEF ConnInv
<1>8. (\A e, f \in Entries :
        InUse(e) /\ InUse(f) /\ entryConn[e] # NoConn /\ entryConn[e] = entryConn[f] => e = f)'
  BY <1>1, <1>2, <1>3, <1>5 DEF ConnInv
<1>9. (\A k \in Keys : Fresh(k) =>
         /\ \A v \in Users : conn[v] # checkConn[k]
         /\ \A e \in Entries : InUse(e) => entryConn[e] # checkConn[k]
         /\ \A l \in Keys : Fresh(l) /\ checkConn[k] = checkConn[l] => k = l)'
  BY <1>1, <1>2, <1>3 DEF ConnInv
<1>10. (\A v \in Users : /\ at[v] = "dialling" => entryConn[entry[v]] = NoConn
                         /\ at[v] = "using" => entryConn[entry[v]] \in {NoConn, conn[v]})'
  BY <1>1, <1>3, <1>4 DEF ConnInv, SameUser, Connected
<1>11. QED
  BY <1>6, <1>7, <1>8, <1>9, <1>10 DEF ConnInv

\* A check that begins to dial, after it has taken a rejected connection out of the pool.
LEMMA CheckDialStep ==
  ASSUME TypeOK, PlaceInv, ConnInv, NEW k \in Keys, CheckLookup(k) \/ CheckDrop(k), CheckDials(k)
  PROVE  ConnInv'
<1>1. /\ \A l \in Keys : SameCheck(l) \/ l = k
      /\ UNCHANGED users /\ UNCHANGED conns
      /\ checkAt'[k] = "dialling" /\ checkConn'[k] = NewConn /\ FreshConns # {}
  BY CheckFrame DEF CheckStep, CheckLookup, CheckDrop, CheckDials, CheckGoto, TypeOK, CheckTypeOK
<1>2. /\ NewConn \in Conns /\ NoConn \notin Conns
      /\ \A e \in Entries : InUse(e) => entryConn[e] # NewConn
      /\ \A v \in Users : conn[v] # NewConn
      /\ \A l \in Keys : checkConn[l] # NewConn
  BY <1>1, FreshConn, PoolAssumption DEF PoolAssumption
<1>3. /\ \A e \in Entries : entryConn'[e] \in {entryConn[e], NoConn}
      /\ \A e : InUse(e)' <=> InUse(e)
      /\ UNCHANGED <<at, conn, entry>>
      /\ \A l \in Keys \ {k} : (Fresh(l)' <=> Fresh(l)) /\ checkConn'[l] = checkConn[l]
      /\ \A l \in Keys : Fresh(l) => checkConn[l] # NoConn
      /\ \A v \in Users : conn[v] # NoConn => entry[v] \in Entries
      /\ \A v \in Users : at[v] \in {"dialling", "using"} <=> conn[v] # NoConn
  BY <1>1, InUseSame
  DEF CheckLookup, CheckDrop, users, TypeOK, PoolTypeOK, UserTypeOK, PlaceInv, Fresh, SameCheck
<1>4. QED
  BY <1>1, <1>2, <1>3 DEF ConnInv

\* A check that stores its connection while it owns the endpoint: no transaction holds
\* the entry.
LEMMA CheckStoreStep ==
  ASSUME TypeOK, PlaceInv, GuardInv, EntryInv, ConnInv, NEW k \in Keys, CheckStore(k), AcceptsResult(k)
  PROVE  ConnInv'
<1> DEFINE e == IF conns[k] = NoEntry THEN NewEntry ELSE conns[k]
           c == checkConn[k]
<1>1. /\ \A l \in Keys : SameCheck(l) \/ l = k
      /\ UNCHANGED <<at, key, entry, conn>> /\ checkAt'[k] = "idle"
      /\ checkAt[k] = "store" /\ ~closed /\ c \in Conns
      /\ conns[k] = NoEntry => FreshEntries # {}
      /\ conns' = [conns EXCEPT ![k] = e] /\ entryConn' = [entryConn EXCEPT ![e] = c]
  BY CheckFrame
  DEF CheckStep, CheckStore, AcceptsResult, CheckEnds, CheckDone, CheckGoto, users, TypeOK, CheckTypeOK
<1>2. e \in Entries /\ \A v \in Users : Holding(v) => entry[v] # e
  <2>1. CASE conns[k] = NoEntry
    BY <1>1, <2>1, FreshEntry
  <2>2. CASE conns[k] # NoEntry
    <3>1. ASSUME NEW v \in Users, Holding(v), entry[v] = conns[k] PROVE FALSE
      <4>1. key[v] = k
        BY <3>1 DEF EntryInv
      <4>2. Owns(v, k) /\ Checking(k)
        BY <1>1, <3>1, <4>1 DEF Owns, Checking, Holding
      <4>3. QED
        BY <1>1, <4>2 DEF GuardInv
    <3>2. QED
      BY <2>2, <3>1 DEF TypeOK, PoolTypeOK
  <2>3. QED
    BY <2>1, <2>2
<1>3. \A f \in Entries : InUse(f)' => InUse(f) \/ f = e
  BY <1>1, <1>2 DEF InUse, TypeOK, PoolTypeOK
<1>4. \A f \in Entries : entryConn'[f] = IF f = e THEN c ELSE entryConn[f]
  BY <1>1, <1>2 DEF TypeOK, PoolTypeOK
<1>5. /\ Fresh(k) /\ ~Fresh(k)'
      /\ \A l \in Keys \ {k} : (Fresh(l)' <=> Fresh(l)) /\ checkConn'[l] = checkConn[l]
      /\ \A v \in Users : at[v] \in {"dialling", "using"} => Holding(v) /\ entry[v] \in Entries
  BY <1>1 DEF Fresh, SameCheck, Holding, PlaceInv, TypeOK, UserTypeOK
<1> HIDE DEF e, c
<1>6. /\ \A v \in Users : conn[v] # c
      /\ \A f \in Entries : InUse(f) => entryConn[f] # c
      /\ \A l \in Keys : Fresh(l) /\ l # k => checkConn[l] # c
  BY <1>5 DEF ConnInv, c
<1>7. (\A v, w \in Users : conn[v] # NoConn /\ conn[v] = conn[w] => v = w)'
  BY <1>1 DEF ConnInv
<1>8. (\A f \in Entries, v \in Users : InUse(f) /\ conn[v] # NoConn /\ entryConn[f] = conn[v] => entry[v] = f)'
  BY <1>1, <1>3, <1>4, <1>6 DEF ConnInv
<1>9. (\A f, g \in Entries :
        InUse(f) /\ InUse(g) /\ entryConn[f] # NoConn /\ entryConn[f] = entryConn[g] => f = g)'
  BY <1>3, <1>4, <1>6 DEF ConnInv
<1>10. (\A l \in Keys : Fresh(l) =>
         /\ \A v \in Users : conn[v] # checkConn[l]
         /\ \A f \in Entries : InUse(f) => entryConn[f] # checkConn[l]
         /\ \A m \in Keys : Fresh(m) /\ checkConn[l] = checkConn[m] => l = m)'
  BY <1>1, <1>3, <1>4, <1>5, <1>6 DEF ConnInv
<1>11. (\A v \in Users : /\ at[v] = "dialling" => entryConn[entry[v]] = NoConn
                         /\ at[v] = "using" => entryConn[entry[v]] \in {NoConn, conn[v]})'
  BY <1>1, <1>2, <1>4, <1>5 DEF ConnInv
<1>12. QED
  BY <1>7, <1>8, <1>9, <1>10, <1>11 DEF ConnInv

LEMMA ConnStep ==
  ASSUME TypeOK, TypeOK', PlaceInv, GuardInv, EntryInv, ConnInv, [Next]_vars
  PROVE  ConnInv'
<1>1. ASSUME NEW u \in Users, Resolve(u) \/ UserStep(u) PROVE ConnInv'
  <2>1. \A k \in Keys : KeepsFresh(k)
    BY <1>1, UserFrame DEF TypeOK, checks, KeepsFresh, Fresh
  <2>2. QED
    BY <1>1, <2>1, OpenConnStep, DialOkStep, UserNoNewReference, NoNewReferenceStep
<1>2. ASSUME UNCHANGED users,
             \A k \in Keys : conns'[k] \in {conns[k], NoEntry},
             \A e \in Entries : entryConn'[e] \in {entryConn[e], NoConn}
      PROVE  NoNewReference
  <2>1. \A e \in Entries : InUse(e)' => InUse(e)
    BY <1>2, PoolAssumption DEF InUse, users, PoolAssumption
  <2>2. \A u \in Users : Connected(u) => entry[u] \in Entries
    BY DEF Connected, PlaceInv, TypeOK, UserTypeOK
  <2>3. QED
    BY <1>2, <2>1, <2>2 DEF NoNewReference, users, Connected
<1>3. ASSUME NEW k \in Keys, CheckStart(k) \/ CheckStep(k) PROVE ConnInv'
  <2>1. UNCHANGED users /\ \A l \in Keys \ {k} : KeepsFresh(l)
    BY <1>3, CheckFrame DEF TypeOK, KeepsFresh, Fresh, SameCheck
  <2>2. CASE (CheckLookup(k) \/ CheckDrop(k)) /\ CheckDials(k)
    BY <2>2, CheckDialStep
  <2>3. CASE CheckStore(k) /\ AcceptsResult(k)
    BY <2>3, CheckStoreStep
  <2>4. CASE ~((CheckLookup(k) \/ CheckDrop(k)) /\ CheckDials(k)) /\ ~(CheckStore(k) /\ AcceptsResult(k))
    <3>1. UNCHANGED <<conns, entryConn>>
      BY <1>3, <2>4
      DEF CheckStep, CheckStart, CheckMarkBusy, CheckLookup, CheckRejects, CheckAccepts, CheckDrop,
          CheckDialOk, CheckDialFails, CheckStore
    <3>2. KeepsFresh(k)
      BY <1>3, <2>4
      DEF CheckStep, CheckStart, CheckMarkBusy, CheckLookup, CheckRejects, CheckAccepts, CheckDrop,
          CheckDialOk, CheckDialFails, CheckStore, CheckEnds, CheckDone, CheckGoto, KeepsFresh, Fresh,
          TypeOK, CheckTypeOK
    <3>3. QED
      BY <1>2, <2>1, <3>1, <3>2, NoNewReferenceStep
  <2>5. QED
    BY <2>2, <2>3, <2>4
<1>4. CASE \/ \E next \in Configs : ApplyConfig(next)
           \/ CloseManager \/ Sweep \/ UNCHANGED vars
  <2>1. UNCHANGED users /\ \A k \in Keys : KeepsFresh(k)
    BY <1>4, AdminFrame DEF checks, KeepsFresh, Fresh
  <2>2. /\ \A k \in Keys : conns'[k] \in {conns[k], NoEntry}
        /\ \A e \in Entries : entryConn'[e] \in {entryConn[e], NoConn}
    <3>1. ASSUME NEW k \in Keys, SweepEntry(k)
          PROVE  /\ \A l \in Keys : conns'[l] \in {conns[l], NoEntry}
                 /\ \A e \in Entries : entryConn'[e] \in {entryConn[e], NoConn}
      BY <3>1 DEF SweepEntry, TypeOK, PoolTypeOK
    <3>2. QED
      BY <1>4, <3>1 DEF ApplyConfig, CloseManager, Sweep, SweepDone, DropGuards, vars
  <2>3. QED
    BY <1>2, <2>1, <2>2, NoNewReferenceStep
<1>5. QED
  BY <1>1, <1>3, <1>4 DEF Next, Finished

-----------------------------------------------------------------------------
(* The checks. *)

\* A pooled connection changes only by the owner of its endpoint, or is forgotten.
LEMMA UserPooled ==
  ASSUME TypeOK, TypeOK', PlaceInv, SweepInv, EntryInv, NEW u \in Users, Resolve(u) \/ UserStep(u)
  PROVE  \A k \in Keys :
           /\ Pooled(k)' \in {Pooled(k), NoConn} \/ (DialOk(u) /\ conns[k] = entry[u] /\ k = key[u])
           /\ Pooled(k)' # NoConn => conns'[k] = conns[k]
<1>1. /\ conns \in [Keys -> Entries \cup {NoEntry}] /\ conns' \in [Keys -> Entries \cup {NoEntry}]
      /\ entryConn \in [Entries -> Conns \cup {NoConn}]
      /\ entryConn' \in [Entries -> Conns \cup {NoConn}]
  BY DEF TypeOK, PoolTypeOK
<1>2. CASE OpenConn(u)
  BY <1>2 DEF OpenConn, Pooled
<1>3. CASE DialOk(u)
  <2>1. /\ conns' = conns /\ entry[u] \in Entries /\ Holding(u)
        /\ \A e \in Entries \ {entry[u]} : entryConn'[e] = entryConn[e]
    BY <1>1, <1>3 DEF DialOk, TypeOK, UserTypeOK, PlaceInv, Holding
  <2>2. \A k \in Keys : conns[k] = entry[u] => k = key[u]
    BY <2>1 DEF EntryInv
  <2>3. QED
    BY <1>1, <1>3, <2>1, <2>2 DEF Pooled
<1>4. CASE ~OpenConn(u) /\ ~DialOk(u)
  <2>1. NoNewReference
    BY <1>4, UserNoNewReference
  <2>2. ASSUME NEW k \in Keys
        PROVE  conns'[k] = conns[k] \/ (conns[k] = NoEntry /\ ~InUse(conns'[k]))
    <3>1. CASE conns' = conns
      BY <3>1
    <3>2. CASE NewlyPooled(key[u]) /\ key[u] \in Keys
      BY <3>2, <1>1, FreshEntry DEF NewlyPooled, InUse
    <3>3. QED
      BY <3>1, <3>2, UserEntry
  <2>3. ASSUME NEW k \in Keys, conns'[k] # NoEntry
        PROVE  entryConn'[conns'[k]] = NoConn
               \/ (conns'[k] = conns[k] /\ entryConn'[conns'[k]] = entryConn[conns[k]])
    <3>1. PICK e \in Entries : conns'[k] = e
      BY <1>1, <2>3
    <3>2. InUse(e)'
      BY <3>1 DEF InUse
    <3>3. \/ entryConn'[e] = NoConn
          \/ InUse(e) /\ entryConn'[e] = entryConn[e]
      BY <2>1, <3>2 DEF NoNewReference
    <3>4. CASE conns'[k] = conns[k]
      BY <3>1, <3>3, <3>4
    <3>5. CASE ~InUse(conns'[k])
      BY <3>1, <3>3, <3>5
    <3>6. QED
      BY <2>2, <3>4, <3>5
  <2>4. QED
    BY <2>3 DEF Pooled
<1>5. QED
  BY <1>2, <1>3, <1>4

\* An endpoint whose check is under way has its pooled connection changed by nobody.
CheckOf(k) ==
  /\ checkAt[k] \in {"inspect", "drop"} => Pooled(k) \in {NoConn, checkConn[k]}
  /\ Fresh(k) => Pooled(k) = NoConn
  /\ checkGeneration[k] <= generation

LEMMA CheckKept ==
  ASSUME NEW k \in Keys, CheckOf(k), SameCheck(k), generation' = generation,
         Pooled(k)' \in {Pooled(k), NoConn}
  PROVE  CheckOf(k)'
BY DEF CheckOf, SameCheck, Fresh

LEMMA CheckPooled ==
  ASSUME TypeOK, EntryInv, NEW k \in Keys, CheckStart(k) \/ CheckStep(k)
  PROVE  /\ \A l \in Keys \ {k} :
              /\ conns'[l] = conns[l]
              /\ Pooled(l)' = Pooled(l)
         /\ (Pooled(k)' \in {Pooled(k), NoConn} /\ conns' = conns)
            \/ (CheckStore(k) /\ AcceptsResult(k) /\ Pooled(k)' = checkConn[k])
<1>1. /\ conns \in [Keys -> Entries \cup {NoEntry}]
      /\ entryConn \in [Entries -> Conns \cup {NoConn}] /\ NoEntry \notin Entries
  BY PoolAssumption DEF TypeOK, PoolTypeOK, PoolAssumption
<1>2. CASE CheckDrop(k)
  <2>1. conns' = conns
    BY <1>2 DEF CheckDrop
  <2>2. entryConn' = entryConn \/ (conns[k] # NoEntry /\ entryConn' = [entryConn EXCEPT ![conns[k]] = NoConn])
    <3>1. checkConn[k] # NoConn
      BY <1>2 DEF CheckDrop, TypeOK
    <3>2. QED
      BY <1>2, <3>1 DEF CheckDrop, Pooled
  <2>3. QED
    BY <1>1, <2>1, <2>2 DEF Pooled, EntryInv
<1>3. CASE CheckStore(k) /\ AcceptsResult(k)
  <2> DEFINE e == IF conns[k] = NoEntry THEN NewEntry ELSE conns[k]
  <2>1. /\ conns' = [conns EXCEPT ![k] = e] /\ entryConn' = [entryConn EXCEPT ![e] = checkConn[k]]
        /\ conns[k] = NoEntry => FreshEntries # {}
    BY <1>3 DEF CheckStore
  <2>2. e \in Entries /\ \A l \in Keys \ {k} : conns[l] # e
    BY <1>1, <2>1, FreshEntry DEF EntryInv
  <2> HIDE DEF e
  <2>3. QED
    BY <1>1, <1>3, <2>1, <2>2 DEF Pooled
<1>4. CASE ~CheckDrop(k) /\ ~(CheckStore(k) /\ AcceptsResult(k))
  BY <1>4
  DEF CheckStep, CheckStart, CheckMarkBusy, CheckLookup, CheckRejects, CheckAccepts,
      CheckDialOk, CheckDialFails, CheckStore, Pooled
<1>5. QED
  BY <1>2, <1>3, <1>4

LEMMA CheckInvStep ==
  ASSUME TypeOK, TypeOK', PlaceInv, SweepInv, GuardInv, EntryInv, CheckInv, [Next]_vars
  PROVE  CheckInv'
<1>1. /\ CheckTypeOK /\ \A k \in Keys : CheckOf(k)
      /\ \A k \in Keys : checkGeneration[k] \in Int /\ generation \in Int
      /\ generation >= 1
  BY PoolAssumption DEF TypeOK, CheckTypeOK, AdminTypeOK, CheckInv, CheckOf, PoolAssumption
<1>2. SUFFICES \A k \in Keys : CheckOf(k)'
  BY DEF CheckInv, CheckOf
<1>3. ASSUME NEW u \in Users, Resolve(u) \/ UserStep(u), NEW k \in Keys PROVE CheckOf(k)'
  <2>1. SameCheck(k) /\ generation' = generation
    BY <1>3, UserFrame DEF TypeOK, admin, checks, SameCheck
  <2>2. CASE Pooled(k)' \in {Pooled(k), NoConn}
    BY <1>1, <2>1, <2>2, CheckKept
  <2>3. CASE DialOk(u) /\ conns[k] = entry[u] /\ k = key[u]
    <3>1. Owns(u, k) /\ ~closed
      BY <2>3 DEF DialOk, Owns, SweepInv, PooledKeys, PlaceInv
    <3>2. ~Checking(k)
      BY <3>1 DEF GuardInv
    <3>3. QED
      BY <1>1, <2>1, <3>2 DEF CheckOf, SameCheck, Checking, Fresh
  <2>4. QED
    BY <1>3, <2>2, <2>3, UserPooled
<1>4. ASSUME NEW k \in Keys, CheckStart(k) \/ CheckStep(k), NEW l \in Keys PROVE CheckOf(l)'
  <2>1. generation' = generation /\ \A m \in Keys \ {k} : SameCheck(m)
    BY <1>4, CheckFrame DEF TypeOK, admin
  <2>2. CASE l # k
    BY <1>1, <1>4, <2>1, <2>2, CheckPooled, CheckKept
  <2>3. CheckOf(k)'
    <3>1. CASE CheckLookup(k)
      <4>1. Pooled(k)' = Pooled(k)
        BY <3>1 DEF CheckLookup, Pooled
      <4>2. QED
        BY <1>1, <2>1, <3>1, <4>1
        DEF CheckLookup, CheckDials, CheckGoto, CheckTypeOK, CheckOf, Fresh
    <3>2. CASE CheckDrop(k)
      <4>1. checkAt[k] = "drop" /\ checkAt'[k] = "dialling" /\ checkGeneration' = checkGeneration
        BY <1>1, <3>2 DEF CheckDrop, CheckDials, CheckGoto, CheckTypeOK
      <4>2. Pooled(k)' = NoConn
        <5>1. CASE Pooled(k) = checkConn[k]
          <6>1. conns[k] # NoEntry /\ conns' = conns /\ entryConn' = [entryConn EXCEPT ![conns[k]] = NoConn]
            BY <3>2, <5>1 DEF CheckDrop, Pooled, TypeOK
          <6>2. QED
            BY <6>1 DEF Pooled, TypeOK, PoolTypeOK
        <5>2. CASE Pooled(k) # checkConn[k]
          BY <1>1, <3>2, <4>1, <5>2 DEF CheckDrop, CheckOf, Pooled
        <5>3. QED
          BY <5>1, <5>2
      <4>3. QED
        BY <1>1, <2>1, <4>1, <4>2 DEF CheckOf, Fresh
    <3>3. CASE CheckRejects(k) \/ CheckDialOk(k)
      <4>1. Pooled(k)' = Pooled(k)
        BY <3>3 DEF CheckRejects, CheckDialOk, Pooled
      <4>2. QED
        BY <1>1, <2>1, <3>3, <4>1 DEF CheckRejects, CheckDialOk, CheckGoto, CheckTypeOK, CheckOf, Fresh
    <3>4. CASE CheckStart(k) \/ CheckMarkBusy(k)
      BY <1>1, <2>1, <3>4 DEF CheckStart, CheckMarkBusy, CheckDone, CheckGoto, CheckTypeOK, CheckOf, Fresh
    <3>5. CASE CheckAccepts(k) \/ CheckDialFails(k) \/ CheckStore(k)
      BY <1>1, <2>1, <3>5
      DEF CheckAccepts, CheckDialFails, CheckStore, CheckEnds, CheckDone, CheckGoto, CheckTypeOK, CheckOf, Fresh
    <3>6. QED
      BY <1>4, <3>1, <3>2, <3>3, <3>4, <3>5 DEF CheckStep
  <2>4. QED
    BY <2>2, <2>3
<1>5. ASSUME \/ \E next \in Configs : ApplyConfig(next)
             \/ CloseManager \/ Sweep \/ UNCHANGED vars,
             NEW k \in Keys
      PROVE  CheckOf(k)'
  <2>1. UNCHANGED checks
    BY <1>5, AdminFrame
  <2>2. Pooled(k)' \in {Pooled(k), NoConn}
    <3>1. ASSUME NEW l \in Keys, SweepEntry(l) PROVE Pooled(k)' \in {Pooled(k), NoConn}
      BY <3>1 DEF SweepEntry, Pooled, TypeOK, PoolTypeOK
    <3>2. CASE UNCHANGED <<conns, entryConn>>
      BY <3>2 DEF Pooled
    <3>3. QED
      BY <1>5, <3>1, <3>2 DEF ApplyConfig, CloseManager, Sweep, SweepDone, DropGuards, vars
  <2>3. generation' \in {generation, generation + 1}
    BY <1>5 DEF ApplyConfig, CloseManager, Sweep, SweepEntry, SweepDone, DropGuards, vars, admin
  <2>4. QED
    BY <1>1, <2>1, <2>2, <2>3 DEF CheckOf, checks, Fresh
<1>6. QED
  BY <1>3, <1>4, <1>5 DEF Next, Finished

-----------------------------------------------------------------------------
(* What is pooled is configured. *)

LEMMA WantedStep ==
  ASSUME TypeOK, SweepInv, WantedInv, [Next]_vars
  PROVE  WantedInv'
<1> USE DEF WantedInv, PooledKeys
<1>1. /\ sweep.op \in {"none", "apply", "close", "guards"} /\ NoKey \notin Keys
      /\ conns \in [Keys -> Entries \cup {NoEntry}]
  BY PoolAssumption DEF TypeOK, AdminTypeOK, PoolTypeOK, PoolAssumption
<1>2. ASSUME NEW k \in Keys, NewlyPooled(k), k \in Gateways, MuFree, UNCHANGED admin
      PROVE  WantedInv'
  BY <1>1, <1>2 DEF NewlyPooled, MuFree, Gateways, admin
<1>3. CASE UNCHANGED <<admin, conns>>
  BY <1>3 DEF admin, Gateways
<1>4. ASSUME NEW u \in Users, Resolve(u) \/ UserStep(u) PROVE WantedInv'
  <2>1. UNCHANGED admin
    BY <1>4, UserFrame DEF TypeOK
  <2>2. CASE conns' # conns
    <3>1. CreateEntry(u)
      BY <1>4, <2>2
      DEF UserStep, Resolve, MarkBusy, LookupEntry, OpenConn, DialOk, DialFails, UseOk, UseFails,
          ResetResolve, ResetClose, ResetClear
    <3>2. NewlyPooled(key[u]) /\ key[u] \in Gateways /\ MuFree
      BY <2>2, <3>1 DEF CreateEntry, StillWanted, NewlyPooled
    <3>3. key[u] \in Keys
      BY <3>2 DEF Gateways, TypeOK, UserTypeOK
    <3>4. QED
      BY <1>2, <2>1, <3>2, <3>3
  <2>3. QED
    BY <1>3, <2>1, <2>2
<1>5. ASSUME NEW k \in Keys, CheckStart(k) \/ CheckStep(k) PROVE WantedInv'
  <2>1. UNCHANGED admin
    BY <1>5, CheckFrame DEF TypeOK
  <2>2. CASE CheckStore(k) /\ NewlyPooled(k)
    <3>1. CASE AcceptsResult(k)
      BY <1>2, <2>1, <2>2, <3>1 DEF CheckStore, AcceptsResult
    <3>2. CASE ~AcceptsResult(k)
      BY <1>3, <2>1, <2>2, <3>2 DEF CheckStore
    <3>3. QED
      BY <3>1, <3>2
  <2>3. QED
    BY <1>3, <1>5, <2>1, <2>2, CheckEntry
<1>6. CASE \E next \in Configs : ApplyConfig(next)
  BY <1>6 DEF ApplyConfig
<1>7. CASE CloseManager
  BY <1>7 DEF CloseManager, Gateways
<1>8. ASSUME NEW k \in Keys, SweepEntry(k) PROVE WantedInv'
  <2>1. /\ config' = config /\ sweep'.op = sweep.op /\ sweep'.next = sweep.next
        /\ sweep'.todo = sweep.todo \ {k}
    BY <1>8 DEF SweepEntry, TypeOK, AdminTypeOK
  <2>2. /\ \A l \in Keys \ {k} : conns'[l] = conns[l]
        /\ conns'[k] # NoEntry => k \in Range(sweep.next.endpoint) /\ conns'[k] = conns[k]
    BY <1>1, <1>8 DEF SweepEntry
  <2>3. QED
    BY <2>1, <2>2 DEF Gateways
<1>9. CASE SweepDone
  <2>1. sweep'.op # "apply"
    BY <1>9 DEF SweepDone, NoSweep
  <2>2. CASE sweep.op = "apply"
    BY <1>1, <1>9, <2>1, <2>2 DEF SweepDone, Gateways
  <2>3. CASE sweep.op = "close"
    BY <1>9, <2>3 DEF SweepDone, SweepInv
  <2>4. QED
    BY <1>9, <2>2, <2>3 DEF SweepDone
<1>10. CASE DropGuards
  BY <1>10 DEF DropGuards, NoSweep, Gateways
<1>11. QED
  BY <1>3, <1>4, <1>5, <1>6, <1>7, <1>8, <1>9, <1>10 DEF Next, Sweep, Finished, vars

-----------------------------------------------------------------------------
(* The connections of the pool, of a dial and of a check are different ones. *)

LEMMA PooledApart ==
  ASSUME TypeOK, EntryInv, ConnInv, NEW k \in Keys, Pooled(k) # NoConn
  PROVE  /\ conns[k] \in Entries /\ Pooled(k) \in Conns
         /\ \A l \in Keys : Pooled(l) = Pooled(k) => l = k
         /\ \A v \in Users : conn[v] = Pooled(k) => entry[v] = conns[k] /\ at[v] = "using"
         /\ \A l \in Keys : Fresh(l) => checkConn[l] # Pooled(k)
<1>1. /\ conns \in [Keys -> Entries \cup {NoEntry}]
      /\ entryConn \in [Entries -> Conns \cup {NoConn}]
      /\ \A v \in Users : conn[v] # NoConn <=> at[v] \in {"dialling", "using"}
  BY DEF TypeOK, PoolTypeOK
<1>2. /\ conns[k] \in Entries /\ Pooled(k) = entryConn[conns[k]] /\ Pooled(k) \in Conns
      /\ InUse(conns[k])
  BY <1>1 DEF Pooled, InUse
<1>3. ASSUME NEW l \in Keys, Pooled(l) = Pooled(k) PROVE l = k
  <2>1. conns[l] \in Entries /\ InUse(conns[l]) /\ entryConn[conns[l]] = entryConn[conns[k]]
    BY <1>1, <1>2, <1>3 DEF Pooled, InUse
  <2>2. conns[l] = conns[k] /\ conns[k] # NoEntry
    BY <1>2, <2>1 DEF ConnInv, Pooled
  <2>3. QED
    BY <2>2 DEF EntryInv
<1>4. ASSUME NEW v \in Users, conn[v] = Pooled(k) PROVE entry[v] = conns[k] /\ at[v] = "using"
  BY <1>1, <1>2, <1>4 DEF ConnInv
<1>5. ASSUME NEW l \in Keys, Fresh(l) PROVE checkConn[l] # Pooled(k)
  BY <1>2, <1>5 DEF ConnInv
<1>6. QED
  BY <1>2, <1>3, <1>4, <1>5

LEMMA FreshApart ==
  ASSUME TypeOK, EntryInv, ConnInv, NEW k \in Keys, Fresh(k)
  PROVE  /\ checkConn[k] \in Conns
         /\ \A l \in Keys : Pooled(l) # checkConn[k]
         /\ \A v \in Users : conn[v] # checkConn[k]
         /\ \A l \in Keys : Fresh(l) /\ checkConn[l] = checkConn[k] => l = k
<1>1. checkConn[k] \in Conns /\ checkConn[k] # NoConn
  BY DEF TypeOK, CheckTypeOK, Fresh
<1>2. \A l \in Keys : Pooled(l) # checkConn[k]
  BY <1>1, PooledApart
<1>3. QED
  BY <1>1, <1>2 DEF ConnInv

LEMMA DialApart ==
  ASSUME TypeOK, EntryInv, ConnInv, NEW u \in Users, at[u] = "dialling"
  PROVE  /\ conn[u] \in Conns
         /\ \A k \in Keys : Pooled(k) # conn[u]
         /\ \A v \in Users : conn[v] = conn[u] => v = u
         /\ \A k \in Keys : Fresh(k) => checkConn[k] # conn[u]
<1>1. conn[u] \in Conns /\ conn[u] # NoConn
  BY DEF TypeOK, UserTypeOK
<1>2. \A k \in Keys : Pooled(k) # conn[u]
  BY <1>1, PooledApart
<1>3. QED
  BY <1>1, <1>2 DEF ConnInv

-----------------------------------------------------------------------------
(* What is pooled is open, and of the present configuration. *)

PooledKept(k) ==
  Pooled(k)' # NoConn =>
    conns'[k] = conns[k] /\ Pooled(k)' = Pooled(k) /\ link'[Pooled(k)] = link[Pooled(k)]

DialKept(u) ==
  at'[u] = "dialling" =>
    /\ at[u] = "dialling" /\ entry'[u] = entry[u] /\ conn'[u] = conn[u]
    /\ link'[conn[u]] = link[conn[u]]
    /\ \A k \in Keys : conns'[k] = entry[u] => conns[k] = entry[u]

FreshKept(k) ==
  Fresh(k)' => /\ checkAt'[k] = checkAt[k] /\ checkConn'[k] = checkConn[k]
               /\ checkGeneration'[k] = checkGeneration[k]
               /\ link'[checkConn[k]] = link[checkConn[k]]

LEMMA OpenKept ==
  ASSUME OpenInv, NEW k \in Keys, UNCHANGED <<sweep, generation>>
  PROVE  /\ PooledKept(k) => PooledIsOpen(k)'
         /\ FreshKept(k) => CheckIsCurrent(k)'
         /\ \A u \in Users : DialKept(u) => DialIsCurrent(k, u)'
<1>1. Settled(k)' <=> Settled(k)
  BY DEF Settled
<1>2. ASSUME PooledKept(k) PROVE PooledIsOpen(k)'
  <2>1. SUFFICES ASSUME conns'[k] # NoEntry, Pooled(k)' # NoConn
                 PROVE  link'[Pooled(k)'].up /\ (Settled(k)' => link'[Pooled(k)'].current)
    BY DEF PooledIsOpen
  <2>2. conns[k] # NoEntry /\ Pooled(k)' = Pooled(k) /\ Pooled(k) # NoConn
        /\ link'[Pooled(k)] = link[Pooled(k)]
    BY <1>2, <2>1 DEF PooledKept
  <2>3. PooledIsOpen(k)
    BY DEF OpenInv
  <2>4. QED
    BY <1>1, <2>2, <2>3 DEF PooledIsOpen
<1>3. ASSUME FreshKept(k) PROVE CheckIsCurrent(k)'
  <2>1. CheckIsCurrent(k)
    BY DEF OpenInv
  <2>2. QED
    BY <1>3, <2>1 DEF CheckIsCurrent, FreshKept, Fresh
<1>4. ASSUME NEW u \in Users, DialKept(u) PROVE DialIsCurrent(k, u)'
  <2>1. DialIsCurrent(k, u)
    BY DEF OpenInv
  <2>2. QED
    BY <1>1, <1>4, <2>1 DEF DialIsCurrent, DialKept
<1>5. QED
  BY <1>2, <1>3, <1>4

LEMMA UserOpenStep ==
  ASSUME TypeOK, TypeOK', PlaceInv, SweepInv, EntryInv, ConnInv, OpenInv,
         NEW u \in Users, Resolve(u) \/ UserStep(u)
  PROVE  OpenInv'
<1>1. /\ UNCHANGED <<sweep, generation, checks>> /\ \A v \in Users \ {u} : SameUser(v)
      /\ \A v \in Users : at[v] = "dialling" => conn[v] \in Conns
      /\ \A k \in Keys : Fresh(k) => checkConn[k] \in Conns
  BY UserFrame, DialApart, FreshApart DEF TypeOK, UserTypeOK, admin
<1>2. \A k \in Keys : /\ Fresh(k)' <=> Fresh(k)
                      /\ checkAt'[k] = checkAt[k] /\ checkConn'[k] = checkConn[k]
                      /\ checkGeneration'[k] = checkGeneration[k]
  BY <1>1 DEF checks, Fresh
<1>3. \A k \in Keys :
        /\ Pooled(k)' \in {Pooled(k), NoConn} \/ (DialOk(u) /\ conns[k] = entry[u] /\ k = key[u])
        /\ Pooled(k)' # NoConn => conns'[k] = conns[k]
  BY UserPooled
<1>4. \A v \in Users, k \in Keys : at[v] = "dialling" /\ conns'[k] = entry[v] => conns[k] = entry[v]
  <2>1. \A v \in Users : at[v] = "dialling" => entry[v] \in Entries
    BY DEF PlaceInv, TypeOK, UserTypeOK
  <2>2. CASE NewlyPooled(key[u])
    BY <2>2, FreshEntry DEF NewlyPooled, TypeOK, PoolTypeOK
  <2>3. QED
    BY <2>2, UserEntry
<1>5. ASSUME NEW c, \A x \in Conns \ {c} : link'[x] = link[x],
             \A k \in Keys : Pooled(k)' # NoConn => Pooled(k) # c,
             \A v \in Users \ {u} : at[v] = "dialling" => conn[v] # c,
             \A k \in Keys : Fresh(k) => checkConn[k] # c
      PROVE  /\ \A k \in Keys : CheckIsCurrent(k)'
             /\ \A k \in Keys, v \in Users \ {u} : DialIsCurrent(k, v)'
             /\ \A k \in Keys : Pooled(k)' \in {Pooled(k), NoConn} => PooledIsOpen(k)'
  <2>1. \A k \in Keys : FreshKept(k)
    BY <1>1, <1>2, <1>5 DEF FreshKept
  <2>2. \A v \in Users \ {u} : DialKept(v)
    BY <1>1, <1>4, <1>5 DEF DialKept, SameUser
  <2>3. ASSUME NEW k \in Keys, Pooled(k)' \in {Pooled(k), NoConn} PROVE PooledKept(k)
    BY <1>3, <1>5, <2>3, PooledApart DEF PooledKept
  <2>4. QED
    BY <1>1, <2>1, <2>2, <2>3, OpenKept
<1>6. ASSUME at'[u] # "dialling" PROVE \A k \in Keys : DialIsCurrent(k, u)'
  BY <1>6 DEF DialIsCurrent
<1>7. CASE DialOk(u)
  <2>1. /\ at[u] = "dialling" /\ at'[u] = "using" /\ conn[u] \in Conns
        /\ link' = [link EXCEPT ![conn[u]].up = TRUE]
        /\ entryConn' = [entryConn EXCEPT ![entry[u]] = conn[u]] /\ conns' = conns
        /\ entry[u] \in Entries
    BY <1>1, <1>7 DEF DialOk, Goto, PlaceInv, TypeOK, UserTypeOK
  <2>2. /\ \A x \in Conns \ {conn[u]} : link'[x] = link[x]
        /\ link'[conn[u]].up
        /\ link'[conn[u]].current <=> link[conn[u]].current
    BY <2>1, DialledFacts DEF TypeOK
  <2>3. ASSUME NEW k \in Keys, conns[k] = entry[u] PROVE PooledIsOpen(k)'
    <3>1. Pooled(k)' = conn[u]
      BY <2>1, <2>3, PoolAssumption DEF Pooled, TypeOK, PoolTypeOK, PoolAssumption
    <3>2. DialIsCurrent(k, u) /\ conns[k] # NoEntry
      BY <2>1, <2>3, PoolAssumption DEF OpenInv, PoolAssumption
    <3>3. Settled(k)' <=> Settled(k)
      BY <1>1 DEF Settled
    <3>4. QED
      BY <2>1, <2>2, <2>3, <3>1, <3>2, <3>3 DEF PooledIsOpen, DialIsCurrent
  <2>4. /\ \A k \in Keys, v \in Users \ {u} : DialIsCurrent(k, v)'
        /\ \A k \in Keys : CheckIsCurrent(k)'
        /\ \A k \in Keys : Pooled(k)' \in {Pooled(k), NoConn} => PooledIsOpen(k)'
    BY <1>5, <2>1, <2>2, DialApart
  <2>5. QED
    BY <1>3, <1>6, <2>1, <2>3, <2>4 DEF OpenInv
<1>8. ASSUME NEW c, \A x \in Conns \ {c} : link'[x] = link[x],
             \A k \in Keys : Pooled(k)' # NoConn => Pooled(k) # c,
             \A v \in Users \ {u} : at[v] = "dialling" => conn[v] # c,
             \A k \in Keys : Fresh(k) => checkConn[k] # c,
             at'[u] # "dialling", ~DialOk(u)
      PROVE  OpenInv'
  BY <1>3, <1>5, <1>6, <1>8 DEF OpenInv
<1>9. CASE DialFails(u)
  <2>1. at[u] = "dialling" /\ at'[u] = "idle" /\ link' = CloseLink(conn[u])
    BY <1>9, LeaveFacts DEF DialFails, GiveUp, TypeOK
  <2>2. \A x \in Conns \ {conn[u]} : link'[x] = link[x]
    BY <2>1, CloseLinkFacts DEF TypeOK
  <2>3. ~DialOk(u)
    BY <2>1 DEF DialOk, Goto, TypeOK, UserTypeOK
  <2>4. QED
    BY <1>8, <2>1, <2>2, <2>3, DialApart
<1>10. CASE ResetClose(u) /\ conns[resetKey[u]] # NoEntry
  <2> DEFINE e == conns[resetKey[u]]
  <2>1. /\ link' = CloseLink(entryConn[e]) /\ entryConn' = [entryConn EXCEPT ![e] = NoConn]
        /\ conns' = conns /\ at'[u] = "clear" /\ at[u] = "closing" /\ resetKey[u] \in Keys
    BY <1>10 DEF ResetClose, Goto, PlaceInv, TypeOK, UserTypeOK
  <2>2. e \in Entries /\ entryConn[e] = Pooled(resetKey[u])
    BY <1>10, <2>1 DEF Pooled, TypeOK, PoolTypeOK
  <2>3. \A x \in Conns \ {entryConn[e]} : link'[x] = link[x]
    BY <2>1, CloseLinkFacts DEF TypeOK
  <2>4. CASE entryConn[e] # NoConn
    <3>1. ASSUME NEW k \in Keys, Pooled(k) = entryConn[e] PROVE Pooled(k)' = NoConn
      <4>1. k = resetKey[u]
        BY <2>1, <2>2, <2>4, <3>1, PooledApart
      <4>2. QED
        BY <2>1, <2>2, <4>1 DEF Pooled, TypeOK, PoolTypeOK
    <3>2. /\ \A v \in Users : at[v] = "dialling" => conn[v] # entryConn[e]
          /\ \A k \in Keys : Fresh(k) => checkConn[k] # entryConn[e]
      BY <2>1, <2>2, <2>4, PooledApart
    <3>3. QED
      BY <1>8, <2>1, <2>3, <3>1, <3>2 DEF DialOk
  <2>5. CASE entryConn[e] = NoConn
    <3>1. /\ \A v \in Users : at[v] = "dialling" => conn[v] # NoConn
          /\ \A k \in Keys : Fresh(k) => checkConn[k] # NoConn
          /\ \A k \in Keys : Pooled(k)' # NoConn => Pooled(k) # NoConn
      BY <1>3, <2>1 DEF TypeOK, Fresh, DialOk
    <3>2. QED
      BY <1>8, <2>1, <2>3, <2>5, <3>1 DEF DialOk
  <2>6. QED
    BY <2>4, <2>5
<1>11. CASE OpenConn(u) /\ at'[u] = "dialling"
  <2>1. /\ link' = [link EXCEPT ![NewConn] = Dialling] /\ conn'[u] = NewConn /\ FreshConns # {}
        /\ conns' = conns /\ entryConn' = entryConn
    BY <1>11 DEF OpenConn, Goto, TypeOK, UserTypeOK
  <2>2. /\ NewConn \in Conns /\ \A v \in Users : conn[v] # NewConn
        /\ \A k \in Keys : checkConn[k] # NewConn
        /\ \A k \in Keys : Pooled(k) # NoConn => Pooled(k) # NewConn
    BY <2>1, FreshConn DEF Pooled, InUse, TypeOK, PoolTypeOK
  <2>3. link'[NewConn].current /\ \A x \in Conns \ {NewConn} : link'[x] = link[x]
    BY <2>1, <2>2, DialFacts DEF TypeOK, PoolTypeOK, Links
  <2>4. \A k \in Keys : Pooled(k)' = Pooled(k)
    BY <2>1 DEF Pooled
  <2>5. \A k \in Keys : DialIsCurrent(k, u)'
    BY <2>1, <2>3 DEF DialIsCurrent
  <2>6. QED
    BY <1>5, <2>2, <2>3, <2>4, <2>5 DEF OpenInv
<1>12. CASE link' = link /\ at'[u] # "dialling" /\ ~DialOk(u)
  <2>1. /\ \A v \in Users : at[v] = "dialling" => conn[v] # NoConn
        /\ \A k \in Keys : Fresh(k) => checkConn[k] # NoConn
        /\ \A k \in Keys : Pooled(k)' # NoConn => Pooled(k) # NoConn
    BY <1>1, <1>3, <1>12, PoolAssumption DEF PoolAssumption
  <2>2. QED
    BY <1>8, <1>12, <2>1
<1>13. QED
  <2>1. CASE OpenConn(u)
    BY <1>11, <1>12, <2>1 DEF OpenConn, Goto, TypeOK, UserTypeOK, DialOk
  <2>2. CASE Leave(u) /\ link' = link
    BY <1>12, <2>2, LeaveFacts DEF DialOk, Goto, TypeOK, UserTypeOK
  <2>3. CASE ~OpenConn(u) /\ ~DialOk(u) /\ ~Leave(u) /\ link' = link
    BY <1>12, <2>3
    DEF UserStep, Resolve, MarkBusy, LookupEntry, CreateEntry, HasEntry, DialFails, UseOk, UseFails,
        ResetResolve, ResetClose, ResetClear, AfterReset, GiveUp, Goto, TypeOK, UserTypeOK
  <2>4. CASE link' # link
    BY <1>7, <1>9, <1>10, <2>1, <2>4
    DEF UserStep, Resolve, MarkBusy, LookupEntry, CreateEntry, UseOk, UseFails,
        ResetResolve, ResetClose, ResetClear
  <2>5. QED
    BY <1>7, <2>1, <2>2, <2>3, <2>4

LEMMA CheckOpenStep ==
  ASSUME TypeOK, TypeOK', PlaceInv, EntryInv, ConnInv, CheckInv, OpenInv,
         NEW k \in Keys, CheckStart(k) \/ CheckStep(k)
  PROVE  OpenInv'
<1>1. /\ UNCHANGED <<sweep, generation, at, entry, conn>> /\ \A l \in Keys \ {k} : SameCheck(l)
      /\ \A v \in Users : at[v] = "dialling" => conn[v] \in Conns
      /\ \A l \in Keys : Fresh(l) => checkConn[l] \in Conns
      /\ NoConn \notin Conns
  BY CheckFrame, DialApart, FreshApart, PoolAssumption DEF TypeOK, admin, users, PoolAssumption
<1>2. \A l \in Keys : /\ l # k => Pooled(l)' = Pooled(l) /\ conns'[l] = conns[l]
                      /\ \/ /\ Pooled(l)' \in {Pooled(l), NoConn}
                            /\ Pooled(l)' # NoConn => conns'[l] = conns[l]
                         \/ (l = k /\ CheckStore(k) /\ AcceptsResult(k) /\ Pooled(k)' = checkConn[k])
  BY CheckPooled
<1>3. \A v \in Users, l \in Keys : at[v] = "dialling" /\ conns'[l] = entry[v] => conns[l] = entry[v]
  <2>1. \A v \in Users : at[v] = "dialling" => entry[v] \in Entries
    BY DEF PlaceInv, TypeOK, UserTypeOK
  <2>2. CASE NewlyPooled(k)
    BY <2>2, FreshEntry DEF NewlyPooled, TypeOK, PoolTypeOK
  <2>3. QED
    BY <2>2, CheckEntry
<1>4. ASSUME NEW C, \A x \in Conns \ C : link'[x] = link[x],
             \A l \in Keys : Pooled(l)' # NoConn => Pooled(l) \notin C,
             \A v \in Users : at[v] = "dialling" => conn[v] \notin C,
             \A l \in Keys \ {k} : Fresh(l) => checkConn[l] \notin C,
             CheckIsCurrent(k)', CheckStore(k) /\ AcceptsResult(k) => PooledIsOpen(k)'
      PROVE  OpenInv'
  <2>1. \A l \in Keys \ {k} : FreshKept(l)
    BY <1>1, <1>4 DEF FreshKept, SameCheck, Fresh
  <2>2. \A v \in Users : DialKept(v)
    BY <1>1, <1>3, <1>4 DEF DialKept
  <2>3. ASSUME NEW l \in Keys, Pooled(l)' \in {Pooled(l), NoConn},
               Pooled(l)' # NoConn => conns'[l] = conns[l]
        PROVE  PooledKept(l)
    BY <1>4, <2>3, PooledApart DEF PooledKept
  <2>4. /\ \A l \in Keys \ {k} : PooledIsOpen(l)' /\ CheckIsCurrent(l)'
        /\ \A l \in Keys, v \in Users : DialIsCurrent(l, v)'
    BY <1>1, <1>2, <2>1, <2>2, <2>3, OpenKept
  <2>5. PooledIsOpen(k)'
    BY <1>1, <1>2, <1>4, <2>3, OpenKept
  <2>6. QED
    BY <1>4, <2>4, <2>5 DEF OpenInv
<1>5. ASSUME ~Fresh(k)' PROVE CheckIsCurrent(k)'
  BY <1>5 DEF CheckIsCurrent, Fresh
<1>6. CASE link' = link /\ ~Fresh(k)' /\ ~(CheckStore(k) /\ AcceptsResult(k))
  <2>1. CheckIsCurrent(k)'
    BY <1>5, <1>6
  <2> DEFINE C == {}
  <2>2. /\ \A x \in Conns \ C : link'[x] = link[x]
        /\ \A l \in Keys : Pooled(l) \notin C /\ checkConn[l] \notin C
        /\ \A v \in Users : conn[v] \notin C
    BY <1>6
  <2> HIDE DEF C
  <2>3. QED
    BY <1>4, <1>6, <2>1, <2>2
<1>7. ASSUME CheckLookup(k) \/ CheckDrop(k), CheckDials(k) PROVE OpenInv'
  <2> DEFINE c == checkConn[k]
             C == IF CheckDrop(k) /\ Pooled(k) = c THEN {c, NewConn} ELSE {NewConn}
  <2>1. /\ FreshConns # {} /\ checkConn'[k] = NewConn /\ checkAt'[k] = "dialling"
    BY <1>7 DEF CheckDials, CheckGoto, TypeOK, CheckTypeOK
  <2>2. /\ NewConn \in Conns /\ \A v \in Users : conn[v] # NewConn
        /\ \A l \in Keys : checkConn[l] # NewConn
        /\ \A l \in Keys : Pooled(l) # NoConn => Pooled(l) # NewConn
    BY <2>1, FreshConn DEF Pooled, InUse, TypeOK, PoolTypeOK
  <2>3. link'[NewConn].current /\ \A x \in Conns \ C : link'[x] = link[x]
    <3>1. CASE CheckDrop(k) /\ Pooled(k) = c
      <4>1. link' = [CloseLink(c) EXCEPT ![NewConn] = Dialling]
        BY <3>1 DEF CheckDrop
      <4>2. /\ CloseLink(c) \in [Conns -> Links]
            /\ \A x \in Conns \ {c} : CloseLink(c)[x] = link[x]
        BY CloseLinkFacts DEF TypeOK
      <4>3. QED
        BY <2>2, <3>1, <4>1, <4>2, DialFacts
    <3>2. CASE link' = [link EXCEPT ![NewConn] = Dialling]
      BY <2>2, <3>2, DialFacts DEF TypeOK, PoolTypeOK, Links
    <3>3. CASE CheckLookup(k)
      BY <2>1, <3>2, <3>3 DEF CheckLookup, CheckGoto, TypeOK, CheckTypeOK
    <3>4. QED
      BY <1>7, <3>1, <3>2, <3>3 DEF CheckDrop
  <2>4. CASE CheckDrop(k) /\ Pooled(k) = c
    <3>1. /\ conns' = conns /\ entryConn' = [entryConn EXCEPT ![conns[k]] = NoConn] /\ Pooled(k) # NoConn
      BY <2>4 DEF CheckDrop, TypeOK
    <3>2. Pooled(k)' = NoConn
      BY <3>1 DEF Pooled, TypeOK, PoolTypeOK
    <3>3. \A l \in Keys : Pooled(l)' # NoConn => Pooled(l) \notin C
      BY <1>2, <2>2, <3>1, <3>2, <2>4, PooledApart
    <3>4. /\ \A v \in Users : at[v] = "dialling" => conn[v] \notin C
          /\ \A l \in Keys \ {k} : Fresh(l) => checkConn[l] \notin C
      BY <2>2, <2>4, <3>1, PooledApart
    <3>5. CheckIsCurrent(k)'
      BY <2>1, <2>3 DEF CheckIsCurrent
    <3>6. ~(CheckStore(k) /\ AcceptsResult(k))
      BY <2>4 DEF CheckDrop, CheckStore
    <3> HIDE DEF C
    <3>7. QED
      BY <1>4, <2>3, <3>3, <3>4, <3>5, <3>6
  <2>5. CASE ~(CheckDrop(k) /\ Pooled(k) = c)
    <3>1. ~(CheckStore(k) /\ AcceptsResult(k))
      BY <1>7 DEF CheckLookup, CheckDrop, CheckStore
    <3>2. CheckIsCurrent(k)'
      BY <2>1, <2>3 DEF CheckIsCurrent
    <3>3. \A l \in Keys : Pooled(l)' # NoConn => Pooled(l) \notin C
      BY <1>2, <2>2, <2>5, <3>1
    <3>4. /\ \A v \in Users : at[v] = "dialling" => conn[v] \notin C
          /\ \A l \in Keys \ {k} : Fresh(l) => checkConn[l] \notin C
      BY <2>2, <2>5
    <3> HIDE DEF C
    <3>5. QED
      BY <1>4, <2>3, <3>1, <3>2, <3>3, <3>4
  <2>6. QED
    BY <2>4, <2>5
<1>8. CASE CheckDialOk(k)
  <2>1. /\ checkAt[k] = "dialling" /\ checkAt'[k] = "store" /\ Fresh(k)
        /\ UNCHANGED <<checkConn, checkGeneration>>
        /\ link' = [link EXCEPT ![checkConn[k]].up = TRUE]
    BY <1>8 DEF CheckDialOk, CheckGoto, Fresh, TypeOK, CheckTypeOK
  <2>2. /\ \A x \in Conns \ {checkConn[k]} : link'[x] = link[x]
        /\ link'[checkConn[k]].up
        /\ link'[checkConn[k]].current <=> link[checkConn[k]].current
    BY <1>1, <2>1, DialledFacts DEF TypeOK
  <2>3. CheckIsCurrent(k)'
    <3>1. CheckIsCurrent(k)
      BY DEF OpenInv
    <3>2. QED
      BY <1>1, <2>1, <2>2, <3>1 DEF CheckIsCurrent
  <2>4. ~CheckStore(k)
    BY <2>1 DEF CheckStore
  <2> DEFINE C == {checkConn[k]}
  <2>5. /\ \A x \in Conns \ C : link'[x] = link[x]
        /\ \A l \in Keys : Pooled(l) \notin C
        /\ \A v \in Users : conn[v] \notin C
        /\ \A l \in Keys \ {k} : Fresh(l) => checkConn[l] \notin C
    BY <2>1, <2>2, FreshApart
  <2> HIDE DEF C
  <2>6. QED
    BY <1>4, <2>3, <2>4, <2>5
<1>9. CASE CheckDialFails(k) \/ (CheckStore(k) /\ ~AcceptsResult(k))
  <2>1. Fresh(k) /\ ~Fresh(k)' /\ link' = CloseLink(checkConn[k])
    BY <1>9 DEF CheckDialFails, CheckStore, CheckEnds, CheckDone, CheckGoto, Fresh, TypeOK, CheckTypeOK
  <2>2. \A x \in Conns \ {checkConn[k]} : link'[x] = link[x]
    BY <2>1, CloseLinkFacts DEF TypeOK
  <2>3. ~(CheckStore(k) /\ AcceptsResult(k))
    BY <1>9 DEF CheckDialFails, CheckStore
  <2> DEFINE C == {checkConn[k]}
  <2>4. /\ \A x \in Conns \ C : link'[x] = link[x]
        /\ \A l \in Keys : Pooled(l) \notin C
        /\ \A v \in Users : conn[v] \notin C
        /\ \A l \in Keys \ {k} : Fresh(l) => checkConn[l] \notin C
    BY <2>1, <2>2, FreshApart
  <2>5. CheckIsCurrent(k)'
    BY <1>5, <2>1
  <2> HIDE DEF C
  <2>6. QED
    BY <1>4, <2>3, <2>4, <2>5
<1>10. CASE CheckStore(k) /\ AcceptsResult(k)
  <2>1. /\ checkAt[k] = "store" /\ Fresh(k) /\ ~Fresh(k)' /\ link' = CloseLink(Pooled(k))
        /\ generation = checkGeneration[k]
        /\ entryConn' = [entryConn EXCEPT ![IF conns[k] = NoEntry THEN NewEntry ELSE conns[k]] = checkConn[k]]
    BY <1>10
    DEF CheckStore, AcceptsResult, CheckEnds, CheckDone, CheckGoto, Fresh, TypeOK, CheckTypeOK
  <2>2. Pooled(k) = NoConn
    BY <2>1 DEF CheckInv
  <2>3. \A x \in Conns : link'[x] = link[x]
    BY <1>1, <2>1, <2>2, CloseLinkFacts DEF TypeOK
  <2>4. Pooled(k)' \in {checkConn[k], NoConn}
    BY <1>2, <2>2
  <2>5. PooledIsOpen(k)'
    <3>1. CheckIsCurrent(k)
      BY DEF OpenInv
    <3>2. QED
      BY <1>1, <2>1, <2>3, <2>4, <3>1 DEF PooledIsOpen, CheckIsCurrent
  <2>6. CheckIsCurrent(k)'
    BY <1>5, <2>1
  <2> DEFINE C == {}
  <2>7. /\ \A x \in Conns \ C : link'[x] = link[x]
        /\ \A l \in Keys : Pooled(l) \notin C /\ checkConn[l] \notin C
        /\ \A v \in Users : conn[v] \notin C
    BY <2>3
  <2> HIDE DEF C
  <2>8. QED
    BY <1>4, <2>5, <2>6, <2>7
<1>11. ASSUME CheckStart(k) \/ CheckMarkBusy(k) \/ CheckRejects(k) \/ CheckAccepts(k) PROVE OpenInv'
  <2>1. link' = link /\ ~Fresh(k)'
    BY <1>11
    DEF CheckStart, CheckMarkBusy, CheckRejects, CheckAccepts,
        CheckEnds, CheckDone, CheckGoto, Fresh, TypeOK, CheckTypeOK
  <2>2. ~CheckStore(k)
    BY <1>11 DEF CheckStart, CheckMarkBusy, CheckRejects, CheckAccepts, CheckStore
  <2>3. QED
    BY <1>6, <2>1, <2>2
<1>12. ASSUME CheckLookup(k) \/ CheckDrop(k), ~CheckDials(k) PROVE OpenInv'
  <2>1. link' = link /\ ~Fresh(k)' /\ ~CheckStore(k)
    BY <1>12 DEF CheckLookup, CheckDrop, CheckGoto, CheckStore, Fresh, TypeOK, CheckTypeOK
  <2>2. QED
    BY <1>6, <2>1
<1>13. QED
  BY <1>7, <1>8, <1>9, <1>10, <1>11, <1>12 DEF CheckStep

LEMMA OpenStep ==
  ASSUME TypeOK, TypeOK', PlaceInv, SweepInv, EntryInv, ConnInv, CheckInv, OpenInv, [Next]_vars
  PROVE  OpenInv'
<1>1. ASSUME \/ \E next \in Configs : ApplyConfig(next)
             \/ CloseManager \/ Sweep \/ UNCHANGED vars
      PROVE  OpenInv'
  <2>1. UNCHANGED <<users, checks>>
    BY <1>1, AdminFrame
  <2>2. /\ \A k \in Keys : (Fresh(k)' <=> Fresh(k))
        /\ UNCHANGED <<at, entry, conn, checkAt, checkConn, checkGeneration>>
    BY <2>1 DEF users, checks, Fresh
  <2>3. ASSUME NEW next \in Configs, ApplyConfig(next) PROVE OpenInv'
    <3>1. /\ UNCHANGED <<conns, entryConn>> /\ generation' = generation + 1
          /\ \A k \in Keys : conns[k] # NoEntry => ~Settled(k)'
          /\ link' = [c \in Conns |-> [link[c] EXCEPT !.current = FALSE]]
      BY <2>3 DEF ApplyConfig, PooledKeys, Settled
    <3>2. \A x \in Conns : link'[x].up <=> link[x].up
      BY <3>1, OutdatedFacts DEF TypeOK
    <3>3. \A k \in Keys : PooledIsOpen(k)'
      <4>1. \A k \in Keys : Pooled(k)' = Pooled(k) /\ (Pooled(k) # NoConn => Pooled(k) \in Conns)
        BY <3>1 DEF Pooled, TypeOK, PoolTypeOK
      <4>2. QED
        BY <3>1, <3>2, <4>1 DEF PooledIsOpen, OpenInv
    <3>4. \A k \in Keys, u \in Users : DialIsCurrent(k, u)'
      BY <3>1 DEF DialIsCurrent
    <3>5. \A k \in Keys : CheckIsCurrent(k)'
      <4>1. \A k \in Keys : checkGeneration'[k] # generation'
        BY <2>2, <3>1 DEF CheckInv, TypeOK, AdminTypeOK, CheckTypeOK
      <4>2. \A k \in Keys : checkAt[k] = "store" => checkConn[k] \in Conns /\ link[checkConn[k]].up
        BY FreshApart DEF OpenInv, CheckIsCurrent, Fresh
      <4>3. QED
        BY <2>2, <3>2, <4>1, <4>2 DEF CheckIsCurrent
    <3>6. QED
      BY <3>3, <3>4, <3>5 DEF OpenInv
  <2>4. ASSUME UNCHANGED <<conns, entryConn, link, generation>>,
               \A k \in Keys : conns[k] # NoEntry /\ Settled(k)' => Settled(k)
        PROVE  OpenInv'
    <3>1. \A k \in Keys : Pooled(k)' = Pooled(k)
      BY <2>4 DEF Pooled
    <3>2. \A k \in Keys : PooledIsOpen(k)'
      BY <2>4, <3>1 DEF PooledIsOpen, OpenInv
    <3>3. \A k \in Keys, u \in Users : DialIsCurrent(k, u)'
      BY <2>2, <2>4 DEF DialIsCurrent, OpenInv
    <3>4. \A k \in Keys : CheckIsCurrent(k)'
      BY <2>2, <2>4 DEF CheckIsCurrent, OpenInv
    <3>5. QED
      BY <3>2, <3>3, <3>4 DEF OpenInv
  <2>5. CASE CloseManager
    BY <2>4, <2>5 DEF CloseManager, Settled
  <2>6. ASSUME NEW k \in Keys, SweepEntry(k) PROVE OpenInv'
    <3> DEFINE e == conns[k]
    <3>1. /\ e \in Entries /\ entryConn[e] = Pooled(k) /\ Unlocked(e) /\ generation' = generation
          /\ link' = CloseLink(Pooled(k)) /\ entryConn' = [entryConn EXCEPT ![e] = NoConn]
          /\ \A l \in Keys \ {k} : conns'[l] = conns[l]
          /\ conns'[k] \in {e, NoEntry}
          /\ sweep'.op = sweep.op /\ sweep'.todo = sweep.todo \ {k}
      BY <2>6 DEF SweepEntry, Victim, Pooled, TypeOK, PoolTypeOK, AdminTypeOK
    <3>2. \A x \in Conns \ {Pooled(k)} : link'[x] = link[x]
      BY <3>1, CloseLinkFacts DEF TypeOK
    <3>3. Pooled(k)' = NoConn
      BY <3>1 DEF Pooled, TypeOK, PoolTypeOK
    <3>4. \A l \in Keys \ {k} : Pooled(l)' = Pooled(l) /\ (Settled(l)' <=> Settled(l))
      <4>1. \A l \in Keys \ {k} : conns[l] = e => conns[l] = NoEntry
        BY DEF EntryInv
      <4>2. \A l \in Keys \ {k} : Pooled(l)' = Pooled(l)
        BY <3>1, <4>1, PoolAssumption DEF Pooled, TypeOK, PoolTypeOK, PoolAssumption
      <4>3. QED
        BY <3>1, <4>2 DEF Settled
    <3>5. \A x \in Conns : Pooled(k) = NoConn => x # Pooled(k)
      BY PoolAssumption DEF PoolAssumption
    <3>6. ASSUME NEW l \in Keys PROVE PooledIsOpen(l)'
      <4>1. CASE l = k
        BY <3>3, <4>1 DEF PooledIsOpen
      <4>2. CASE l # k /\ Pooled(l) # NoConn
        <5>1. Pooled(l) \in Conns \ {Pooled(k)}
          BY <4>2, PooledApart
        <5>2. QED
          BY <3>1, <3>2, <3>4, <4>2, <5>1 DEF PooledIsOpen, OpenInv
      <4>3. CASE l # k /\ Pooled(l) = NoConn
        BY <3>4, <4>3 DEF PooledIsOpen
      <4>4. QED
        BY <4>1, <4>2, <4>3
    <3>7. ASSUME NEW l \in Keys, NEW u \in Users PROVE DialIsCurrent(l, u)'
      <4>1. SUFFICES ASSUME at[u] = "dialling", conns'[l] # NoEntry, entry[u] = conns'[l], Settled(l)'
                     PROVE  link'[conn[u]].current
        BY <2>2 DEF DialIsCurrent
      <4>2. l # k
        BY <3>1, <4>1 DEF Unlocked
      <4>3. conn[u] \in Conns \ {Pooled(k)}
        BY <4>1, DialApart
      <4>4. QED
        BY <3>1, <3>2, <3>4, <4>1, <4>2, <4>3 DEF DialIsCurrent, OpenInv
    <3>8. ASSUME NEW l \in Keys PROVE CheckIsCurrent(l)'
      <4>1. Fresh(l) => checkConn[l] \in Conns \ {Pooled(k)}
        BY FreshApart
      <4>2. QED
        BY <2>2, <3>1, <3>2, <4>1 DEF CheckIsCurrent, OpenInv, Fresh
    <3>9. QED
      BY <3>6, <3>7, <3>8 DEF OpenInv
  <2>7. CASE SweepDone
    BY <2>4, <2>7 DEF SweepDone, Settled
  <2>8. CASE DropGuards
    BY <2>4, <2>8 DEF DropGuards, Settled
  <2>9. CASE UNCHANGED vars
    BY <2>4, <2>9 DEF vars, admin, Settled
  <2>10. QED
    BY <1>1, <2>3, <2>5, <2>6, <2>7, <2>8, <2>9 DEF Sweep
<1>2. QED
  BY <1>1, UserOpenStep, CheckOpenStep DEF Next, Finished

-----------------------------------------------------------------------------
(* The invariant. *)

LEMMA InitIInv ==
  ASSUME Init
  PROVE  IInv
<1> USE DEF Init
<1>1. TypeOK
  <2>1. AdminTypeOK
    <3>1. closed \in BOOLEAN
      BY Zenon
    <3>2. generation \in 1..MaxGeneration
      BY PoolAssumption DEF PoolAssumption
    <3>3. config \in Configs \cup {NoConfig}
      OBVIOUS
    <3>4. sweep \in [op : {"none", "apply", "close", "guards"}, todo : SUBSET Keys,
                     next : Configs \cup {NoConfig}]
      BY DEF NoSweep
    <3>5. QED
      BY <3>1, <3>2, <3>3, <3>4 DEF AdminTypeOK
  <2>2. PoolTypeOK
    BY DEF PoolTypeOK, Down
  <2>3. UserTypeOK /\ CheckTypeOK
    BY PoolAssumption DEF UserTypeOK, CheckTypeOK, PoolAssumption
  <2>4. QED
    BY <2>1, <2>2, <2>3 DEF TypeOK, NoSweep
<1>2. PlaceInv /\ EntryInv /\ GuardInv
  BY DEF PlaceInv, EntryInv, GuardInv, Holding, Owns, Checking
<1>3. ConnInv /\ CheckInv
  BY DEF ConnInv, InUse, Fresh, CheckInv, Pooled
<1>4. SweepInv /\ WantedInv
  BY DEF SweepInv, WantedInv, PooledKeys, NoSweep
<1>5. OpenInv
  BY DEF OpenInv, PooledIsOpen, DialIsCurrent, CheckIsCurrent, Fresh
<1>6. QED
  BY <1>1, <1>2, <1>3, <1>4, <1>5 DEF IInv

LEMMA StepIInv ==
  ASSUME IInv, [Next]_vars
  PROVE  IInv'
<1> USE DEF IInv
<1>1. TypeOK' /\ PlaceInv'
  BY TypeStep
<1>2. SweepInv' /\ GuardInv' /\ EntryInv'
  BY SweepStep, GuardStep, EntryStep
<1>3. ConnInv' /\ CheckInv'
  BY <1>1, ConnStep, CheckInvStep
<1>4. WantedInv' /\ OpenInv'
  BY <1>1, WantedStep, OpenStep
<1>5. QED
  BY <1>1, <1>2, <1>3, <1>4

LEMMA Invariance == Spec => []IInv
BY InitIInv, StepIInv, PTL DEF Spec

\* The types, and what exists exactly when, at every step of any number of callers.
THEOREM TypeCorrect == Spec => []TypeOK
<1>1. IInv => TypeOK
  BY DEF IInv
<1>2. QED
  BY <1>1, Invariance, PTL

-----------------------------------------------------------------------------
(* The guard of an endpoint has one owner. *)

LEMMA OwnersOf ==
  ASSUME TypeOK, GuardInv, ~closed, NEW k \in Keys
  PROVE  Cardinality(Owners(k)) = IF k \in busy THEN 1 ELSE 0
<1>1. Owners(k) = {u \in Users : Owns(u, k)} \cup {c \in {k} : Checking(k)}
  BY DEF Owners, Owns, Checking
<1>2. CASE k \notin busy
  <2>1. Owners(k) = {}
    BY <1>1, <1>2 DEF GuardInv
  <2>2. QED
    BY <1>2, <2>1, FS_EmptySet
<1>3. CASE k \in busy
  <2>1. \E o : Owners(k) = {o}
    <3>1. CASE Checking(k)
      BY <1>1, <3>1 DEF GuardInv
    <3>2. CASE ~Checking(k)
      <4>1. PICK u \in Users : Owns(u, k)
        BY <1>3, <3>2 DEF GuardInv
      <4>2. \A v \in Users : Owns(v, k) => v = u
        BY <4>1 DEF GuardInv
      <4>3. QED
        BY <1>1, <3>2, <4>1, <4>2
    <3>3. QED
      BY <3>1, <3>2
  <2>2. QED
    BY <1>3, <2>1, FS_Singleton
<1>4. QED
  BY <1>2, <1>3

\* The guard of an endpoint is taken exactly while one transaction or check owns it, and
\* no connection serves two transactions (ExclusiveConnection and exclusiveGatewayConn,
\* manager.go:316-333 and :385-402), whatever resets, checks and refreshes do.
THEOREM SoleOwnerHolds == Spec => []SoleOwner
<1>1. ASSUME IInv PROVE SoleOwner
  <2>1. \A u, v \in Users : at[u] = "using" /\ at[v] = "using" /\ conn[u] = conn[v] => u = v
    BY <1>1 DEF IInv, TypeOK, ConnInv
  <2>2. QED
    BY <1>1, <2>1, OwnersOf DEF IInv, SoleOwner
<1>2. QED
  BY <1>1, Invariance, PTL

-----------------------------------------------------------------------------
(* The pool matches the configuration. *)

\* Every pooled entry is of a configured endpoint, and every pooled connection is open
\* and was dialled under the present configuration (ApplyConfig at manager.go:235,
\* storeGatewayConn at gateway_health.go:340), whatever was being dialled meanwhile.
THEOREM PoolMatchesConfigHolds == Spec => []PoolMatchesConfig
<1>1. ASSUME IInv, sweep.op # "apply", NEW k \in PooledKeys
      PROVE  /\ k \in Gateways
             /\ Pooled(k) # NoConn => link[Pooled(k)] = [up |-> TRUE, current |-> TRUE]
  <2>1. k \in Gateways
    BY <1>1 DEF IInv, WantedInv
  <2>2. ASSUME Pooled(k) # NoConn PROVE link[Pooled(k)] = [up |-> TRUE, current |-> TRUE]
    <3> DEFINE l == link[Pooled(k)]
    <3>1. l \in [up : BOOLEAN, current : BOOLEAN]
      BY <1>1, <2>2 DEF IInv, TypeOK, PoolTypeOK, Pooled, PooledKeys
    <3>2. l.up /\ l.current
      BY <1>1, <2>2 DEF IInv, OpenInv, PooledIsOpen, Settled, PooledKeys
    <3> HIDE DEF l
    <3>3. l.up \in BOOLEAN /\ l.current \in BOOLEAN
      BY <3>1
    <3>4. l.up = TRUE /\ l.current = TRUE
      BY <3>2, <3>3, Zenon
    <3>5. l = [up |-> TRUE, current |-> TRUE]
      BY <3>1, <3>4
    <3>6. QED
      BY <3>5 DEF l
  <2>3. QED
    BY <2>1, <2>2
<1>2. IInv => PoolMatchesConfig
  BY <1>1 DEF PoolMatchesConfig
<1>3. QED
  BY <1>2, Invariance, PTL

-----------------------------------------------------------------------------
(* One connection for each endpoint. *)

\* Beside the pooled connection of an endpoint neither its owner nor its check has
\* another one open (ensureGatewayConn at manager.go:262, CheckGateway at
\* gateway_health.go:195).
THEOREM OneConnectionHolds == Spec => []OneConnection
<1>1. ASSUME IInv, ~closed, NEW k \in Keys PROVE Cardinality(Live(k)) <= 1
  <2>1. /\ NoConn \notin Conns
        /\ \A u \in Users : conn[u] # NoConn <=> at[u] \in {"dialling", "using"}
        /\ checkConn[k] # NoConn => Checking(k)
    BY <1>1, PoolAssumption DEF IInv, TypeOK, Checking, PoolAssumption
  <2>2. \A u \in Users : key[u] = k /\ conn[u] \in Conns => Owns(u, k)
    BY <2>1 DEF Owns
  <2>3. ASSUME NEW c \in Live(k), NEW d \in Live(k) PROVE c = d
    <3>1. /\ c \in Conns /\ (c = Pooled(k) \/ c = checkConn[k] \/ \E u \in Users : key[u] = k /\ conn[u] = c)
          /\ d \in Conns /\ (d = Pooled(k) \/ d = checkConn[k] \/ \E u \in Users : key[u] = k /\ conn[u] = d)
      BY <2>3 DEF Live
    <3>2. CASE Checking(k)
      <4>1. \A u \in Users : key[u] = k => conn[u] \notin Conns
        BY <1>1, <2>2, <3>2 DEF IInv, GuardInv
      <4>2. Pooled(k) \in Conns /\ checkConn[k] \in Conns => Pooled(k) = checkConn[k]
        BY <1>1, <2>1 DEF IInv, CheckInv, TypeOK, CheckTypeOK, Fresh
      <4>3. QED
        BY <3>1, <4>1, <4>2
    <3>3. CASE ~Checking(k)
      <4>1. checkConn[k] \notin Conns
        BY <2>1, <3>3
      <4>2. ASSUME NEW u \in Users, key[u] = k, conn[u] \in Conns, Pooled(k) \in Conns
            PROVE  Pooled(k) = conn[u]
        <5>1. Holding(u) /\ conns[k] # NoEntry
          BY <2>1, <4>2 DEF Holding, Pooled
        <5>2. conns[k] = entry[u] /\ Pooled(k) = entryConn[entry[u]]
          BY <1>1, <4>2, <5>1 DEF IInv, EntryInv, Pooled
        <5>3. QED
          BY <1>1, <2>1, <4>2, <5>2 DEF IInv, ConnInv
      <4>3. \A u, v \in Users :
              key[u] = k /\ conn[u] \in Conns /\ key[v] = k /\ conn[v] \in Conns => u = v
        BY <1>1, <2>2 DEF IInv, GuardInv
      <4>4. QED
        BY <3>1, <4>1, <4>2, <4>3
    <3>4. QED
      BY <3>2, <3>3
  <2>4. CASE Live(k) = {}
    BY <2>4, FS_EmptySet
  <2>5. CASE Live(k) # {}
    <3>1. PICK c : Live(k) = {c}
      BY <2>3, <2>5
    <3>2. Cardinality(Live(k)) = 1
      BY <3>1, FS_Singleton
    <3>3. QED
      BY <3>2
  <2>6. QED
    BY <2>4, <2>5
<1>2. IInv => OneConnection
  BY <1>1 DEF OneConnection
<1>3. QED
  BY <1>2, Invariance, PTL

-----------------------------------------------------------------------------
(* A health check spares the connections in use. *)

\* A transaction that uses a connection owns the endpoint the connection is pooled for.
LEMMA UsingOwns ==
  ASSUME IInv, NEW u \in Users, at[u] = "using", NEW k \in Keys, Checking(k), ~closed
  PROVE  conn[u] # Pooled(k) /\ (Fresh(k) => conn[u] # checkConn[k])
<1>1. conn[u] # NoConn /\ Holding(u) /\ \A l \in Keys : key[u] = l => Owns(u, l)
  BY DEF IInv, TypeOK, Holding, Owns
<1>2. ASSUME conn[u] = Pooled(k) PROVE FALSE
  <2>1. entry[u] = conns[k]
    BY <1>1, <1>2, PooledApart DEF IInv
  <2>2. key[u] = k
    BY <1>1, <2>1 DEF IInv, EntryInv
  <2>3. QED
    BY <1>1, <2>2 DEF IInv, GuardInv
<1>3. QED
  BY <1>2, FreshApart DEF IInv

LEMMA ChecksSpare ==
  ASSUME IInv, NEW u \in Users, at[u] = "using", NEW k \in Keys, CheckStep(k), link[conn[u]].up
  PROVE  link'[conn[u]].up
<1>1. conn[u] \in Conns /\ TypeOK /\ PoolTypeOK
  BY DEF IInv, TypeOK, UserTypeOK
<1>2. CASE link' = link
  BY <1>2
<1>3. ASSUME FreshConns # {}, NEW links \in [Conns -> Links], links[conn[u]] = link[conn[u]],
             link' = [links EXCEPT ![NewConn] = Dialling]
      PROVE  link'[conn[u]].up
  BY <1>1, <1>3, FreshConn, DialFacts
<1>4. CASE CheckLookup(k) /\ link' # link
  BY <1>1, <1>3, <1>4 DEF CheckLookup, CheckDials, PoolTypeOK, Links
<1>5. CASE CheckDrop(k)
  <2> DEFINE links == IF Pooled(k) = checkConn[k] THEN CloseLink(checkConn[k]) ELSE link
  <2>1. Pooled(k) = checkConn[k] => conn[u] # Pooled(k)
    <3>1. CASE ~closed
      BY <1>5, <3>1, UsingOwns DEF CheckDrop, Checking
    <3>2. CASE closed
      BY <1>1, <1>5, <3>2, PoolAssumption
      DEF IInv, SweepInv, PooledKeys, Pooled, PoolAssumption
    <3>3. QED
      BY <3>1, <3>2
  <2>2. links \in [Conns -> Links] /\ links[conn[u]] = link[conn[u]]
    BY <1>1, <2>1, CloseLinkFacts DEF PoolTypeOK, Links
  <2>3. FreshConns # {} /\ link' = [links EXCEPT ![NewConn] = Dialling]
    BY <1>5 DEF CheckDrop, CheckDials
  <2> HIDE DEF links
  <2>4. QED
    BY <1>3, <2>2, <2>3
<1>6. CASE CheckDialOk(k) \/ CheckDialFails(k) \/ (CheckStore(k) /\ ~AcceptsResult(k))
  <2>1. checkConn[k] \in Conns /\ conn[u] # checkConn[k]
    BY <1>6, FreshApart DEF IInv, CheckDialOk, CheckDialFails, CheckStore, Fresh
  <2>2. link'[conn[u]] = link[conn[u]]
    BY <1>1, <1>6, <2>1, CloseLinkFacts, DialledFacts DEF CheckDialOk, CheckDialFails, CheckStore
  <2>3. QED
    BY <2>2
<1>7. CASE CheckStore(k) /\ AcceptsResult(k)
  <2>1. conn[u] # Pooled(k)
    BY <1>7, UsingOwns DEF CheckStore, AcceptsResult, Checking
  <2>2. link'[conn[u]] = link[conn[u]]
    BY <1>1, <1>7, <2>1, CloseLinkFacts DEF CheckStore
  <2>3. QED
    BY <2>2
<1>8. QED
  BY <1>2, <1>4, <1>5, <1>6, <1>7
  DEF CheckStep, CheckMarkBusy, CheckRejects, CheckAccepts

LEMMA UsersSpare ==
  ASSUME IInv, NEW u \in Users, at[u] = "using", link[conn[u]].up,
         NEW v \in Users, Resolve(v) \/ UserStep(v), ~OthersReset
  PROVE  link'[conn[u]].up
<1>1. conn[u] \in Conns /\ TypeOK /\ PoolTypeOK /\ UserTypeOK
  BY DEF IInv, TypeOK, UserTypeOK
<1>2. CASE OpenConn(v) /\ link' # link
  <2>1. FreshConns # {} /\ link' = [link EXCEPT ![NewConn] = Dialling]
    BY <1>2 DEF OpenConn
  <2>2. link'[conn[u]] = link[conn[u]]
    BY <1>1, <2>1, FreshConn, DialFacts DEF PoolTypeOK, Links
  <2>3. QED
    BY <2>2
<1>3. CASE DialOk(v) \/ DialFails(v)
  <2>1. conn[v] \in Conns /\ conn[u] # conn[v]
    BY <1>1, <1>3, DialApart DEF IInv, DialOk, DialFails
  <2>2. link'[conn[u]] = link[conn[u]]
    BY <1>1, <1>3, <2>1, CloseLinkFacts, DialledFacts DEF DialOk, DialFails
  <2>3. QED
    BY <2>2
<1>4. CASE ResetClose(v) /\ link' # link
  <2>1. at[v] = "closing" /\ at'[v] # "closing"
    BY <1>1, <1>4 DEF ResetClose, Goto, UserTypeOK
  <2>2. QED
    BY <2>1 DEF OthersReset
<1>5. QED
  BY <1>2, <1>3, <1>4
  DEF UserStep, Resolve, MarkBusy, LookupEntry, CreateEntry, OpenConn, UseOk, UseFails, ResetResolve,
      ResetClose, ResetClear

\* A health check never closes a connection that a transaction is using (the promise at
\* gateway_health.go:233): only a refresh, Close or somebody's reset does.
THEOREM HealthSparesBusinessHolds == Spec => HealthSparesBusiness
<1> DEFINE A == Robbed # {} => sweep.op \in {"apply", "close"} \/ OthersReset
<1>1. ASSUME IInv, [Next]_vars PROVE [A]_vars
  <2>1. SUFFICES ASSUME NEW u \in Users, at[u] = "using", link[conn[u]].up, ~link'[conn[u]].up,
                        sweep.op \notin {"apply", "close"}, ~OthersReset
                 PROVE  FALSE
    BY DEF Robbed
  <2>2. conn[u] \in Conns /\ TypeOK
    BY <1>1, <2>1 DEF IInv, TypeOK, UserTypeOK
  <2>3. link'[conn[u]].up <=> link[conn[u]].up
    <3>1. CASE link' = link
      BY <3>1
    <3>2. ASSUME NEW next \in Configs, ApplyConfig(next) PROVE link'[conn[u]].up <=> link[conn[u]].up
      BY <2>2, <3>2, OutdatedFacts DEF ApplyConfig, TypeOK
    <3>3. ASSUME NEW k \in Keys, SweepEntry(k) PROVE FALSE
      BY <1>1, <2>1, <3>3 DEF SweepEntry, IInv, SweepInv, TypeOK, AdminTypeOK
    <3>4. ASSUME NEW k \in Keys, CheckStart(k) \/ CheckStep(k) PROVE link'[conn[u]].up
      BY <1>1, <2>1, <3>1, <3>4, ChecksSpare DEF CheckStart
    <3>5. ASSUME NEW v \in Users, Resolve(v) \/ UserStep(v) PROVE link'[conn[u]].up
      BY <1>1, <2>1, <3>5, UsersSpare
    <3>6. QED
      BY <1>1, <2>1, <3>1, <3>2, <3>3, <3>4, <3>5
      DEF Next, Sweep, CloseManager, SweepDone, DropGuards, Finished, vars
  <2>4. QED
    BY <2>1, <2>3
<1>2. QED
  BY <1>1, Invariance, PTL DEF Spec, HealthSparesBusiness

================================================================================
