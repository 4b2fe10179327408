---------------------------- MODULE RoutingProofs ----------------------------
(***************************************************************************)
(* Proofs about routing.  First the route cache, for any number of         *)
(* instances, handlers and routes, any TTL and any bound on the duration   *)
(* of a load; then the walk of one request over the routes of its model,   *)
(* for any finite table of routes, any priorities and retries.             *)
(***************************************************************************)
EXTENDS RouteCache, Fallback, FiniteSetTheorems, TLAPS

USE RouteCacheAssumption, SMTT(20), Zenon, Z3T(20)

Versions == [value : SUBSET RouteIds, at : Nat]

(* The history ends with what the table holds now. *)
HistoryOK ==
    /\ hist \in Seq(Versions) /\ Len(hist) >= 1
    /\ hist[Len(hist)].value = Enabled(table)
    /\ \A k \in 1..Len(hist) : hist[k].at =< now

(* A load is young; what it has read is a version of the history that was  *)
(* not superseded before the load began, nor before the last clean write.  *)
LoadsOK ==
    \A c \in Instances : load[c] # None =>
        /\ now - load[c].since =< MaxLoad
        /\ load[c].read > 0 =>
              /\ load[c].value = hist[load[c].read].value
              /\ load[c].read >= floor[c]
              /\ \A k \in 1..Len(hist) : k > load[c].read => hist[k].at >= load[c].since

(* The same of an entry, whose load began at most MaxLoad before it. *)
EntriesOK ==
    \A c \in Instances : cache[c] # None =>
        /\ now - cache[c].at < TTL
        /\ cache[c].read >= floor[c]
        /\ \A k \in 1..Len(hist) : k > cache[c].read => hist[k].at + MaxLoad >= cache[c].at

IInv == TypeOK /\ HistoryOK /\ LoadsOK /\ EntriesOK

LEMMA InitIInv == Init => IInv
  <1> SUFFICES ASSUME Init PROVE IInv
    OBVIOUS
  <1> USE DEF Init
  <1>1. Len(hist) = 1 /\ hist[1] = [value |-> {}, at |-> 0] /\ hist \in Seq(Versions)
    BY DEF Versions
  <1>2. TypeOK
    BY <1>1 DEF TypeOK
  <1>3. HistoryOK
    BY <1>1 DEF HistoryOK, Enabled
  <1>4. LoadsOK /\ EntriesOK
    BY DEF LoadsOK, EntriesOK
  <1> QED
    BY <1>2, <1>3, <1>4, Zenon DEF IInv

(* Types of the history's parts. *)
LEMMA HistoryTypes ==
  ASSUME HistoryOK
  PROVE  /\ Len(hist) \in Nat /\ DOMAIN hist = 1..Len(hist)
         /\ \A k \in 1..Len(hist) : hist[k].at \in Nat
  <1>1. hist \in Seq(Versions)
    BY DEF HistoryOK
  <1>2. Len(hist) \in Nat /\ DOMAIN hist = 1..Len(hist) /\ \A k \in 1..Len(hist) : hist[k] \in Versions
    BY <1>1
  <1> QED
    BY <1>2 DEF Versions

(* What a committed write does to the history. *)
LEMMA Extended ==
  ASSUME IInv, NEW d \in Admins, NEW r \in RouteIds,
         NEW row \in {"absent", "enabled", "disabled"}, Commit(d, r, row)
  PROVE  /\ Len(hist') = Len(hist) + 1 /\ hist' \in Seq(Versions)
         /\ \A k \in 1..Len(hist) : hist'[k] = hist[k]
         /\ hist'[Len(hist) + 1] = [value |-> Enabled(table'), at |-> now]
  <1> DEFINE e == [value |-> Enabled(table'), at |-> now]
  <1>1. e \in Versions
    BY DEF Versions, Enabled, IInv, TypeOK
  <1>2. hist' = Append(hist, e) /\ hist \in Seq(Versions)
    BY DEF Commit, IInv, HistoryOK
  <1> HIDE DEF e
  <1>3. /\ Len(hist') = Len(hist) + 1 /\ hist' \in Seq(Versions)
        /\ \A k \in 1..Len(hist) : hist'[k] = hist[k]
        /\ hist'[Len(hist) + 1] = e
    BY <1>1, <1>2
  <1> QED
    BY <1>3 DEF e

(* Every step keeps the invariant. *)
LEMMA NextIInv == IInv /\ [Next]_vars => IInv'
  <1> SUFFICES ASSUME IInv, [Next]_vars PROVE IInv'
    BY Zenon
  <1>0. Len(hist) \in Nat /\ \A k \in 1..Len(hist) : hist[k].at \in Nat
    BY HistoryTypes DEF IInv
  <1> USE <1>0 DEF IInv, TypeOK, HistoryOK, LoadsOK, EntriesOK, Loads, Entries
  <1>1. ASSUME NEW c \in Instances, StartLoad(c) PROVE IInv'
    <2>1. TypeOK'
      BY <1>1 DEF StartLoad
    <2>2. HistoryOK'
      BY <1>1, Zenon DEF StartLoad
    <2>3. LoadsOK'
      BY <1>1 DEF StartLoad
    <2>4. EntriesOK'
      BY <1>1, Zenon DEF StartLoad
    <2> QED
      BY <2>1, <2>2, <2>3, <2>4, Zenon
  <1>2. ASSUME NEW c \in Instances, Query(c) PROVE IInv'
    <2>1. TypeOK'
      BY <1>2 DEF Query, Enabled
    <2>2. HistoryOK'
      BY <1>2, Zenon DEF Query, Enabled
    <2>3. LoadsOK'
      <3>1. ASSUME NEW b \in Instances, b # c PROVE load'[b] = load[b]
        BY <1>2, <3>1, Zenon DEF Query
      <3>2. /\ load'[c].read = Len(hist) /\ load'[c].value = Enabled(table)
            /\ load'[c].since = load[c].since /\ load[c] # None
        BY <1>2, Zenon DEF Query
      <3>3. UNCHANGED <<now, hist, floor>>
        BY <1>2, Zenon DEF Query
      <3>4. Len(hist) >= floor[c] /\ hist[Len(hist)].value = Enabled(table)
        OBVIOUS
      <3>5. ASSUME NEW b \in Instances, load'[b] # None
            PROVE  /\ now - load'[b].since =< MaxLoad
                   /\ load'[b].read > 0 =>
                         /\ load'[b].value = hist[load'[b].read].value
                         /\ load'[b].read >= floor[b]
                         /\ \A k \in 1..Len(hist) : k > load'[b].read => hist[k].at >= load'[b].since
        <4>1. CASE b = c
          <5>1. now - load[c].since =< MaxLoad
            BY <3>2, Zenon
          <5>2. \A k \in 1..Len(hist) : ~(k > Len(hist))
            OBVIOUS
          <5> QED
            BY <3>2, <3>4, <4>1, <5>1, <5>2, Zenon
        <4>2. CASE b # c
          BY <3>1, <3>5, <4>2, Zenon
        <4> QED
          BY <4>1, <4>2, Zenon
      <3> QED
        BY <3>3, <3>5, Zenon
    <2>4. EntriesOK'
      BY <1>2, Zenon DEF Query, Enabled
    <2> QED
      BY <2>1, <2>2, <2>3, <2>4, Zenon
  <1>3. ASSUME NEW c \in Instances, LoadFails(c) PROVE IInv'
    <2>1. TypeOK'
      BY <1>3, Zenon DEF LoadFails
    <2>2. HistoryOK'
      BY <1>3, Zenon DEF LoadFails
    <2>3. LoadsOK'
      BY <1>3, Zenon DEF LoadFails
    <2>4. EntriesOK'
      BY <1>3, Zenon DEF LoadFails
    <2> QED
      BY <2>1, <2>2, <2>3, <2>4, Zenon
  <1>4. ASSUME NEW c \in Instances, Insert(c) PROVE IInv'
    <2>1. TypeOK'
      BY <1>4 DEF Insert
    <2>2. HistoryOK'
      BY <1>4, Zenon DEF Insert
    <2>3. LoadsOK'
      BY <1>4, Zenon DEF Insert
    <2>4. EntriesOK'
      BY <1>4 DEF Insert
    <2> QED
      BY <2>1, <2>2, <2>3, <2>4, Zenon
  <1>5. ASSUME NEW c \in Instances, Restart(c) PROVE IInv'
    <2>1. TypeOK'
      BY <1>5, Zenon DEF Restart
    <2>2. HistoryOK'
      BY <1>5, Zenon DEF Restart
    <2>3. LoadsOK'
      BY <1>5, Zenon DEF Restart
    <2>4. EntriesOK'
      BY <1>5, Zenon DEF Restart
    <2> QED
      BY <2>1, <2>2, <2>3, <2>4, Zenon
  <1>6. ASSUME NEW d \in Admins, NEW r \in RouteIds,
               NEW row \in {"absent", "enabled", "disabled"}, Commit(d, r, row)
        PROVE  IInv'
    <2>0. /\ Len(hist') = Len(hist) + 1 /\ hist' \in Seq(Versions)
          /\ \A k \in 1..Len(hist) : hist'[k] = hist[k]
          /\ hist'[Len(hist) + 1] = [value |-> Enabled(table'), at |-> now]
      BY <1>6, Extended
    <2>1. TypeOK'
      BY <1>6, <2>0 DEF Commit
    <2>2. HistoryOK'
      BY <1>6, <2>0 DEF Commit
    <2>3. LoadsOK'
      BY <1>6, <2>0 DEF Commit
    <2>4. EntriesOK'
      BY <1>6, <2>0 DEF Commit
    <2> QED
      BY <2>1, <2>2, <2>3, <2>4, Zenon
  <1>7. ASSUME NEW d \in Admins, Invalidate(d) PROVE IInv'
    <2>1. TypeOK'
      BY <1>7 DEF Invalidate, Acknowledge, NoLoadBefore
    <2>2. HistoryOK'
      BY <1>7, Zenon DEF Invalidate, Acknowledge, NoLoadBefore
    <2>3. LoadsOK'
      BY <1>7 DEF Invalidate, Acknowledge, NoLoadBefore
    <2>4. EntriesOK'
      BY <1>7, Zenon DEF Invalidate, Acknowledge, NoLoadBefore
    <2> QED
      BY <2>1, <2>2, <2>3, <2>4, Zenon
  <1>8. ASSUME NEW d \in Admins, Cancelled(d) PROVE IInv'
    <2>1. TypeOK'
      BY <1>8, Zenon DEF Cancelled
    <2>2. HistoryOK'
      BY <1>8, Zenon DEF Cancelled
    <2>3. LoadsOK'
      BY <1>8, Zenon DEF Cancelled
    <2>4. EntriesOK'
      BY <1>8, Zenon DEF Cancelled
    <2> QED
      BY <2>1, <2>2, <2>3, <2>4, Zenon
  <1>9. CASE Tick
    <2>1. TypeOK'
      BY <1>9 DEF Tick
    <2>2. HistoryOK'
      BY <1>9 DEF Tick
    <2>3. LoadsOK'
      BY <1>9 DEF Tick
    <2>4. EntriesOK'
      BY <1>9 DEF Tick
    <2> QED
      BY <2>1, <2>2, <2>3, <2>4, Zenon
  <1>10. CASE UNCHANGED vars
    <2>1. TypeOK'
      BY <1>10, Zenon DEF vars
    <2>2. HistoryOK'
      BY <1>10, Zenon DEF vars
    <2>3. LoadsOK'
      BY <1>10, Zenon DEF vars
    <2>4. EntriesOK'
      BY <1>10, Zenon DEF vars
    <2> QED
      BY <2>1, <2>2, <2>3, <2>4, Zenon
  <1> HIDE <1>0 DEF IInv, TypeOK, HistoryOK, LoadsOK, EntriesOK, Loads, Entries
  <1>11. ASSUME NEW d \in Admins, NEW r \in RouteIds,
                CreateRoute(d, r) \/ UpdateRoute(d, r) \/ DeleteRoute(d, r)
         PROVE  IInv'
    BY <1>6, <1>11, Zenon DEF CreateRoute, UpdateRoute, DeleteRoute
  <1> QED
    BY <1>1, <1>2, <1>3, <1>4, <1>5, <1>7, <1>8, <1>9, <1>10, <1>11 DEF Next

LEMMA Invariance == Spec => []IInv
  BY InitIInv, NextIInv, PTL DEF Spec

(* The variables of the cache keep their types. *)
THEOREM TypeCorrect == Spec => []TypeOK
  BY Invariance, PTL DEF IInv

(* On every instance an entry is behind the table for less than TTL and    *)
(* the duration of a load, whatever became of the invalidations.           *)
THEOREM Staleness == Spec => []StaleForBoundedTime
  <1>1. ASSUME IInv, NEW c \in Instances, NEW k \in DOMAIN hist, cache[c] # None, cache[c].read < k
        PROVE  now - hist[k].at < TTL + MaxLoad
    <2>1. k \in 1..Len(hist) /\ hist[k].at \in Nat /\ now \in Nat
      BY <1>1, HistoryTypes DEF IInv, TypeOK
    <2>2. cache[c].at \in Nat /\ cache[c].read \in Nat
      BY <1>1 DEF IInv, TypeOK, Entries
    <2>3. now - cache[c].at < TTL /\ hist[k].at + MaxLoad >= cache[c].at
      BY <1>1, <2>1, <2>2, Zenon DEF IInv, EntriesOK
    <2> QED
      BY <2>1, <2>2, <2>3
  <1>2. IInv => StaleForBoundedTime
    BY <1>1, Zenon DEF StaleForBoundedTime
  <1> QED
    BY Invariance, <1>2, PTL

(* A write whose invalidation met no older load is never missed again on   *)
(* the instance that served it.                                            *)
THEOREM CleanWrite == Spec => []CleanWriteIsImmediate
  <1>1. IInv => CleanWriteIsImmediate
    BY Zenon DEF IInv, EntriesOK, CleanWriteIsImmediate
  <1> QED
    BY Invariance, <1>1, PTL

(* An entry of the invariant's type is not None, and neither is its copy. *)
LEMMA CopiesOf ==
  ASSUME IInv
  PROVE  \A c \in Instances :
            /\ Copies[c] = None <=> cache[c] = None
            /\ cache[c] # None => /\ Copies[c] = [value |-> cache[c].value, at |-> cache[c].at]
                                  /\ Copies[c].at = cache[c].at
  <1> SUFFICES ASSUME NEW c \in Instances, cache[c] # None
               PROVE  [value |-> cache[c].value, at |-> cache[c].at] # None
    BY Zenon DEF Copies
  <1>1. cache[c] \in Entries /\ now \in Nat
    BY DEF IInv, TypeOK
  <1>2. cache[c].value \in SUBSET RouteIds /\ cache[c].at \in Nat
    BY <1>1 DEF Entries
  <1> QED
    BY <1>2

(* A step that leaves clock, history and entries alone is a stutter. *)
LEMMA Stutter ==
  ASSUME UNCHANGED <<now, hist, cache>>
  PROVE  UNCHANGED Abstract!vars
  BY DEF Abstract!vars, Copies

(* Dropping an entry is a Drop, or a stutter if there was none. *)
LEMMA DropEntry ==
  ASSUME IInv, NEW c \in Instances, cache' = [cache EXCEPT ![c] = None], UNCHANGED <<now, hist>>
  PROVE  Abstract!Drop(c)
  <1>1. Copies' = [Copies EXCEPT ![c] = None]
    BY Zenon DEF Copies, IInv, TypeOK
  <1> QED
    BY <1>1 DEF Abstract!Drop

(* Every step of the cache is a step or a stutter of the abstract one. *)
LEMMA StepSimulation == IInv /\ IInv' /\ [Next]_vars => [Abstract!Next]_(Abstract!vars)
  <1> SUFFICES ASSUME IInv, IInv', [Next]_vars PROVE [Abstract!Next]_(Abstract!vars)
    BY Zenon
  <1>1. ASSUME NEW c \in Instances, StartLoad(c) \/ Query(c) \/ LoadFails(c)
        PROVE  UNCHANGED Abstract!vars
    BY <1>1, Stutter, Zenon DEF StartLoad, Query, LoadFails
  <1>2. ASSUME NEW c \in Instances, Insert(c) PROVE Abstract!Refresh(c)
    <2> DEFINE k == load[c].read
    <2>1. /\ load[c] # None /\ k > 0 /\ UNCHANGED <<now, hist>>
          /\ cache' = [cache EXCEPT ![c] = [value |-> load[c].value, at |-> now, read |-> k]]
      BY <1>2, Zenon DEF Insert
    <2>2. load[c] \in Loads /\ now \in Nat
      BY <2>1 DEF IInv, TypeOK
    <2>3. k \in 1..Len(hist) /\ load[c].since \in Nat /\ load[c].value \in SUBSET RouteIds
      BY <2>1, <2>2, HistoryTypes DEF Loads, IInv
    <2>4. /\ load[c].value = hist[k].value /\ now - load[c].since =< MaxLoad
          /\ \A j \in 1..Len(hist) : j > k => hist[j].at >= load[c].since
      BY <2>1, Zenon DEF IInv, LoadsOK
    <2>5. Abstract!Recent(k)
      <3>1. CASE k = Len(hist)
        BY <3>1, Zenon DEF Abstract!Recent
      <3>2. CASE k # Len(hist)
        <4>1. k + 1 \in 1..Len(hist) /\ k + 1 > k
          BY <2>3, <3>2, HistoryTypes DEF IInv
        <4>2. hist[k + 1].at >= load[c].since /\ hist[k + 1].at \in Nat
          BY <2>4, <4>1, HistoryTypes, Zenon DEF IInv
        <4> QED
          BY <2>2, <2>3, <2>4, <4>2 DEF Abstract!Recent
      <3> QED
        BY <3>1, <3>2, Zenon
    <2>6. Copies' = [Copies EXCEPT ![c] = [value |-> load[c].value, at |-> now]]
      <3>1. [value |-> load[c].value, at |-> now, read |-> k] # None
        BY <2>2, <2>3, HistoryTypes DEF IInv
      <3> HIDE DEF k
      <3>2. cache'[c] = [value |-> load[c].value, at |-> now, read |-> k]
        BY <2>1, Zenon DEF IInv, TypeOK
      <3>3. \A b \in Instances : b # c => cache'[b] = cache[b]
        BY <2>1, Zenon DEF IInv, TypeOK
      <3>4. cache'[c] # None /\ cache'[c].value = load[c].value /\ cache'[c].at = now
        BY <3>1, <3>2
      <3>5. Copies'[c] = [value |-> load[c].value, at |-> now]
        BY <3>4, Zenon DEF Copies
      <3>6. \A b \in Instances : b # c => Copies'[b] = Copies[b]
        BY <3>3, Zenon DEF Copies
      <3> QED
        BY <3>5, <3>6, Zenon DEF Copies
    <2> QED
      BY <2>1, <2>3, <2>4, <2>5, <2>6, Zenon DEF Abstract!Refresh
  <1>3. ASSUME NEW c \in Instances, Restart(c) PROVE Abstract!Drop(c)
    BY <1>3, DropEntry, Zenon DEF Restart
  <1>4. ASSUME NEW d \in Admins, NEW r \in RouteIds, NEW row, Commit(d, r, row)
        PROVE  Abstract!Write
    <2>1. hist' = Append(hist, [value |-> Enabled(table'), at |-> now]) /\ UNCHANGED <<now, cache>>
      BY <1>4, Zenon DEF Commit
    <2>2. Enabled(table') \in SUBSET RouteIds
      BY Zenon DEF Enabled
    <2>3. UNCHANGED Copies
      BY <2>1, Zenon DEF Copies
    <2> QED
      BY <2>1, <2>2, <2>3, Zenon DEF Abstract!Write
  <1>5. ASSUME NEW d \in Admins, NEW r \in RouteIds,
               CreateRoute(d, r) \/ UpdateRoute(d, r) \/ DeleteRoute(d, r)
        PROVE  Abstract!Write
    BY <1>4, <1>5, Zenon DEF CreateRoute, UpdateRoute, DeleteRoute
  <1>6. ASSUME NEW d \in Admins, Invalidate(d) PROVE Abstract!Drop(Home[d])
    BY <1>6, DropEntry, Zenon DEF Invalidate
  <1>7. ASSUME NEW d \in Admins, Cancelled(d) PROVE UNCHANGED Abstract!vars
    BY <1>7, Stutter, Zenon DEF Cancelled
  <1>8. CASE Tick
    <2>1. /\ now' = now + 1 /\ UNCHANGED hist
          /\ cache' = [c \in Instances |->
                IF cache[c] # None /\ now + 1 - cache[c].at >= TTL THEN None ELSE cache[c]]
      BY <1>8, Zenon DEF Tick
    <2>2. Copies' = [c \in Instances |->
             IF Copies[c] # None /\ now + 1 - Copies[c].at >= TTL THEN None ELSE Copies[c]]
      BY <2>1, CopiesOf, Zenon DEF Copies
    <2> QED
      BY <2>1, <2>2, Zenon DEF Abstract!Tick, Abstract!Next
  <1>9. CASE UNCHANGED vars
    BY <1>9, Stutter, Zenon DEF vars
  <1>10. \A d \in Admins : Home[d] \in Instances
    BY Zenon
  <1> QED
    BY <1>1, <1>2, <1>3, <1>5, <1>6, <1>7, <1>8, <1>9, <1>10, Zenon DEF Next, Abstract!Next

(* The cache with its loads, handlers and failures implements a cache of   *)
(* bounded staleness.                                                      *)
THEOREM Refinement == Spec => ImplementsBoundedStaleness
  <1>1. Init => Abstract!Init
    BY Zenon DEF Init, Abstract!Init, Copies
  <1> QED
    BY <1>1, Invariance, StepSimulation, PTL DEF Spec, ImplementsBoundedStaleness, Abstract!Spec

-----------------------------------------------------------------------------
(* The walk over the routes. *)

HIDE RouteCacheAssumption
USE BackoffAssumption

(* How many routes the table has for the request. *)
N == Cardinality(Matching(rows))

(* Before the plan is built nothing has been counted. *)
NotStarted ==
    /\ plan = <<>> /\ tries = <<>> /\ last = <<>> /\ cur = 0 /\ attempt = 0
    /\ total_attempts = 0 /\ routes_tried = 0 /\ last_error = 0
    /\ backoff = 0 /\ slept = 0 /\ ncalls = 0

(* The plan is an order of the matching rows, all of them usable. *)
Planned ==
    /\ plan \in ResolveRoutes(rows) /\ \A r \in Matching(rows) : ValidRoute(r)
    /\ tries \in [1..N -> Nat] /\ last \in [1..N -> Outcomes \cup {"none"}]

(* The counters of a walk under way; the routes tried are the first cur. *)
Counters ==
    /\ cur \in 1..N /\ routes_tried = cur
    /\ attempt \in Nat /\ total_attempts \in Nat /\ ncalls \in Nat /\ last_error \in Nat
    /\ backoff \in 0..BackoffCap /\ slept \in Nat

(* Every route before the one the walk is at was given up, within its      *)
(* retries; no route after it was called.                                  *)
Order ==
    /\ \A i \in 1..N : i < cur => GivenUp(i) /\ tries[i] > 0 /\ tries[i] =< 1 + plan[i].max_retries
    /\ \A i \in 1..N : i > cur => tries[i] = 0

(* The route the walk is at, and what the finished walk returned. *)
AtRoute ==
    /\ phase = "call" => /\ tries[cur] = attempt /\ attempt =< plan[cur].max_retries
                         /\ ncalls = total_attempts + attempt
    /\ phase = "backoff" => /\ tries[cur] = attempt + 1 /\ attempt + 1 =< plan[cur].max_retries
                            /\ ncalls = total_attempts + attempt + 1
    /\ phase = "done" =>
          /\ tries[cur] > 0 /\ tries[cur] =< 1 + plan[cur].max_retries /\ ncalls = total_attempts
          /\ \/ /\ result = [kind |-> "ok", route |-> plan[cur], routes_tried |-> routes_tried,
                             total_attempts |-> total_attempts]
                /\ last[cur] = "success"
             \/ /\ result = [kind |-> "error", code |-> "provider", error |-> ncalls]
                /\ cur = N /\ GivenUp(cur)

(* The first call of a route comes without a sleep, so the sleeps so far   *)
(* are for the calls beyond one per route.                                 *)
Slept == /\ ncalls >= cur - (IF phase = "done" THEN 0 ELSE 1)
         /\ slept =< BackoffCap * (ncalls - cur + (IF phase = "done" THEN 0 ELSE 1))

(* The request ended before a route was called. *)
Rejected ==
    /\ phase = "done" /\ NotStarted
    /\ result \in {[kind |-> "error", code |-> "no_route"],
                   [kind |-> "error", code |-> "invalid_route_config"]}

Walking ==
    /\ phase \in {"call", "backoff", "done"} /\ (phase # "done" => result = NoResult)
    /\ Planned /\ Counters /\ Order /\ AtRoute /\ Slept

WalkInv ==
    /\ rows \subseteq Routes
    /\ (phase = "resolve" /\ NotStarted /\ result = NoResult) \/ Rejected \/ Walking

(* A plan holds each matching row once. *)
LEMMA PlanIsPermutation ==
  ASSUME rows \subseteq Routes, NEW s \in ResolveRoutes(rows)
  PROVE  /\ N \in Nat /\ s \in [1..N -> Matching(rows)]
         /\ Len(s) = N /\ DOMAIN s = 1..N
         /\ \A i, j \in 1..N : i < j => Before(s[i], s[j])
         /\ \A r \in Matching(rows) : \E i \in 1..N : s[i] = r
  <1>1. IsFiniteSet(Matching(rows))
    <2>1. Matching(rows) \in SUBSET Routes
      BY Zenon DEF Matching
    <2> QED
      BY <2>1, FS_Subset, RoutesAssumption, Zenon
  <1>2. N \in Nat
    BY <1>1, FS_CardinalityType DEF N
  <1>3. /\ s \in [1..N -> Matching(rows)]
        /\ \A i, j \in DOMAIN s : i < j => s[i] # s[j] /\ Before(s[i], s[j])
    BY DEF ResolveRoutes, N
  <1>4. DOMAIN s = 1..N
    BY <1>3
  <1>5. Len(s) = N
    BY <1>2, <1>3
  <1>6. s \in Injection(1..N, Matching(rows))
    <2>1. ASSUME NEW i \in 1..N, NEW j \in 1..N, i # j PROVE s[i] # s[j]
      BY <1>2, <1>3, <1>4, <2>1
    <2> QED
      BY <1>3, <2>1 DEF Injection, IsInjective
  <1>7. Cardinality(1..N) = N
    BY <1>2, FS_Interval
  <1>8. s \in Surjection(1..N, Matching(rows))
    BY <1>1, <1>6, <1>7, FS_Injection, Zenon DEF N
  <1> QED
    BY <1>2, <1>3, <1>4, <1>5, <1>8, Zenon DEF Surjection

(* The columns of a matching row, typed. *)
LEMMA RowTypes ==
  ASSUME rows \subseteq Routes, NEW r \in Matching(rows)
  PROVE  /\ r.max_retries \in Int /\ r.priority \in Int
         /\ r.tenant_id \in {Tenant, Global}
         /\ ValidRoute(r) => r.max_retries \in Nat
BY RoutesAssumption DEF Matching, ValidRoute

(* calculate_backoff never answers more than BackoffCap. *)
LEMMA BackoffCapped ==
  ASSUME NEW base, NEW n
  PROVE  BackoffChoices(base, n) \subseteq 0..BackoffCap
BY DEF BackoffChoices

(* The routes that were called are the first cur of the plan, or the first *)
(* cur - 1 while the present one has not been called.                      *)
LEMMA CalledCount ==
  ASSUME rows \subseteq Routes, Planned, Counters, Order
  PROVE  Cardinality({i \in DOMAIN plan : tries[i] > 0}) =
            (IF tries[cur] > 0 THEN cur ELSE cur - 1)
  <1>1. N \in Nat /\ DOMAIN plan = 1..N
    BY PlanIsPermutation, Zenon DEF Planned
  <1>2. cur \in 1..N /\ tries \in [1..N -> Nat]
    BY DEF Counters, Planned
  <1>3. CASE tries[cur] > 0
    <2>1. {i \in DOMAIN plan : tries[i] > 0} = 1..cur
      BY <1>1, <1>2, <1>3 DEF Order
    <2>2. Cardinality(1..cur) = cur
      BY <1>1, <1>2, FS_Interval
    <2> QED
      BY <1>3, <2>1, <2>2, Zenon
  <1>4. CASE ~(tries[cur] > 0)
    <2>1. {i \in DOMAIN plan : tries[i] > 0} = 1..(cur - 1)
      BY <1>1, <1>2, <1>4 DEF Order
    <2>2. Cardinality(1..(cur - 1)) = cur - 1
      BY <1>1, <1>2, FS_Interval
    <2> QED
      BY <1>4, <2>1, <2>2, Zenon
  <1> QED
    BY <1>3, <1>4

(* It holds of a request that has not begun. *)
LEMMA WalkInitInv == WalkInit => WalkInv
BY Zenon DEF WalkInit, WalkInv, NotStarted

(* What a walk that has begun knows of itself. *)
LEMMA Underway ==
  ASSUME WalkInv, phase \in {"call", "backoff"}
  PROVE  rows \subseteq Routes /\ Planned /\ Counters /\ Order /\ AtRoute /\ Slept /\ result = NoResult
BY DEF WalkInv, Walking, Rejected

(* Its plan has N routes, each with a number of retries. *)
LEMMA PlanTypes ==
  ASSUME rows \subseteq Routes, Planned
  PROVE  /\ N \in Nat /\ Len(plan) = N /\ DOMAIN plan = 1..N
         /\ \A i \in 1..N : plan[i].max_retries \in Nat
  <1>1. /\ N \in Nat /\ Len(plan) = N /\ DOMAIN plan = 1..N
        /\ plan \in [1..N -> Matching(rows)]
    BY PlanIsPermutation, Zenon DEF Planned
  <1> QED
    BY <1>1, RowTypes DEF Planned

(* A call is recorded on the route the walk is at ... *)
LEMMA Recorded ==
  ASSUME WalkInv, phase = "call", NEW o \in Outcomes, Record(o), UNCHANGED <<rows, plan>>
  PROVE  /\ N' = N /\ Planned'
         /\ tries'[cur] = attempt + 1 /\ last'[cur] = o
         /\ ncalls' = ncalls + 1 /\ ncalls = total_attempts + attempt
         /\ attempt =< plan[cur].max_retries /\ plan[cur].max_retries \in Nat
  <1>1. rows \subseteq Routes /\ Planned /\ Counters /\ AtRoute
    BY Underway, Zenon
  <1>2. N' = N
    BY DEF N
  <1>3. /\ cur \in 1..N /\ tries \in [1..N -> Nat] /\ last \in [1..N -> Outcomes \cup {"none"}]
        /\ attempt \in Nat
    BY <1>1 DEF Counters, Planned
  <1>4. tries[cur] = attempt /\ ncalls = total_attempts + attempt /\ attempt =< plan[cur].max_retries
    BY <1>1, Zenon DEF AtRoute
  <1>5. tries' \in [1..N -> Nat] /\ tries'[cur] = attempt + 1
    BY <1>3, <1>4 DEF Record
  <1>6. last' \in [1..N -> Outcomes \cup {"none"}] /\ last'[cur] = o
    BY <1>3, Zenon DEF Record
  <1>7. Planned'
    BY <1>1, <1>2, <1>5, <1>6, Zenon DEF Planned
  <1>8. plan[cur].max_retries \in Nat
    BY <1>1, <1>3, PlanTypes, Zenon
  <1> QED
    BY <1>2, <1>4, <1>5, <1>6, <1>7, <1>8, Zenon DEF Record

(* ... and on no other. *)
LEMMA RecordedNowhereElse ==
  ASSUME WalkInv, phase = "call", NEW o \in Outcomes, Record(o), UNCHANGED plan,
         NEW i \in 1..N, i # cur
  PROVE  /\ tries'[i] = tries[i]
         /\ i < cur => GivenUp(i)' /\ tries'[i] > 0 /\ tries'[i] =< 1 + plan[i].max_retries
         /\ i > cur => tries'[i] = 0
  <1>1. Planned /\ Order
    BY Underway, Zenon
  <1>2. tries'[i] = tries[i] /\ last'[i] = last[i]
    BY <1>1, Zenon DEF Record, Planned
  <1>3. GivenUp(i) => GivenUp(i)'
    BY <1>2, Zenon DEF GivenUp
  <1> QED
    BY <1>1, <1>2, <1>3, Zenon DEF Order

(* The order of the routes survives a call that does not leave its route. *)
LEMMA KeepsOrder ==
  ASSUME WalkInv, phase = "call", NEW o \in Outcomes, Record(o), UNCHANGED <<rows, plan, cur>>
  PROVE  Order'
  <1>1. N' = N /\ cur \in Int /\ N \in Nat
    BY Underway, PlanTypes DEF N, Counters
  <1>2. ASSUME NEW i \in 1..N, i < cur
        PROVE  GivenUp(i)' /\ tries'[i] > 0 /\ tries'[i] =< 1 + plan[i].max_retries
    BY <1>1, <1>2, RecordedNowhereElse
  <1>3. ASSUME NEW i \in 1..N, i > cur PROVE tries'[i] = 0
    BY <1>1, <1>3, RecordedNowhereElse
  <1> QED
    BY <1>1, <1>2, <1>3, Zenon DEF Order

(* Giving a route up keeps the invariant. *)
LEMMA LeaveRouteInv ==
  ASSUME WalkInv, phase = "call", NEW o \in {"fatal", "retryable"}, Record(o),
         o = "retryable" => attempt = plan[cur].max_retries,
         LeaveRoute(ncalls + 1, attempt + 1), UNCHANGED <<rows, plan, backoff, slept>>
  PROVE  WalkInv'
  <1>1. rows \subseteq Routes /\ Counters /\ Slept /\ Planned /\ result = NoResult
    BY Underway, Zenon
  <1>2. /\ N' = N /\ Planned'
        /\ tries'[cur] = attempt + 1 /\ last'[cur] = o
        /\ ncalls' = ncalls + 1 /\ ncalls = total_attempts + attempt
        /\ attempt =< plan[cur].max_retries /\ plan[cur].max_retries \in Nat
    BY Recorded, Zenon DEF Outcomes
  <1>3. /\ cur \in 1..N /\ total_attempts \in Nat /\ ncalls \in Nat /\ slept \in Nat
        /\ attempt \in Nat /\ backoff \in 0..BackoffCap /\ routes_tried = cur
    BY <1>1, Zenon DEF Counters
  <1>4. N \in Nat /\ Len(plan) = N
    BY <1>1, PlanTypes, Zenon
  <1>5. total_attempts' = ncalls' /\ last_error' = ncalls'
    BY <1>2, <1>3 DEF LeaveRoute
  <1>6. tries'[cur] > 0 /\ tries'[cur] =< 1 + plan[cur].max_retries
    BY <1>2, <1>3
  <1>7. \/ last'[cur] = "fatal"
        \/ last'[cur] = "retryable" /\ tries'[cur] = 1 + plan[cur].max_retries
    BY <1>2, <1>3
  <1>8. slept =< BackoffCap * (ncalls - cur + 1) /\ ncalls >= cur - 1
    BY <1>1, Zenon DEF Slept
  <1>9. CASE cur < Len(plan)
    <2>1. /\ cur' = cur + 1 /\ routes_tried' = cur + 1 /\ attempt' = 0
          /\ phase' = "call" /\ result' = NoResult
      BY <1>1, <1>3, <1>9 DEF LeaveRoute
    <2>2. Counters'
      BY <1>2, <1>3, <1>4, <1>5, <1>9, <2>1 DEF Counters
    <2>3. ASSUME NEW i \in 1..N, i < cur'
          PROVE  GivenUp(i)' /\ tries'[i] > 0 /\ tries'[i] =< 1 + plan[i].max_retries
      <3>1. CASE i = cur
        BY <1>6, <1>7, <3>1, Zenon DEF GivenUp
      <3>2. CASE i # cur
        <4>1. i < cur
          BY <1>3, <2>1, <2>3, <3>2
        <4> QED
          BY <3>2, <4>1, RecordedNowhereElse, Zenon DEF Outcomes
      <3> QED
        BY <3>1, <3>2, Zenon
    <2>4. ASSUME NEW i \in 1..N, i > cur \/ i = cur' PROVE i # cur /\ tries'[i] = 0
      BY <1>3, <2>1, <2>4, RecordedNowhereElse DEF Outcomes
    <2>5. Order'
      <3>1. \A i \in 1..N : i > cur' => tries'[i] = 0
        BY <1>3, <2>1, <2>4
      <3> QED
        BY <1>2, <2>3, <3>1, Zenon DEF Order
    <2>6. tries'[cur'] = 0 /\ plan[cur'].max_retries \in Nat
      <3>1. cur' \in 1..N
        BY <1>2, <2>2, Zenon DEF Counters
      <3> QED
        BY <1>1, <2>4, <3>1, PlanTypes, Zenon
    <2>7. AtRoute'
      <3>1. ncalls' = total_attempts' + 0 /\ 0 =< plan[cur'].max_retries
        BY <1>2, <1>3, <1>5, <2>6
      <3> QED
        BY <2>1, <2>6, <3>1, Zenon DEF AtRoute
    <2>8. Slept'
      BY <1>2, <1>3, <1>8, <2>1 DEF Slept
    <2> QED
      BY <1>1, <1>2, <2>1, <2>2, <2>5, <2>7, <2>8, Zenon DEF WalkInv, Walking
  <1>10. CASE ~(cur < Len(plan))
    <2>1. /\ cur = N /\ cur' = cur /\ routes_tried' = cur /\ attempt' = attempt /\ phase' = "done"
          /\ result' = [kind |-> "error", code |-> "provider", error |-> ncalls']
      BY <1>2, <1>3, <1>4, <1>10, Zenon DEF LeaveRoute, Finish
    <2>2. Counters'
      BY <1>2, <1>3, <1>5, <2>1 DEF Counters
    <2>3. Order'
      BY <2>1, KeepsOrder, Zenon DEF Outcomes
    <2>4. GivenUp(cur)'
      BY <1>7, <2>1, Zenon DEF GivenUp
    <2>5. AtRoute'
      BY <1>2, <1>5, <1>6, <2>1, <2>4, Zenon DEF AtRoute
    <2>6. Slept'
      BY <1>2, <1>3, <1>8, <2>1 DEF Slept
    <2> QED
      BY <1>1, <1>2, <2>1, <2>2, <2>3, <2>5, <2>6, Zenon DEF WalkInv, Walking
  <1> QED
    BY <1>9, <1>10, Zenon

(* Every step keeps the invariant. *)
LEMMA WalkNextInv == WalkInv /\ [WalkNext]_walkVars => WalkInv'
  <1> SUFFICES ASSUME WalkInv, [WalkNext]_walkVars PROVE WalkInv'
    BY Zenon
  <1>1. ASSUME phase = "resolve" PROVE rows \subseteq Routes /\ NotStarted /\ result = NoResult
    BY <1>1, Zenon DEF WalkInv, Walking, Rejected
  <1>2. CASE NoRoute
    BY <1>1, <1>2, Zenon DEF WalkInv, Rejected, NoRoute, Finish, NotStarted
  <1>3. CASE BuildFails
    BY <1>1, <1>3, Zenon DEF WalkInv, Rejected, BuildFails, Finish, NotStarted
  <1>4. CASE Build
    <2>1. rows \subseteq Routes /\ NotStarted /\ result = NoResult
      BY <1>1, <1>4, Zenon DEF Build
    <2>2. PICK s \in ResolveRoutes(rows) :
             plan' = s /\ tries' = [i \in DOMAIN s |-> 0] /\ last' = [i \in DOMAIN s |-> "none"]
      BY <1>4, Zenon DEF Build
    <2>3. /\ phase' = "call" /\ cur' = 1 /\ attempt' = 0 /\ routes_tried' = 1
          /\ UNCHANGED <<rows, total_attempts, last_error, backoff, slept, result, ncalls>>
      BY <1>4, Zenon DEF Build
    <2>4. Matching(rows) # {} /\ \A r \in Matching(rows) : ValidRoute(r)
      BY <1>4, Zenon DEF Build
    <2>5. /\ N \in Nat /\ DOMAIN s = 1..N /\ N' = N /\ s \in [1..N -> Matching(rows)]
          /\ \A r \in Matching(rows) : \E i \in 1..N : s[i] = r
      BY <2>1, <2>3, PlanIsPermutation, Zenon DEF N
    <2>6. 1 \in 1..N
      BY <2>4, <2>5
    <2>7. Planned'
      BY <2>2, <2>3, <2>4, <2>5, Zenon DEF Planned
    <2>8. \A i \in 1..N : ~(i < 1) /\ tries'[i] = 0
      BY <2>2, <2>5
    <2>9. Counters'
      BY <2>1, <2>3, <2>5, <2>6 DEF Counters, NotStarted
    <2>10. Order'
      BY <2>3, <2>5, <2>8, Zenon DEF Order
    <2>11. AtRoute'
      <3>1. plan'[1].max_retries \in Nat /\ tries'[1] = 0
        BY <2>1, <2>2, <2>4, <2>5, <2>6, <2>8, RowTypes, Zenon
      <3> QED
        BY <2>1, <2>3, <3>1 DEF AtRoute, NotStarted
    <2>12. Slept'
      BY <2>1, <2>3 DEF Slept, NotStarted
    <2> QED
      BY <2>1, <2>3, <2>7, <2>9, <2>10, <2>11, <2>12, Zenon DEF WalkInv, Walking
  <1>5. CASE CallSucceeds
    <2>1. /\ phase = "call" /\ Record("success") /\ phase' = "done"
          /\ total_attempts' = total_attempts + (attempt + 1)
          /\ result' = [kind |-> "ok", route |-> plan[cur], routes_tried |-> routes_tried,
                        total_attempts |-> total_attempts + (attempt + 1)]
          /\ UNCHANGED <<rows, plan, cur, attempt, routes_tried, last_error, backoff, slept>>
      BY <1>5, Zenon DEF CallSucceeds, Finish
    <2>2. rows \subseteq Routes /\ Counters /\ Slept
      BY <2>1, Underway, Zenon
    <2>3. /\ N' = N /\ Planned'
          /\ tries'[cur] = attempt + 1 /\ last'[cur] = "success"
          /\ ncalls' = ncalls + 1 /\ ncalls = total_attempts + attempt
          /\ attempt =< plan[cur].max_retries /\ plan[cur].max_retries \in Nat
      BY <2>1, Recorded, Zenon DEF Outcomes
    <2>4. Counters'
      BY <2>1, <2>2, <2>3 DEF Counters
    <2>5. total_attempts' = ncalls'
      BY <2>1, <2>2, <2>3 DEF Counters
    <2>6. Order'
      BY <2>1, KeepsOrder, Zenon DEF Outcomes
    <2>7. AtRoute'
      <3>1. tries'[cur] > 0 /\ tries'[cur] =< 1 + plan[cur].max_retries
        BY <2>2, <2>3 DEF Counters
      <3> QED
        BY <2>1, <2>3, <2>5, <3>1, Zenon DEF AtRoute
    <2>8. Slept'
      BY <2>1, <2>2, <2>3 DEF Slept, Counters
    <2> QED
      BY <2>1, <2>2, <2>3, <2>4, <2>6, <2>7, <2>8, Zenon DEF WalkInv, Walking
  <1>6. CASE CallFatal
    BY <1>6, LeaveRouteInv, Zenon DEF CallFatal
  <1>7. CASE RetriesExhausted
    <2>1. /\ phase = "call" /\ Record("retryable") /\ LeaveRoute(ncalls + 1, TotalCalls)
          /\ attempt + 1 >= TotalCalls /\ UNCHANGED <<rows, plan, backoff, slept>>
      BY <1>7, Zenon DEF RetriesExhausted
    <2>2. Counters /\ attempt =< plan[cur].max_retries /\ plan[cur].max_retries \in Nat
      BY <2>1, Underway, Recorded, Zenon DEF Outcomes
    <2>3. attempt = plan[cur].max_retries /\ TotalCalls = attempt + 1
      BY <2>1, <2>2 DEF Counters, TotalCalls
    <2> QED
      BY <2>1, <2>3, LeaveRouteInv, Zenon
  <1>8. CASE CallRetryable
    <2>1. /\ phase = "call" /\ Record("retryable") /\ phase' = "backoff" /\ attempt + 1 < TotalCalls
          /\ UNCHANGED <<rows, plan, cur, attempt, total_attempts, routes_tried, last_error, result>>
      BY <1>8, Zenon DEF CallRetryable
    <2>2. PICK ms \in 0..BackoffCap : backoff' = ms /\ slept' = slept + ms
      BY <1>8, BackoffCapped, Zenon DEF CallRetryable
    <2>3. rows \subseteq Routes /\ Counters /\ Slept /\ result = NoResult
      BY <2>1, Underway, Zenon
    <2>4. /\ N' = N /\ Planned' /\ tries'[cur] = attempt + 1
          /\ ncalls' = ncalls + 1 /\ ncalls = total_attempts + attempt
          /\ plan[cur].max_retries \in Nat
      BY <2>1, Recorded, Zenon DEF Outcomes
    <2>5. cur \in 1..N /\ attempt \in Nat /\ total_attempts \in Nat /\ ncalls \in Nat /\ slept \in Nat
      BY <2>3, Zenon DEF Counters
    <2>6. Counters'
      <3>1. slept' \in Nat
        BY <2>2, <2>5
      <3> QED
        BY <2>1, <2>2, <2>3, <2>4, <3>1 DEF Counters
    <2>7. Order'
      BY <2>1, KeepsOrder, Zenon DEF Outcomes
    <2>8. AtRoute'
      <3>1. attempt + 1 =< plan[cur].max_retries /\ ncalls' = total_attempts + attempt + 1
        BY <2>1, <2>4, <2>5 DEF TotalCalls
      <3> QED
        BY <2>1, <2>4, <3>1, Zenon DEF AtRoute
    <2>9. Slept'
      <3> DEFINE k == ncalls - cur + 1
      <3>1. slept =< BackoffCap * k /\ k >= 0 /\ k \in Int
        BY <2>1, <2>3, <2>5 DEF Slept
      <3>2. ncalls' - cur' + 1 = k + 1 /\ ncalls' >= cur' - 1
        BY <2>1, <2>4, <2>5, <3>1
      <3> HIDE DEF k
      <3>3. BackoffCap * (k + 1) = BackoffCap * k + BackoffCap /\ BackoffCap * k \in Int
        BY <3>1
      <3>4. slept' =< BackoffCap * (k + 1)
        BY <2>2, <2>5, <3>1, <3>3
      <3> QED
        BY <2>1, <3>2, <3>4, Zenon DEF Slept
    <2> QED
      BY <2>1, <2>3, <2>4, <2>6, <2>7, <2>8, <2>9, Zenon DEF WalkInv, Walking
  <1>9. CASE WakeUp
    <2>1. /\ phase = "backoff" /\ phase' = "call" /\ attempt' = attempt + 1 /\ backoff' = 0
          /\ UNCHANGED <<rows, plan, cur, total_attempts, routes_tried, last_error, slept, result,
                         tries, last, ncalls>>
      BY <1>9, Zenon DEF WakeUp
    <2>2. rows \subseteq Routes /\ Planned /\ Counters /\ Order /\ AtRoute /\ Slept /\ result = NoResult
      BY <2>1, Underway, Zenon
    <2>3. N' = N
      BY <2>1, Zenon DEF N
    <2>4. Planned' /\ Counters'
      BY <2>1, <2>2, <2>3 DEF Planned, Counters
    <2>5. Order'
      BY <2>1, <2>2, <2>3, Zenon DEF Order, GivenUp
    <2>6. AtRoute'
      BY <2>1, <2>2 DEF AtRoute, Counters
    <2>7. Slept'
      BY <2>1, <2>2, Zenon DEF Slept
    <2> QED
      BY <2>1, <2>2, <2>4, <2>5, <2>6, <2>7, Zenon DEF WalkInv, Walking
  <1>10. CASE UNCHANGED walkVars
    <2>1. UNCHANGED <<rows, phase, plan, cur, attempt, total_attempts, routes_tried, last_error,
                      backoff, slept, result, tries, last, ncalls>>
      BY <1>10, Zenon DEF walkVars
    <2>2. (Planned => Planned') /\ (Order => Order')
      BY <2>1, Zenon DEF Planned, Order, GivenUp, N
    <2>3. (Counters => Counters') /\ (AtRoute => AtRoute') /\ (Slept => Slept')
      BY <2>1, Zenon DEF Counters, AtRoute, Slept, GivenUp, N
    <2> QED
      BY <2>1, <2>2, <2>3, Zenon DEF WalkInv, Walking, Rejected, NotStarted
  <1> QED
    BY <1>2, <1>3, <1>4, <1>5, <1>6, <1>7, <1>8, <1>9, <1>10, Zenon DEF WalkNext

(* The inductive invariant holds in every state of a walk. *)
LEMMA WalkInvariance == WalkSpec => []WalkInv
  BY WalkInitInv, WalkNextInv, PTL DEF WalkSpec

(* A walk that returned an answer or the error of a call is over. *)
LEMMA Finished ==
  ASSUME WalkInv, result.kind = "ok" \/ (result.kind = "error" /\ result.code = "provider")
  PROVE  phase = "done" /\ rows \subseteq Routes /\ Planned /\ Counters /\ Order /\ AtRoute
  <1>1. result # NoResult /\ ~Rejected
    BY DEF Rejected, NoResult
  <1> QED
    BY <1>1, Zenon DEF WalkInv, Walking

(* The variables of a walk keep their types, and the plan is an order of   *)
(* the matching routes that the query can return.                          *)
THEOREM WalkTypeCorrect == WalkSpec => []WalkTypeOK
  <1>1. ASSUME WalkInv PROVE WalkTypeOK
    <2>1. CASE NotStarted
      BY <1>1, <2>1 DEF NotStarted, WalkInv, Walking, Rejected, WalkTypeOK
    <2>2. CASE ~NotStarted
      <3>1. rows \subseteq Routes /\ Planned /\ Counters /\ phase \in {"call", "backoff", "done"}
        BY <1>1, <2>2, Zenon DEF WalkInv, Walking, Rejected
      <3>2. N \in Nat /\ Len(plan) = N /\ DOMAIN plan = 1..N
        BY <3>1, PlanTypes, Zenon
      <3> QED
        BY <3>1, <3>2 DEF Counters, Planned, WalkTypeOK
    <2> QED
      BY <2>1, <2>2, Zenon
  <1> QED
    BY <1>1, WalkInvariance, PTL

(* A completion that succeeds reports the route that answered, the calls   *)
(* made and the routes called, whatever was retried on the way.            *)
THEOREM Reported == WalkSpec => []ReportedAttemptsAreCallsMade
  <1>1. ASSUME WalkInv PROVE ReportedAttemptsAreCallsMade
    <2> SUFFICES ASSUME result.kind = "ok"
                 PROVE  /\ result.route = plan[cur] /\ last[cur] = "success"
                        /\ result.total_attempts = ncalls
                        /\ result.routes_tried = Cardinality({i \in DOMAIN plan : tries[i] > 0})
      BY Zenon DEF ReportedAttemptsAreCallsMade
    <2>1. phase = "done" /\ rows \subseteq Routes /\ Planned /\ Counters /\ Order /\ AtRoute
      BY <1>1, Finished
    <2>2. tries[cur] > 0 /\ result.routes_tried = routes_tried
          /\ result.route = plan[cur] /\ last[cur] = "success" /\ result.total_attempts = ncalls
      BY <2>1 DEF AtRoute
    <2>3. result.routes_tried = cur
      BY <2>1, <2>2, Zenon DEF Counters
    <2>4. Cardinality({i \in DOMAIN plan : tries[i] > 0}) = cur
      BY <2>1, <2>2, CalledCount, Zenon
    <2> QED
      BY <2>2, <2>3, <2>4, Zenon
  <1> QED
    BY <1>1, WalkInvariance, PTL

(* A route is called only after every route ahead of it in the order of    *)
(* the table was given up, however the query orders routes that tie.       *)
THEOREM Earlier == WalkSpec => []EarlierRoutesGivenUp
  <1>1. ASSUME WalkInv PROVE EarlierRoutesGivenUp
    <2>1. CASE NotStarted
      BY <2>1 DEF NotStarted, EarlierRoutesGivenUp
    <2>2. CASE ~NotStarted
      <3>1. rows \subseteq Routes /\ Planned /\ Counters /\ Order /\ AtRoute /\ phase \in {"call", "backoff", "done"}
        BY <1>1, <2>2, Zenon DEF WalkInv, Walking, Rejected
      <3>2. /\ N \in Nat /\ DOMAIN plan = 1..N /\ plan \in [1..N -> Matching(rows)]
            /\ \A i, j \in 1..N : i < j => Before(plan[i], plan[j])
            /\ \A r \in Matching(rows) : \E i \in 1..N : plan[i] = r
        BY <3>1, PlanIsPermutation, Zenon DEF Planned
      <3>3. cur \in 1..N /\ tries \in [1..N -> Nat] /\ attempt \in Nat
        BY <3>1, Zenon DEF Counters, Planned
      <3>4. ASSUME NEW i \in 1..N PROVE tries[i] =< 1 + plan[i].max_retries
        <4>1. plan[i].max_retries \in Nat /\ plan[cur].max_retries \in Nat
          BY <3>1, <3>3, PlanTypes, Zenon
        <4>2. CASE i = cur
          BY <3>1, <3>3, <4>1, <4>2 DEF AtRoute
        <4>3. CASE i # cur
          BY <3>1, <3>3, <4>1, <4>3 DEF Order
        <4> QED
          BY <4>2, <4>3, Zenon
      <3>5. ASSUME NEW i \in 1..N, tries[i] > 0, NEW r \in Matching(rows),
                   \/ r.tenant_id = Tenant /\ plan[i].tenant_id = Global
                   \/ r.tenant_id = plan[i].tenant_id /\ r.priority < plan[i].priority
            PROVE  \E j \in 1..N : plan[j] = r /\ GivenUp(j)
        <4>1. PICK j \in 1..N : plan[j] = r
          BY <3>2, Zenon
        <4>2. plan[i].priority \in Int /\ r.priority \in Int
          BY <3>1, <3>2, RowTypes, Zenon
        <4>3. r # plan[i] /\ ~Before(plan[i], r)
          BY <3>5, <4>2, RoutesAssumption DEF Before
        <4>4. j < i
          BY <3>2, <4>1, <4>3
        <4>5. i =< cur
          BY <3>1, <3>3, <3>5 DEF Order
        <4>6. GivenUp(j)
          BY <3>1, <3>3, <4>4, <4>5 DEF Order
        <4> QED
          BY <4>1, <4>6, Zenon
      <3> QED
        BY <3>2, <3>4, <3>5, Zenon DEF EarlierRoutesGivenUp
    <2> QED
      BY <2>1, <2>2, Zenon
  <1> QED
    BY <1>1, WalkInvariance, PTL

(* The provider error of the last call is returned only once every         *)
(* matching route was given up.                                            *)
THEOREM Failure == WalkSpec => []FailureOnlyAfterEveryRoute
  <1>1. ASSUME WalkInv PROVE FailureOnlyAfterEveryRoute
    <2> SUFFICES ASSUME result.kind = "error", result.code = "provider"
                 PROVE  /\ \A r \in Matching(rows) : \E i \in DOMAIN plan : plan[i] = r /\ GivenUp(i)
                        /\ result.error = ncalls
      BY Zenon DEF FailureOnlyAfterEveryRoute
    <2>1. phase = "done" /\ rows \subseteq Routes /\ Planned /\ Counters /\ Order /\ AtRoute
      BY <1>1, Finished
    <2>2. result.error = ncalls /\ cur = N /\ GivenUp(cur)
      BY <2>1 DEF AtRoute
    <2>3. /\ N \in Nat /\ DOMAIN plan = 1..N /\ \A r \in Matching(rows) : \E i \in 1..N : plan[i] = r
      BY <2>1, PlanIsPermutation, Zenon DEF Planned
    <2>4. \A i \in 1..N : GivenUp(i)
      BY <2>1, <2>2, <2>3 DEF Order
    <2> QED
      BY <2>2, <2>3, <2>4, Zenon
  <1> QED
    BY <1>1, WalkInvariance, PTL

(* The time slept is bounded by the cap times the retries: the first call  *)
(* of a route never waits.                                                 *)
THEOREM Sleeps == WalkSpec => []SleepsOnlyForRetries
  <1>1. ASSUME WalkInv PROVE SleepsOnlyForRetries
    <2> DEFINE first == Cardinality({i \in DOMAIN plan : tries[i] > 0})
               next == IF phase = "backoff" \/ (phase = "call" /\ attempt > 0) THEN 1 ELSE 0
    <2>1. CASE NotStarted
      <3>1. {i \in DOMAIN plan : tries[i] > 0} = {}
        BY <2>1 DEF NotStarted
      <3>2. first = 0
        BY <3>1, FS_EmptySet, Zenon
      <3> HIDE DEF first
      <3>3. ncalls = 0 /\ slept = 0 /\ next \in {0, 1}
        BY <2>1, Zenon DEF NotStarted
      <3> HIDE DEF next
      <3>4. slept =< BackoffCap * (ncalls - first + next)
        BY <3>2, <3>3
      <3> QED
        BY <3>4, Zenon DEF SleepsOnlyForRetries, first, next
    <2>2. CASE ~NotStarted
      <3>1. rows \subseteq Routes /\ Planned /\ Counters /\ Order /\ AtRoute /\ Slept /\ phase \in {"call", "backoff", "done"}
        BY <1>1, <2>2, Zenon DEF WalkInv, Walking, Rejected
      <3>2. first = (IF tries[cur] > 0 THEN cur ELSE cur - 1)
        BY <3>1, CalledCount, Zenon
      <3> HIDE DEF first
      <3>3. cur \in Int /\ attempt \in Nat /\ ncalls \in Nat
        BY <3>1 DEF Counters
      <3>4. ncalls - first + next = ncalls - cur + (IF phase = "done" THEN 0 ELSE 1)
        BY <3>1, <3>2, <3>3 DEF AtRoute
      <3> HIDE DEF next
      <3>5. slept =< BackoffCap * (ncalls - first + next)
        BY <3>1, <3>4, Zenon DEF Slept
      <3> QED
        BY <3>5, Zenon DEF SleepsOnlyForRetries, first, next
    <2> QED
      BY <2>1, <2>2, Zenon
  <1> QED
    BY <1>1, WalkInvariance, PTL

==============================================================================
