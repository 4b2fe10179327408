----------------------------- MODULE RouteCache -----------------------------
(***************************************************************************)
(* The provider_routes rows of one (tenant, alias) and the RouteCache      *)
(* entry for them on every gateway instance: read-through loads, coalesced *)
(* per instance, against admin handlers that commit and then invalidate    *)
(* the cache of the instance they run on.                                  *)
(*                                                                         *)
(* Source: routing/router.rs (RouteCache), routing/resolver.rs,            *)
(* api/admin/routes.rs.  The cache is moka's: invalidate_all drops the     *)
(* entries that are there, a load in flight inserts its result when it     *)
(* completes.                                                              *)
(***************************************************************************)
EXTENDS Integers, Sequences

CONSTANTS Instances,
          Admins,     \* concurrent route handlers
          Home,       \* the instance an admin's handler runs on
          RouteIds,
          TTL,        \* route_cache_ttl_secs
          MaxLoad,    \* bound: how long a load takes
          MaxWrites,  \* bound: route mutations
          Horizon,    \* bound: clock
          None

ASSUME RouteCacheAssumption ==
    /\ Home \in [Admins -> Instances]
    /\ TTL \in Nat \ {0} /\ MaxLoad \in Nat /\ MaxWrites \in Nat /\ Horizon \in Nat
    /\ None \notin Nat
    /\ None \notin [read : Nat, value : SUBSET RouteIds, since : Nat]
    /\ None \notin [read : Nat, value : SUBSET RouteIds, at : Nat]
    /\ None \notin [value : SUBSET RouteIds, at : Nat]

VARIABLES
    now,
    table,   \* per route: "absent", "enabled", "disabled"
    hist,    \* history: what resolve_routes would have returned, and since when
    cache,   \* per instance: None or the entry
    load,    \* per instance: None or the loader of try_get_with
    admin,   \* per handler: None, or the write it has committed
    floor    \* history, per instance: the last write answered whose invalidation
             \* met no older load

vars == <<now, table, hist, cache, load, admin, floor>>

(* resolve_routes: the rows that are enabled. *)
Enabled(t) == {r \in RouteIds : t[r] = "enabled"}

Init ==
    /\ now = 0
    /\ table = [r \in RouteIds |-> "absent"]
    /\ hist = <<[value |-> {}, at |-> 0]>>
    /\ cache = [c \in Instances |-> None]
    /\ load = [c \in Instances |-> None]
    /\ admin = [d \in Admins |-> None]
    /\ floor = [c \in Instances |-> 1]
-----------------------------------------------------------------------------
(* get_or_load on a miss: the first request runs the loader, the others    *)
(* wait for its result.                                                    *)
StartLoad(c) ==
    /\ cache[c] = None /\ load[c] = None
    /\ load' = [load EXCEPT ![c] = [read |-> 0, value |-> {}, since |-> now]]
    /\ UNCHANGED <<now, table, hist, cache, admin, floor>>

(* The loader's query. *)
Query(c) ==
    /\ load[c] # None /\ load[c].read = 0
    /\ load' = [load EXCEPT ![c] = [read |-> Len(hist), value |-> Enabled(table), since |-> @.since]]
    /\ UNCHANGED <<now, table, hist, cache, admin, floor>>

(* The query fails or the request is cancelled: nothing is cached. *)
LoadFails(c) ==
    /\ load[c] # None
    /\ load' = [load EXCEPT ![c] = None]
    /\ UNCHANGED <<now, table, hist, cache, admin, floor>>

(* Mutant of Insert: the entry lives for twice the TTL. *)
InsertLate(c) ==
    /\ load[c] # None /\ load[c].read > 0
    /\ cache' = [cache EXCEPT ![c] = [value |-> load[c].value, at |-> now + TTL,
                                      read |-> load[c].read]]
    /\ load' = [load EXCEPT ![c] = None]
    /\ UNCHANGED <<now, table, hist, admin, floor>>

(* The loader returns, moka inserts and every waiting request is answered. *)
Insert(c) ==
    /\ load[c] # None /\ load[c].read > 0
    /\ cache' = [cache EXCEPT ![c] = [value |-> load[c].value, at |-> now, read |-> load[c].read]]
    /\ load' = [load EXCEPT ![c] = None]
    /\ UNCHANGED <<now, table, hist, admin, floor>>

(* The database part of create_route, update_route and delete_route.       *)
Commit(d, r, row) ==
    /\ admin[d] = None /\ Len(hist) =< MaxWrites
    /\ table' = [table EXCEPT ![r] = row]
    /\ hist' = Append(hist, [value |-> Enabled(table'), at |-> now])
    /\ admin' = [admin EXCEPT ![d] = Len(hist')]
    /\ UNCHANGED <<now, cache, load, floor>>

CreateRoute(d, r) == table[r] = "absent" /\ \E e \in {"enabled", "disabled"} : Commit(d, r, e)
UpdateRoute(d, r) == table[r] # "absent" /\ \E e \in {"enabled", "disabled"} : Commit(d, r, e)
DeleteRoute(d, r) == table[r] # "absent" /\ Commit(d, r, "absent")

(* No load on the instance holds what was there before the write n. *)
NoLoadBefore(c, n) == load[c] = None \/ load[c].read = 0 \/ load[c].read >= n

Acknowledge(c, n) ==
    floor' = [floor EXCEPT ![c] = IF n > @ /\ NoLoadBefore(c, n) THEN n ELSE @]

(* Mutant of Invalidate: the entry is left to its TTL. *)
InvalidateSkipped(d) ==
    /\ admin[d] # None
    /\ Acknowledge(Home[d], admin[d])
    /\ admin' = [admin EXCEPT ![d] = None]
    /\ UNCHANGED <<now, table, hist, cache, load>>

(* invalidate_all, then the response. *)
Invalidate(d) ==
    /\ admin[d] # None
    /\ cache' = [cache EXCEPT ![Home[d]] = None]
    /\ Acknowledge(Home[d], admin[d])
    /\ admin' = [admin EXCEPT ![d] = None]
    /\ UNCHANGED <<now, table, hist, load>>

(* The admin's connection closes after the commit: the handler is dropped. *)
Cancelled(d) ==
    /\ admin[d] # None
    /\ admin' = [admin EXCEPT ![d] = None]
    /\ UNCHANGED <<now, table, hist, cache, load, floor>>

(* The instance restarts with an empty cache. *)
Restart(c) ==
    /\ cache' = [cache EXCEPT ![c] = None]
    /\ load' = [load EXCEPT ![c] = None]
    /\ admin' = [d \in Admins |-> IF Home[d] = c THEN None ELSE admin[d]]
    /\ UNCHANGED <<now, table, hist, floor>>

(* Mutant of Tick: an entry may live one tick more. *)
TickExpiresLate ==
    /\ now < Horizon
    /\ \A c \in Instances : load[c] # None => now - load[c].since < MaxLoad
    /\ now' = now + 1
    /\ cache' = [c \in Instances |->
                    IF cache[c] # None /\ now - cache[c].at >= TTL THEN None ELSE cache[c]]
    /\ UNCHANGED <<table, hist, load, admin, floor>>

(* Time passes, entries expire; no load takes longer than MaxLoad. *)
Tick ==
    /\ now < Horizon
    /\ \A c \in Instances : load[c] # None => now - load[c].since < MaxLoad
    /\ now' = now + 1
    /\ cache' = [c \in Instances |->
                    IF cache[c] # None /\ now + 1 - cache[c].at >= TTL THEN None ELSE cache[c]]
    /\ UNCHANGED <<table, hist, load, admin, floor>>

Next ==
    \/ \E c \in Instances : StartLoad(c) \/ Query(c) \/ LoadFails(c) \/ Insert(c) \/ Restart(c)
    \/ \E d \in Admins, r \in RouteIds : CreateRoute(d, r) \/ UpdateRoute(d, r) \/ DeleteRoute(d, r)
    \/ \E d \in Admins : Invalidate(d) \/ Cancelled(d)
    \/ Tick

Spec == Init /\ [][Next]_vars
-----------------------------------------------------------------------------
Loads == [read : 0..Len(hist), value : SUBSET RouteIds, since : 0..now]
Entries == [read : 1..Len(hist), value : SUBSET RouteIds, at : 0..now]

TypeOK ==
    /\ now \in 0..Horizon
    /\ table \in [RouteIds -> {"absent", "enabled", "disabled"}]
    /\ cache \in [Instances -> Entries \cup {None}]
    /\ load \in [Instances -> Loads \cup {None}]
    /\ admin \in [Admins -> 2..Len(hist) \cup {None}]
    /\ floor \in [Instances -> 1..Len(hist)]

(* The entries without the number of the write they were read at. *)
Copies ==
    [c \in Instances |->
        IF cache[c] = None THEN None ELSE [value |-> cache[c].value, at |-> cache[c].at]]

(* Every instance's cache, with its loads, invalidations, lost             *)
(* invalidations and restarts, is a cache of bounded staleness.            *)
Abstract == INSTANCE BoundedStaleness WITH
    Values <- SUBSET RouteIds,
    Initial <- {},
    copy <- Copies
ImplementsBoundedStaleness == Abstract!Spec

(* On no instance is a route served that was disabled or deleted TTL +     *)
(* MaxLoad ago or earlier, or one missing that was enabled that long.      *)
StaleForBoundedTime ==
    \A c \in Instances : \A k \in DOMAIN hist :
        (cache[c] # None /\ cache[c].read < k) => now - hist[k].at < TTL + MaxLoad

(* A write whose invalidation met no load in flight is seen by every later *)
(* request to that instance.                                               *)
CleanWriteIsImmediate ==
    \A c \in Instances : cache[c] # None => cache[c].read >= floor[c]
=============================================================================
