----------------------------- MODULE PolicyCache -----------------------------
(***************************************************************************)
(* The policies that apply to one service account and the PolicyCache      *)
(* entry for it on every gateway instance.  A load reads twice, the bound  *)
(* policies and then the default policy, so an entry need not be what the  *)
(* database held at any one moment; the properties are per policy.         *)
(*                                                                         *)
(* Source: policy/engine.rs (PolicyCache, load_policies),                  *)
(* list_policies_for_service_account, api/admin/policies.rs.  A policy is  *)
(* its version: every update is a new one.  default_policy_id is set       *)
(* outside the admin API and only policy deletion clears it.               *)
(***************************************************************************)
EXTENDS Integers

CONSTANTS Instances, Admins, Home, Policies,
          Default,    \* default_policy_id of the account, or Absent
          TTL,        \* policy_cache_ttl_secs
          MaxLoad,    \* bound: how long a load takes
          MaxWrites,  \* bound: policy and binding mutations
          Horizon,    \* bound: clock
          Absent

ASSUME PolicyCacheAssumption ==
    /\ Home \in [Admins -> Instances] /\ Default \in Policies \cup {Absent}
    /\ TTL \in Nat \ {0} /\ MaxLoad \in Nat /\ MaxWrites \in Nat /\ Horizon \in Nat
    /\ Absent \notin Policies

VARIABLES
    now,
    rule,     \* version of each policy, 0 when there is no such row
    bound,    \* policies bound to the account
    ruleAt, boundAt,  \* history: when rule[p] and p \in bound last changed
    cache,    \* per instance: Absent or the entry
    load,     \* per instance: Absent or the loader of try_get_with
    admin,    \* per handler: Absent, or the number of the write it has committed
    writes,   \* history: number of writes
    floor     \* history, per instance: the last write answered whose invalidation
             \* met no older load

db == <<rule, bound, ruleAt, boundAt, writes>>
cacheVars == <<now, rule, bound, ruleAt, boundAt, cache, load, admin, writes, floor>>

Rows(ps) == {[id |-> p, version |-> rule[p]] : p \in {q \in ps : rule[q] > 0}}

CacheInit ==
    /\ now = 0
    /\ rule = [p \in Policies |-> 1] /\ bound = {}
    /\ ruleAt = [p \in Policies |-> 0] /\ boundAt = ruleAt
    /\ cache = [c \in Instances |-> Absent] /\ load = cache
    /\ admin = [d \in Admins |-> Absent]
    /\ writes = 0
    /\ floor = [c \in Instances |-> 0]
-----------------------------------------------------------------------------
(* get_or_evaluate on a miss: one loader per instance, the others wait. *)
StartLoad(c) ==
    /\ cache[c] = Absent /\ load[c] = Absent
    /\ load' = [load EXCEPT ![c] = [stage |-> "start", view |-> {}, read |-> writes, since |-> now]]
    /\ UNCHANGED <<now, cache, admin, floor>> /\ UNCHANGED db

(* The first query; the second is skipped when the default is bound. *)
QueryBound(c) ==
    /\ load[c] # Absent /\ load[c].stage = "start"
    /\ load' = [load EXCEPT ![c] =
                  [stage |-> IF Default \in bound \cup {Absent} THEN "read" ELSE "bound",
                   view |-> Rows(bound), read |-> writes, since |-> @.since]]
    /\ UNCHANGED <<now, cache, admin, floor>> /\ UNCHANGED db

(* Mutant of QueryDefault: the default is used only without bindings. *)
QueryDefaultAlone(c) ==
    /\ load[c] # Absent /\ load[c].stage = "bound"
    /\ load' = [load EXCEPT ![c].view = IF @ = {} THEN Rows({Default}) ELSE @, ![c].stage = "read"]
    /\ UNCHANGED <<now, cache, admin, floor>> /\ UNCHANGED db

QueryDefault(c) ==
    /\ load[c] # Absent /\ load[c].stage = "bound"
    /\ load' = [load EXCEPT ![c].view = @ \cup Rows({Default}), ![c].stage = "read"]
    /\ UNCHANGED <<now, cache, admin, floor>> /\ UNCHANGED db

(* A query or the merge fails, or the request is cancelled. *)
LoadFails(c) ==
    /\ load[c] # Absent
    /\ load' = [load EXCEPT ![c] = Absent]
    /\ UNCHANGED <<now, cache, admin, floor>> /\ UNCHANGED db

Insert(c) ==
    /\ load[c] # Absent /\ load[c].stage = "read"
    /\ cache' = [cache EXCEPT ![c] = [view |-> load[c].view, read |-> load[c].read, at |-> now]]
    /\ load' = [load EXCEPT ![c] = Absent]
    /\ UNCHANGED <<now, admin, floor>> /\ UNCHANGED db
-----------------------------------------------------------------------------
(* The database part of a handler that ends with an invalidation. *)
Commit(d) ==
    /\ admin[d] = Absent /\ writes < MaxWrites
    /\ writes' = writes + 1
    /\ admin' = [admin EXCEPT ![d] = writes']
    /\ UNCHANGED <<now, cache, load, floor>>

UpdatePolicy(d, p) ==
    /\ rule[p] > 0
    /\ rule' = [rule EXCEPT ![p] = @ + 1]
    /\ ruleAt' = [ruleAt EXCEPT ![p] = now]
    /\ Commit(d) /\ UNCHANGED <<bound, boundAt>>

(* ON DELETE CASCADE takes the bindings along. *)
DeletePolicy(d, p) ==
    /\ rule[p] > 0
    /\ rule' = [rule EXCEPT ![p] = 0]
    /\ ruleAt' = [ruleAt EXCEPT ![p] = now]
    /\ bound' = bound \ {p}
    /\ boundAt' = [boundAt EXCEPT ![p] = now]
    /\ Commit(d)

CreateBinding(d, p) ==
    /\ rule[p] > 0 /\ p \notin bound
    /\ bound' = bound \cup {p}
    /\ boundAt' = [boundAt EXCEPT ![p] = now]
    /\ Commit(d) /\ UNCHANGED <<rule, ruleAt>>

DeleteBinding(d, p) ==
    /\ p \in bound
    /\ bound' = bound \ {p}
    /\ boundAt' = [boundAt EXCEPT ![p] = now]
    /\ Commit(d) /\ UNCHANGED <<rule, ruleAt>>

NoLoadBefore(c, n) == load[c] = Absent \/ load[c].stage = "start" \/ load[c].read >= n

Acknowledge(c, n) ==
    floor' = [floor EXCEPT ![c] = IF n > @ /\ NoLoadBefore(c, n) THEN n ELSE @]

(* Mutant of Invalidate: the entry is left to its TTL. *)
InvalidateSkipped(d) ==
    /\ admin[d] # Absent
    /\ Acknowledge(Home[d], admin[d])
    /\ admin' = [admin EXCEPT ![d] = Absent]
    /\ UNCHANGED <<now, cache, load>> /\ UNCHANGED db

(* invalidate (bindings) or invalidate_all (policies), then the response. *)
Invalidate(d) ==
    /\ admin[d] # Absent
    /\ cache' = [cache EXCEPT ![Home[d]] = Absent]
    /\ Acknowledge(Home[d], admin[d])
    /\ admin' = [admin EXCEPT ![d] = Absent]
    /\ UNCHANGED <<now, load>> /\ UNCHANGED db

(* The admin's connection closes after the commit: the handler is dropped. *)
Cancelled(d) ==
    /\ admin[d] # Absent
    /\ admin' = [admin EXCEPT ![d] = Absent]
    /\ UNCHANGED <<now, cache, load, floor>> /\ UNCHANGED db

Restart(c) ==
    /\ cache' = [cache EXCEPT ![c] = Absent]
    /\ load' = [load EXCEPT ![c] = Absent]
    /\ admin' = [d \in Admins |-> IF Home[d] = c THEN Absent ELSE admin[d]]
    /\ UNCHANGED <<now, floor>> /\ UNCHANGED db

(* Mutant of Tick: an entry may live one tick more. *)
TickExpiresLate ==
    /\ now < Horizon
    /\ \A c \in Instances : load[c] # Absent => now - load[c].since < MaxLoad
    /\ now' = now + 1
    /\ cache' = [c \in Instances |->
                    IF cache[c] # Absent /\ now - cache[c].at >= TTL THEN Absent ELSE cache[c]]
    /\ UNCHANGED <<load, admin, floor>> /\ UNCHANGED db

(* Time passes, entries expire; no load takes longer than MaxLoad. *)
Tick ==
    /\ now < Horizon
    /\ \A c \in Instances : load[c] # Absent => now - load[c].since < MaxLoad
    /\ now' = now + 1
    /\ cache' = [c \in Instances |->
                    IF cache[c] # Absent /\ now + 1 - cache[c].at >= TTL THEN Absent ELSE cache[c]]
    /\ UNCHANGED <<load, admin, floor>> /\ UNCHANGED db

CacheNext ==
    \/ \E c \in Instances :
          \/ StartLoad(c) \/ QueryBound(c) \/ QueryDefault(c)
          \/ LoadFails(c) \/ Insert(c) \/ Restart(c)
    \/ \E d \in Admins, p \in Policies :
          UpdatePolicy(d, p) \/ DeletePolicy(d, p) \/ CreateBinding(d, p) \/ DeleteBinding(d, p)
    \/ \E d \in Admins : Invalidate(d) \/ Cancelled(d)
    \/ Tick

CacheSpec == CacheInit /\ [][CacheNext]_cacheVars
-----------------------------------------------------------------------------
Views == SUBSET [id : Policies, version : Nat]
Loads == [stage : {"start", "bound", "read"}, view : Views, read : 0..writes, since : 0..now]
Entries == [view : Views, read : 0..writes, at : 0..now]

CacheTypeOK ==
    /\ now \in 0..Horizon /\ writes \in 0..MaxWrites
    /\ rule \in [Policies -> Nat] /\ bound \subseteq {p \in Policies : rule[p] > 0}
    /\ ruleAt \in [Policies -> 0..now] /\ boundAt \in [Policies -> 0..now]
    /\ cache \in [Instances -> Entries \cup {Absent}]
    /\ load \in [Instances -> Loads \cup {Absent}]
    /\ admin \in [Admins -> 1..writes \cup {Absent}]
    /\ floor \in [Instances -> 0..writes]

(* Whether nothing about t has changed for as long as a load and an entry's life. *)
Settled(t) == now - t >= TTL + MaxLoad

(* A policy that has been bound, or been the default, in its present       *)
(* version for TTL + MaxLoad is in every entry: enforcement on every       *)
(* instance, whatever happened to the invalidation.                        *)
EnforcedInTime ==
    \A c \in Instances : \A p \in bound \cup ({Default} \cap Policies) :
        /\ cache[c] # Absent /\ rule[p] > 0 /\ Settled(ruleAt[p])
        /\ p = Default \/ Settled(boundAt[p])
        => [id |-> p, version |-> rule[p]] \in cache[c].view

(* A policy that was unbound, superseded or deleted TTL + MaxLoad ago is   *)
(* in no entry any more.                                                   *)
LiftedInTime ==
    \A c \in Instances : cache[c] # Absent =>
        \A v \in cache[c].view :
            /\ v.version # rule[v.id] => ~Settled(ruleAt[v.id])
            /\ v.id \notin bound \cup {Default} => ~Settled(boundAt[v.id])

(* A write whose invalidation met no load in flight is seen by every later *)
(* request to that instance.                                               *)
CleanWriteIsImmediate ==
    \A c \in Instances : cache[c] # Absent => cache[c].read >= floor[c]
=============================================================================
