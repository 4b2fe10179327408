----------------------------- MODULE Concurrency -----------------------------
(***************************************************************************)
(* The per-service-account concurrency limiter: one Redis counter with a   *)
(* safety-net TTL, shared by the requests of several gateway instances.    *)
(* The permit of a request is released by the middleware after the handler *)
(* returned, or by Drop when the request future is dropped earlier.        *)
(*                                                                         *)
(* Source: policy/concurrency.rs and the permit's life in                  *)
(* policy/middleware.rs.  Redis runs a script or a command atomically.     *)
(* The key is a pair (count, ttl): an absent key and a key of value 0      *)
(* behave alike, and ttl = 0 means that the key has no expiry.             *)
(***************************************************************************)
EXTENDS Integers, FiniteSets

CONSTANTS Slots,     \* request slots; a slot is reused after its request
          Instances, \* gateway processes
          Host,      \* the instance each request runs on
          Limits,    \* concurrency_limit values of the (cached) policies
          KeyTTL     \* CONCURRENCY_KEY_TTL_SECS

ASSUME ConcurrencyAssumption ==
    /\ IsFiniteSet(Slots)
    /\ Host \in [Slots -> Instances]
    /\ Limits \subseteq Nat \ {0}
    /\ KeyTTL \in Nat \ {0}

VARIABLES
    count,    \* the value of concurrency:{sa_id}
    ttl,      \* seconds until the key expires; 0: no expiry set
    stage,    \* where each request is
    limit,    \* the limit each request was checked against
    released, \* the permit's AtomicBool
    owed,     \* history: the requests whose INCR still awaits its DECR
    leaked,   \* history: INCRs nobody will undo, since the last expiry
    debt      \* history: slots that were owed when the key last expired

permitVars == <<count, ttl, stage, limit, released, owed, leaked, debt>>

States == {"idle", "granted", "refused", "running", "releasing", "leaving", "spawned"}

InFlight == {r \in Slots : stage[r] \in {"granted", "running"}}

PermitInit ==
    /\ count = 0 /\ ttl = 0
    /\ stage = [r \in Slots |-> "idle"]
    /\ limit = [r \in Slots |-> 0]
    /\ released = [r \in Slots |-> FALSE]
    /\ owed = {} /\ leaked = 0 /\ debt = 0

Enter(r, state) == stage' = [stage EXCEPT ![r] = state]
(* The request gives its slot up without a DECR. *)
Leak(r) == owed' = owed \ {r} /\ leaked' = leaked + 1
(* DECR on the key; on an absent key it leaves -1, and it sets no expiry. *)
Decr(r) ==
    /\ count' = count - 1
    /\ owed' = owed \ {r}
    /\ UNCHANGED <<ttl, leaked, debt>>

(* Mutant of AcquireScript: the comparison lets limit + 1 through. *)
AcquireScriptOffByOne(r, lim) ==
    /\ stage[r] = "idle"
    /\ limit' = [limit EXCEPT ![r] = lim]
    /\ ttl' = KeyTTL
    /\ \/ /\ count =< lim
          /\ count' = count + 1
          /\ owed' = owed \cup {r}
          /\ Enter(r, "granted")
       \/ /\ count > lim
          /\ Enter(r, "refused")
          /\ UNCHANGED <<count, owed>>
    /\ UNCHANGED <<released, leaked, debt>>

(* Mutant of AcquireScript: a refused request does not DECR. *)
AcquireScriptKeepsRefused(r, lim) ==
    /\ stage[r] = "idle"
    /\ limit' = [limit EXCEPT ![r] = lim]
    /\ ttl' = KeyTTL
    /\ count' = IF count > 2 * Cardinality(Slots) THEN count ELSE count + 1
    /\ \/ count + 1 =< lim /\ owed' = owed \cup {r} /\ Enter(r, "granted")
       \/ count + 1 > lim /\ Enter(r, "refused") /\ UNCHANGED owed
    /\ UNCHANGED <<released, leaked, debt>>

(* Mutant of AcquireScript: EXPIRE is missing. *)
AcquireScriptNoExpire(r, lim) ==
    /\ stage[r] = "idle"
    /\ limit' = [limit EXCEPT ![r] = lim]
    /\ \/ /\ count + 1 =< lim
          /\ count' = count + 1
          /\ owed' = owed \cup {r}
          /\ Enter(r, "granted")
       \/ /\ count + 1 > lim
          /\ Enter(r, "refused")
          /\ UNCHANGED <<count, owed>>
    /\ UNCHANGED <<ttl, released, leaked, debt>>

(* LUA_CONCURRENCY_ACQUIRE: INCR, EXPIRE on every attempt, and DECR again  *)
(* when the new value is above the limit.                                  *)
AcquireScript(r, lim) ==
    /\ stage[r] = "idle"
    /\ limit' = [limit EXCEPT ![r] = lim]
    /\ ttl' = KeyTTL
    /\ \/ /\ count + 1 =< lim
          /\ count' = count + 1
          /\ owed' = owed \cup {r}
          /\ Enter(r, "granted")
       \/ /\ count + 1 > lim
          /\ Enter(r, "refused")
          /\ UNCHANGED <<count, owed>>
    /\ UNCHANGED <<released, leaked, debt>>

Acquire(r) == \E lim \in Limits : AcquireScript(r, lim)

(* The reply {0, current}: concurrency_limit_exceeded, no permit. *)
Refused(r) ==
    /\ stage[r] = "refused"
    /\ Enter(r, "idle")
    /\ UNCHANGED <<count, ttl, limit, released, owed, leaked, debt>>

(* The reply {1, current}: a permit with released = false, then next.run. *)
Granted(r) ==
    /\ stage[r] = "granted"
    /\ Enter(r, "running")
    /\ released' = [released EXCEPT ![r] = FALSE]
    /\ UNCHANGED <<count, ttl, limit, owed, leaked, debt>>

(* The script ran but its reply never became a permit: invoke_async failed *)
(* or the request future was dropped while awaiting it.                    *)
GrantLost(r) ==
    /\ stage[r] = "granted"
    /\ Enter(r, "idle")
    /\ Leak(r)
    /\ UNCHANGED <<count, ttl, limit, released, debt>>

(* The handler returned; release_inner swaps the flag and awaits the pool. *)
Release(r) ==
    /\ stage[r] = "running"
    /\ Enter(r, "releasing")
    /\ released' = [released EXCEPT ![r] = TRUE]
    /\ UNCHANGED <<count, ttl, limit, owed, leaked, debt>>

ReleaseDecr(r) ==
    /\ stage[r] = "releasing"
    /\ Decr(r)
    /\ Enter(r, "leaving")
    /\ UNCHANGED <<limit, released>>

(* The pool or the DECR fails; release_inner swallows the error. *)
ReleaseFails(r) ==
    /\ stage[r] = "releasing"
    /\ Leak(r)
    /\ Enter(r, "leaving")
    /\ UNCHANGED <<count, ttl, limit, released, debt>>

(* The request future is dropped while release_inner awaits the pool. *)
ReleaseCancelled(r) ==
    /\ stage[r] = "releasing"
    /\ Leak(r)
    /\ Enter(r, "leaving")
    /\ UNCHANGED <<count, ttl, limit, released, debt>>

(* Mutant of DropPermit: Drop does not look at the flag. *)
DropPermitAlways(r) ==
    /\ stage[r] \in {"running", "leaving"}
    /\ Enter(r, "spawned")
    /\ released' = [released EXCEPT ![r] = TRUE]
    /\ UNCHANGED <<count, ttl, limit, owed, leaked, debt>>

(* Drop: nothing after a release; otherwise (the future was dropped while  *)
(* the handler ran) the flag is set and a task is spawned.                 *)
DropPermit(r) ==
    /\ stage[r] \in {"running", "leaving"}
    /\ Enter(r, IF released[r] THEN "idle" ELSE "spawned")
    /\ released' = [released EXCEPT ![r] = TRUE]
    /\ UNCHANGED <<count, ttl, limit, owed, leaked, debt>>

SpawnedDecr(r) ==
    /\ stage[r] = "spawned"
    /\ Decr(r)
    /\ Enter(r, "idle")
    /\ UNCHANGED <<limit, released>>

(* The spawned task finds no connection, or there was no runtime for it. *)
SpawnedFails(r) ==
    /\ stage[r] = "spawned"
    /\ Leak(r)
    /\ Enter(r, "idle")
    /\ UNCHANGED <<count, ttl, limit, released, debt>>

(* An instance dies: its requests and spawned tasks are gone. *)
Crash(i) ==
    /\ \E r \in Slots : Host[r] = i /\ stage[r] # "idle"
    /\ stage' = [r \in Slots |-> IF Host[r] = i THEN "idle" ELSE stage[r]]
    /\ owed' = {r \in owed : Host[r] # i}
    /\ leaked' = leaked + Cardinality({r \in owed : Host[r] = i})
    /\ UNCHANGED <<count, ttl, limit, released, debt>>

(* A second passes; at the end of its TTL Redis drops the key. *)
Elapse ==
    /\ ttl > 0
    /\ ttl' = ttl - 1
    /\ \/ ttl > 1 /\ UNCHANGED <<count, leaked, debt>>
       \/ ttl = 1 /\ count' = 0 /\ leaked' = 0 /\ debt' = Cardinality(owed)
    /\ UNCHANGED <<stage, limit, released, owed>>

Steps(r) ==
    \/ Refused(r) \/ Granted(r) \/ Release(r) \/ ReleaseDecr(r)
    \/ DropPermit(r) \/ SpawnedDecr(r)
Failures(r) == GrantLost(r) \/ ReleaseFails(r) \/ ReleaseCancelled(r) \/ SpawnedFails(r)

PermitNext ==
    \/ \E r \in Slots : Acquire(r) \/ Steps(r) \/ Failures(r)
    \/ \E i \in Instances : Crash(i)
    \/ Elapse

PermitSpec == PermitInit /\ [][PermitNext]_permitVars

(* Time passes, and every request that was started goes on. *)
FairPermitSpec == PermitSpec /\ WF_permitVars(Elapse) /\ \A r \in Slots : WF_permitVars(Steps(r))
-----------------------------------------------------------------------------
PermitTypeOK ==
    /\ count \in Int
    /\ ttl \in 0..KeyTTL
    /\ stage \in [Slots -> States]
    /\ limit \in [Slots -> Limits \cup {0}]
    /\ released \in [Slots -> BOOLEAN]
    /\ owed \subseteq Slots
    /\ leaked \in Nat
    /\ debt \in 0..Cardinality(Slots)

(* The counter is exactly the slots in use plus the leaked ones, less the  *)
(* ones that were in use when the key last expired: each INCR of a granted *)
(* request is undone by at most one DECR, on the release path, on the Drop *)
(* path, and when both run.                                                *)
CounterAccounts == count = Cardinality(owed) + leaked - debt

(* A grant never takes the requests in flight above the limit it was       *)
(* checked against by more than the slots forgotten at the last expiry;    *)
(* with no such expiry the limit is exact, also across instances, releases *)
(* racing acquires, and crashes.                                           *)
GrantWithinLimit ==
    [][\A r \in Slots : (stage[r] = "idle" /\ stage'[r] = "granted") =>
          Cardinality(InFlight') =< limit'[r] + debt]_permitVars

(* A request is refused only when the slots in use and the leaked ones     *)
(* fill the limit: the INCR/DECR of refused attempts costs nobody a slot.  *)
RefusalOnlyWhenFull ==
    [][\A r \in Slots : (stage[r] = "idle" /\ stage'[r] = "refused") =>
          Cardinality(owed) + leaked >= limit'[r]]_permitVars

(* Once attempts stop, the counter returns to zero or below, whatever      *)
(* leaked before: the safety-net TTL.                                      *)
QuietCounterDrains ==
    (<>[][\A r \in Slots : ~Acquire(r)]_permitVars) => <>[](count =< 0)
=============================================================================
