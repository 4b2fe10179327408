------------------------------- MODULE KeyStore -------------------------------
(***************************************************************************)
(* The three-tier key cache under revocation: moka L1 in each instance,    *)
(* Redis L2, PostgreSQL.  One key; lookups on several instances interleave *)
(* with revoke_key on one of them.  A lookup is split where it awaits: a   *)
(* copy read from L2 or the database is held for a while before it is      *)
(* inserted into a cache and used.                                         *)
(*                                                                         *)
(* Source: auth/key_store.rs, the status check of verify_key in            *)
(* auth/middleware.rs, revoke_key in api/admin/service_accounts.rs and     *)
(* revoke_scoped in storage/repositories/keys.rs.                          *)
(***************************************************************************)
EXTENDS Integers

CONSTANTS Instances,     \* gateway processes
          Readers,       \* concurrent lookups of the key
          Home,          \* the instance each lookup runs on
          AdminInstance, \* the instance that serves revoke_key
          L1TTL, L2TTL,
          MaxDelay,      \* bound: how long a lookup holds a copy before it is done
          LastSecond     \* bound: the last second of the run

ASSUME KeyStoreAssumption ==
    /\ Home \in [Readers -> Instances] /\ AdminInstance \in Instances
    /\ L1TTL \in Nat \ {0} /\ L2TTL \in Nat \ {0}
    /\ MaxDelay \in Nat /\ LastSecond \in Nat

VARIABLES
    clock,
    status,      \* the key's row: "active" (or rotating) or "revoked"
    revokedAt,   \* when revoke_scoped committed
    l1,          \* per instance: the cached status and when it expires
    l2,          \* keycache:{key_id} in Redis
    revoker,     \* where revoke_key is
    stage, copy, \* where each lookup is and the copy it holds
    since,       \* when the lookup obtained its copy
    okAt,        \* history: when a lookup last answered with an active key
                 \* though the key was revoked
    clean        \* history: DEL succeeded and nothing slipped through

keyVars == <<clock, status, revokedAt, l1, l2, revoker, stage, copy, since, okAt, clean>>

Empty == [status |-> "none", until |-> 0]
Cached(e) == e.status # "none"
Expire(e) == IF e.until =< clock + 1 THEN Empty ELSE e
Entry(s, t) == [status |-> s, until |-> clock + t]

KeyInit ==
    /\ clock = 0
    /\ status = "active" /\ revokedAt = 0
    /\ l1 = [i \in Instances |-> Empty] /\ l2 = Empty
    /\ revoker = "idle"
    /\ stage = [r \in Readers |-> "idle"]
    /\ copy = [r \in Readers |-> "none"]
    /\ since = [r \in Readers |-> 0]
    /\ okAt = 0 /\ clean = FALSE

admin == <<status, revokedAt, revoker, clean>>

(* get_by_key_id returns s to verify_key, which lets an active key pass. *)
Answer(r, s) ==
    /\ stage' = [stage EXCEPT ![r] = "idle"]
    /\ copy' = [copy EXCEPT ![r] = "none"]
    /\ since' = [since EXCEPT ![r] = 0]
    /\ okAt' = IF s = "active" /\ status = "revoked" THEN clock ELSE okAt

Hold(r, state, s) ==
    /\ stage' = [stage EXCEPT ![r] = state]
    /\ copy' = [copy EXCEPT ![r] = s]
    /\ since' = [since EXCEPT ![r] = clock]
    /\ UNCHANGED okAt

InsertL1(r) == l1' = [l1 EXCEPT ![Home[r]] = Entry(copy[r], L1TTL)]

(* L1 hit. *)
LookupL1(r) ==
    /\ stage[r] = "idle"
    /\ Cached(l1[Home[r]])
    /\ Answer(r, l1[Home[r]].status)
    /\ UNCHANGED <<clock, l1, l2>> /\ UNCHANGED admin

(* L1 miss: the lookup goes to Redis. *)
MissL1(r) ==
    /\ stage[r] = "idle"
    /\ ~Cached(l1[Home[r]])
    /\ stage' = [stage EXCEPT ![r] = "l2"]
    /\ UNCHANGED <<clock, l1, l2, copy, since, okAt>> /\ UNCHANGED admin

(* get_from_redis finds a copy. *)
ReadL2(r) ==
    /\ stage[r] = "l2"
    /\ Cached(l2)
    /\ Hold(r, "fromL2", l2.status)
    /\ UNCHANGED <<clock, l1, l2>> /\ UNCHANGED admin

(* get_from_redis finds none, or Redis fails: None either way. *)
MissL2(r) ==
    /\ stage[r] = "l2"
    /\ stage' = [stage EXCEPT ![r] = "db"]
    /\ UNCHANGED <<clock, l1, l2, copy, since, okAt>> /\ UNCHANGED admin

(* Mutant of FillFromL2: an L2 hit is written back to L2. *)
FillFromL2Refreshes(r) ==
    /\ stage[r] = "fromL2"
    /\ InsertL1(r)
    /\ l2' = Entry(copy[r], L2TTL)
    /\ Answer(r, copy[r])
    /\ UNCHANGED clock /\ UNCHANGED admin

(* The L2 copy goes into L1, and is the answer. *)
FillFromL2(r) ==
    /\ stage[r] = "fromL2"
    /\ InsertL1(r)
    /\ Answer(r, copy[r])
    /\ UNCHANGED <<clock, l2>> /\ UNCHANGED admin

ReadDb(r) ==
    /\ stage[r] = "db"
    /\ Hold(r, "fromDb", status)
    /\ UNCHANGED <<clock, l1, l2>> /\ UNCHANGED admin

(* The query fails: unknown_key, nothing is cached. *)
DbFails(r) ==
    /\ stage[r] = "db"
    /\ Answer(r, "none")
    /\ UNCHANGED <<clock, l1, l2>> /\ UNCHANGED admin

FillFromDb(r) ==
    /\ stage[r] = "fromDb"
    /\ InsertL1(r)
    /\ stage' = [stage EXCEPT ![r] = "setL2"]
    /\ UNCHANGED <<clock, l2, copy, since, okAt>> /\ UNCHANGED admin

(* set_in_redis, best effort, then the answer. *)
SetL2(r) ==
    /\ stage[r] = "setL2"
    /\ l2' = Entry(copy[r], L2TTL) \/ UNCHANGED l2
    /\ Answer(r, copy[r])
    /\ UNCHANGED <<clock, l1>> /\ UNCHANGED admin

(* revoke_key: revoke_scoped commits in the database. *)
RevokeInDb ==
    /\ revoker = "idle"
    /\ revoker' = "invalidateL1"
    /\ status' = "revoked" /\ revokedAt' = clock
    /\ UNCHANGED <<clock, l1, l2, stage, copy, since, okAt, clean>>

InvalidateL1 ==
    /\ revoker = "invalidateL1"
    /\ revoker' = "invalidateL2"
    /\ l1' = [l1 EXCEPT ![AdminInstance] = Empty]
    /\ UNCHANGED <<clock, status, revokedAt, l2, stage, copy, since, okAt, clean>>

(* A lookup that may still put an active copy into a cache. *)
HoldsActive(r) == stage[r] \in {"fromL2", "fromDb", "setL2"} /\ copy[r] = "active"

(* Between the two invalidations L1 may be filled again, from L2 or by a   *)
(* lookup that read the database earlier.                                  *)
NothingSlippedThrough ==
    l1[AdminInstance].status # "active" /\ \A r \in Readers : ~HoldsActive(r)

(* Mutant of InvalidateL2: the DEL is missing. *)
InvalidateL2Skipped ==
    /\ revoker = "invalidateL2"
    /\ revoker' = "done"
    /\ clean' = NothingSlippedThrough
    /\ UNCHANGED <<clock, status, revokedAt, l1, l2, stage, copy, since, okAt>>

(* DEL in Redis, and revoke_key answers. *)
InvalidateL2 ==
    /\ revoker = "invalidateL2"
    /\ revoker' = "done"
    /\ l2' = Empty
    /\ clean' = NothingSlippedThrough
    /\ UNCHANGED <<clock, status, revokedAt, l1, stage, copy, since, okAt>>

(* DEL fails: the error is logged, and revoke_key answers. *)
InvalidateL2Fails ==
    /\ revoker = "invalidateL2"
    /\ revoker' = "done"
    /\ UNCHANGED <<clock, status, revokedAt, l1, l2, stage, copy, since, okAt, clean>>

(* The process restarts: its L1 and its lookups are gone; a revoke_key it  *)
(* was serving stops after the step it has reached.                        *)
Restart(i) ==
    /\ l1' = [l1 EXCEPT ![i] = Empty]
    /\ stage' = [r \in Readers |-> IF Home[r] = i THEN "idle" ELSE stage[r]]
    /\ copy' = [r \in Readers |-> IF Home[r] = i THEN "none" ELSE copy[r]]
    /\ since' = [r \in Readers |-> IF Home[r] = i THEN 0 ELSE since[r]]
    /\ revoker' = IF i = AdminInstance /\ revoker \in {"invalidateL1", "invalidateL2"}
                  THEN "crashed" ELSE revoker
    /\ UNCHANGED <<clock, status, revokedAt, l2, okAt, clean>>

(* A second passes and entries whose TTL ends are dropped from the caches; *)
(* no lookup holds a copy for more than MaxDelay.                          *)
Elapse ==
    /\ clock < LastSecond
    /\ \A r \in Readers : copy[r] # "none" => clock < since[r] + MaxDelay
    /\ clock' = clock + 1
    /\ l1' = [i \in Instances |-> Expire(l1[i])] /\ l2' = Expire(l2)
    /\ UNCHANGED <<stage, copy, since, okAt>> /\ UNCHANGED admin

KeyNext ==
    \/ \E r \in Readers :
        \/ LookupL1(r) \/ MissL1(r) \/ ReadL2(r) \/ MissL2(r) \/ FillFromL2(r)
        \/ ReadDb(r) \/ DbFails(r) \/ FillFromDb(r) \/ SetL2(r)
    \/ RevokeInDb \/ InvalidateL1 \/ InvalidateL2 \/ InvalidateL2Fails
    \/ \E i \in Instances : Restart(i)
    \/ Elapse

KeySpec == KeyInit /\ [][KeyNext]_keyVars
-----------------------------------------------------------------------------
Statuses == {"none", "active", "revoked"}

KeyTypeOK ==
    /\ clock \in Nat /\ revokedAt \in Nat /\ okAt \in Nat
    /\ status \in {"active", "revoked"}
    /\ l1 \in [Instances -> [status : Statuses, until : Nat]]
    /\ l2 \in [status : Statuses, until : Nat]
    /\ revoker \in {"idle", "invalidateL1", "invalidateL2", "done", "crashed"}
    /\ stage \in [Readers -> {"idle", "l2", "fromL2", "db", "fromDb", "setL2"}]
    /\ copy \in [Readers -> Statuses]
    /\ since \in [Readers -> Nat]
    /\ clean \in BOOLEAN

(* However lookups, fills, failed DELs and restarts interleave with the    *)
(* revocation, no instance answers with an active key later than this:     *)
(* a copy read just before the commit is put into L2, read there at the    *)
(* last second, and served from L1 until its last second.  An L2 hit must  *)
(* not renew L2.                                                           *)
RevocationTakesEffect ==
    status = "revoked" =>
        okAt =< revokedAt + MaxDelay + (L2TTL - 1) + MaxDelay + (L1TTL - 1)

(* When the DEL succeeds, and at that moment no lookup holds an active     *)
(* copy and none has refilled the revoking instance's L1 since it was      *)
(* invalidated, that instance never sees the key active again: neither a   *)
(* stale L1 of another instance nor a restart brings the key back.         *)
CleanRevocationIsFinal == clean => l2.status # "active" /\ NothingSlippedThrough
=============================================================================
