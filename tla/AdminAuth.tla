----------------------------- MODULE AdminAuth ------------------------------
(***************************************************************************)
(* Admin authentication on one gateway process: requests that present a    *)
(* bearer token, the cached list of active admin keys with its coalesced   *)
(* load, the bcrypt tasks that compare the token with every key of the     *)
(* list, and an operator who changes the admin_api_keys rows meanwhile.    *)
(* The tasks of a request share nothing: one step joins them all, with any *)
(* order of completion.  last_used_at, which nothing reads, is left out.   *)
(*                                                                         *)
(* Source: api/admin/auth.rs, storage/repositories/admin_api_keys.rs, and  *)
(* main.rs for the cache.  No handler writes admin_api_keys: its rows are  *)
(* changed in the database, and nothing invalidates the cache.             *)
(***************************************************************************)
EXTENDS Integers

CONSTANTS Requests,
          AdminKeys,
          Matches,      \* per request: the keys whose hash its token verifies
          Roles,        \* role strings of the column, known or not
          InitialRows,
          TTL,          \* admin_key_cache_ttl_secs
          MaxLoad,      \* bound: how long a load takes
          MaxVerify,    \* bound: how long the bcrypt tasks of a request take
          MaxChanges,   \* bound: changes of rows
          Horizon,      \* bound: clock
          None

(* What a row can say of a key: its role, or that it is not active. *)
RowValues == Roles \cup {"inactive"}
Rows == [AdminKeys -> RowValues]
Contexts == [key : AdminKeys, role : {"admin", "viewer"}]

ASSUME AdminAuthAssumption ==
    /\ Matches \in [Requests -> SUBSET AdminKeys]
    /\ InitialRows \in Rows
    /\ "inactive" \notin Roles
    /\ TTL \in Nat /\ MaxLoad \in Nat /\ MaxVerify \in Nat /\ MaxChanges \in Nat /\ Horizon \in Nat
    /\ None \notin Nat /\ None \notin AdminKeys /\ None \notin Contexts
    /\ None \notin [by : Requests, read : BOOLEAN, rows : Rows, since : Nat]
    /\ None \notin [rows : Rows, at : Nat]

VARIABLES
    now,
    row,       \* admin_api_keys
    held,      \* history: when a row last had a value, None if it never had
    changes,   \* history: changes of rows so far
    load,      \* None, or the load of try_get_with and the request that runs it
    cache,     \* None, or the list and when it was inserted
    pc,        \* per request: where it is, or how it was answered
    snap,      \* per request: the list it verifies against
    begun,     \* per request: when it received the list
    ctx        \* per request: its AdminContext

adminVars == <<now, row, held, changes, load, cache, pc, snap, begun, ctx>>
slotVars == <<snap, begun, ctx>>
tableVars == <<now, row, held, changes>>

Refusals == {"bad_token", "load_failed", "no_admin_keys", "internal_error", "invalid_api_key",
             "invalid_role"}

(* list_active: the rows that are active. *)
Active(rows) == {k \in AdminKeys : rows[k] # "inactive"}

AdminInit ==
    /\ now = 0
    /\ row = InitialRows
    /\ held = [k \in AdminKeys |-> [v \in RowValues |-> IF v = InitialRows[k] THEN 0 ELSE None]]
    /\ changes = 0
    /\ load = None /\ cache = None
    /\ pc = [r \in Requests |-> "idle"]
    /\ snap = [r \in Requests |-> InitialRows]
    /\ begun = [r \in Requests |-> 0]
    /\ ctx = [r \in Requests |-> None]
-----------------------------------------------------------------------------
(* extract_bearer_token: no header, no UTF-8, no Bearer scheme, no token.  *)
BadToken(r) ==
    /\ pc[r] = "idle"
    /\ pc' = [pc EXCEPT ![r] = "bad_token"]
    /\ UNCHANGED <<tableVars, load, cache, slotVars>>

(* The requests R hold the list: none active is a refusal, otherwise a     *)
(* blocking task is spawned for every key of the list.                     *)
Receive(R, rows) ==
    /\ pc' = [r \in Requests |->
                IF r \notin R THEN pc[r]
                ELSE IF Active(rows) = {} THEN "no_admin_keys" ELSE "verifying"]
    /\ snap' = [r \in Requests |-> IF r \in R THEN rows ELSE snap[r]]
    /\ begun' = [r \in Requests |-> IF r \in R THEN now ELSE begun[r]]
    /\ UNCHANGED ctx

Hit(r) ==
    /\ pc[r] = "idle" /\ cache # None
    /\ Receive({r}, cache.rows)
    /\ UNCHANGED <<tableVars, load, cache>>

NewLoad(r) == [by |-> r, read |-> FALSE, rows |-> InitialRows, since |-> now]

(* try_get_with on a miss: the first request loads, the others wait.       *)
Miss(r) ==
    /\ pc[r] = "idle" /\ cache = None
    /\ pc' = [pc EXCEPT ![r] = "waiting"]
    /\ load' = IF load = None THEN NewLoad(r) ELSE load
    /\ UNCHANGED <<tableVars, cache, slotVars>>

(* The query of list_active. *)
Query ==
    /\ load # None /\ ~load.read
    /\ load' = [by |-> load.by, read |-> TRUE, rows |-> row, since |-> load.since]
    /\ UNCHANGED <<tableVars, cache, pc, slotVars>>

Waiting == {r \in Requests : pc[r] = "waiting"}

(* The query fails: every request that waits gets the error, nothing is    *)
(* cached.                                                                 *)
LoadFails ==
    /\ load # None
    /\ load' = None
    /\ pc' = [r \in Requests |-> IF r \in Waiting THEN "load_failed" ELSE pc[r]]
    /\ UNCHANGED <<tableVars, cache, slotVars>>

(* Mutant of Insert: the entry is stamped with a later time. *)
InsertLate ==
    /\ load # None /\ load.read
    /\ cache' = [rows |-> load.rows, at |-> now + TTL]
    /\ Receive(Waiting, load.rows)
    /\ load' = None
    /\ UNCHANGED <<tableVars>>

(* The load returns: moka keeps the list for TTL, not at all if TTL is     *)
(* zero, and every request that waits receives it.                         *)
Insert ==
    /\ load # None /\ load.read
    /\ cache' = IF TTL = 0 THEN None ELSE [rows |-> load.rows, at |-> now]
    /\ Receive(Waiting, load.rows)
    /\ load' = None
    /\ UNCHANGED <<tableVars>>

Refuse(r, code) ==
    /\ pc' = [pc EXCEPT ![r] = code]
    /\ UNCHANGED ctx

(* AdminRole::from_db_str knows two roles. *)
KnownRole(role) == role \in {"admin", "viewer"}

Admit(r, k) ==
    /\ pc' = [pc EXCEPT ![r] = "admitted"]
    /\ ctx' = [ctx EXCEPT ![r] = [key |-> k, role |-> snap[r][k]]]

(* The first match to complete is the one that counts. *)
Matched(r) == Active(snap[r]) \cap Matches[r]

(* Every task has been joined.  One that panicked or returned an error     *)
(* denies, even when a key matched.                                        *)
Decide(r) ==
    /\ pc[r] = "verifying"
    /\ \/ Refuse(r, "internal_error")
       \/ Matched(r) = {} /\ Refuse(r, "invalid_api_key")
       \/ \E k \in Matched(r) : ~KnownRole(snap[r][k]) /\ Refuse(r, "invalid_role")
       \/ \E k \in Matched(r) : KnownRole(snap[r][k]) /\ Admit(r, k)
    /\ UNCHANGED <<tableVars, load, cache, snap, begun>>

(* What the request held is dropped with it. *)
Forget(r) ==
    /\ pc' = [pc EXCEPT ![r] = "idle"]
    /\ snap' = [snap EXCEPT ![r] = InitialRows]
    /\ begun' = [begun EXCEPT ![r] = 0]
    /\ ctx' = [ctx EXCEPT ![r] = None]

(* The response is sent; the connection may carry another request. *)
Answered(r) ==
    /\ pc[r] \in Refusals \cup {"admitted"}
    /\ Forget(r)
    /\ UNCHANGED <<tableVars, load, cache>>

Leads(r) == load # None /\ load.by = r

(* Mutant of Disconnect: the load goes with the request that ran it. *)
DisconnectForgets(r) ==
    /\ pc[r] # "idle"
    /\ Forget(r)
    /\ load' = IF Leads(r) THEN None ELSE load
    /\ UNCHANGED <<tableVars, cache>>

(* The client disconnects and the request's future is dropped.  If it ran  *)
(* the load, a request that waits starts the load anew.                    *)
Disconnect(r) ==
    /\ pc[r] # "idle"
    /\ Forget(r)
    /\ \/ ~Leads(r) /\ load' = load
       \/ Leads(r) /\ Waiting = {r} /\ load' = None
       \/ Leads(r) /\ \E q \in Waiting \ {r} : load' = NewLoad(q)
    /\ UNCHANGED <<tableVars, cache>>

(* The operator activates, deactivates or changes the role of a key.       *)
ChangeRow(k, v) ==
    /\ changes < MaxChanges /\ v # row[k]
    /\ row' = [row EXCEPT ![k] = v]
    /\ held' = [held EXCEPT ![k][v] = now]
    /\ changes' = changes + 1
    /\ UNCHANGED <<now, load, cache, pc, slotVars>>

(* The process ends: its requests, its cache and its tasks are gone.       *)
Restart ==
    /\ load' = None /\ cache' = None
    /\ pc' = [r \in Requests |-> "idle"]
    /\ snap' = [r \in Requests |-> InitialRows]
    /\ begun' = [r \in Requests |-> 0]
    /\ ctx' = [r \in Requests |-> None]
    /\ UNCHANGED tableVars

(* Time passes within the bounds, and the entry expires. *)
Tick ==
    /\ now < Horizon
    /\ load # None => now - load.since < MaxLoad
    /\ \A r \in Requests : pc[r] = "verifying" => now - begun[r] < MaxVerify
    /\ now' = now + 1
    /\ held' = [k \in AdminKeys |-> [held[k] EXCEPT ![row[k]] = now + 1]]
    /\ cache' = IF cache # None /\ now + 1 - cache.at >= TTL THEN None ELSE cache
    /\ UNCHANGED <<row, changes, load, pc, slotVars>>

(* What a request does by itself, once accepted. *)
Progress(r) == Hit(r) \/ Miss(r) \/ Decide(r)

AdminNext ==
    \/ \E r \in Requests : BadToken(r) \/ Progress(r) \/ Answered(r) \/ Disconnect(r)
    \/ Query \/ LoadFails \/ Insert \/ Restart \/ Tick
    \/ \E k \in AdminKeys, v \in RowValues : ChangeRow(k, v)

AdminSpec == AdminInit /\ [][AdminNext]_adminVars
-----------------------------------------------------------------------------
Loads == [by : Requests, read : BOOLEAN, rows : Rows, since : Nat]
Entries == [rows : Rows, at : Nat]

AdminTypeOK ==
    /\ now \in Nat /\ changes \in Nat
    /\ row \in Rows
    /\ held \in [AdminKeys -> [RowValues -> Nat \cup {None}]]
    /\ load \in Loads \cup {None}
    /\ cache \in Entries \cup {None}
    /\ pc \in [Requests -> {"idle", "waiting", "verifying", "admitted"} \cup Refusals]
    /\ snap \in [Requests -> Rows]
    /\ begun \in [Requests -> Nat]
    /\ ctx \in [Requests -> Contexts \cup {None}]

(* How far behind the table a decision can be: the load, the time the      *)
(* entry stays, and the verification.                                      *)
Lag == MaxLoad + MaxVerify + (IF TTL = 0 THEN 0 ELSE TTL - 1)

HeldWithin(k, v) == held[k][v] # None /\ now - held[k][v] =< Lag

(* A request is admitted only with a key its token verifies, in a role the *)
(* key's row had at most Lag ago; it is told its key is invalid only if    *)
(* every key it could mean was inactive at most Lag ago.                   *)
AdminDecisionJustified ==
    [][\A r \in Requests :
          /\ pc[r] # "admitted" /\ pc'[r] = "admitted" =>
                /\ ctx'[r].key \in Matches[r]
                /\ HeldWithin(ctx'[r].key, ctx'[r].role)
          /\ pc[r] # "invalid_api_key" /\ pc'[r] = "invalid_api_key" =>
                \A k \in Matches[r] : HeldWithin(k, "inactive")]_adminVars
=============================================================================
