------------------------------- MODULE Tables -------------------------------
(***************************************************************************)
(* The admin tables and the statements of the repositories on them.        *)
(*                                                                         *)
(* Source: storage/repositories/{tenants,service_accounts,keys,policies,   *)
(* routes}.rs, models.rs, storage/mod.rs, and for keys and references      *)
(* gateway/migrations.  A database d is a record of tables, a table a set  *)
(* of rows.  Timestamps and free-form JSON (metadata, config) are left     *)
(* out.  A statement is an operator from d and its parameters to a result: *)
(* the error or "none", the database after it, and the row it returns.     *)
(***************************************************************************)
EXTENDS Integers, AdminInput

CONSTANT None  \* NULL

(* StorageError: Conflict is 23505, ReferenceError 23503. *)
StorageError == {"NotFound", "Conflict", "ReferenceError", "InvalidCursor", "Database"}

Returning(d, row) == [error |-> "none", db |-> d, row |-> row]
Err(e, d) == [error |-> e, db |-> d, row |-> None]

Ids(table) == {r.id : r \in table}

(* The tables and their columns, as CREATE TABLE declares them. *)
TableColumns ==
    [tenants  |-> {"id", "name", "slug", "status"},
     accounts |-> {"id", "tenant_id", "name", "slug", "environment", "description", "status",
                   "default_policy_id"},
     keys     |-> {"id", "service_account_id", "key_id", "algorithm", "public_key_pem",
                   "fingerprint", "status"},
     policies |-> {"id", "tenant_id", "name"} \cup PolicyOptions,
     bindings |-> {"service_account_id", "policy_id"},
     routes   |-> {"id", "tenant_id"} \cup RouteNames \cup RouteOptions]

Schema(d) ==
    /\ DOMAIN d = DOMAIN TableColumns
    /\ \A t \in DOMAIN d : \A r \in d[t] : DOMAIN r = TableColumns[t]

(* COALESCE($n, column), and unwrap_or of what a body leaves out. *)
Coalesce(patch, row) ==
    [f \in DOMAIN patch \cup DOMAIN row |-> IF f \in DOMAIN patch THEN patch[f] ELSE row[f]]

(* fetch_optional with the repositories' not_found: the rows S the WHERE   *)
(* clause selects, at most one as an id is among the conditions.           *)
Select(d, S) == IF S = {} THEN Err("NotFound", d) ELSE Returning(d, CHOOSE r \in S : TRUE)

(* UPDATE table SET column = COALESCE($n, column) ... WHERE ... RETURNING  *)
Update(d, table, S, patch) ==
    IF S = {} THEN Err("NotFound", d)
    ELSE LET old == CHOOSE r \in S : TRUE
             new == Coalesce(patch, old)
         IN  Returning([d EXCEPT ![table] = (@ \ {old}) \cup {new}], new)

Insert(d, table, row) == Returning([d EXCEPT ![table] = @ \cup {row}], row)

Columns(body, names) == [f \in DOMAIN body \cap names |-> body[f]]
-----------------------------------------------------------------------------
(* tenants *)
TenantRow(id, body) ==
    [id |-> id, name |-> body.name, slug |-> body.slug, status |-> "active"]

tenants_create(d, row) ==
    IF \E r \in d.tenants : r.slug = row.slug THEN Err("Conflict", d)
    ELSE Insert(d, "tenants", row)

tenants_get_by_id(d, id) == Select(d, {r \in d.tenants : r.id = id})

tenants_update(d, id, body) ==
    Update(d, "tenants", {r \in d.tenants : r.id = id}, Columns(body, {"name"}))

(* soft_delete: the accounts its first statement suspends. *)
Cascade(d, id) == {a \in d.accounts : a.tenant_id = id /\ a.status \notin {"suspended", "deleted"}}

(* The two statements of soft_delete, at the commit; S are the ids of the  *)
(* accounts the first one has locked.                                      *)
soft_delete(d, id, S) ==
    LET suspended == {IF a.id \in S THEN [a EXCEPT !.status = "suspended"] ELSE a : a \in d.accounts}
    IN  Update([d EXCEPT !.accounts = suspended], "tenants",
               {r \in d.tenants : r.id = id}, [status |-> "deleted"])
-----------------------------------------------------------------------------
(* service_accounts *)
AccountRow(id, tenant_id, body) ==
    Coalesce(body, [id |-> id, tenant_id |-> tenant_id, description |-> None,
                    status |-> "active", default_policy_id |-> None])

(* The reference asks for a tenant row, whatever its status. *)
accounts_create(d, row) ==
    IF \E r \in d.accounts : r.tenant_id = row.tenant_id /\ r.slug = row.slug THEN Err("Conflict", d)
    ELSE IF row.tenant_id \notin Ids(d.tenants) THEN Err("ReferenceError", d)
    ELSE Insert(d, "accounts", row)

Account(d, tenant_id, id) == {r \in d.accounts : r.id = id /\ r.tenant_id = tenant_id}
accounts_get_by_id(d, tenant_id, id) == Select(d, Account(d, tenant_id, id))
accounts_update(d, tenant_id, id, body) ==
    Update(d, "accounts", Account(d, tenant_id, id), Columns(body, {"name", "description"}))
(* Mutant of suspend: WHERE id = $2 only. *)
suspend_any(d, tenant_id, id) ==
    Update(d, "accounts", {r \in d.accounts : r.id = id}, [status |-> "suspended"])
suspend(d, tenant_id, id) == Update(d, "accounts", Account(d, tenant_id, id), [status |-> "suspended"])
activate(d, tenant_id, id) == Update(d, "accounts", Account(d, tenant_id, id), [status |-> "active"])
-----------------------------------------------------------------------------
(* service_account_keys *)
KeyRow(id, account_id, body) ==
    [id |-> id, service_account_id |-> account_id, key_id |-> body.key_id,
     algorithm |-> "ed25519", public_key_pem |-> body.public_key_pem,
     fingerprint |-> <<"sha256", body.public_key_pem>>, status |-> "active"]

(* Mutant of keys_register: ON CONFLICT (key_id) DO UPDATE. *)
keys_register_upsert(d, row) ==
    IF row.service_account_id \notin Ids(d.accounts) THEN Err("ReferenceError", d)
    ELSE Returning([d EXCEPT !.keys = {r \in @ : r.key_id # row.key_id} \cup
                        {LET old == {r \in d.keys : r.key_id = row.key_id}
                         IN  IF old = {} THEN row ELSE [row EXCEPT !.id = (CHOOSE r \in old : TRUE).id]}],
                   row)

keys_register(d, row) ==
    IF \E r \in d.keys : r.key_id = row.key_id THEN Err("Conflict", d)
    ELSE IF row.service_account_id \notin Ids(d.accounts) THEN Err("ReferenceError", d)
    ELSE Insert(d, "keys", row)

revoke_scoped(d, id, account_id) ==
    Update(d, "keys", {r \in d.keys : r.id = id /\ r.service_account_id = account_id},
           [status |-> "revoked"])
-----------------------------------------------------------------------------
(* policies and service_account_policy_bindings *)
EmptyList == [type |-> "array", items |-> {}]

(* The row create_policy builds: absent lists are empty, absent flags TRUE.*)
PolicyRow(id, tenant_id, body) ==
    Coalesce(body, [id |-> id, tenant_id |-> tenant_id, description |-> None,
                    allowed_models_json |-> EmptyList, denied_models_json |-> EmptyList,
                    max_input_tokens |-> None, max_output_tokens |-> None,
                    allow_streaming |-> TRUE, allow_tools |-> TRUE, allow_files |-> TRUE,
                    rpm_limit |-> None, concurrency_limit |-> None])

policies_create(d, row) ==
    IF row.tenant_id \notin Ids(d.tenants) THEN Err("ReferenceError", d)
    ELSE Insert(d, "policies", row)

Policy(d, tenant_id, id) == {r \in d.policies : r.id = id /\ r.tenant_id = tenant_id}
policies_get_by_id(d, tenant_id, id) == Select(d, Policy(d, tenant_id, id))
policies_update(d, tenant_id, id, body) == Update(d, "policies", Policy(d, tenant_id, id), body)

(* Bindings go with the policy, ON DELETE CASCADE; default_policy_id is    *)
(* cleared, ON DELETE SET NULL.                                            *)
policies_delete(d, tenant_id, id) ==
    IF Policy(d, tenant_id, id) = {} THEN Err("NotFound", d)
    ELSE Returning([d EXCEPT
             !.policies = @ \ Policy(d, tenant_id, id),
             !.bindings = {b \in @ : b.policy_id # id},
             !.accounts = {IF a.default_policy_id = id THEN [a EXCEPT !.default_policy_id = None] ELSE a : a \in @}],
             None)

create_binding(d, account_id, policy_id) ==
    LET row == [service_account_id |-> account_id, policy_id |-> policy_id]
    IN  IF row \in d.bindings THEN Err("Conflict", d)
        ELSE IF account_id \notin Ids(d.accounts) \/ policy_id \notin Ids(d.policies)
             THEN Err("ReferenceError", d)
        ELSE Insert(d, "bindings", row)

delete_binding(d, account_id, policy_id) ==
    LET row == [service_account_id |-> account_id, policy_id |-> policy_id]
    IN  IF row \notin d.bindings THEN Err("NotFound", d)
        ELSE Returning([d EXCEPT !.bindings = @ \ {row}], None)
-----------------------------------------------------------------------------
(* provider_routes; tenant_id is None for a global route *)
RouteRow(id, tenant_id, body) ==
    Coalesce(body, [id |-> id, tenant_id |-> tenant_id, priority |-> 100, enabled |-> TRUE,
                    timeout_ms |-> 30000, max_retries |-> 1, retry_backoff_ms |-> 250])

routes_create(d, row) ==
    IF row.tenant_id # None /\ row.tenant_id \notin Ids(d.tenants) THEN Err("ReferenceError", d)
    ELSE Insert(d, "routes", row)

routes_get_by_id(d, id) == Select(d, {r \in d.routes : r.id = id})
routes_update(d, id, body) == Update(d, "routes", {r \in d.routes : r.id = id}, body)
routes_delete(d, id) ==
    IF id \notin Ids(d.routes) THEN Err("NotFound", d)
    ELSE Returning([d EXCEPT !.routes = {r \in @ : r.id # id}], None)
-----------------------------------------------------------------------------
(* What merge_policies can read of a policy row: lists of strings, limits  *)
(* that are absent or positive.                                            *)
Mergeable(p) ==
    /\ \A list \in {p.allowed_models_json, p.denied_models_json} :
          list.type = "array" /\ \A item \in list.items : item.type = "string"
    /\ \A n \in {p.max_input_tokens, p.max_output_tokens, p.rpm_limit, p.concurrency_limit} :
          n = None \/ n > 0

(* The rows of each table that the data plane can use. *)
PoliciesSound(d) ==
    \A p \in d.policies : Mergeable(p) /\ p.tenant_id \in Ids(d.tenants)
RoutesSound(d) ==
    \A r \in d.routes : r.provider \in Provider /\ r.tenant_id \in Ids(d.tenants) \cup {None}
AccountsSound(d) ==
    \A a \in d.accounts :
        /\ a.environment \in Environment /\ a.tenant_id \in Ids(d.tenants)
        /\ a.default_policy_id \in Ids(d.policies) \cup {None}
KeysSound(d) ==
    \A k \in d.keys : parse_public_key(k.public_key_pem) /\ k.service_account_id \in Ids(d.accounts)
BindingsSound(d) ==
    \A b \in d.bindings : b.service_account_id \in Ids(d.accounts) /\ b.policy_id \in Ids(d.policies)

(* The UNIQUE constraints. *)
KeyIdsUnique(d) == \A k, l \in d.keys : k.key_id = l.key_id => k = l
TenantSlugsUnique(d) == \A s, t \in d.tenants : s.slug = t.slug => s = t
AccountSlugsUnique(d) ==
    \A a, b \in d.accounts : a.tenant_id = b.tenant_id /\ a.slug = b.slug => a = b

Sound(d) ==
    /\ PoliciesSound(d) /\ RoutesSound(d) /\ AccountsSound(d) /\ KeysSound(d) /\ BindingsSound(d)
    /\ KeyIdsUnique(d) /\ TenantSlugsUnique(d) /\ AccountSlugsUnique(d)

(* What refers to a deleted policy goes with it, in whatever tenant it is: *)
(* the database drops the bindings and clears default_policy_id.           *)
Gone(d, e) ==
    Ids({p \in d.policies : \A q \in e.policies : q.id # p.id \/ q.tenant_id # p.tenant_id})
Detached(accounts, gone) ==
    {IF a.default_policy_id \in gone THEN [a EXCEPT !.default_policy_id = None] ELSE a : a \in accounts}

Differ(a, b) == (a \ b) \cup (b \ a)

(* The keys and bindings that differ, for another reason than that. *)
Attachments(d, e) ==
    Differ(d.keys, e.keys) \cup {b \in Differ(d.bindings, e.bindings) : b.policy_id \notin Gone(d, e)}
TenantsOf(d, S) == {a.tenant_id : a \in {a \in d.accounts : \E r \in S : r.service_account_id = a.id}}

(* The tenants whose rows a change of the tables touches; a key or binding *)
(* is of the tenant of its account.                                        *)
Touched(d, e) ==
    Ids(Differ(d.tenants, e.tenants))
    \cup {r.tenant_id : r \in Differ(d.policies, e.policies) \cup Differ(d.routes, e.routes)
                              \cup Differ(Detached(d.accounts, Gone(d, e)), e.accounts)}
    \cup TenantsOf(d, Attachments(d, e)) \cup TenantsOf(e, Attachments(d, e))
=============================================================================
