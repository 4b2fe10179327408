---------------------------- MODULE ControlPlane ----------------------------
(***************************************************************************)
(* The admin API over the database: tenants, service accounts, keys,       *)
(* policies, bindings and routes, read and changed by concurrent handlers, *)
(* and the audit trail each write leaves through a task it does not wait   *)
(* for.                                                                    *)
(*                                                                         *)
(* Source: api/admin/{tenants,service_accounts,policies,routes,mod,auth}.rs*)
(* over the statements of module Tables.  A request is a record: op is the *)
(* handler, tenant the tenant_id of its query or body, id and ref the ids  *)
(* of its path or body, body the rest.  A statement is one step; the only  *)
(* transaction of two statements is soft_delete.  The caches some handlers *)
(* invalidate between the commit and the answer are the subject of modules *)
(* KeyStore, PolicyCache and RouteCache; the list handlers that of         *)
(* Pagination.                                                             *)
(***************************************************************************)
EXTENDS Sequences, Tables

CONSTANTS Clients, Role,   \* callers of the admin API and their roles
          Requests,        \* what they may send
          Databases,       \* contents the gateway may start on
          FirstId,         \* ids from here on are new
          MaxOps           \* bound: operations committed

(* A request reaches its handler with a body of the handler's type. *)
Decoded(q) ==
    /\ q.op = "create_tenant" => CreateTenantRequest(q.body)
    /\ q.op = "update_tenant" => UpdateTenantRequest(q.body)
    /\ q.op = "create_service_account" => CreateServiceAccountRequest(q.body)
    /\ q.op = "update_service_account" => UpdateServiceAccountRequest(q.body)
    /\ q.op = "register_key" => RegisterKeyRequest(q.body)
    /\ q.op = "create_policy" => CreatePolicyRequest(q.body)
    /\ q.op = "update_policy" => UpdatePolicyRequest(q.body)
    /\ q.op = "create_route" => CreateRouteRequest(q.body)
    /\ q.op = "update_route" => UpdateRouteRequest(q.body)

(* The handlers whose query or body has a tenant_id. *)
Scoped ==
    {"create_service_account", "get_service_account", "update_service_account",
     "suspend_service_account", "activate_service_account",
     "create_policy", "get_policy", "update_policy", "delete_policy", "create_route"}

ASSUME ControlPlaneAssumption ==
    /\ Role \in [Clients -> {"admin", "viewer"}]
    /\ FirstId \in Nat /\ MaxOps \in Nat
    /\ \A q \in Requests : Decoded(q) /\ (q.tenant = None \/ q.op \in Scoped)
    /\ \A d \in Databases :
          /\ Schema(d) /\ Sound(d)
          /\ \A t \in DOMAIN d \ {"bindings"} :
                /\ Ids(d[t]) \subseteq 0..(FirstId - 1)
                /\ \A r, s \in d[t] : r.id = s.id => r = s

VARIABLES
    db,
    client,     \* what each client's handler is at
    answer,     \* what the step told a client, if it answered one
    committed,  \* history: the operations in commit order
    tasks,      \* audit tasks spawned and not finished; operations by number
    log,        \* how many rows audit_events has for each operation
    lost        \* history: operations whose event a failure took

apiVars == <<db, client, answer, committed, tasks, log, lost>>

(* An answer: the status, and for reference the operation behind it if one *)
(* committed, the tenant asked for and the tenant of the row handed out.   *)
Response(status, op, scope, owner) == [status |-> status, op |-> op, scope |-> scope, owner |-> owner]
NoAnswer == Response(0, 0, None, None)

(* A handler: the operation it has committed, the accounts its open        *)
(* transaction has locked and the tenant it is deleting.                   *)
State(pc, op, locked, tenant) == [pc |-> pc, op |-> op, locked |-> locked, tenant |-> tenant]
Idle == State("idle", 0, {}, None)

(* Accounts locked by the transactions that are open. *)
Locked == UNION {client[c].locked : c \in Clients}

(* Uuid::new_v4. *)
NewId == FirstId + Len(committed)

ApiInit ==
    /\ db \in Databases
    /\ client = [c \in Clients |-> Idle] /\ answer = NoAnswer
    /\ committed = <<>> /\ tasks = {} /\ log = [n \in 1..MaxOps |-> 0] /\ lost = {}

(* Mutant of map_storage_error: other errors are answered as a conflict. *)
map_storage_error_conflict(e) ==
    CASE e = "NotFound" -> 404
      [] e \in {"Conflict", "ReferenceError", "Database"} -> 409
      [] e \in {"Validation", "InvalidCursor"} -> 422

(* The status of an error, by way of map_storage_error. *)
map_storage_error(e) ==
    CASE e = "NotFound" -> 404
      [] e \in {"Conflict", "ReferenceError"} -> 409
      [] e \in {"Validation", "InvalidCursor"} -> 422
      [] e = "Database" -> 500
-----------------------------------------------------------------------------
(* The handler answers and is gone. *)
Tell(c, status, op) ==
    /\ answer' = Response(status, op, None, None)
    /\ client' = [client EXCEPT ![c] = Idle]

(* A read: no role is asked for.  The statement may also fail. *)
Read(c, q, result) ==
    /\ client[c].pc = "idle"
    /\ answer' \in {IF result.error = "none"
                    THEN Response(200, 0, q.tenant, IF q.tenant = None THEN None ELSE result.row.tenant_id)
                    ELSE Response(map_storage_error(result.error), 0, None, None),
                    Response(map_storage_error("Database"), 0, None, None)}
    /\ UNCHANGED <<db, client, committed, tasks, log, lost>>

GetTenant(c, q) == Read(c, q, tenants_get_by_id(db, q.id))
GetAccount(c, q) == Read(c, q, accounts_get_by_id(db, q.tenant, q.id))
GetPolicy(c, q) == Read(c, q, policies_get_by_id(db, q.tenant, q.id))
GetRoute(c, q) == Read(c, q, routes_get_by_id(db, q.id))
-----------------------------------------------------------------------------
(* An operation as its event tells it: emit_audit's actor and tenant, and  *)
(* for reference the tenant the request named.                             *)
Event(c, q, tenant) == [actor |-> c, scope |-> q.tenant, tenant |-> tenant]

(* The database has committed, the handler knows. *)
Commits(c, q, d, tenant) ==
    /\ db' = d
    /\ committed' = Append(committed, Event(c, q, tenant))
    /\ client' = [client EXCEPT ![c] = State("committed", Len(committed'), {}, None)]
    /\ answer' = NoAnswer /\ UNCHANGED <<tasks, log, lost>>

(* The database has committed, its answer does not arrive: the handler     *)
(* takes it for a failure and emits no event.                              *)
ReplyLost(c, q, d, tenant) ==
    /\ db' = d
    /\ committed' = Append(committed, Event(c, q, tenant))
    /\ Tell(c, map_storage_error("Database"), Len(committed'))
    /\ lost' = lost \cup {Len(committed')}
    /\ UNCHANGED <<tasks, log>>

Refused(c, status) ==
    /\ Tell(c, status, 0)
    /\ UNCHANGED <<db, committed, tasks, log, lost>>

MayBegin(c) == client[c].pc = "idle" /\ Len(committed) < MaxOps

(* A write of one statement: require_admin_role, the validators, the       *)
(* statement, which may fail on the way there or back.                     *)
Write(c, q, valid, result, tenant) ==
    /\ MayBegin(c)
    /\ \/ Role[c] # "admin" /\ Refused(c, 403)
       \/ Role[c] = "admin" /\ ~valid /\ Refused(c, map_storage_error("Validation"))
       \/ Role[c] = "admin" /\ valid /\ Refused(c, map_storage_error("Database"))
       \/ Role[c] = "admin" /\ valid /\ result.error # "none" /\ Refused(c, map_storage_error(result.error))
       \/ Role[c] = "admin" /\ valid /\ result.error = "none"
          /\ (Commits(c, q, result.db, tenant) \/ ReplyLost(c, q, result.db, tenant))

CreateTenant(c, q) ==
    Write(c, q, validate_name(q.body.name) /\ validate_slug(q.body.slug),
          tenants_create(db, TenantRow(NewId, q.body)), NewId)

(* The handler passes a name and metadata, no slug and no status. *)
UpdateTenant(c, q) ==
    Write(c, q, Valid(q.body, "name", validate_name), tenants_update(db, q.id, q.body), q.id)

(* soft_delete up to its second statement: the accounts stay locked until  *)
(* the commit.  A second transaction waits for them.                       *)
DeleteTenantBegin(c, q) ==
    LET S == Ids(Cascade(db, q.id))
    IN  /\ MayBegin(c)
        /\ \/ Role[c] # "admin" /\ Refused(c, 403)
           \/ /\ Role[c] = "admin" /\ S \cap Locked = {}
              /\ client' = [client EXCEPT ![c] = State("tx", 0, S, q.id)]
              /\ answer' = NoAnswer /\ UNCHANGED <<db, committed, tasks, log, lost>>

DeleteTenantEnd(c, q) ==
    LET result == soft_delete(db, client[c].tenant, client[c].locked)
    IN  /\ client[c].pc = "tx" /\ client[c].tenant = q.id
        /\ Len(committed) < MaxOps
        /\ \/ Refused(c, map_storage_error("Database"))
           \/ result.error # "none" /\ Refused(c, map_storage_error(result.error))
           \/ result.error = "none"
              /\ (Commits(c, q, result.db, q.id) \/ ReplyLost(c, q, result.db, q.id))

CreateAccount(c, q) ==
    Write(c, q, /\ validate_name(q.body.name) /\ validate_slug(q.body.slug)
                /\ parse_environment(q.body.environment),
          accounts_create(db, AccountRow(NewId, q.tenant, q.body)), q.tenant)

UpdateAccount(c, q) ==
    /\ q.id \notin Locked
    /\ Write(c, q, Valid(q.body, "name", validate_name),
             accounts_update(db, q.tenant, q.id, q.body), q.tenant)

SuspendAccount(c, q) ==
    /\ q.id \notin Locked
    /\ Write(c, q, TRUE, suspend(db, q.tenant, q.id), q.tenant)

ActivateAccount(c, q) ==
    /\ q.id \notin Locked
    /\ Write(c, q, TRUE, activate(db, q.tenant, q.id), q.tenant)

RegisterKey(c, q) ==
    Write(c, q, validate_key_id(q.body.key_id) /\ parse_public_key(q.body.public_key_pem),
          keys_register(db, KeyRow(NewId, q.id, q.body)), None)

(* A key may be revoked again: only revoked_at moves. *)
RevokeKey(c, q) ==
    Write(c, q, TRUE, revoke_scoped(db, q.ref, q.id), None)

CreatePolicy(c, q) ==
    Write(c, q, ValidPolicy(q.body), policies_create(db, PolicyRow(NewId, q.tenant, q.body)), q.tenant)

(* Mutant of UpdatePolicy: lists and limits are checked on creation only. *)
UpdatePolicyUnchecked(c, q) ==
    Write(c, q, Valid(q.body, "name", validate_name),
          policies_update(db, q.tenant, q.id, q.body), q.tenant)

UpdatePolicy(c, q) ==
    Write(c, q, ValidPolicy(q.body), policies_update(db, q.tenant, q.id, q.body), q.tenant)

DeletePolicy(c, q) ==
    Write(c, q, TRUE, policies_delete(db, q.tenant, q.id), q.tenant)

CreateBinding(c, q) ==
    Write(c, q, TRUE, create_binding(db, q.id, q.ref), None)

DeleteBinding(c, q) ==
    Write(c, q, TRUE, delete_binding(db, q.id, q.ref), None)

CreateRoute(c, q) ==
    Write(c, q, ValidRouteBody(q.body), routes_create(db, RouteRow(NewId, q.tenant, q.body)), q.tenant)

UpdateRoute(c, q) ==
    LET result == routes_update(db, q.id, q.body)
    IN  Write(c, q, ValidRouteBody(q.body), result,
              IF result.error = "none" THEN result.row.tenant_id ELSE None)

DeleteRoute(c, q) ==
    Write(c, q, TRUE, routes_delete(db, q.id), None)
-----------------------------------------------------------------------------
(* Mutant of Respond: an event is dropped while another is being written. *)
RespondSilently(c) ==
    /\ client[c].pc = "committed"
    /\ tasks' = IF tasks = {} THEN {client[c].op} ELSE tasks
    /\ Tell(c, 200, client[c].op)
    /\ UNCHANGED <<db, committed, log, lost>>

(* The rest of the handler: emit_audit spawns the insert, the client gets  *)
(* its 200, 201 or 204.                                                    *)
Respond(c) ==
    /\ client[c].pc = "committed"
    /\ tasks' = tasks \cup {client[c].op}
    /\ Tell(c, 200, client[c].op)
    /\ UNCHANGED <<db, committed, log, lost>>

AuditInsert(n) ==
    /\ n \in tasks
    /\ tasks' = tasks \ {n}
    /\ log' = [log EXCEPT ![n] = @ + 1]
    /\ answer' = NoAnswer /\ UNCHANGED <<db, client, committed, lost>>

(* The insert fails: logged at WARN, not tried again. *)
AuditFails(n) ==
    /\ n \in tasks
    /\ tasks' = tasks \ {n}
    /\ lost' = lost \cup {n}
    /\ answer' = NoAnswer /\ UNCHANGED <<db, client, committed, log>>

(* The connection closes before the handler has the database's answer: the *)
(* handler is dropped, an open transaction is rolled back.                 *)
Cancelled(c) ==
    /\ client[c].pc # "idle"
    /\ client' = [client EXCEPT ![c] = Idle] /\ answer' = NoAnswer
    /\ lost' = lost \cup ({client[c].op} \ {0})
    /\ UNCHANGED <<db, committed, tasks, log>>

(* The gateway stops: handlers and spawned tasks are gone. *)
Crash ==
    /\ tasks' = {} /\ client' = [c \in Clients |-> Idle] /\ answer' = NoAnswer
    /\ lost' = lost \cup tasks \cup ({client[c].op : c \in Clients} \ {0})
    /\ UNCHANGED <<db, committed, log>>

(* The requests that the router hands to a handler. *)
Routed(op) == {q \in Requests : q.op = op}

Handle(c) ==
    \/ \E q \in Routed("get_tenant") : GetTenant(c, q)
    \/ \E q \in Routed("get_service_account") : GetAccount(c, q)
    \/ \E q \in Routed("get_policy") : GetPolicy(c, q)
    \/ \E q \in Routed("get_route") : GetRoute(c, q)
    \/ \E q \in Routed("create_tenant") : CreateTenant(c, q)
    \/ \E q \in Routed("update_tenant") : UpdateTenant(c, q)
    \/ \E q \in Routed("delete_tenant") : DeleteTenantBegin(c, q) \/ DeleteTenantEnd(c, q)
    \/ \E q \in Routed("create_service_account") : CreateAccount(c, q)
    \/ \E q \in Routed("update_service_account") : UpdateAccount(c, q)
    \/ \E q \in Routed("suspend_service_account") : SuspendAccount(c, q)
    \/ \E q \in Routed("activate_service_account") : ActivateAccount(c, q)
    \/ \E q \in Routed("register_key") : RegisterKey(c, q)
    \/ \E q \in Routed("revoke_key") : RevokeKey(c, q)
    \/ \E q \in Routed("create_policy") : CreatePolicy(c, q)
    \/ \E q \in Routed("update_policy") : UpdatePolicy(c, q)
    \/ \E q \in Routed("delete_policy") : DeletePolicy(c, q)
    \/ \E q \in Routed("create_binding") : CreateBinding(c, q)
    \/ \E q \in Routed("delete_binding") : DeleteBinding(c, q)
    \/ \E q \in Routed("create_route") : CreateRoute(c, q)
    \/ \E q \in Routed("update_route") : UpdateRoute(c, q)
    \/ \E q \in Routed("delete_route") : DeleteRoute(c, q)

ApiNext ==
    \/ \E c \in Clients : Handle(c) \/ Respond(c) \/ Cancelled(c)
    \/ \E n \in tasks : AuditInsert(n) \/ AuditFails(n)
    \/ Crash

ApiSpec == ApiInit /\ [][ApiNext]_apiVars
-----------------------------------------------------------------------------
Ops == DOMAIN committed

(* Whatever creates and partial updates are called, in whatever order and  *)
(* however the handlers interleave, the tables hold what the data plane    *)
(* can use: policies that merge_policies does not refuse, keys that the    *)
(* verifier can parse, routes of a known provider, no reference to a row   *)
(* that is gone, and one row per slug, key_id and binding.                 *)
RowsSound == Sound(db)

(* A tenant once deleted and a key once revoked stay so, whatever is       *)
(* called on them or created later: key_id and slug stay taken.            *)
NothingComesBack ==
    [][/\ \A t \in db.tenants : t.status = "deleted" =>
             \E u \in db'.tenants : u.slug = t.slug /\ u.status = "deleted"
       /\ \A k \in db.keys : k.status = "revoked" =>
             \A l \in db'.keys : l.key_id = k.key_id => l.status = "revoked"]_apiVars

(* A request that names a tenant reads and changes rows of that tenant     *)
(* only, accounts with their keys and bindings included, and the event of  *)
(* a change names the tenant the change is in, or none.  One thing reaches *)
(* further: create_binding asks for no tenant, so a policy may be bound to *)
(* an account of another one, and the database takes the binding, and a    *)
(* default_policy_id, along when the policy is deleted.  Nothing else does.*)
TenantScoped ==
    [][/\ \A n \in DOMAIN committed' \ DOMAIN committed :
             LET e == committed'[n]
             IN  /\ e.scope # None => Touched(db, db') \subseteq {e.scope}
                 /\ e.tenant # None => Touched(db, db') \subseteq {e.tenant}
       /\ answer'.owner \in {None, answer'.scope}]_apiVars

(* What the answer says of the tables: a success is of an operation that   *)
(* committed, by a caller with the Admin role; a 4xx means that nothing    *)
(* was changed.  Only a 500, or no answer, leaves the caller in doubt.     *)
AnswersTell ==
    /\ answer.status \in 400..499 => answer.op = 0
    /\ answer.op # 0 => answer.op \in Ops /\ Role[committed[answer.op].actor] = "admin"

(* Where the event of an operation is. *)
Places == {"log", "task", "lost", "handler"}
PlacesOf(n) ==
    {p \in Places : \/ p = "log" /\ log[n] > 0
                    \/ p = "task" /\ n \in tasks
                    \/ p = "lost" /\ n \in lost
                    \/ p = "handler" /\ \E c \in Clients : client[c].op = n}

(* An operation that committed has its event, or a task or a handler that  *)
(* will write it, unless a failed insert, a lost reply, a closed connection*)
(* or a crash took it; and only one of these: no other path loses one.  The*)
(* trail never invents or repeats: an event is that of an operation which  *)
(* committed, by a caller with the Admin role, and the only one for it.    *)
AuditAccounted ==
    /\ \A n \in Ops : \E p \in Places : PlacesOf(n) = {p}
    /\ \A n \in DOMAIN log : log[n] > 0 =>
          n \in Ops /\ Role[committed[n].actor] = "admin" /\ log[n] = 1
=============================================================================
