----------------------------- MODULE Pagination -----------------------------
(***************************************************************************)
(* A client walks a list endpoint of the admin API page by page while      *)
(* other admins insert and remove rows.                                    *)
(*                                                                         *)
(* Source: models.rs (Cursor, Page::from_rows, clamp_limit), the list      *)
(* handlers of api/admin and the list queries of storage/repositories.  A  *)
(* row is its id, a number: ids are random, so their order says nothing    *)
(* about time, and rows may share a created_at.  Of its other columns the  *)
(* model keeps the one the list selects by: a tenant's status, a key's     *)
(* service account, the tenant of anything else (None: a global route).    *)
(* An error that keeps no state (the database is down) is a request that   *)
(* was not made.                                                           *)
(***************************************************************************)
EXTENDS Integers, FiniteSets

CONSTANTS Rows,      \* ids
          Owners,    \* ids of tenants, or of service accounts
          Owning,    \* which row belongs to whom: functions from Rows to Owners and None
          None,
          MaxLimit,  \* 200
          Limits,    \* page sizes a client asks for
          Horizon    \* bound: values of created_at

Tables == {"tenants", "service_accounts", "keys", "policies", "routes"}
TenantStatus == {"active", "suspended", "deleted"}

ASSUME PaginationAssumption ==
    /\ Rows \subseteq Nat /\ IsFiniteSet(Rows)
    /\ MaxLimit \in Nat \ {0} /\ Limits \subseteq Int /\ Horizon \in Nat
    /\ None \notin Owners /\ None \notin STRING /\ Owners \cap STRING = {}
    /\ Owning \subseteq [Rows -> Owners \cup {None}]

VARIABLES
    table,      \* the list that is walked
    now,
    created,    \* created_at: NOW() is the start of the inserting transaction
    owner,      \* the column the list selects by
    row,        \* "unborn", "open" (inserted, not committed), "there", "gone"
    pc,         \* the walk: "idle", "walk", "done", "refused" (400)
    scope,      \* the query's tenant_id, status or path id
    cursor,     \* the cursor of the next request
    stay,       \* rows the walk is to show: there, and matching, ever since it began
    returned,   \* rows on the pages so far
    repeated    \* rows that were on more than one page

vars == <<table, now, created, owner, row, pc, scope, cursor, stay, returned, repeated>>
world == <<table, now, created, owner, row>>
walk == <<pc, scope, cursor, returned, repeated>>

NoCursor == [ts |-> -1, id |-> -1]
Malformed == [ts |-> -2, id |-> -2]   \* Cursor::decode fails
There == {r \in Rows : row[r] = "there"}

(* The row comparison (created_at, id) < (ts, id) of the queries. *)
Less(a, b) == a.ts < b.ts \/ (a.ts = b.ts /\ a.id < b.id)

(* Cursor::encode and decode, inverse to each other: RFC 3339 keeps the    *)
(* microseconds of the column.                                             *)
Key(r) == [ts |-> created[r], id |-> r]

Init ==
    /\ table \in Tables
    /\ now = 0
    /\ created = [r \in Rows |-> 0]
    /\ owner \in IF table = "tenants" THEN [Rows -> {"active"}]
                 ELSE IF table = "routes" THEN Owning
                 ELSE Owning \cap [Rows -> Owners]
    /\ row = [r \in Rows |-> "unborn"]
    /\ pc = "idle" /\ scope = None /\ cursor = NoCursor
    /\ stay = {} /\ returned = {} /\ repeated = {}

(* Other clients. *)
BeginInsert(r) ==
    /\ row[r] = "unborn"
    /\ row' = [row EXCEPT ![r] = "open"]
    /\ created' = [created EXCEPT ![r] = now]
    /\ UNCHANGED <<table, now, owner, stay>> /\ UNCHANGED walk

Commit(r) ==
    /\ row[r] = "open"
    /\ row' = [row EXCEPT ![r] = "there"]
    /\ UNCHANGED <<table, now, created, owner, stay>> /\ UNCHANGED walk

(* Policies and routes are the rows the API deletes. *)
Delete(r) ==
    /\ table \in {"policies", "routes"} /\ row[r] = "there"
    /\ row' = [row EXCEPT ![r] = "gone"]
    /\ stay' = stay \ {r}
    /\ UNCHANGED <<table, now, created, owner>> /\ UNCHANGED walk

(* A deleted tenant stays in the table, and moves from one status to the   *)
(* other under a walk that selects by it.                                  *)
SoftDelete(r) ==
    /\ table = "tenants" /\ row[r] = "there" /\ owner[r] = "active"
    /\ owner' = [owner EXCEPT ![r] = "deleted"]
    /\ stay' = IF scope = None THEN stay ELSE stay \ {r}
    /\ UNCHANGED <<table, now, created, row>> /\ UNCHANGED walk

Tick ==
    /\ now < Horizon
    /\ now' = now + 1
    /\ UNCHANGED <<table, created, owner, row, stay>> /\ UNCHANGED walk
-----------------------------------------------------------------------------
(* What a client may ask for: a scope the endpoint takes, or a status that *)
(* does not parse, and no cursor, one of its own making, or one it has     *)
(* from another list.                                                      *)
Scopes ==
    CASE table = "tenants" -> {None} \cup TenantStatus \cup {"unknown"}
      [] table = "routes"  -> {None} \cup Owners
      [] OTHER             -> Owners
Cursors == {NoCursor, Malformed} \cup [ts : 0..Horizon, id : Rows]

InScope(r, s) == owner[r] = s \/ (table = "tenants" /\ s = None)

Begin(s, c) ==
    /\ pc = "idle"
    /\ pc' = "walk"
    /\ scope' = s /\ cursor' = c
    /\ stay' = {r \in There : InScope(r, s) /\ (c = NoCursor \/ Less(Key(r), c))}
    /\ UNCHANGED world /\ UNCHANGED <<returned, repeated>>
-----------------------------------------------------------------------------
(* ORDER BY created_at DESC, id DESC LIMIT n. *)
Above(S, r) == {s \in S : Less(Key(r), Key(s))}
Newest(S, n) == {r \in S : Cardinality(Above(S, r)) < n}

(* Mutant of Before: <= in place of <. *)
BeforeOrAt(S, c) == {r \in S : ~Less(c, Key(r))}
(* WHERE (created_at, id) < cursor. *)
Before(S, c) == {r \in S : Less(Key(r), c)}
Of(o) == {r \in There : owner[r] = o}

clamp_limit(n) == IF n < 1 THEN 1 ELSE IF n > MaxLimit THEN MaxLimit ELSE n

Last(S) == CHOOSE r \in S : \A s \in S \ {r} : Less(Key(r), Key(s))

(* Mutant of from_rows: more rows only when two are left over. *)
from_rows_stops_early(rows, n) ==
    LET items == Newest(rows, n)
    IN  [items |-> items,
         next_cursor |-> IF Cardinality(rows) > n + 1 THEN Key(Last(items)) ELSE NoCursor]

(* Page::from_rows, of at most clamp_limit(n) + 1 rows. *)
from_rows(rows, n) ==
    LET items == Newest(rows, n)
    IN  [items |-> items,
         next_cursor |-> IF Cardinality(rows) > n THEN Key(Last(items)) ELSE NoCursor]

Select(S, n) == from_rows(Newest(S, clamp_limit(n) + 1), clamp_limit(n))

(* The list queries of the repositories. *)
tenants_list(status, c, n) ==
    Select({r \in There : (status = None \/ owner[r] = status) /\ (c = NoCursor \/ Less(Key(r), c))}, n)

accounts_list_by_tenant(tenant_id, c, n) ==
    IF c # NoCursor THEN Select(Before(Of(tenant_id), c), n) ELSE Select(Of(tenant_id), n)

(* Mutant of keys_list_by_service_account: the cursor is not used. *)
keys_list_from_start(account_id, c, n) == Select(Of(account_id), n)

keys_list_by_service_account(account_id, c, n) ==
    IF c # NoCursor THEN Select(Before(Of(account_id), c), n) ELSE Select(Of(account_id), n)

(* Mutant of policies_list_by_tenant: the second branch lacks the tenant. *)
policies_list_unscoped(tenant_id, c, n) ==
    IF c # NoCursor THEN Select(Before(There, c), n) ELSE Select(Of(tenant_id), n)

policies_list_by_tenant(tenant_id, c, n) ==
    IF c # NoCursor THEN Select(Before(Of(tenant_id), c), n) ELSE Select(Of(tenant_id), n)

routes_list_by_tenant(tenant_id, c, n) ==
    IF c # NoCursor THEN Select(Before(Of(tenant_id), c), n) ELSE Select(Of(tenant_id), n)

routes_list_global(c, n) ==
    IF c # NoCursor THEN Select(Before(Of(None), c), n) ELSE Select(Of(None), n)
-----------------------------------------------------------------------------
validate_limit(n) == n \in 1..MaxLimit

(* 200 with a page: the client goes on where next_cursor says. *)
Page(page) ==
    /\ returned' = returned \cup page.items
    /\ repeated' = repeated \cup (page.items \cap returned)
    /\ cursor' = page.next_cursor
    /\ pc' = IF page.next_cursor = NoCursor THEN "done" ELSE "walk"
    /\ UNCHANGED world /\ UNCHANGED <<scope, stay>>

(* 400: a limit or a status that is not one, or a cursor that is not. *)
Refused(n) ==
    /\ \/ ~validate_limit(n)
       \/ table = "tenants" /\ scope \notin TenantStatus \cup {None}
       \/ cursor = Malformed
    /\ pc' = "refused"
    /\ UNCHANGED world /\ UNCHANGED <<scope, cursor, stay, returned, repeated>>

Accepted(n) ==
    /\ validate_limit(n) /\ cursor # Malformed
    /\ table = "tenants" => scope \in TenantStatus \cup {None}

list_tenants(n) ==
    /\ table = "tenants"
    /\ Refused(n) \/ (Accepted(n) /\ Page(tenants_list(scope, cursor, n)))

list_service_accounts(n) ==
    /\ table = "service_accounts"
    /\ Refused(n) \/ (Accepted(n) /\ Page(accounts_list_by_tenant(scope, cursor, n)))

list_keys(n) ==
    /\ table = "keys"
    /\ Refused(n) \/ (Accepted(n) /\ Page(keys_list_by_service_account(scope, cursor, n)))

list_policies(n) ==
    /\ table = "policies"
    /\ Refused(n) \/ (Accepted(n) /\ Page(policies_list_by_tenant(scope, cursor, n)))

list_routes(n) ==
    /\ table = "routes"
    /\ \/ Refused(n)
       \/ scope # None /\ Accepted(n) /\ Page(routes_list_by_tenant(scope, cursor, n))
       \/ scope = None /\ Accepted(n) /\ Page(routes_list_global(cursor, n))

Fetch(n) ==
    /\ pc = "walk"
    /\ \/ list_tenants(n) \/ list_service_accounts(n) \/ list_keys(n)
       \/ list_policies(n) \/ list_routes(n)

FetchAny == \E n \in Limits : Fetch(n)

Next ==
    \/ \E r \in Rows : BeginInsert(r) \/ Commit(r) \/ Delete(r) \/ SoftDelete(r)
    \/ Tick
    \/ \E s \in Scopes, c \in Cursors : Begin(s, c)
    \/ FetchAny

Spec == Init /\ [][Next]_vars

(* The client follows next_cursor as long as it gets one. *)
FairSpec == Spec /\ WF_vars(FetchAny)
-----------------------------------------------------------------------------
TypeOK ==
    /\ table \in Tables
    /\ now \in 0..Horizon
    /\ created \in [Rows -> 0..Horizon]
    /\ owner \in [Rows -> Owners \cup TenantStatus \cup {None}]
    /\ row \in [Rows -> {"unborn", "open", "there", "gone"}]
    /\ pc \in {"idle", "walk", "done", "refused"}
    /\ cursor \in Cursors
    /\ stay \subseteq Rows /\ returned \subseteq Rows /\ repeated \subseteq Rows

(* No row is on two pages of one walk, whatever is inserted or removed     *)
(* between the pages, the row the cursor points at included, and whatever  *)
(* page sizes the client mixes.                                            *)
NoRowTwice == repeated = {}

(* A row of the scope, below the cursor the walk began at, that is there   *)
(* from the first page to the last is on one of them.                      *)
NoRowMissed == pc = "done" => stay \subseteq returned

(* Every row on a page is of the tenant, service account or status asked   *)
(* for, whatever cursor the client brings: next_cursor names a position    *)
(* and no list, so both branches of each query have to select.  A tenant   *)
(* shown as active may have been deleted since.                            *)
OnlyOwnRows ==
    \A r \in returned :
        \/ InScope(r, scope)
        \/ table = "tenants" /\ scope = "active" /\ owner[r] = "deleted"

(* A walk that is begun comes to a page without next_cursor, or to a       *)
(* refusal: inserts that go on meanwhile do not feed it.                   *)
WalkEnds == pc = "walk" ~> pc \in {"done", "refused"}
=============================================================================
