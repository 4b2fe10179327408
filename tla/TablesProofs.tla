---- MODULE TablesProofs ----
(* What the statements of the admin API's repositories leave of the tables.  *)
(* Every statement that succeeds is shown to take sound tables to sound      *)
(* tables, to bring nothing back, to leave every account with its tenant and *)
(* to touch one tenant only (Good below): first for each kind of INSERT,     *)
(* UPDATE and DELETE, then for the function of each repository, which is     *)
(* shown to be one of them.                                                  *)
EXTENDS Tables, TLAPS

USE SMTT(20), Zenon, Z3T(20)

(* e differs from d in the tables T only; s is r but for columns outside F. *)
Only(d, e, T) == DOMAIN e = DOMAIN d /\ \A u \in DOMAIN d \ T : e[u] = d[u]
Kept(r, s, F) == DOMAIN s = DOMAIN r /\ \A f \in F : s[f] = r[f]

(* The step from d to e brings nothing back. *)
Permanent(d, e) ==
    /\ \A t \in d.tenants : t.status = "deleted" =>
          \E u \in e.tenants : u.slug = t.slug /\ u.status = "deleted"
    /\ \A k \in d.keys : k.status = "revoked" =>
          \A l \in e.keys : l.key_id = k.key_id => l.status = "revoked"

(* Accounts keep their ids and tenants; N is the id of a new one. *)
AccountIds(d) == \A a, b \in d.accounts : a.id = b.id => a = b
Owners(d, e, N) ==
    /\ \A a \in d.accounts : \E b \in e.accounts : b.id = a.id
    /\ \A b \in e.accounts : \/ b.id = N
                             \/ \E a \in d.accounts : a.id = b.id /\ a.tenant_id = b.tenant_id
    /\ AccountIds(e)

(* What a statement leaves of the tables d, if it is in the name of tenant. *)
Good(d, e, tenant, N) ==
    /\ Schema(e) /\ Sound(e) /\ Permanent(d, e) /\ Owners(d, e, N)
    /\ tenant # None => Touched(d, e) \subseteq {tenant}

(* The tables the statements start from. *)
Ready(d, N) ==
    /\ Schema(d) /\ Sound(d) /\ AccountIds(d)
    /\ \A a \in d.accounts : a.id # N

(* The database holds the six tables the migrations create for the admin     *)
(* API.                                                                      *)
LEMMA TableNames ==
  ASSUME NEW d, Schema(d)
  PROVE  DOMAIN d = {"tenants", "accounts", "keys", "policies", "bindings", "routes"}
  BY DEF Schema, TableColumns

(* What every statement below starts from, named once: the tables are there, *)
(* their rows have the columns of the migrations, and they are sound.        *)
LEMMA ReadyTables ==
  ASSUME NEW d, NEW N, Ready(d, N)
  PROVE  /\ DOMAIN d = {"tenants", "accounts", "keys", "policies", "bindings", "routes"}
         /\ Schema(d) /\ Sound(d)
  BY TableNames, Zenon DEF Ready

AccountColumns ==
    {"id", "tenant_id", "name", "slug", "environment", "description", "status", "default_policy_id"}

(* A row of service_accounts has the columns its migration gives it.         *)
LEMMA AccountRows ==
  ASSUME NEW d, Schema(d), NEW r \in d.accounts
  PROVE  DOMAIN r = AccountColumns
  BY Zenon DEF Schema, TableColumns, AccountColumns

(* A row of tenants has the columns its migration gives it.                  *)
LEMMA TenantRows ==
  ASSUME NEW d, Schema(d), NEW r \in d.tenants
  PROVE  DOMAIN r = {"id", "name", "slug", "status"}
  BY DEF Schema, TableColumns

(* A row of service_account_keys has the columns its migration gives it.     *)
LEMMA KeyRows ==
  ASSUME NEW d, Schema(d), NEW r \in d.keys
  PROVE  DOMAIN r = {"id", "service_account_id", "key_id", "algorithm", "public_key_pem",
                     "fingerprint", "status"}
  BY DEF Schema, TableColumns

(* A row of policies has the columns its migration gives it.                 *)
LEMMA PolicyRows ==
  ASSUME NEW d, Schema(d), NEW r \in d.policies
  PROVE  DOMAIN r = {"id", "tenant_id", "name"} \cup PolicyOptions
  BY DEF Schema, TableColumns

(* A row of provider_routes has the columns its migration gives it.          *)
LEMMA RouteRows ==
  ASSUME NEW d, Schema(d), NEW r \in d.routes
  PROVE  DOMAIN r = {"id", "tenant_id"} \cup RouteNames \cup RouteOptions
  BY DEF Schema, TableColumns

(* A statement that writes rows with the right columns to the tables it      *)
(* touches keeps the schema of all of them.                                  *)
LEMMA SchemaKept ==
  ASSUME NEW d, NEW e, NEW T, Schema(d), Only(d, e, T),
         \A t \in T : \A r \in e[t] : DOMAIN r = TableColumns[t]
  PROVE  Schema(e)
  BY DEF Schema, Only

(* A table that a statement leaves alone shows no row that differs.          *)
LEMMA NothingDiffers == \A S : Differ(S, S) = {}
  BY DEF Differ

(* A statement has touched one tenant only if the tenants, policies, routes  *)
(* and accounts that differ are all that tenant's, and no key or binding     *)
(* differs but for the policies that went.                                   *)
LEMMA TouchedIn ==
  ASSUME NEW d, NEW e, NEW t, e.keys = d.keys,
         \A b \in Differ(d.bindings, e.bindings) : b.policy_id \in Gone(d, e),
         \A r \in Differ(d.tenants, e.tenants) : r.id = t,
         \A r \in Differ(d.policies, e.policies) : r.tenant_id = t,
         \A r \in Differ(d.routes, e.routes) : r.tenant_id = t,
         \A r \in Differ(Detached(d.accounts, Gone(d, e)), e.accounts) : r.tenant_id = t
  PROVE  Touched(d, e) \subseteq {t}
  <1>1. Attachments(d, e) = {}
    BY NothingDiffers DEF Attachments
  <1>2. TenantsOf(d, Attachments(d, e)) = {} /\ TenantsOf(e, Attachments(d, e)) = {}
    BY <1>1 DEF TenantsOf
  <1> QED
    BY <1>2 DEF Touched, Ids

(* The same for a statement that deletes no policy: no account and no        *)
(* binding goes with one.                                                    *)
LEMMA TouchedStaying ==
  ASSUME NEW d, NEW e, NEW t, e.keys = d.keys, e.bindings = d.bindings,
         \A p \in d.policies : \E q \in e.policies : q.id = p.id /\ q.tenant_id = p.tenant_id,
         \A r \in Differ(d.tenants, e.tenants) : r.id = t,
         \A r \in Differ(d.policies, e.policies) : r.tenant_id = t,
         \A r \in Differ(d.routes, e.routes) : r.tenant_id = t,
         \A r \in Differ(d.accounts, e.accounts) : r.tenant_id = t
  PROVE  Touched(d, e) \subseteq {t}
  <1>1. Gone(d, e) = {}
    BY DEF Gone, Ids
  <1>2. Detached(d.accounts, Gone(d, e)) = d.accounts
    BY <1>1 DEF Detached
  <1> QED
    BY <1>2, TouchedIn, NothingDiffers, Zenon

(* A statement that leaves service_accounts alone leaves every account with  *)
(* its tenant.                                                               *)
LEMMA SameOwners ==
  ASSUME NEW d, NEW e, NEW N, Ready(d, N), e.accounts = d.accounts
  PROVE  Owners(d, e, N)
  BY DEF Ready, Owners, AccountIds

(* A table that stays is still sound while the rows it refers to stay: its   *)
(* foreign keys keep their targets and its unique columns stay unique.       *)
LEMMA SoundKept ==
  ASSUME NEW d, NEW e, Sound(d)
  PROVE  /\ (e.policies = d.policies /\ Ids(d.tenants) \subseteq Ids(e.tenants)) => PoliciesSound(e)
         /\ (e.routes = d.routes /\ Ids(d.tenants) \subseteq Ids(e.tenants)) => RoutesSound(e)
         /\ (/\ e.accounts = d.accounts /\ Ids(d.tenants) \subseteq Ids(e.tenants)
             /\ Ids(d.policies) \subseteq Ids(e.policies)) => AccountsSound(e)
         /\ (e.keys = d.keys /\ Ids(d.accounts) \subseteq Ids(e.accounts)) => KeysSound(e)
         /\ (/\ e.bindings = d.bindings /\ Ids(d.accounts) \subseteq Ids(e.accounts)
             /\ Ids(d.policies) \subseteq Ids(e.policies)) => BindingsSound(e)
         /\ e.keys = d.keys => KeyIdsUnique(e)
         /\ e.tenants = d.tenants => TenantSlugsUnique(e)
         /\ e.accounts = d.accounts => AccountSlugsUnique(e)
  <1>1. (e.policies = d.policies /\ Ids(d.tenants) \subseteq Ids(e.tenants)) => PoliciesSound(e)
    BY DEF Sound, PoliciesSound
  <1>2. (e.routes = d.routes /\ Ids(d.tenants) \subseteq Ids(e.tenants)) => RoutesSound(e)
    BY DEF Sound, RoutesSound
  <1>3. (/\ e.accounts = d.accounts /\ Ids(d.tenants) \subseteq Ids(e.tenants)
         /\ Ids(d.policies) \subseteq Ids(e.policies)) => AccountsSound(e)
    BY DEF Sound, AccountsSound
  <1>4. (e.keys = d.keys /\ Ids(d.accounts) \subseteq Ids(e.accounts)) => KeysSound(e)
    BY DEF Sound, KeysSound
  <1>5. (/\ e.bindings = d.bindings /\ Ids(d.accounts) \subseteq Ids(e.accounts)
         /\ Ids(d.policies) \subseteq Ids(e.policies)) => BindingsSound(e)
    BY DEF Sound, BindingsSound
  <1>6. /\ e.keys = d.keys => KeyIdsUnique(e)
        /\ e.tenants = d.tenants => TenantSlugsUnique(e)
        /\ e.accounts = d.accounts => AccountSlugsUnique(e)
    BY DEF Sound, KeyIdsUnique, TenantSlugsUnique, AccountSlugsUnique
  <1> QED
    BY <1>1, <1>2, <1>3, <1>4, <1>5, <1>6

(* A statement that leaves tenants and keys alone brings nothing back; that  *)
(* the ids of keys are unique is what makes it so for keys.                  *)
LEMMA PermanentKept ==
  ASSUME NEW d, NEW e, Sound(d), e.tenants = d.tenants, e.keys = d.keys
  PROVE  Permanent(d, e)
  BY DEF Permanent, Sound, KeyIdsUnique

-----------------------------------------------------------------------------
(* One statement on one table: what it takes for the tables to stay good.    *)

(* INSERT INTO tenants with a slug that no tenant has.                       *)
LEMMA TenantInsert ==
  ASSUME NEW d, NEW e, NEW N, Ready(d, N), Only(d, e, {"tenants"}),
         NEW row, e.tenants = d.tenants \cup {row}, DOMAIN row = TableColumns["tenants"],
         \A r \in d.tenants : r.slug # row.slug
  PROVE  Good(d, e, row.id, N)
  <1>0. /\ DOMAIN d = {"tenants", "accounts", "keys", "policies", "bindings", "routes"}
        /\ Schema(d) /\ Sound(d)
    BY ReadyTables, Zenon
  <1>1. e.accounts = d.accounts /\ e.keys = d.keys /\ e.policies = d.policies /\ e.bindings = d.bindings /\ e.routes = d.routes
    BY <1>0, Zenon DEF Only
  <1>2. Schema(e)
    BY <1>0, SchemaKept DEF Schema
  <1>3. Ids(d.tenants) \subseteq Ids(e.tenants)
    BY DEF Ids
  <1>4. Sound(e)
    <2>1. TenantSlugsUnique(e)
      BY <1>0 DEF Sound, TenantSlugsUnique
    <2> QED
      BY <1>0, <1>1, <1>3, <2>1, SoundKept, Zenon DEF Sound
  <1>5. Permanent(d, e)
    BY <1>0, <1>1 DEF Permanent, Sound, KeyIdsUnique
  <1>6. Touched(d, e) \subseteq {row.id}
    <2>1. \A r \in Differ(d.tenants, e.tenants) : r.id = row.id
      BY DEF Differ
    <2> QED
      BY <1>1, <2>1, TouchedStaying, NothingDiffers, Zenon
  <1>7. Owners(d, e, N)
    BY <1>1, SameOwners
  <1> QED
    BY <1>2, <1>4, <1>5, <1>6, <1>7 DEF Good

(* UPDATE of one tenant that keeps its id and slug and does not undo a       *)
(* deletion.                                                                 *)
LEMMA TenantUpdate ==
  ASSUME NEW d, NEW e, NEW N, Ready(d, N), Only(d, e, {"tenants"}),
         NEW old \in d.tenants, NEW new, e.tenants = (d.tenants \ {old}) \cup {new},
         Kept(old, new, {"id", "slug"}), old.status = "deleted" => new.status = "deleted"
  PROVE  Good(d, e, old.id, N)
  <1>0. /\ DOMAIN d = {"tenants", "accounts", "keys", "policies", "bindings", "routes"}
        /\ Schema(d) /\ Sound(d)
    BY ReadyTables, Zenon
  <1>1. e.accounts = d.accounts /\ e.keys = d.keys /\ e.policies = d.policies /\ e.bindings = d.bindings /\ e.routes = d.routes
    BY <1>0, Zenon DEF Only
  <1>2. Schema(e)
    BY <1>0, SchemaKept DEF Schema, Kept
  <1>3. Ids(d.tenants) \subseteq Ids(e.tenants)
    BY DEF Ids, Kept
  <1>4. Sound(e)
    <2>1. TenantSlugsUnique(e)
      BY <1>0 DEF Sound, TenantSlugsUnique, Kept
    <2> QED
      BY <1>0, <1>1, <1>3, <2>1, SoundKept DEF Sound
  <1>5. Permanent(d, e)
    BY <1>0, <1>1 DEF Permanent, Sound, KeyIdsUnique, Kept
  <1>6. Touched(d, e) \subseteq {old.id}
    <2>1. \A r \in Differ(d.tenants, e.tenants) : r.id = old.id
      BY DEF Differ, Kept
    <2> QED
      BY <1>1, <2>1, TouchedStaying, NothingDiffers, Zenon
  <1>7. Owners(d, e, N)
    BY <1>1, SameOwners
  <1> QED
    BY <1>2, <1>4, <1>5, <1>6, <1>7 DEF Good

(* INSERT INTO service_accounts of a new id, for a tenant that exists, with  *)
(* a slug that the tenant's accounts do not have.                            *)
LEMMA AccountInsert ==
  ASSUME NEW d, NEW e, NEW N, Ready(d, N), Only(d, e, {"accounts"}),
         NEW row, e.accounts = d.accounts \cup {row}, DOMAIN row = TableColumns["accounts"],
         row.id = N, row.environment \in Environment, row.tenant_id \in Ids(d.tenants),
         row.default_policy_id = None,
         \A r \in d.accounts : r.tenant_id # row.tenant_id \/ r.slug # row.slug
  PROVE  Good(d, e, row.tenant_id, N)
  <1>0. /\ DOMAIN d = {"tenants", "accounts", "keys", "policies", "bindings", "routes"}
        /\ Schema(d) /\ Sound(d)
    BY ReadyTables, Zenon
  <1>1. e.tenants = d.tenants /\ e.keys = d.keys /\ e.policies = d.policies /\ e.bindings = d.bindings /\ e.routes = d.routes
    BY <1>0, Zenon DEF Only
  <1>2. Schema(e)
    BY <1>0, SchemaKept DEF Schema
  <1>3. Ids(d.accounts) \subseteq Ids(e.accounts)
    BY DEF Ids
  <1>4. Sound(e)
    <2>1. AccountsSound(e)
      BY <1>0, <1>1 DEF Sound, AccountsSound
    <2>2. AccountSlugsUnique(e)
      BY <1>0 DEF Sound, AccountSlugsUnique
    <2> QED
      BY <1>0, <1>1, <1>3, <2>1, <2>2, SoundKept DEF Sound
  <1>5. Permanent(d, e)
    BY <1>0, <1>1, PermanentKept
  <1>6. Touched(d, e) \subseteq {row.tenant_id}
    <2>1. \A r \in Differ(d.accounts, e.accounts) : r.tenant_id = row.tenant_id
      BY DEF Differ
    <2> QED
      BY <1>1, <2>1, TouchedStaying, NothingDiffers, Zenon
  <1>7. Owners(d, e, N)
    BY DEF Owners, AccountIds, Ready
  <1> QED
    BY <1>2, <1>4, <1>5, <1>6, <1>7 DEF Good

(* UPDATE of one account that keeps the columns other tables and constraints *)
(* refer to.                                                                 *)
LEMMA AccountUpdate ==
  ASSUME NEW d, NEW e, NEW N, Ready(d, N), Only(d, e, {"accounts"}),
         NEW old \in d.accounts, NEW new, e.accounts = (d.accounts \ {old}) \cup {new},
         Kept(old, new, {"id", "tenant_id", "slug", "environment", "default_policy_id"})
  PROVE  Good(d, e, old.tenant_id, N)
  <1>0. /\ DOMAIN d = {"tenants", "accounts", "keys", "policies", "bindings", "routes"}
        /\ Schema(d) /\ Sound(d)
    BY ReadyTables, Zenon
  <1>1. e.tenants = d.tenants /\ e.keys = d.keys /\ e.policies = d.policies /\ e.bindings = d.bindings /\ e.routes = d.routes
    BY <1>0, Zenon DEF Only
  <1>2. Schema(e)
    BY <1>0, SchemaKept DEF Schema, Kept
  <1>3. Ids(d.accounts) \subseteq Ids(e.accounts)
    BY DEF Ids, Kept
  <1>4. Sound(e)
    <2>1. AccountsSound(e)
      BY <1>0, <1>1 DEF Sound, AccountsSound, Kept
    <2>2. AccountSlugsUnique(e)
      BY <1>0 DEF Sound, AccountSlugsUnique, Kept
    <2> QED
      BY <1>0, <1>1, <1>3, <2>1, <2>2, SoundKept DEF Sound
  <1>5. Permanent(d, e)
    BY <1>0, <1>1, PermanentKept
  <1>6. Touched(d, e) \subseteq {old.tenant_id}
    <2>1. \A r \in Differ(d.accounts, e.accounts) : r.tenant_id = old.tenant_id
      BY DEF Differ, Kept
    <2> QED
      BY <1>1, <2>1, TouchedStaying, NothingDiffers, Zenon
  <1>7. Owners(d, e, N)
    BY DEF Owners, AccountIds, Ready, Kept
  <1> QED
    BY <1>2, <1>4, <1>5, <1>6, <1>7 DEF Good

(* INSERT INTO service_account_keys of a key that parses, with a key_id that *)
(* no key has, revoked ones included.                                        *)
LEMMA KeyInsert ==
  ASSUME NEW d, NEW e, NEW N, Ready(d, N), Only(d, e, {"keys"}),
         NEW row, e.keys = d.keys \cup {row}, DOMAIN row = TableColumns["keys"],
         parse_public_key(row.public_key_pem), row.service_account_id \in Ids(d.accounts),
         \A r \in d.keys : r.key_id # row.key_id
  PROVE  Good(d, e, None, N)
  <1>0. /\ DOMAIN d = {"tenants", "accounts", "keys", "policies", "bindings", "routes"}
        /\ Schema(d) /\ Sound(d)
    BY ReadyTables, Zenon
  <1>1. e.tenants = d.tenants /\ e.accounts = d.accounts /\ e.policies = d.policies /\ e.bindings = d.bindings /\ e.routes = d.routes
    BY <1>0, Zenon DEF Only
  <1>2. Schema(e)
    BY <1>0, SchemaKept DEF Schema
  <1>4. Sound(e)
    <2>1. KeysSound(e)
      BY <1>0, <1>1 DEF Sound, KeysSound
    <2>2. KeyIdsUnique(e)
      BY <1>0 DEF Sound, KeyIdsUnique
    <2> QED
      BY <1>0, <1>1, <2>1, <2>2, SoundKept DEF Sound
  <1>5. Permanent(d, e)
    BY <1>0, <1>1 DEF Permanent, Sound, KeyIdsUnique
  <1>7. Owners(d, e, N)
    BY <1>1, SameOwners
  <1> QED
    BY <1>2, <1>4, <1>5, <1>7 DEF Good

(* UPDATE of one key that revokes it: whatever its status was, a revoked key *)
(* stays revoked.                                                            *)
LEMMA KeyUpdate ==
  ASSUME NEW d, NEW e, NEW N, Ready(d, N), Only(d, e, {"keys"}),
         NEW old \in d.keys, NEW new, e.keys = (d.keys \ {old}) \cup {new},
         Kept(old, new, {"key_id", "public_key_pem", "service_account_id"}), new.status = "revoked"
  PROVE  Good(d, e, None, N)
  <1>0. /\ DOMAIN d = {"tenants", "accounts", "keys", "policies", "bindings", "routes"}
        /\ Schema(d) /\ Sound(d)
    BY ReadyTables, Zenon
  <1>1. e.tenants = d.tenants /\ e.accounts = d.accounts /\ e.policies = d.policies /\ e.bindings = d.bindings /\ e.routes = d.routes
    BY <1>0, Zenon DEF Only
  <1>2. Schema(e)
    BY <1>0, SchemaKept DEF Schema, Kept
  <1>4. Sound(e)
    <2>1. KeysSound(e)
      BY <1>0, <1>1 DEF Sound, KeysSound, Kept
    <2>2. KeyIdsUnique(e)
      BY <1>0 DEF Sound, KeyIdsUnique, Kept
    <2> QED
      BY <1>0, <1>1, <2>1, <2>2, SoundKept DEF Sound
  <1>5. Permanent(d, e)
    BY <1>0, <1>1 DEF Permanent, Sound, KeyIdsUnique, Kept
  <1>7. Owners(d, e, N)
    BY <1>1, SameOwners
  <1> QED
    BY <1>2, <1>4, <1>5, <1>7 DEF Good

(* INSERT INTO policies of a policy that merge_policies can read, for a      *)
(* tenant that exists.                                                       *)
LEMMA PolicyInsert ==
  ASSUME NEW d, NEW e, NEW N, Ready(d, N), Only(d, e, {"policies"}),
         NEW row, e.policies = d.policies \cup {row}, DOMAIN row = TableColumns["policies"],
         Mergeable(row), row.tenant_id \in Ids(d.tenants)
  PROVE  Good(d, e, row.tenant_id, N)
  <1>0. /\ DOMAIN d = {"tenants", "accounts", "keys", "policies", "bindings", "routes"}
        /\ Schema(d) /\ Sound(d)
    BY ReadyTables, Zenon
  <1>1. e.tenants = d.tenants /\ e.accounts = d.accounts /\ e.keys = d.keys /\ e.bindings = d.bindings /\ e.routes = d.routes
    BY <1>0, Zenon DEF Only
  <1>2. Schema(e)
    BY <1>0, SchemaKept DEF Schema
  <1>3. Ids(d.policies) \subseteq Ids(e.policies)
    BY DEF Ids
  <1>4. Sound(e)
    <2>1. PoliciesSound(e)
      BY <1>0, <1>1 DEF Sound, PoliciesSound
    <2> QED
      BY <1>0, <1>1, <1>3, <2>1, SoundKept DEF Sound
  <1>5. Permanent(d, e)
    BY <1>0, <1>1, PermanentKept
  <1>6. Touched(d, e) \subseteq {row.tenant_id}
    <2>1. \A r \in Differ(d.policies, e.policies) : r.tenant_id = row.tenant_id
      BY DEF Differ
    <2> QED
      BY <1>1, <2>1, TouchedStaying, NothingDiffers, Zenon
  <1>7. Owners(d, e, N)
    BY <1>1, SameOwners
  <1> QED
    BY <1>2, <1>4, <1>5, <1>6, <1>7 DEF Good

(* UPDATE of one policy that keeps it readable for merge_policies.           *)
LEMMA PolicyUpdate ==
  ASSUME NEW d, NEW e, NEW N, Ready(d, N), Only(d, e, {"policies"}),
         NEW old \in d.policies, NEW new, e.policies = (d.policies \ {old}) \cup {new},
         Kept(old, new, {"id", "tenant_id"}), Mergeable(new)
  PROVE  Good(d, e, old.tenant_id, N)
  <1>0. /\ DOMAIN d = {"tenants", "accounts", "keys", "policies", "bindings", "routes"}
        /\ Schema(d) /\ Sound(d)
    BY ReadyTables, Zenon
  <1>1. e.tenants = d.tenants /\ e.accounts = d.accounts /\ e.keys = d.keys /\ e.bindings = d.bindings /\ e.routes = d.routes
    BY <1>0, Zenon DEF Only
  <1>2. Schema(e)
    BY <1>0, SchemaKept DEF Schema, Kept
  <1>3. Ids(d.policies) \subseteq Ids(e.policies)
    BY DEF Ids, Kept
  <1>4. Sound(e)
    <2>1. PoliciesSound(e)
      BY <1>0, <1>1 DEF Sound, PoliciesSound, Kept
    <2> QED
      BY <1>0, <1>1, <1>3, <2>1, SoundKept DEF Sound
  <1>5. Permanent(d, e)
    BY <1>0, <1>1, PermanentKept
  <1>6. Touched(d, e) \subseteq {old.tenant_id}
    <2>1. \A r \in Differ(d.policies, e.policies) : r.tenant_id = old.tenant_id
      BY DEF Differ, Kept
    <2>2. \A p \in d.policies : \E q \in e.policies : q.id = p.id /\ q.tenant_id = p.tenant_id
      BY DEF Kept
    <2> QED
      BY <1>1, <2>1, <2>2, TouchedStaying, NothingDiffers, Zenon
  <1>7. Owners(d, e, N)
    BY <1>1, SameOwners
  <1> QED
    BY <1>2, <1>4, <1>5, <1>6, <1>7 DEF Good

(* INSERT INTO service_account_policy_bindings between an account and a      *)
(* policy that both exist; no tenant is checked here.                        *)
LEMMA BindingInsert ==
  ASSUME NEW d, NEW e, NEW N, Ready(d, N), Only(d, e, {"bindings"}),
         NEW row, e.bindings = d.bindings \cup {row}, DOMAIN row = TableColumns["bindings"],
         row.service_account_id \in Ids(d.accounts), row.policy_id \in Ids(d.policies)
  PROVE  Good(d, e, None, N)
  <1>0. /\ DOMAIN d = {"tenants", "accounts", "keys", "policies", "bindings", "routes"}
        /\ Schema(d) /\ Sound(d)
    BY ReadyTables, Zenon
  <1>1. e.tenants = d.tenants /\ e.accounts = d.accounts /\ e.keys = d.keys /\ e.policies = d.policies /\ e.routes = d.routes
    BY <1>0, Zenon DEF Only
  <1>2. Schema(e)
    BY <1>0, SchemaKept DEF Schema
  <1>4. Sound(e)
    <2>1. BindingsSound(e)
      BY <1>0, <1>1 DEF Sound, BindingsSound
    <2> QED
      BY <1>0, <1>1, <2>1, SoundKept DEF Sound
  <1>5. Permanent(d, e)
    BY <1>0, <1>1, PermanentKept
  <1>7. Owners(d, e, N)
    BY <1>1, SameOwners
  <1> QED
    BY <1>2, <1>4, <1>5, <1>7 DEF Good

(* DELETE FROM service_account_policy_bindings: fewer bindings refer to      *)
(* nothing new.                                                              *)
LEMMA BindingDelete ==
  ASSUME NEW d, NEW e, NEW N, Ready(d, N), Only(d, e, {"bindings"}),
         e.bindings \subseteq d.bindings
  PROVE  Good(d, e, None, N)
  <1>0. /\ DOMAIN d = {"tenants", "accounts", "keys", "policies", "bindings", "routes"}
        /\ Schema(d) /\ Sound(d)
    BY ReadyTables, Zenon
  <1>1. e.tenants = d.tenants /\ e.accounts = d.accounts /\ e.keys = d.keys /\ e.policies = d.policies /\ e.routes = d.routes
    BY <1>0, Zenon DEF Only
  <1>2. Schema(e)
    BY <1>0, SchemaKept DEF Schema
  <1>4. Sound(e)
    <2>1. BindingsSound(e)
      BY <1>0, <1>1 DEF Sound, BindingsSound
    <2> QED
      BY <1>0, <1>1, <2>1, SoundKept DEF Sound
  <1>5. Permanent(d, e)
    BY <1>0, <1>1, PermanentKept
  <1>7. Owners(d, e, N)
    BY <1>1, SameOwners
  <1> QED
    BY <1>2, <1>4, <1>5, <1>7 DEF Good

(* INSERT INTO provider_routes of a known provider, global or for a tenant   *)
(* that exists.                                                              *)
LEMMA RouteInsert ==
  ASSUME NEW d, NEW e, NEW N, Ready(d, N), Only(d, e, {"routes"}),
         NEW row, e.routes = d.routes \cup {row}, DOMAIN row = TableColumns["routes"],
         row.provider \in Provider, row.tenant_id \in Ids(d.tenants) \cup {None}
  PROVE  Good(d, e, row.tenant_id, N)
  <1>0. /\ DOMAIN d = {"tenants", "accounts", "keys", "policies", "bindings", "routes"}
        /\ Schema(d) /\ Sound(d)
    BY ReadyTables, Zenon
  <1>1. e.tenants = d.tenants /\ e.accounts = d.accounts /\ e.keys = d.keys /\ e.policies = d.policies /\ e.bindings = d.bindings
    BY <1>0, Zenon DEF Only
  <1>2. Schema(e)
    BY <1>0, SchemaKept DEF Schema
  <1>4. Sound(e)
    <2>1. RoutesSound(e)
      BY <1>0, <1>1 DEF Sound, RoutesSound
    <2> QED
      BY <1>0, <1>1, <2>1, SoundKept DEF Sound
  <1>5. Permanent(d, e)
    BY <1>0, <1>1, PermanentKept
  <1>6. Touched(d, e) \subseteq {row.tenant_id}
    <2>1. \A r \in Differ(d.routes, e.routes) : r.tenant_id = row.tenant_id
      BY DEF Differ
    <2> QED
      BY <1>1, <2>1, TouchedStaying, NothingDiffers, Zenon
  <1>7. Owners(d, e, N)
    BY <1>1, SameOwners
  <1> QED
    BY <1>2, <1>4, <1>5, <1>6, <1>7 DEF Good

(* UPDATE of one route that keeps its tenant and has a known provider.       *)
LEMMA RouteUpdate ==
  ASSUME NEW d, NEW e, NEW N, Ready(d, N), Only(d, e, {"routes"}),
         NEW old \in d.routes, NEW new, e.routes = (d.routes \ {old}) \cup {new},
         Kept(old, new, {"tenant_id"}), new.provider \in Provider
  PROVE  Good(d, e, old.tenant_id, N)
  <1>0. /\ DOMAIN d = {"tenants", "accounts", "keys", "policies", "bindings", "routes"}
        /\ Schema(d) /\ Sound(d)
    BY ReadyTables, Zenon
  <1>1. e.tenants = d.tenants /\ e.accounts = d.accounts /\ e.keys = d.keys /\ e.policies = d.policies /\ e.bindings = d.bindings
    BY <1>0, Zenon DEF Only
  <1>2. Schema(e)
    BY <1>0, SchemaKept DEF Schema, Kept
  <1>4. Sound(e)
    <2>1. RoutesSound(e)
      BY <1>0, <1>1 DEF Sound, RoutesSound, Kept
    <2> QED
      BY <1>0, <1>1, <2>1, SoundKept DEF Sound
  <1>5. Permanent(d, e)
    BY <1>0, <1>1, PermanentKept
  <1>6. Touched(d, e) \subseteq {old.tenant_id}
    <2>1. \A r \in Differ(d.routes, e.routes) : r.tenant_id = old.tenant_id
      BY DEF Differ, Kept
    <2> QED
      BY <1>1, <2>1, TouchedStaying, NothingDiffers, Zenon
  <1>7. Owners(d, e, N)
    BY <1>1, SameOwners
  <1> QED
    BY <1>2, <1>4, <1>5, <1>6, <1>7 DEF Good

(* DELETE FROM provider_routes: no table refers to a route.                  *)
LEMMA RouteDelete ==
  ASSUME NEW d, NEW e, NEW N, Ready(d, N), Only(d, e, {"routes"}),
         e.routes \subseteq d.routes
  PROVE  Good(d, e, None, N)
  <1>0. /\ DOMAIN d = {"tenants", "accounts", "keys", "policies", "bindings", "routes"}
        /\ Schema(d) /\ Sound(d)
    BY ReadyTables, Zenon
  <1>1. e.tenants = d.tenants /\ e.accounts = d.accounts /\ e.keys = d.keys /\ e.policies = d.policies /\ e.bindings = d.bindings
    BY <1>0, Zenon DEF Only
  <1>2. Schema(e)
    BY <1>0, SchemaKept DEF Schema
  <1>4. Sound(e)
    <2>1. RoutesSound(e)
      BY <1>0, <1>1 DEF Sound, RoutesSound
    <2> QED
      BY <1>0, <1>1, <2>1, SoundKept DEF Sound
  <1>5. Permanent(d, e)
    BY <1>0, <1>1, PermanentKept
  <1>7. Owners(d, e, N)
    BY <1>1, SameOwners
  <1> QED
    BY <1>2, <1>4, <1>5, <1>7 DEF Good

-----------------------------------------------------------------------------
(* Two statements that change rows of several tables.                        *)

(* An account as a statement on many accounts leaves it. *)
Cleared(a, id) == IF a.default_policy_id = id THEN [a EXCEPT !.default_policy_id = None] ELSE a
Suspended(a, S) == IF a.id \in S THEN [a EXCEPT !.status = "suspended"] ELSE a

(* ON DELETE SET NULL changes an account's default policy and nothing else.  *)
LEMMA ClearedKeeps ==
  ASSUME NEW a, NEW id, DOMAIN a = AccountColumns
  PROVE  /\ Kept(a, Cleared(a, id), {"id", "tenant_id", "slug", "environment"})
         /\ Cleared(a, id).default_policy_id \in {None, a.default_policy_id}
         /\ Cleared(a, id).default_policy_id = id => id = None
  BY DEF Cleared, AccountColumns, Kept

(* The cascade of a tenant's deletion changes the status of the accounts it  *)
(* has locked and nothing else.                                              *)
LEMMA SuspendedKeeps ==
  ASSUME NEW a, NEW S, DOMAIN a = AccountColumns
  PROVE  /\ Kept(a, Suspended(a, S), {"id", "tenant_id", "slug", "environment", "default_policy_id"})
         /\ a.id \notin S => Suspended(a, S) = a
  BY DEF Suspended, AccountColumns, Kept

(* DELETE FROM policies with the foreign keys that follow it: the bindings   *)
(* go, the default policy of an account is cleared, and no account or        *)
(* binding refers to the policy that went. That is all that happens to the   *)
(* accounts and bindings, whosever they are.                                 *)
LEMMA PolicyDelete ==
  ASSUME NEW d, NEW e, NEW N, Ready(d, N), Only(d, e, {"policies", "bindings", "accounts"}),
         NEW tenant, NEW id, Policy(d, tenant, id) # {}, e.policies = d.policies \ Policy(d, tenant, id),
         e.bindings = {b \in d.bindings : b.policy_id # id},
         e.accounts = {Cleared(a, id) : a \in d.accounts}
  PROVE  Good(d, e, tenant, N)
  <1>0. /\ DOMAIN d = {"tenants", "accounts", "keys", "policies", "bindings", "routes"}
        /\ Schema(d) /\ Sound(d) /\ \A a \in d.accounts : DOMAIN a = AccountColumns
    BY ReadyTables, AccountRows, Zenon
  <1>1. e.tenants = d.tenants /\ e.keys = d.keys /\ e.routes = d.routes
    BY <1>0, Zenon DEF Only
  <1>a. \A a \in d.accounts : Kept(a, Cleared(a, id), {"id", "tenant_id", "slug", "environment"})
    BY <1>0, ClearedKeeps
  <1>c. \A a \in d.accounts :
          /\ Cleared(a, id).default_policy_id \in {None, a.default_policy_id}
          /\ Cleared(a, id).default_policy_id = id => id = None
    BY <1>0, ClearedKeeps
  <1>b. \A p \in d.policies : p.id # id => p.id \in Ids(e.policies)
    BY DEF Policy, Ids
  <1>2. Schema(e)
    <2>1. \A r \in e.accounts : DOMAIN r = TableColumns["accounts"]
      BY <1>0, <1>a DEF Schema, Kept
    <2>2. \A r \in e.policies : DOMAIN r = TableColumns["policies"]
      BY <1>0 DEF Schema
    <2>3. \A r \in e.bindings : DOMAIN r = TableColumns["bindings"]
      BY <1>0 DEF Schema
    <2> QED
      BY <1>0, <2>1, <2>2, <2>3, SchemaKept
  <1>3. Ids(e.accounts) = Ids(d.accounts)
    <2>1. \A a \in d.accounts : Cleared(a, id).id = a.id
      BY <1>a DEF Kept
    <2> QED
      BY <2>1 DEF Ids
  <1>4. Sound(e)
    <2>1. PoliciesSound(e)
      BY <1>0, <1>1 DEF Sound, PoliciesSound
    <2>2. AccountsSound(e)
      <3> SUFFICES ASSUME NEW a \in d.accounts
                   PROVE  LET b == Cleared(a, id)
                          IN  /\ b.environment \in Environment /\ b.tenant_id \in Ids(e.tenants)
                              /\ b.default_policy_id \in Ids(e.policies) \cup {None}
        BY DEF AccountsSound
      <3>1. /\ a.environment \in Environment /\ a.tenant_id \in Ids(d.tenants)
            /\ a.default_policy_id \in Ids(d.policies) \cup {None}
        BY <1>0 DEF Sound, AccountsSound
      <3>2. Cleared(a, id).environment = a.environment /\ Cleared(a, id).tenant_id = a.tenant_id
        BY <1>a DEF Kept
      <3>3. Cleared(a, id).default_policy_id \in Ids(e.policies) \cup {None}
        BY <1>b, <1>c, <3>1 DEF Ids
      <3> QED
        BY <1>1, <3>1, <3>2, <3>3
    <2>3. BindingsSound(e)
      BY <1>0, <1>3, <1>b, Zenon DEF Sound, BindingsSound, Ids
    <2>4. AccountSlugsUnique(e)
      BY <1>0, <1>a DEF Sound, AccountSlugsUnique, Kept
    <2> QED
      BY <1>0, <1>1, <1>3, <2>1, <2>2, <2>3, <2>4, SoundKept DEF Sound
  <1>5. Permanent(d, e)
    BY <1>0, <1>1, PermanentKept
  <1>6. Touched(d, e) \subseteq {tenant}
    <2>1. \A r \in Differ(d.policies, e.policies) : r.tenant_id = tenant
      BY DEF Differ, Policy
    <2>2. Gone(d, e) = {id}
      BY DEF Gone, Ids, Policy
    <2>3. \A b \in Differ(d.bindings, e.bindings) : b.policy_id \in Gone(d, e)
      BY <2>2 DEF Differ
    <2>4. Detached(d.accounts, Gone(d, e)) = e.accounts
      <3>1. Detached(d.accounts, {id}) = {Cleared(a, id) : a \in d.accounts}
        BY Zenon DEF Detached, Cleared
      <3> QED
        BY <2>2, <3>1, Zenon
    <2> QED
      BY <1>1, <2>1, <2>3, <2>4, TouchedIn, NothingDiffers, Zenon
  <1>7. Owners(d, e, N)
    BY <1>a DEF Owners, AccountIds, Ready, Kept
  <1> QED
    BY <1>2, <1>4, <1>5, <1>6, <1>7 DEF Good

(* The soft deletion of a tenant with the suspension of the accounts it has  *)
(* locked, which are all its own.                                            *)
LEMMA TenantDelete ==
  ASSUME NEW d, NEW e, NEW N, Ready(d, N), Only(d, e, {"tenants", "accounts"}),
         NEW old \in d.tenants, NEW new, e.tenants = (d.tenants \ {old}) \cup {new},
         Kept(old, new, {"id", "slug"}), new.status = "deleted",
         NEW S, e.accounts = {Suspended(a, S) : a \in d.accounts},
         \A a \in d.accounts : a.id \in S => a.tenant_id = old.id
  PROVE  Good(d, e, old.id, N)
  <1>0. /\ DOMAIN d = {"tenants", "accounts", "keys", "policies", "bindings", "routes"}
        /\ Schema(d) /\ Sound(d) /\ \A a \in d.accounts : DOMAIN a = AccountColumns
    BY ReadyTables, AccountRows, Zenon
  <1>1. e.keys = d.keys /\ e.policies = d.policies /\ e.bindings = d.bindings /\ e.routes = d.routes
    BY <1>0, Zenon DEF Only
  <1>a. \A a \in d.accounts :
          /\ Kept(a, Suspended(a, S), {"id", "tenant_id", "slug", "environment", "default_policy_id"})
          /\ a.id \notin S => Suspended(a, S) = a
    BY <1>0, SuspendedKeeps
  <1>2. Schema(e)
    <2>1. \A r \in e.accounts : DOMAIN r = TableColumns["accounts"]
      BY <1>0, <1>a DEF Schema, Kept
    <2>2. \A r \in e.tenants : DOMAIN r = TableColumns["tenants"]
      BY <1>0 DEF Schema, Kept
    <2> QED
      BY <1>0, <2>1, <2>2, SchemaKept
  <1>3. Ids(e.accounts) = Ids(d.accounts) /\ Ids(d.tenants) \subseteq Ids(e.tenants)
    <2>1. \A a \in d.accounts : Suspended(a, S).id = a.id
      BY <1>a DEF Kept
    <2> QED
      BY <2>1 DEF Ids, Kept
  <1>4. Sound(e)
    <2>1. AccountsSound(e)
      <3> SUFFICES ASSUME NEW a \in d.accounts
                   PROVE  LET b == Suspended(a, S)
                          IN  /\ b.environment \in Environment /\ b.tenant_id \in Ids(e.tenants)
                              /\ b.default_policy_id \in Ids(e.policies) \cup {None}
        BY Zenon DEF AccountsSound
      <3>1. /\ a.environment \in Environment /\ a.tenant_id \in Ids(d.tenants)
            /\ a.default_policy_id \in Ids(d.policies) \cup {None}
        BY <1>0 DEF Sound, AccountsSound
      <3>2. /\ Suspended(a, S).environment = a.environment /\ Suspended(a, S).tenant_id = a.tenant_id
            /\ Suspended(a, S).default_policy_id = a.default_policy_id
        BY <1>a DEF Kept
      <3> QED
        BY <1>1, <1>3, <3>1, <3>2, Zenon
    <2>2. AccountSlugsUnique(e)
      BY <1>0, <1>a DEF Sound, AccountSlugsUnique, Kept
    <2>3. TenantSlugsUnique(e)
      BY <1>0 DEF Sound, TenantSlugsUnique, Kept
    <2> QED
      BY <1>0, <1>1, <1>3, <2>1, <2>2, <2>3, SoundKept, Zenon DEF Sound
  <1>5. Permanent(d, e)
    BY <1>0, <1>1 DEF Permanent, Sound, KeyIdsUnique, Kept
  <1>6. Touched(d, e) \subseteq {old.id}
    <2>1. \A r \in Differ(d.tenants, e.tenants) : r.id = old.id
      BY DEF Differ, Kept
    <2>2. ASSUME NEW r \in Differ(d.accounts, e.accounts)
          PROVE  r.tenant_id = old.id
      <3>1. PICK a \in d.accounts : (r = a \/ r = Suspended(a, S)) /\ Suspended(a, S) # a
        BY <2>2 DEF Differ
      <3>2. a.id \in S
        BY <1>a, <3>1
      <3>3. a.tenant_id = old.id /\ Suspended(a, S).tenant_id = old.id
        BY <1>a, <3>2 DEF Kept
      <3> QED
        BY <3>1, <3>3
    <2> QED
      BY <1>1, <2>1, <2>2, TouchedStaying, NothingDiffers, Zenon
  <1>7. Owners(d, e, N)
    BY <1>a DEF Owners, AccountIds, Ready, Kept
  <1> QED
    BY <1>2, <1>4, <1>5, <1>6, <1>7 DEF Good

-----------------------------------------------------------------------------
(* The functions of the repositories.                                        *)

(* COALESCE($n, column) keeps every column that the patch does not name.     *)
LEMMA CoalesceKeeps ==
  ASSUME NEW patch, NEW row, NEW F, DOMAIN patch \subseteq DOMAIN row, F \subseteq DOMAIN row,
         F \cap DOMAIN patch = {}
  PROVE  Kept(row, Coalesce(patch, row), F)
  BY DEF Kept, Coalesce

(* COALESCE($n, column) takes the patch where the patch has the column and   *)
(* the row where it has not.                                                 *)
LEMMA CoalesceColumn ==
  ASSUME NEW patch, NEW row, NEW f \in DOMAIN patch \cup DOMAIN row
  PROVE  Coalesce(patch, row)[f] = IF f \in DOMAIN patch THEN patch[f] ELSE row[f]
  BY DEF Coalesce

(* tenants create, when it succeeds, is such an INSERT.                      *)
LEMMA TenantCreated ==
  ASSUME NEW d, NEW N, Ready(d, N), NEW body,
         tenants_create(d, TenantRow(N, body)).error = "none"
  PROVE  Good(d, tenants_create(d, TenantRow(N, body)).db, N, N)
  <1> DEFINE row == TenantRow(N, body)
             e == tenants_create(d, row).db
  <1>0. "tenants" \in DOMAIN d
    BY ReadyTables, Zenon
  <1>1. \A r \in d.tenants : r.slug # row.slug
    BY DEF tenants_create, Err
  <1>2. e = Insert(d, "tenants", row).db
    BY <1>1 DEF tenants_create
  <1>4. DOMAIN row = TableColumns["tenants"] /\ row.id = N
    BY DEF TenantRow, TableColumns
  <1> HIDE DEF row, e
  <1>3. Only(d, e, {"tenants"}) /\ e.tenants = d.tenants \cup {row}
    BY <1>0, <1>2, Zenon DEF Insert, Returning, Only
  <1>5. Good(d, e, row.id, N)
    BY <1>1, <1>3, <1>4, TenantInsert
  <1> QED
    BY <1>4, <1>5 DEF row, e

(* tenants update, when it succeeds, is such an UPDATE: it sets the name and *)
(* never the status, so it cannot revive a tenant.                           *)
LEMMA TenantUpdated ==
  ASSUME NEW d, NEW N, Ready(d, N), NEW id, NEW body,
         tenants_update(d, id, body).error = "none"
  PROVE  Good(d, tenants_update(d, id, body).db, id, N)
  <1> DEFINE S == {r \in d.tenants : r.id = id}
             patch == Columns(body, {"name"})
             result == tenants_update(d, id, body)
             e == result.db
  <1>0. Schema(d) /\ "tenants" \in DOMAIN d
    BY ReadyTables, Zenon
  <1>1. DOMAIN patch \subseteq {"name"}
    BY DEF Columns
  <1>2. result = Update(d, "tenants", S, patch) /\ result.error = "none"
    BY DEF tenants_update
  <1> HIDE DEF S, patch, result
  <1> DEFINE old == CHOOSE r \in S : TRUE
  <1>a. S # {}
    BY <1>2 DEF Update, Err
  <1>4. old \in d.tenants /\ old.id = id
    BY <1>a DEF S
  <1>b. result.db = [d EXCEPT !["tenants"] = (@ \ {old}) \cup {Coalesce(patch, old)}]
    BY <1>2, <1>a DEF Update, Returning
  <1> HIDE DEF old
  <1>3. Only(d, e, {"tenants"}) /\ e.tenants = (d.tenants \ {old}) \cup {Coalesce(patch, old)}
    BY <1>0, <1>b, Zenon DEF Only
  <1>5. DOMAIN old = {"id", "name", "slug", "status"}
    BY <1>0, <1>4, TenantRows, Zenon
  <1>6. Kept(old, Coalesce(patch, old), {"id", "slug", "status"})
    BY <1>1, <1>5, CoalesceKeeps
  <1>7. Kept(old, Coalesce(patch, old), {"id", "slug"}) /\ Coalesce(patch, old).status = old.status
    BY <1>6 DEF Kept
  <1> HIDE DEF e
  <1>8. Good(d, e, old.id, N)
    BY <1>3, <1>4, <1>7, TenantUpdate
  <1> QED
    BY <1>4, <1>8 DEF e, result

(* soft_delete, when it succeeds and S are the accounts its first UPDATE has *)
(* locked, is such a deletion, provided that S holds only accounts of the    *)
(* tenant.                                                                   *)
LEMMA TenantSoftDeleted ==
  ASSUME NEW d, NEW N, Ready(d, N), NEW id, NEW S,
         \A a \in d.accounts : a.id \in S => a.tenant_id = id,
         soft_delete(d, id, S).error = "none"
  PROVE  Good(d, soft_delete(d, id, S).db, id, N)
  <1> DEFINE suspended == {IF a.id \in S THEN [a EXCEPT !.status = "suspended"] ELSE a : a \in d.accounts}
             f == [d EXCEPT !.accounts = suspended]
             T == {r \in d.tenants : r.id = id}
             patch == [status |-> "deleted"]
             result == soft_delete(d, id, S)
             e == result.db
  <1>0. Schema(d) /\ DOMAIN d = {"tenants", "accounts", "keys", "policies", "bindings", "routes"}
    BY ReadyTables, Zenon
  <1>1. suspended = {Suspended(a, S) : a \in d.accounts}
    BY DEF Suspended
  <1>2. result = Update(f, "tenants", T, patch) /\ result.error = "none"
    BY DEF soft_delete
  <1>3. DOMAIN patch = {"status"} /\ patch.status = "deleted"
    OBVIOUS
  <1> HIDE DEF suspended, patch
  <1>4. /\ DOMAIN f = DOMAIN d /\ f.accounts = suspended
        /\ \A u \in DOMAIN d \ {"accounts"} : f[u] = d[u]
    BY <1>0
  <1> HIDE DEF f, T, result
  <1> DEFINE old == CHOOSE r \in T : TRUE
  <1>a. T # {}
    BY <1>2 DEF Update, Err
  <1>6. old \in d.tenants /\ old.id = id
    BY <1>a DEF T
  <1>b. result.db = [f EXCEPT !["tenants"] = (@ \ {old}) \cup {Coalesce(patch, old)}]
    BY <1>2, <1>a DEF Update, Returning
  <1> HIDE DEF old
  <1>5. Only(f, e, {"tenants"}) /\ e.tenants = (f.tenants \ {old}) \cup {Coalesce(patch, old)}
    BY <1>0, <1>4, <1>b, Zenon DEF Only
  <1>7. DOMAIN old = {"id", "name", "slug", "status"}
    BY <1>0, <1>6, TenantRows, Zenon
  <1>8. Kept(old, Coalesce(patch, old), {"id", "slug"})
    BY <1>3, <1>7, CoalesceKeeps
  <1>9. Coalesce(patch, old).status = "deleted"
    BY <1>3, CoalesceColumn
  <1> HIDE DEF e
  <1>10. /\ Only(d, e, {"tenants", "accounts"}) /\ e.accounts = {Suspended(a, S) : a \in d.accounts}
         /\ e.tenants = (d.tenants \ {old}) \cup {Coalesce(patch, old)}
    BY <1>0, <1>1, <1>4, <1>5, Zenon DEF Only
  <1>11. Good(d, e, old.id, N)
    BY <1>6, <1>8, <1>9, <1>10, TenantDelete
  <1> QED
    BY <1>6, <1>11 DEF e, result

(* accounts create, when it succeeds on a request whose environment parses,  *)
(* is such an INSERT.                                                        *)
LEMMA AccountCreated ==
  ASSUME NEW d, NEW N, Ready(d, N), NEW tenant, NEW body, CreateServiceAccountRequest(body),
         parse_environment(body.environment),
         accounts_create(d, AccountRow(N, tenant, body)).error = "none"
  PROVE  Good(d, accounts_create(d, AccountRow(N, tenant, body)).db, tenant, N)
  <1> DEFINE row == AccountRow(N, tenant, body)
             e == accounts_create(d, row).db
  <1>0. "accounts" \in DOMAIN d
    BY ReadyTables, Zenon
  <1>1. /\ DOMAIN row = TableColumns["accounts"]
        /\ row.id = N /\ row.tenant_id = tenant /\ row.default_policy_id = None
        /\ row.environment \in Environment
    BY DEF AccountRow, TableColumns, Coalesce, CreateServiceAccountRequest, Decodes,
           parse_environment, parse_enum_str
  <1> HIDE DEF row
  <1>2. /\ \A r \in d.accounts : r.tenant_id # row.tenant_id \/ r.slug # row.slug
        /\ row.tenant_id \in Ids(d.tenants)
    BY DEF accounts_create, Err, row
  <1>3. e = Insert(d, "accounts", row).db
    BY <1>2 DEF accounts_create
  <1> HIDE DEF e
  <1>4. Only(d, e, {"accounts"}) /\ e.accounts = d.accounts \cup {row}
    BY <1>0, <1>3, Zenon DEF Insert, Returning, Only
  <1>5. Good(d, e, row.tenant_id, N)
    BY <1>1, <1>2, <1>4, AccountInsert
  <1> QED
    BY <1>1, <1>5 DEF row, e

(* The three statements on one account (update, suspend and activate) are    *)
(* such UPDATEs: none of them moves an account to another tenant.            *)
LEMMA AccountUpdated ==
  ASSUME NEW d, NEW N, Ready(d, N), NEW tenant, NEW id, NEW patch, NEW result,
         DOMAIN patch \subseteq {"name", "description", "status"},
         result = Update(d, "accounts", Account(d, tenant, id), patch), result.error = "none"
  PROVE  Good(d, result.db, tenant, N)
  <1> DEFINE e == result.db
  <1>0. Schema(d) /\ "accounts" \in DOMAIN d
    BY ReadyTables, Zenon
  <1> DEFINE old == CHOOSE r \in Account(d, tenant, id) : TRUE
  <1>a. Account(d, tenant, id) # {}
    BY DEF Update, Err
  <1>2. old \in d.accounts /\ old.tenant_id = tenant
    BY <1>a DEF Account
  <1>b. result.db = [d EXCEPT !["accounts"] = (@ \ {old}) \cup {Coalesce(patch, old)}]
    BY <1>a DEF Update, Returning
  <1> HIDE DEF old
  <1>1. Only(d, e, {"accounts"}) /\ e.accounts = (d.accounts \ {old}) \cup {Coalesce(patch, old)}
    BY <1>0, <1>b, Zenon DEF Only
  <1>3. DOMAIN old = AccountColumns
    BY <1>0, <1>2, AccountRows, Zenon
  <1>4. Kept(old, Coalesce(patch, old), {"id", "tenant_id", "slug", "environment", "default_policy_id"})
    BY <1>3, CoalesceKeeps DEF AccountColumns
  <1> HIDE DEF e
  <1>5. Good(d, e, old.tenant_id, N)
    BY <1>1, <1>2, <1>4, AccountUpdate
  <1> QED
    BY <1>2, <1>5 DEF e

(* keys register, when it succeeds on a key that parses, is such an INSERT.  *)
LEMMA KeyRegistered ==
  ASSUME NEW d, NEW N, Ready(d, N), NEW account, NEW body, parse_public_key(body.public_key_pem),
         keys_register(d, KeyRow(N, account, body)).error = "none"
  PROVE  Good(d, keys_register(d, KeyRow(N, account, body)).db, None, N)
  <1> DEFINE row == KeyRow(N, account, body)
             e == keys_register(d, row).db
  <1>0. "keys" \in DOMAIN d
    BY ReadyTables, Zenon
  <1>1. DOMAIN row = TableColumns["keys"] /\ parse_public_key(row.public_key_pem)
    BY DEF KeyRow, TableColumns
  <1> HIDE DEF row
  <1>2. (\A r \in d.keys : r.key_id # row.key_id) /\ row.service_account_id \in Ids(d.accounts)
    BY DEF keys_register, Err, row
  <1>3. e = Insert(d, "keys", row).db
    BY <1>2 DEF keys_register
  <1> HIDE DEF e
  <1>4. Only(d, e, {"keys"}) /\ e.keys = d.keys \cup {row}
    BY <1>0, <1>3, Zenon DEF Insert, Returning, Only
  <1> QED
    BY <1>1, <1>2, <1>4, KeyInsert DEF row, e

(* revoke_scoped, when it succeeds, is such an UPDATE.                       *)
LEMMA KeyRevoked ==
  ASSUME NEW d, NEW N, Ready(d, N), NEW id, NEW account,
         revoke_scoped(d, id, account).error = "none"
  PROVE  Good(d, revoke_scoped(d, id, account).db, None, N)
  <1> DEFINE S == {r \in d.keys : r.id = id /\ r.service_account_id = account}
             patch == [status |-> "revoked"]
             result == revoke_scoped(d, id, account)
             e == result.db
             old == CHOOSE r \in S : TRUE
             new == Coalesce(patch, old)
  <1>0. Schema(d) /\ "keys" \in DOMAIN d
    BY ReadyTables, Zenon
  <1>1. DOMAIN patch = {"status"} /\ patch.status = "revoked"
    OBVIOUS
  <1>2. result = Update(d, "keys", S, patch) /\ result.error = "none"
    BY DEF revoke_scoped
  <1> HIDE DEF S, patch, result
  <1>3. S # {}
    BY <1>2 DEF Update, Err
  <1>4. old \in d.keys
    BY <1>3 DEF S
  <1>5. result.db = [d EXCEPT !["keys"] = (@ \ {old}) \cup {new}]
    BY <1>2, <1>3 DEF Update, Returning
  <1> HIDE DEF old
  <1>6. DOMAIN old = {"id", "service_account_id", "key_id", "algorithm", "public_key_pem",
                      "fingerprint", "status"}
    BY <1>0, <1>4, KeyRows, Zenon
  <1>7. Kept(old, new, {"key_id", "public_key_pem", "service_account_id"}) /\ new.status = "revoked"
    BY <1>1, <1>6, CoalesceKeeps, CoalesceColumn
  <1> HIDE DEF new
  <1>8. Only(d, e, {"keys"}) /\ e.keys = (d.keys \ {old}) \cup {new}
    BY <1>0, <1>5, Zenon DEF Only
  <1> HIDE DEF e
  <1>9. Good(d, e, None, N)
    BY <1>4, <1>7, <1>8, KeyUpdate
  <1> QED
    BY <1>9 DEF e, result
(* A limit that the validators let through is positive.                      *)
LEMMA LimitsPositive ==
  ASSUME NEW n
  PROVE  /\ validate_token_limit(n) => n > 0
         /\ validate_positive_limit(n, "rpm_limit") => n > 0
         /\ validate_positive_limit(n, "concurrency_limit") => n > 0
  <1>1. MAX_TOKEN_LIMIT \in Int /\ MAX_RPM_LIMIT \in Int /\ MAX_CONCURRENCY_LIMIT \in Int
    BY SMT DEF MAX_TOKEN_LIMIT, MAX_RPM_LIMIT, MAX_CONCURRENCY_LIMIT
  <1> QED
    BY <1>1, SMT DEF validate_token_limit, validate_positive_limit

(* A body that ValidPolicy lets through keeps a policy readable for          *)
(* merge_policies, whichever of the columns it names.                        *)
LEMMA MergeableKept ==
  ASSUME NEW body, NEW row, ValidPolicy(body), Mergeable(row),
         {"allowed_models_json", "denied_models_json", "max_input_tokens", "max_output_tokens",
          "rpm_limit", "concurrency_limit"} \subseteq DOMAIN row
  PROVE  Mergeable(Coalesce(body, row))
  <1> DEFINE p == Coalesce(body, row)
  <1>1. \A f \in DOMAIN row : p[f] = IF f \in DOMAIN body THEN body[f] ELSE row[f]
    BY CoalesceColumn
  <1> HIDE DEF p
  <1>2. /\ "allowed_models_json" \in DOMAIN body => validate_models_json(body.allowed_models_json)
        /\ "denied_models_json" \in DOMAIN body => validate_models_json(body.denied_models_json)
        /\ "max_input_tokens" \in DOMAIN body => validate_token_limit(body.max_input_tokens)
        /\ "max_output_tokens" \in DOMAIN body => validate_token_limit(body.max_output_tokens)
        /\ "rpm_limit" \in DOMAIN body => validate_positive_limit(body.rpm_limit, "rpm_limit")
        /\ "concurrency_limit" \in DOMAIN body =>
              validate_positive_limit(body.concurrency_limit, "concurrency_limit")
    BY Zenon DEF ValidPolicy, Valid
  <1>3. /\ p.allowed_models_json.type = "array"
        /\ \A item \in p.allowed_models_json.items : item.type = "string"
    BY <1>1, <1>2 DEF validate_models_json, Mergeable
  <1>4. /\ p.denied_models_json.type = "array"
        /\ \A item \in p.denied_models_json.items : item.type = "string"
    BY <1>1, <1>2 DEF validate_models_json, Mergeable
  <1>5. /\ p.max_input_tokens = None \/ p.max_input_tokens > 0
        /\ p.max_output_tokens = None \/ p.max_output_tokens > 0
    BY <1>1, <1>2, LimitsPositive DEF Mergeable
  <1>6. /\ p.rpm_limit = None \/ p.rpm_limit > 0
        /\ p.concurrency_limit = None \/ p.concurrency_limit > 0
    BY <1>1, <1>2, LimitsPositive DEF Mergeable
  <1> QED
    BY <1>3, <1>4, <1>5, <1>6 DEF Mergeable, p

(* policies create, when it succeeds on a validated body, is such an INSERT: *)
(* the defaults of the handler are readable, and so is what the body makes   *)
(* of them.                                                                  *)
LEMMA PolicyCreated ==
  ASSUME NEW d, NEW N, Ready(d, N), NEW tenant, NEW body, CreatePolicyRequest(body), ValidPolicy(body),
         policies_create(d, PolicyRow(N, tenant, body)).error = "none"
  PROVE  Good(d, policies_create(d, PolicyRow(N, tenant, body)).db, tenant, N)
  <1> DEFINE row == PolicyRow(N, tenant, body)
             defaults == [id |-> N, tenant_id |-> tenant, description |-> None,
                          allowed_models_json |-> EmptyList, denied_models_json |-> EmptyList,
                          max_input_tokens |-> None, max_output_tokens |-> None,
                          allow_streaming |-> TRUE, allow_tools |-> TRUE, allow_files |-> TRUE,
                          rpm_limit |-> None, concurrency_limit |-> None]
             e == policies_create(d, row).db
  <1>0. "policies" \in DOMAIN d
    BY ReadyTables, Zenon
  <1>1. /\ DOMAIN defaults = {"id", "tenant_id"} \cup PolicyOptions
        /\ defaults.id = N /\ defaults.tenant_id = tenant
    BY DEF PolicyOptions
  <1>2. Mergeable(defaults)
    BY DEF Mergeable, EmptyList
  <1>3. row = Coalesce(body, defaults)
    BY DEF PolicyRow
  <1> HIDE DEF row, defaults
  <1>4. Mergeable(row)
    BY <1>1, <1>2, <1>3, MergeableKept DEF PolicyOptions
  <1>5. DOMAIN row = TableColumns["policies"] /\ row.tenant_id = tenant
    BY <1>1, <1>3 DEF TableColumns, Coalesce, CreatePolicyRequest, Decodes, PolicyOptions
  <1>6. row.tenant_id \in Ids(d.tenants)
    BY DEF policies_create, Err, row
  <1>7. e = Insert(d, "policies", row).db
    BY <1>6 DEF policies_create
  <1> HIDE DEF e
  <1>8. Only(d, e, {"policies"}) /\ e.policies = d.policies \cup {row}
    BY <1>0, <1>7, Zenon DEF Insert, Returning, Only
  <1>9. Good(d, e, row.tenant_id, N)
    BY <1>4, <1>5, <1>6, <1>8, PolicyInsert
  <1> QED
    BY <1>5, <1>9 DEF row, e

(* policies update, when it succeeds on a validated body, is such an UPDATE. *)
LEMMA PolicyUpdated ==
  ASSUME NEW d, NEW N, Ready(d, N), NEW tenant, NEW id, NEW body, UpdatePolicyRequest(body),
         ValidPolicy(body), policies_update(d, tenant, id, body).error = "none"
  PROVE  Good(d, policies_update(d, tenant, id, body).db, tenant, N)
  <1> DEFINE result == policies_update(d, tenant, id, body)
             e == result.db
             old == CHOOSE r \in Policy(d, tenant, id) : TRUE
             new == Coalesce(body, old)
  <1>0. Schema(d) /\ Sound(d) /\ "policies" \in DOMAIN d
    BY ReadyTables, Zenon
  <1>2. result = Update(d, "policies", Policy(d, tenant, id), body) /\ result.error = "none"
    BY DEF policies_update
  <1> HIDE DEF result
  <1>3. Policy(d, tenant, id) # {}
    BY <1>2 DEF Update, Err
  <1>4. old \in d.policies /\ old.tenant_id = tenant
    BY <1>3 DEF Policy
  <1>5. result.db = [d EXCEPT !["policies"] = (@ \ {old}) \cup {new}]
    BY <1>2, <1>3 DEF Update, Returning
  <1> HIDE DEF old
  <1>6. DOMAIN old = {"id", "tenant_id", "name"} \cup PolicyOptions
    BY <1>0, <1>4, PolicyRows, Zenon
  <1>7. Kept(old, new, {"id", "tenant_id"})
    BY <1>6, CoalesceKeeps DEF UpdatePolicyRequest, Decodes, PolicyOptions
  <1>8. Mergeable(new)
    <2>1. Mergeable(old)
      BY <1>0, <1>4 DEF Sound, PoliciesSound
    <2> QED
      BY <1>6, <2>1, MergeableKept DEF PolicyOptions
  <1> HIDE DEF new
  <1>9. Only(d, e, {"policies"}) /\ e.policies = (d.policies \ {old}) \cup {new}
    BY <1>0, <1>5, Zenon DEF Only
  <1> HIDE DEF e
  <1>10. Good(d, e, old.tenant_id, N)
    BY <1>4, <1>7, <1>8, <1>9, PolicyUpdate
  <1> QED
    BY <1>4, <1>10 DEF e, result

(* policies delete, when it succeeds, is such a DELETE.                      *)
LEMMA PolicyDeleted ==
  ASSUME NEW d, NEW N, Ready(d, N), NEW tenant, NEW id, policies_delete(d, tenant, id).error = "none"
  PROVE  Good(d, policies_delete(d, tenant, id).db, tenant, N)
  <1> DEFINE e == policies_delete(d, tenant, id).db
  <1>0. DOMAIN d = {"tenants", "accounts", "keys", "policies", "bindings", "routes"}
    BY ReadyTables, Zenon
  <1>1. Policy(d, tenant, id) # {}
    BY DEF policies_delete, Err
  <1>2. e = [d EXCEPT !.policies = @ \ Policy(d, tenant, id),
                      !.bindings = {b \in @ : b.policy_id # id},
                      !.accounts = {Cleared(a, id) : a \in @}]
    BY <1>1 DEF policies_delete, Returning, Cleared
  <1> HIDE DEF e
  <1>3. /\ Only(d, e, {"policies", "bindings", "accounts"})
        /\ e.policies = d.policies \ Policy(d, tenant, id)
        /\ e.bindings = {b \in d.bindings : b.policy_id # id}
        /\ e.accounts = {Cleared(a, id) : a \in d.accounts}
    BY <1>0, <1>2, Zenon DEF Only
  <1> QED
    BY <1>1, <1>3, PolicyDelete DEF e

(* create_binding, when it succeeds, is such an INSERT: the foreign keys     *)
(* refuse an account or a policy that is not there.                          *)
LEMMA BindingCreated ==
  ASSUME NEW d, NEW N, Ready(d, N), NEW account, NEW policy,
         create_binding(d, account, policy).error = "none"
  PROVE  Good(d, create_binding(d, account, policy).db, None, N)
  <1> DEFINE row == [service_account_id |-> account, policy_id |-> policy]
             e == create_binding(d, account, policy).db
  <1>0. "bindings" \in DOMAIN d
    BY ReadyTables, Zenon
  <1>1. DOMAIN row = TableColumns["bindings"] /\ row.service_account_id = account /\ row.policy_id = policy
    BY DEF TableColumns
  <1>2. row \notin d.bindings /\ account \in Ids(d.accounts) /\ policy \in Ids(d.policies)
    BY DEF create_binding, Err
  <1>3. e = Insert(d, "bindings", row).db
    BY <1>2 DEF create_binding
  <1> HIDE DEF row, e
  <1>4. Only(d, e, {"bindings"}) /\ e.bindings = d.bindings \cup {row}
    BY <1>0, <1>3, Zenon DEF Insert, Returning, Only
  <1> QED
    BY <1>1, <1>2, <1>4, BindingInsert DEF e

(* delete_binding, when it succeeds, is such a DELETE.                       *)
LEMMA BindingDeleted ==
  ASSUME NEW d, NEW N, Ready(d, N), NEW account, NEW policy,
         delete_binding(d, account, policy).error = "none"
  PROVE  Good(d, delete_binding(d, account, policy).db, None, N)
  <1> DEFINE row == [service_account_id |-> account, policy_id |-> policy]
             e == delete_binding(d, account, policy).db
  <1>0. "bindings" \in DOMAIN d
    BY ReadyTables, Zenon
  <1>1. e = [d EXCEPT !.bindings = @ \ {row}]
    BY DEF delete_binding, Err, Returning
  <1> HIDE DEF row, e
  <1>2. Only(d, e, {"bindings"}) /\ e.bindings \subseteq d.bindings
    BY <1>0, <1>1, Zenon DEF Only
  <1> QED
    BY <1>2, BindingDelete DEF e

(* routes create, when it succeeds on a validated body, is such an INSERT.   *)
LEMMA RouteCreated ==
  ASSUME NEW d, NEW N, Ready(d, N), NEW tenant, NEW body, CreateRouteRequest(body), ValidRouteBody(body),
         routes_create(d, RouteRow(N, tenant, body)).error = "none"
  PROVE  Good(d, routes_create(d, RouteRow(N, tenant, body)).db, tenant, N)
  <1> DEFINE defaults == [id |-> N, tenant_id |-> tenant, priority |-> 100, enabled |-> TRUE,
                          timeout_ms |-> 30000, max_retries |-> 1, retry_backoff_ms |-> 250]
             row == RouteRow(N, tenant, body)
             e == routes_create(d, row).db
  <1>0. "routes" \in DOMAIN d
    BY ReadyTables, Zenon
  <1>1. DOMAIN defaults = {"id", "tenant_id"} \cup RouteOptions /\ defaults.tenant_id = tenant
    BY SMT DEF RouteOptions
  <1>2. row = Coalesce(body, defaults)
    BY SMT DEF RouteRow
  <1> HIDE DEF row, defaults
  <1>3. RouteNames \subseteq DOMAIN body /\ DOMAIN body \subseteq RouteNames \cup RouteOptions
    BY Zenon DEF CreateRouteRequest, Decodes
  <1>4. DOMAIN row = {"id", "tenant_id"} \cup RouteNames \cup RouteOptions
    BY <1>1, <1>2, <1>3 DEF Coalesce
  <1>5. "provider" \in DOMAIN body /\ "tenant_id" \notin DOMAIN body
    BY <1>3 DEF RouteNames, RouteOptions
  <1>6. row.tenant_id = tenant /\ row.provider = body.provider
    BY <1>1, <1>2, <1>5, CoalesceColumn
  <1>7. row.provider \in Provider
    BY <1>5, <1>6, Zenon DEF ValidRouteBody, Valid, validate_provider, parse_enum_str
  <1>8. row.tenant_id \in Ids(d.tenants) \cup {None}
    BY DEF routes_create, Err, row
  <1>9. e = Insert(d, "routes", row).db
    BY <1>8 DEF routes_create
  <1> HIDE DEF e
  <1>10. Only(d, e, {"routes"}) /\ e.routes = d.routes \cup {row}
    BY <1>0, <1>9, Zenon DEF Insert, Returning, Only
  <1>11. DOMAIN row = TableColumns["routes"]
    BY <1>4 DEF TableColumns
  <1>12. Good(d, e, row.tenant_id, N)
    BY <1>7, <1>8, <1>10, <1>11, RouteInsert, Zenon
  <1> QED
    BY <1>6, <1>12, Zenon DEF row, e

(* routes update, when it succeeds on a validated body, is such an UPDATE;   *)
(* it is in the name of the tenant of the row it returns.                    *)
LEMMA RouteUpdated ==
  ASSUME NEW d, NEW N, Ready(d, N), NEW id, NEW body, UpdateRouteRequest(body), ValidRouteBody(body),
         routes_update(d, id, body).error = "none"
  PROVE  Good(d, routes_update(d, id, body).db, routes_update(d, id, body).row.tenant_id, N)
  <1> DEFINE S == {r \in d.routes : r.id = id}
             result == routes_update(d, id, body)
             e == result.db
             old == CHOOSE r \in S : TRUE
             new == Coalesce(body, old)
  <1>0. Schema(d) /\ Sound(d) /\ "routes" \in DOMAIN d
    BY ReadyTables, Zenon
  <1>1. result = Update(d, "routes", S, body) /\ result.error = "none"
    BY DEF routes_update
  <1> HIDE DEF S, result
  <1>2. S # {}
    BY <1>1 DEF Update, Err
  <1>3. old \in d.routes
    BY <1>2 DEF S
  <1>4. result.db = [d EXCEPT !["routes"] = (@ \ {old}) \cup {new}] /\ result.row = new
    BY <1>1, <1>2 DEF Update, Returning
  <1> HIDE DEF old
  <1>5. DOMAIN old = {"id", "tenant_id"} \cup RouteNames \cup RouteOptions
    BY <1>0, <1>3, RouteRows, Zenon
  <1>6. DOMAIN body \subseteq RouteNames \cup RouteOptions
    BY Zenon DEF UpdateRouteRequest, Decodes
  <1>7. Kept(old, new, {"tenant_id"})
    BY <1>5, <1>6, CoalesceKeeps DEF RouteNames, RouteOptions
  <1>8. new.provider = IF "provider" \in DOMAIN body THEN body.provider ELSE old.provider
    BY <1>5, CoalesceColumn DEF RouteNames
  <1> HIDE DEF new
  <1>9. old.provider \in Provider
    BY <1>0, <1>3, Zenon DEF Sound, RoutesSound
  <1>10. new.provider \in Provider
    BY <1>8, <1>9, Zenon DEF ValidRouteBody, Valid, validate_provider, parse_enum_str
  <1>11. Only(d, e, {"routes"}) /\ e.routes = (d.routes \ {old}) \cup {new}
    BY <1>0, <1>4, Zenon DEF Only
  <1> HIDE DEF e
  <1>12. Good(d, e, old.tenant_id, N)
    BY <1>3, <1>7, <1>10, <1>11, RouteUpdate, Zenon
  <1>13. old.tenant_id = result.row.tenant_id
    BY <1>4, <1>7 DEF Kept
  <1> QED
    BY <1>12, <1>13, Zenon DEF e, result

(* routes delete, when it succeeds, is such a DELETE.                        *)
LEMMA RouteDeleted ==
  ASSUME NEW d, NEW N, Ready(d, N), NEW id, routes_delete(d, id).error = "none"
  PROVE  Good(d, routes_delete(d, id).db, None, N)
  <1> DEFINE e == routes_delete(d, id).db
             T == {r \in d.routes : r.id # id}
  <1>0. "routes" \in DOMAIN d
    BY ReadyTables, Zenon
  <1>1. e = [d EXCEPT !.routes = T]
    BY DEF routes_delete, Err, Returning
  <1>2. T \subseteq d.routes
    OBVIOUS
  <1> HIDE DEF e, T
  <1>3. Only(d, e, {"routes"}) /\ e.routes \subseteq d.routes
    BY <1>0, <1>1, <1>2, Zenon DEF Only
  <1> QED
    BY <1>3, RouteDelete, Zenon DEF e
====
