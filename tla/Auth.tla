-------------------------------- MODULE Auth --------------------------------
(***************************************************************************)
(* auth_middleware: what a data-plane request passes through before its    *)
(* handler runs, step by step, with other requests in between and with     *)
(* admins revoking the key, suspending the account or deleting the tenant. *)
(*                                                                         *)
(* Source: auth/middleware.rs, nonce.rs, canonical.rs, verifier.rs,        *)
(* get_with_tenant_status and set_nx_ex.  A request carries a message: its *)
(* headers, and the method, path and body that its handler would see.  A   *)
(* signature is the string it was made over, and the key's if that is one  *)
(* of Signed.  The key store is used through what module KeyStore shows of *)
(* it: a revoked key is answered as active for less than KeyBound.         *)
(***************************************************************************)
EXTENDS Integers

CONSTANTS Requests, Msg, Nonces,
          Signed,     \* canonical strings the holder of the key has signed
          Owner,      \* the id of the service account the key belongs to
          Skew,       \* timestamp_skew_secs, also the life of a nonce
          KeyBound,   \* L1_TTL + L2_TTL and the delay of a lookup
          ExpiresAt,  \* the key's expires_at
          Horizon,    \* bound: clock
          Never

ASSUME AuthAssumption ==
    /\ \A r \in Requests : Msg[r].timestamp \in Int /\ Msg[r].nonce \in Nonces
    /\ Skew \in Nat /\ KeyBound \in Nat \ {0} /\ ExpiresAt \in Nat
    /\ Horizon \in Nat /\ Never \notin Int

(* headers is the set of those that are there and are ASCII. *)
AuthHeaders == {"x-service-account-id", "x-key-id", "x-timestamp", "x-nonce", "x-body-sha256", "x-signature"}
extract_auth_headers(m) == AuthHeaders \subseteq m.headers

(* SHA-256 in hex: two bodies of one hash do not turn up. *)
compute_body_hash(body) == <<"sha256", body>>
verify_body_hash(m) == compute_body_hash(m.body) = m.body_hash

validate_nonce_length(m) == m.nonce_len \in 16..64

(* None of the fields holds a line break, so the string tells them apart.  *)
build_canonical_string(m) == <<m.method, m.path, m.timestamp, m.nonce, m.body_hash>>
verify_signature(m) == m.signature = build_canonical_string(m) /\ m.signature \in Signed

Wellformed(r) == extract_auth_headers(Msg[r]) /\ verify_body_hash(Msg[r]) /\ validate_nonce_length(Msg[r])
Verified(r) == verify_signature(Msg[r])
Claimed(r) == Msg[r].service_account_id = Owner

VARIABLES
    now,
    revoked,    \* when the key was revoked, or Never
    account, tenant,  \* whether the rows are active
    stored,     \* per nonce: when its Redis key expires
    pc,
    arrived,    \* history: when the request came in
    active,     \* history: account and tenant were both active at some time since
    admitted,   \* history: when the request was passed on, or Never
    touch,      \* update_last_used tasks that are still to run
    last_used

db == <<revoked, account, tenant>>
vars == <<now, revoked, account, tenant, stored, pc, arrived, active, admitted, touch, last_used>>

Init ==
    /\ now = 0 /\ revoked = Never /\ account = TRUE /\ tenant = TRUE
    /\ stored = [n \in Nonces |-> 0]
    /\ pc = [r \in Requests |-> "new"]
    /\ arrived = [r \in Requests |-> Never] /\ active = [r \in Requests |-> FALSE]
    /\ admitted = [r \in Requests |-> Never]
    /\ touch = {} /\ last_used = Never

Goto(r, l) == pc' = [pc EXCEPT ![r] = l]
Step(r, from, ok, to) == pc[r] = from /\ Goto(r, IF ok THEN to ELSE "rejected")

validate_timestamp(r) == now - Msg[r].timestamp =< Skew /\ Msg[r].timestamp - now =< Skew

(* Steps 1 to 3: headers, body hash, timestamp window, nonce length. *)
Receive(r) ==
    /\ Step(r, "new", Wellformed(r) /\ validate_timestamp(r), "key")
    /\ arrived' = [arrived EXCEPT ![r] = now]
    /\ active' = [active EXCEPT ![r] = account /\ tenant]
    /\ UNCHANGED <<now, stored, admitted, touch, last_used>> /\ UNCHANGED db

(* verify_key: what the key store may answer. *)
SeenActive == IF revoked = Never THEN {TRUE}
              ELSE IF now - revoked < KeyBound THEN BOOLEAN ELSE {FALSE}

LookupKey(r) ==
    /\ \E seen \in SeenActive : Step(r, "key", seen /\ now =< ExpiresAt, "account")
    /\ UNCHANGED <<now, stored, arrived, active, admitted, touch, last_used>> /\ UNCHANGED db

(* One query reads the statuses of both rows. *)
get_with_tenant_status == account /\ tenant

(* Mutant of AccountOK: the tenant's status is not looked at. *)
AccountOKNoTenant(r) == account /\ Claimed(r)
(* verify_service_account and the claimed id. *)
AccountOK(r) == get_with_tenant_status /\ Claimed(r)

LookupAccount(r) ==
    /\ Step(r, "account", AccountOK(r), "signature")
    /\ UNCHANGED <<now, stored, arrived, active, admitted, touch, last_used>> /\ UNCHANGED db

(* Mutant of Verify: the nonce is taken before the signature is checked. *)
VerifyAfterNonce(r) ==
    /\ Step(r, "signature", Verified(r), "nonce")
    /\ stored' = [stored EXCEPT ![Msg[r].nonce] = now + Skew]
    /\ UNCHANGED <<now, arrived, active, admitted, touch, last_used>> /\ UNCHANGED db

Verify(r) ==
    /\ Step(r, "signature", Verified(r), "nonce")
    /\ UNCHANGED <<now, stored, arrived, active, admitted, touch, last_used>> /\ UNCHANGED db

Fresh(r) == stored[Msg[r].nonce] =< now

(* Mutant of CheckNonce: SET without NX. *)
CheckNonceOverwrites(r) ==
    /\ Step(r, "nonce", TRUE, "admitted")
    /\ stored' = [stored EXCEPT ![Msg[r].nonce] = now + Skew]
    /\ admitted' = [admitted EXCEPT ![r] = now]
    /\ touch' = touch \cup {r}
    /\ UNCHANGED <<now, arrived, active, last_used>> /\ UNCHANGED db

(* SET NX EX; the request goes on and the last_used_at task is spawned. *)
CheckNonce(r) ==
    /\ Step(r, "nonce", Fresh(r), "admitted")
    /\ stored' = [stored EXCEPT ![Msg[r].nonce] = IF Fresh(r) THEN now + Skew ELSE @]
    /\ admitted' = [admitted EXCEPT ![r] = IF Fresh(r) THEN now ELSE Never]
    /\ touch' = IF Fresh(r) THEN touch \cup {r} ELSE touch
    /\ UNCHANGED <<now, arrived, active, last_used>> /\ UNCHANGED db

(* The Redis command fails, before or after it has taken effect. *)
CheckNonceFails(r) ==
    /\ Step(r, "nonce", FALSE, "admitted")
    /\ \E set \in {FALSE, Fresh(r)} :
          stored' = [stored EXCEPT ![Msg[r].nonce] = IF set THEN now + Skew ELSE @]
    /\ UNCHANGED <<now, arrived, active, admitted, touch, last_used>> /\ UNCHANGED db

(* A lookup fails, or the client disconnects. *)
Abandon(r) ==
    /\ pc[r] \in {"key", "account", "signature", "nonce"}
    /\ Goto(r, "rejected")
    /\ UNCHANGED <<now, stored, arrived, active, admitted, touch, last_used>> /\ UNCHANGED db

Touch(r) ==
    /\ r \in touch
    /\ touch' = touch \ {r}
    /\ last_used' \in {now, last_used}
    /\ UNCHANGED <<now, stored, pc, arrived, active, admitted>> /\ UNCHANGED db
-----------------------------------------------------------------------------
(* The admin API on the rows a request depends on. *)
Admin ==
    /\ \/ revoked = Never /\ revoked' = now /\ UNCHANGED <<account, tenant>>
       \/ account' = ~account /\ UNCHANGED <<revoked, tenant>>
       \/ tenant /\ tenant' = FALSE /\ account' = FALSE /\ UNCHANGED revoked
    /\ active' = [r \in Requests |-> active[r] \/ (arrived[r] # Never /\ account' /\ tenant')]
    /\ UNCHANGED <<now, stored, pc, arrived, admitted, touch, last_used>>

Tick ==
    /\ now < Horizon /\ now' = now + 1
    /\ UNCHANGED <<stored, pc, arrived, active, admitted, touch, last_used>> /\ UNCHANGED db

Next ==
    \/ \E r \in Requests :
          \/ Receive(r) \/ LookupKey(r) \/ LookupAccount(r) \/ Verify(r)
          \/ CheckNonce(r) \/ CheckNonceFails(r) \/ Abandon(r) \/ Touch(r)
    \/ Admin \/ Tick

Spec == Init /\ [][Next]_vars
-----------------------------------------------------------------------------
TypeOK ==
    /\ now \in 0..Horizon /\ account \in BOOLEAN /\ tenant \in BOOLEAN
    /\ revoked \in 0..now \cup {Never}
    /\ stored \in [Nonces -> 0..(now + Skew)]
    /\ pc \in [Requests -> {"new", "key", "account", "signature", "nonce", "admitted", "rejected"}]
    /\ arrived \in [Requests -> 0..now \cup {Never}]
    /\ active \in [Requests -> BOOLEAN]
    /\ admitted \in [Requests -> 0..now \cup {Never}]
    /\ last_used \in 0..now \cup {Never}
    /\ \A r \in Requests : admitted[r] = Never <=> pc[r] # "admitted"
    /\ touch \subseteq {r \in Requests : admitted[r] # Never}

(* What the nonce check is worth, whatever copies of a message race        *)
(* through the pipeline on whatever instances.  A nonce passes again only  *)
(* when the one left in Redis is gone, Skew after it was stored.  The      *)
(* timestamp is good for Skew to either side, so that alone does not rule  *)
(* out a second admission inside the window.  It takes a first one that    *)
(* came no later than the timestamp, or a second one that was held up      *)
(* between validate_timestamp and check_nonce for at least the difference. *)
RepeatedOnlyEarly ==
    \A r, s \in Requests :
        /\ r # s /\ Msg[r].nonce = Msg[s].nonce
        /\ admitted[r] # Never /\ admitted[s] # Never /\ admitted[r] =< admitted[s]
        => /\ admitted[s] - admitted[r] >= Skew
           /\ admitted[s] - arrived[s] >= admitted[r] - Msg[s].timestamp

(* A message that did not pass every check takes no nonce and leaves no    *)
(* last_used_at: what it carries cannot get in the way of a good request.  *)
OnlyVerifiedLeaveTraces ==
    /\ \A n \in Nonces : stored[n] > 0 =>
          \E r \in Requests : /\ Msg[r].nonce = n /\ pc[r] \in {"admitted", "rejected"}
                              /\ Wellformed(r) /\ Verified(r) /\ Claimed(r)
    /\ last_used # Never => \E r \in Requests : admitted[r] # Never

(* A request is not admitted when it comes in after the key expired, or    *)
(* KeyBound or more after it was revoked, or when the account and its      *)
(* tenant are at no time during its life both active; and the method, path *)
(* and body the handler sees are those the key's holder signed.            *)
AdmittedWasEntitled ==
    \A r \in Requests : admitted[r] # Never =>
        /\ <<Msg[r].method, Msg[r].path, Msg[r].timestamp, Msg[r].nonce, compute_body_hash(Msg[r].body)>> \in Signed
        /\ active[r] /\ arrived[r] =< ExpiresAt
        /\ revoked = Never \/ arrived[r] - revoked < KeyBound
=============================================================================
