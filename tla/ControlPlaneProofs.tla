---- MODULE ControlPlaneProofs ----
(* The admin API keeps its promises: the proofs that its answers tell the    *)
(* truth, that its audit trail accounts for every operation, that the rows   *)
(* it leaves are sound, that nothing comes back, and that a tenant's         *)
(* handlers touch that tenant only, for every set of clients, requests and   *)
(* sound starting databases.                                                 *)
EXTENDS ControlPlane, TablesProofs

USE SMTT(20), Zenon, Z3T(20)

-----------------------------------------------------------------------------
(* Where each committed operation is, and who performed it.                  *)

(* committed is a sequence, of whatever its elements are. *)
IsSequence(s) == s \in Seq({s[i] : i \in DOMAIN s})

(* Append to a sequence, whatever the set its elements are from.             *)
LEMMA Appended ==
  ASSUME NEW s, IsSequence(s), NEW e
  PROVE  /\ IsSequence(Append(s, e))
         /\ Len(s) \in Nat /\ DOMAIN s = 1..Len(s)
         /\ Len(Append(s, e)) = Len(s) + 1 /\ DOMAIN Append(s, e) = 1..(Len(s) + 1)
         /\ Append(s, e)[Len(s) + 1] = e
         /\ \A i \in 1..Len(s) : Append(s, e)[i] = s[i]
  <1> DEFINE S == {s[i] : i \in DOMAIN s} \cup {e}
             t == Append(s, e)
             T == {t[i] : i \in DOMAIN t}
  <1>1. s \in Seq(S)
    BY DEF IsSequence
  <1>2. /\ Len(s) \in Nat /\ DOMAIN s = 1..Len(s)
        /\ t \in Seq(S)
        /\ Len(t) = Len(s) + 1 /\ DOMAIN t = 1..(Len(s) + 1)
        /\ t[Len(s) + 1] = e
        /\ \A i \in 1..Len(s) : t[i] = s[i]
    <2> HIDE DEF S
    <2> QED
      BY <1>1, e \in S DEF S
  <1>3. t \in Seq(T)
    <2> HIDE DEF S
    <2>1. \A i \in 1..Len(t) : t[i] \in T
      BY <1>2
    <2> HIDE DEF T
    <2> QED
      BY <1>2, <2>1
  <1> QED
    BY <1>2, <1>3 DEF IsSequence

(* The operations whose handlers are still to answer. *)
Held == {client[c].op : c \in Clients} \ {0}

(* The operations that have their event. *)
Logged == {n \in 1..MaxOps : log[n] > 0}

(* What a handler can be at; no two hold one operation. *)
Handlers ==
    /\ IsSequence(committed) /\ Len(committed) =< MaxOps /\ DOMAIN client = Clients
    /\ \A c \in Clients :
          /\ client[c].op \in 0..Len(committed)
          /\ client[c].op # 0 <=> client[c].pc = "committed"
          /\ client[c].pc = "tx" => Role[c] = "admin"
    /\ \A c, d \in Clients : client[c].op # 0 /\ client[c].op = client[d].op => c = d

(* Every operation is in exactly one place. *)
Trail ==
    /\ log \in [1..MaxOps -> 0..1]
    /\ Ops = Logged \cup tasks \cup lost \cup Held
    /\ Logged \cap tasks = {} /\ Logged \cap lost = {} /\ Logged \cap Held = {}
    /\ tasks \cap lost = {} /\ tasks \cap Held = {} /\ lost \cap Held = {}

ByAdmins == \A n \in Ops : Role[committed[n].actor] = "admin"

Told ==
    /\ answer.op \in 0..Len(committed)
    /\ answer.status \in 400..499 => answer.op = 0

TrailInv == Handlers /\ Trail /\ ByAdmins /\ Told

(* The gateway starts with nothing committed, nobody answering and an empty  *)
(* audit log.                                                                *)
LEMMA InitTrail == ApiInit => TrailInv
  <1> SUFFICES ASSUME ApiInit PROVE TrailInv
    OBVIOUS
  <1>1. Handlers
    BY ControlPlaneAssumption DEF ApiInit, Handlers, IsSequence, Idle, State
  <1>2. Held = {} /\ Ops = {} /\ Logged = {}
    BY DEF ApiInit, Held, Ops, Idle, State, Logged
  <1>3. Trail /\ ByAdmins
    BY <1>2 DEF Trail, ByAdmins, ApiInit
  <1>4. Told
    BY DEF ApiInit, Told, NoAnswer, Response
  <1> QED
    BY <1>1, <1>3, <1>4 DEF TrailInv

(* An idle handler holds no operation and no transaction.                    *)
LEMMA IdleState == Idle.op = 0 /\ Idle.pc = "idle"
  BY DEF Idle, State

(* A step that replaces the state of one handler lets go of the operation it *)
(* held and takes the one it holds next.                                     *)
LEMMA Replaced ==
  ASSUME Handlers, NEW c \in Clients, NEW x, client' = [client EXCEPT ![c] = x]
  PROVE  /\ client'[c] = x /\ \A d \in Clients \ {c} : client'[d] = client[d]
         /\ DOMAIN client' = Clients
         /\ Held' = (Held \ {client[c].op}) \cup ({x.op} \ {0})
  <1>1. /\ client'[c] = x /\ \A d \in Clients \ {c} : client'[d] = client[d]
        /\ DOMAIN client' = Clients
    BY DEF Handlers
  <1>2. \A n : n \in Held' <=> n \in (Held \ {client[c].op}) \cup ({x.op} \ {0})
    BY <1>1 DEF Held, Handlers
  <1> QED
    BY <1>1, <1>2

(* A request and the handler it is routed to. *)
Handler(c, q) ==
    \/ q.op = "get_tenant" /\ GetTenant(c, q)
    \/ q.op = "get_service_account" /\ GetAccount(c, q)
    \/ q.op = "get_policy" /\ GetPolicy(c, q)
    \/ q.op = "get_route" /\ GetRoute(c, q)
    \/ q.op = "create_tenant" /\ CreateTenant(c, q)
    \/ q.op = "update_tenant" /\ UpdateTenant(c, q)
    \/ q.op = "delete_tenant" /\ (DeleteTenantBegin(c, q) \/ DeleteTenantEnd(c, q))
    \/ q.op = "create_service_account" /\ CreateAccount(c, q)
    \/ q.op = "update_service_account" /\ UpdateAccount(c, q)
    \/ q.op = "suspend_service_account" /\ SuspendAccount(c, q)
    \/ q.op = "activate_service_account" /\ ActivateAccount(c, q)
    \/ q.op = "register_key" /\ RegisterKey(c, q)
    \/ q.op = "revoke_key" /\ RevokeKey(c, q)
    \/ q.op = "create_policy" /\ CreatePolicy(c, q)
    \/ q.op = "update_policy" /\ UpdatePolicy(c, q)
    \/ q.op = "delete_policy" /\ DeletePolicy(c, q)
    \/ q.op = "create_binding" /\ CreateBinding(c, q)
    \/ q.op = "delete_binding" /\ DeleteBinding(c, q)
    \/ q.op = "create_route" /\ CreateRoute(c, q)
    \/ q.op = "update_route" /\ UpdateRoute(c, q)
    \/ q.op = "delete_route" /\ DeleteRoute(c, q)

(* What a client's handler does, it does for a request that is routed to it. *)
LEMMA Dispatched ==
  ASSUME NEW c \in Clients, Handle(c)
  PROVE  \E q \in Requests : Handler(c, q)
  BY Zenon DEF Handle, Handler, Routed

(* What a step of a handler comes to, but for the tables. *)
Silent(c) ==
    /\ answer'.op = 0
    /\ client[c].op = 0 /\ (client' = client \/ client' = [client EXCEPT ![c] = Idle])
    /\ UNCHANGED <<committed, tasks, log, lost>>

Begins(c) ==
    /\ Role[c] = "admin" /\ client[c].op = 0
    /\ answer' = NoAnswer /\ UNCHANGED <<db, committed, tasks, log, lost>>
    /\ \E t : client' = [client EXCEPT ![c] = State("tx", 0, Ids(Cascade(db, t)), t)]

Performs(c, q) ==
    /\ Role[c] = "admin" /\ client[c].op = 0 /\ Len(committed) < MaxOps
    /\ \E d, t : Commits(c, q, d, t) \/ ReplyLost(c, q, d, t)

(* A handler that writes refuses, and then has changed nothing and told no   *)
(* operation, or performs its operation as an admin.                         *)
LEMMA WriteShape ==
  ASSUME Handlers, NEW c \in Clients, NEW q \in Requests, NEW valid, NEW result, NEW tenant,
         Write(c, q, valid, result, tenant)
  PROVE  Silent(c) \/ Performs(c, q)
  <1>1. client[c].op = 0 /\ Len(committed) < MaxOps
    BY DEF Write, MayBegin, Handlers
  <1>2. ASSUME NEW s, Refused(c, s) PROVE Silent(c)
    BY <1>1, <1>2 DEF Refused, Silent, Tell, Response
  <1> QED
    BY <1>1, <1>2 DEF Write, Performs

(* A handler that reads performs nothing.                                    *)
LEMMA ReadShape ==
  ASSUME Handlers, NEW c \in Clients, NEW q \in Requests, NEW result,
         Read(c, q, result)
  PROVE  Silent(c)
  BY DEF Read, Silent, Response, Handlers

(* Each of the admin handlers refuses or reads, opens the transaction of a   *)
(* tenant's deletion, or performs an operation.                              *)
LEMMA HandlerShape ==
  ASSUME Handlers, NEW c \in Clients, NEW q \in Requests, Handler(c, q)
  PROVE  Silent(c) \/ Begins(c) \/ Performs(c, q)
  <1>1. CASE GetTenant(c, q) \/ GetAccount(c, q) \/ GetPolicy(c, q) \/ GetRoute(c, q)
    BY <1>1, ReadShape DEF GetTenant, GetAccount, GetPolicy, GetRoute
  <1>2. CASE CreateTenant(c, q) \/ UpdateTenant(c, q)
    BY <1>2, WriteShape, Zenon DEF CreateTenant, UpdateTenant
  <1>3. CASE DeleteTenantBegin(c, q)
    BY <1>3 DEF DeleteTenantBegin, MayBegin, Handlers, Refused, Tell, Silent, Begins, Response
  <1>4. CASE DeleteTenantEnd(c, q)
    <2>1. client[c].op = 0 /\ Role[c] = "admin" /\ Len(committed) < MaxOps
      BY <1>4 DEF DeleteTenantEnd, Handlers
    <2>2. ASSUME NEW s, Refused(c, s) PROVE Silent(c)
      BY <2>1, <2>2 DEF Refused, Silent, Tell, Response
    <2> QED
      BY <1>4, <2>1, <2>2 DEF DeleteTenantEnd, Performs
  <1>5. CASE CreateAccount(c, q) \/ UpdateAccount(c, q) \/ SuspendAccount(c, q) \/ ActivateAccount(c, q)
    BY <1>5, WriteShape, Zenon DEF CreateAccount, UpdateAccount, SuspendAccount, ActivateAccount
  <1>6. CASE RegisterKey(c, q) \/ RevokeKey(c, q)
    BY <1>6, WriteShape, Zenon DEF RegisterKey, RevokeKey
  <1>7. CASE CreatePolicy(c, q) \/ UpdatePolicy(c, q) \/ DeletePolicy(c, q)
    BY <1>7, WriteShape, Zenon DEF CreatePolicy, UpdatePolicy, DeletePolicy
  <1>8. CASE CreateBinding(c, q) \/ DeleteBinding(c, q)
    BY <1>8, WriteShape, Zenon DEF CreateBinding, DeleteBinding
  <1>9. CASE CreateRoute(c, q) \/ UpdateRoute(c, q) \/ DeleteRoute(c, q)
    BY <1>9, WriteShape, Zenon DEF CreateRoute, UpdateRoute, DeleteRoute
  <1> QED
    BY <1>1, <1>2, <1>3, <1>4, <1>5, <1>6, <1>7, <1>8, <1>9 DEF Handler

(* A handler is left alone, or replaced by one that holds no operation:      *)
(* every operation stays where it is.                                        *)
LEMMA SilentStep ==
  ASSUME TrailInv, NEW c \in Clients, NEW x, client[c].op = 0, x.op = 0, x.pc # "committed",
         x.pc = "tx" => Role[c] = "admin",
         client' = client \/ client' = [client EXCEPT ![c] = x],
         UNCHANGED <<committed, tasks, log, lost>>
  PROVE  Handlers' /\ Trail' /\ ByAdmins'
  <1>1. CASE client' = client
    BY <1>1 DEF TrailInv, Handlers, Trail, ByAdmins, Held, Ops, Logged
  <1>2. CASE client' = [client EXCEPT ![c] = x]
    <2>1. /\ client'[c] = x /\ \A d \in Clients \ {c} : client'[d] = client[d]
          /\ DOMAIN client' = Clients
          /\ Held' = (Held \ {0}) \cup ({0} \ {0})
      BY <1>2, Replaced, Zenon DEF TrailInv
    <2>2. Held' = Held /\ Logged' = Logged
      BY <2>1 DEF Held, Logged
    <2>3. Handlers'
      BY <2>1 DEF TrailInv, Handlers
    <2> QED
      BY <2>2, <2>3 DEF TrailInv, Trail, ByAdmins, Ops
  <1> QED
    BY <1>1, <1>2

(* A handler that performs an operation puts it in one place: in its own     *)
(* hands if it knows of the commit, among the lost ones if the reply of the  *)
(* database did not come.                                                    *)
LEMMA PerformStep ==
  ASSUME TrailInv, NEW c \in Clients, NEW q \in Requests, Performs(c, q)
  PROVE  TrailInv'
  <1> DEFINE N == Len(committed) + 1
  <1>0. Handlers /\ client[c].op = 0 /\ Len(committed) < MaxOps /\ MaxOps \in Nat
    BY ControlPlaneAssumption DEF TrailInv, Performs
  <1>1. PICK d, t : Commits(c, q, d, t) \/ ReplyLost(c, q, d, t)
    BY DEF Performs
  <1>2. committed' = Append(committed, Event(c, q, t))
    BY <1>1 DEF Commits, ReplyLost
  <1>3. /\ IsSequence(committed') /\ Len(committed) \in Nat /\ Ops = 1..Len(committed)
        /\ Len(committed') = N /\ Ops' = 1..N
        /\ committed'[N] = Event(c, q, t)
        /\ \A i \in 1..Len(committed) : committed'[i] = committed[i]
    BY <1>2, Appended DEF TrailInv, Handlers, Ops
  <1>4. ByAdmins'
    BY <1>3 DEF ByAdmins, TrailInv, Performs, Event
  <1>5. Ops' = Ops \cup {N} /\ N \notin Ops
    BY <1>3
  <1>6. CASE Commits(c, q, d, t)
    <2> DEFINE x == State("committed", N, {}, None)
    <2>1. client' = [client EXCEPT ![c] = x] /\ x.op = N /\ x.pc = "committed"
      BY <1>6, <1>3 DEF Commits, State
    <2> HIDE DEF x
    <2>2. /\ client'[c] = x /\ \A b \in Clients \ {c} : client'[b] = client[b]
          /\ DOMAIN client' = Clients
          /\ Held' = (Held \ {client[c].op}) \cup ({x.op} \ {0})
      BY <2>1, <1>0, Replaced, Zenon
    <2>3. Held' = Held \cup {N}
      BY <2>1, <2>2, <1>0, <1>3, N # 0, 0 \notin Held DEF Held
    <2>4. Handlers'
      BY <2>1, <2>2, <1>0, <1>3 DEF Handlers
    <2>5. UNCHANGED <<tasks, log, lost>> /\ answer' = NoAnswer
      BY <1>6 DEF Commits
    <2>8. Logged' = Logged
      BY <2>5 DEF Logged
    <2>6. Trail'
      BY <2>3, <2>5, <2>8, <1>5 DEF TrailInv, Trail
    <2>7. Told'
      BY <2>5, <1>3 DEF Told, NoAnswer, Response
    <2> QED
      BY <2>4, <2>6, <2>7, <1>4 DEF TrailInv
  <1>7. CASE ReplyLost(c, q, d, t)
    <2>1. client' = [client EXCEPT ![c] = Idle]
      BY <1>7 DEF ReplyLost, Tell
    <2>2. /\ client'[c] = Idle /\ \A b \in Clients \ {c} : client'[b] = client[b]
          /\ DOMAIN client' = Clients
          /\ Held' = (Held \ {client[c].op}) \cup ({Idle.op} \ {0})
      BY <2>1, <1>0, Replaced, Zenon
    <2>3. Held' = Held
      BY <2>2, <1>0, IdleState, 0 \notin Held DEF Held
    <2>4. Handlers'
      BY <2>2, <1>0, <1>3, IdleState DEF Handlers
    <2>5. UNCHANGED <<tasks, log>> /\ lost' = lost \cup {N}
      BY <1>7, <1>3 DEF ReplyLost
    <2>9. Logged' = Logged
      BY <2>5 DEF Logged
    <2>6. Trail'
      BY <2>3, <2>5, <2>9, <1>5 DEF TrailInv, Trail
    <2>7. answer' = Response(500, N, None, None)
      BY <1>7, <1>3 DEF ReplyLost, Tell, map_storage_error
    <2>8. Told'
      BY <2>7, <1>3 DEF Told, Response
    <2> QED
      BY <2>4, <2>6, <2>8, <1>4 DEF TrailInv
  <1> QED
    BY <1>1, <1>6, <1>7

(* Every step keeps each operation in exactly one place, admins the only     *)
(* ones to perform them, and what is answered true.                          *)
LEMMA TrailStep == TrailInv /\ [ApiNext]_apiVars => TrailInv'
  <1> SUFFICES ASSUME TrailInv, [ApiNext]_apiVars PROVE TrailInv'
    OBVIOUS
  <1>0. Handlers /\ Len(committed) \in Nat /\ Ops = 1..Len(committed)
    BY Appended DEF TrailInv, Handlers, Ops
  <1>1. ASSUME NEW c \in Clients, NEW q \in Requests, Handler(c, q)
        PROVE  TrailInv'
    <2>1. CASE Silent(c)
      <3>1. Handlers' /\ Trail' /\ ByAdmins'
        BY <2>1, SilentStep, IdleState DEF Silent
      <3>2. Told'
        BY <2>1, <1>0 DEF Silent, Told
      <3> QED
        BY <3>1, <3>2 DEF TrailInv
    <2>2. CASE Begins(c)
      <3>0. PICK t : client' = [client EXCEPT ![c] = State("tx", 0, Ids(Cascade(db, t)), t)]
        BY <2>2, Zenon DEF Begins
      <3> DEFINE x == State("tx", 0, Ids(Cascade(db, t)), t)
      <3>1. client' = [client EXCEPT ![c] = x] /\ x.op = 0 /\ x.pc = "tx"
        BY <3>0 DEF State
      <3> HIDE DEF x
      <3>2. Handlers' /\ Trail' /\ ByAdmins'
        BY <2>2, <3>1, SilentStep, Zenon DEF Begins
      <3>3. Told'
        BY <2>2, <1>0 DEF Begins, Told, NoAnswer, Response
      <3> QED
        BY <3>2, <3>3 DEF TrailInv
    <2>3. CASE Performs(c, q)
      BY <2>3, PerformStep
    <2> QED
      BY <1>1, <2>1, <2>2, <2>3, HandlerShape DEF TrailInv
  <1>2. ASSUME NEW c \in Clients, Respond(c)
        PROVE  TrailInv'
    <2> DEFINE n == client[c].op
    <2>1. client' = [client EXCEPT ![c] = Idle] /\ answer' = Response(200, n, None, None)
      BY <1>2 DEF Respond, Tell
    <2>2. /\ client'[c] = Idle /\ \A b \in Clients \ {c} : client'[b] = client[b]
          /\ DOMAIN client' = Clients
          /\ Held' = (Held \ {n}) \cup ({Idle.op} \ {0})
      BY <2>1, <1>0, Replaced, Zenon
    <2>0. Held' = Held \ {n}
      BY <2>2, IdleState
    <2>3. n \in Held /\ tasks' = tasks \cup {n} /\ UNCHANGED <<committed, log, lost>>
      BY <1>2 DEF Respond, TrailInv, Handlers, Held
    <2>7. Logged' = Logged
      BY <2>3 DEF Logged
    <2>4. Handlers'
      BY <2>2, <2>3, IdleState DEF TrailInv, Handlers
    <2>5. Trail' /\ ByAdmins'
      BY <2>0, <2>3, <2>7 DEF TrailInv, Trail, ByAdmins, Ops
    <2>6. Told'
      BY <2>1, <2>3, <1>0 DEF TrailInv, Handlers, Told, Response
    <2> QED
      BY <2>4, <2>5, <2>6 DEF TrailInv
  <1>3. ASSUME NEW c \in Clients, Cancelled(c)
        PROVE  TrailInv'
    <2> DEFINE n == client[c].op
    <2>1. client' = [client EXCEPT ![c] = Idle] /\ answer' = NoAnswer
      BY <1>3 DEF Cancelled
    <2>2. /\ client'[c] = Idle /\ \A b \in Clients \ {c} : client'[b] = client[b]
          /\ DOMAIN client' = Clients
          /\ Held' = (Held \ {n}) \cup ({Idle.op} \ {0})
      BY <2>1, <1>0, Replaced, Zenon
    <2>0. Held' = Held \ {n}
      BY <2>2, IdleState
    <2>3. lost' = lost \cup ({n} \ {0}) /\ UNCHANGED <<committed, tasks, log>>
      BY <1>3 DEF Cancelled
    <2>8. Logged' = Logged
      BY <2>3 DEF Logged
    <2>4. (n = 0 \/ n \in Held) /\ 0 \notin Held
      BY DEF Held
    <2>5. Handlers'
      BY <2>2, <2>3, IdleState DEF TrailInv, Handlers
    <2>6. Trail' /\ ByAdmins'
      BY <2>0, <2>3, <2>4, <2>8 DEF TrailInv, Trail, ByAdmins, Ops
    <2>7. Told'
      BY <2>1, <2>3, <1>0 DEF Told, NoAnswer, Response
    <2> QED
      BY <2>5, <2>6, <2>7 DEF TrailInv
  <1>4. ASSUME NEW n \in tasks, AuditInsert(n)
        PROVE  TrailInv'
    <2>1. /\ tasks' = tasks \ {n} /\ log' = [log EXCEPT ![n] = @ + 1]
          /\ answer' = NoAnswer /\ UNCHANGED <<client, committed, lost>>
      BY <1>4 DEF AuditInsert
    <2>2. n \notin Logged /\ n \in 1..MaxOps /\ log \in [1..MaxOps -> 0..1]
      BY <1>0, ControlPlaneAssumption DEF TrailInv, Trail, Handlers
    <2>3. Logged' = Logged \cup {n} /\ log' \in [1..MaxOps -> 0..1]
      BY <2>1, <2>2 DEF Logged
    <2>4. Held' = Held /\ Ops' = Ops
      BY <2>1 DEF Held, Ops
    <2>5. Trail'
      BY <2>1, <2>2, <2>3, <2>4 DEF TrailInv, Trail
    <2>6. Handlers' /\ ByAdmins' /\ Told'
      BY <2>1, <1>0 DEF TrailInv, Handlers, ByAdmins, Told, NoAnswer, Response, Ops
    <2> QED
      BY <2>5, <2>6 DEF TrailInv
  <1>5. ASSUME NEW n \in tasks, AuditFails(n)
        PROVE  TrailInv'
    <2>1. /\ tasks' = tasks \ {n} /\ lost' = lost \cup {n}
          /\ answer' = NoAnswer /\ UNCHANGED <<client, committed, log>>
      BY <1>5 DEF AuditFails
    <2>2. Held' = Held /\ Ops' = Ops /\ Logged' = Logged
      BY <2>1 DEF Held, Ops, Logged
    <2>3. Trail'
      BY <2>1, <2>2 DEF TrailInv, Trail
    <2>4. Handlers' /\ ByAdmins' /\ Told'
      BY <2>1, <1>0 DEF TrailInv, Handlers, ByAdmins, Told, NoAnswer, Response, Ops
    <2> QED
      BY <2>3, <2>4 DEF TrailInv
  <1>6. CASE Crash
    <2>1. /\ tasks' = {} /\ client' = [c \in Clients |-> Idle] /\ answer' = NoAnswer
          /\ lost' = lost \cup tasks \cup Held /\ UNCHANGED <<committed, log>>
      BY <1>6 DEF Crash, Held
    <2>2. Held' = {} /\ Ops' = Ops /\ Logged' = Logged
      BY <2>1 DEF Held, Ops, Idle, State, Logged
    <2>3. Trail'
      BY <2>1, <2>2 DEF TrailInv, Trail
    <2>4. Handlers'
      BY <2>1, <1>0, IdleState DEF Handlers
    <2>5. ByAdmins' /\ Told'
      BY <2>1, <1>0 DEF TrailInv, ByAdmins, Told, NoAnswer, Response, Ops
    <2> QED
      BY <2>3, <2>4, <2>5 DEF TrailInv
  <1>7. CASE UNCHANGED apiVars
    <2>1. UNCHANGED <<client, answer, committed, tasks, log, lost>>
      BY <1>7 DEF apiVars
    <2>2. Held' = Held /\ Ops' = Ops /\ Logged' = Logged
      BY <2>1 DEF Held, Ops, Logged
    <2>3. Trail' /\ ByAdmins' /\ Told'
      BY <2>1, <2>2, Zenon DEF TrailInv, Trail, ByAdmins, Told
    <2>4. Handlers'
      BY <2>1, <1>0 DEF Handlers
    <2> QED
      BY <2>3, <2>4 DEF TrailInv
  <1> QED
    BY <1>1, <1>2, <1>3, <1>4, <1>5, <1>6, <1>7, Dispatched DEF ApiNext

(* No answer misleads a client about what was done: an operation it tells of *)
(* is committed and was an admin's, and a 4xx means that nothing was changed *)
(* (require_admin_role before each repository call, map_storage_error for    *)
(* what failed), however handlers, lost replies and crashes interleave.      *)
THEOREM Answers == ApiSpec => []AnswersTell
  <1>1. TrailInv => AnswersTell
    <2> SUFFICES ASSUME TrailInv PROVE AnswersTell
      OBVIOUS
    <2>1. Ops = 1..Len(committed) /\ Len(committed) \in Nat
      BY Appended DEF TrailInv, Handlers, Ops
    <2>0. answer.op \in 0..Len(committed)
      BY DEF TrailInv, Told
    <2>2. answer.op # 0 => answer.op \in Ops
      BY <2>0, <2>1
    <2>3. answer.status \in 400..499 => answer.op = 0
      BY DEF TrailInv, Told
    <2>4. answer.op # 0 => answer.op \in Ops /\ Role[committed[answer.op].actor] = "admin"
      BY <2>2, Zenon DEF TrailInv, ByAdmins
    <2> QED
      BY <2>3, <2>4 DEF AnswersTell
  <1> QED
    BY <1>1, InitTrail, TrailStep, PTL DEF ApiSpec

(* The audit trail accounts for every committed operation: it is held by a   *)
(* handler still to answer, queued in a task, written once to audit_events,  *)
(* or lost with a reply, a cancelled handler or a crash, and in one of those *)
(* places only; no record is written twice or without an operation of an     *)
(* admin.                                                                    *)
THEOREM Audited == ApiSpec => []AuditAccounted
  <1>1. TrailInv => AuditAccounted
    <2> SUFFICES ASSUME TrailInv PROVE AuditAccounted
      OBVIOUS
    <2>1. ASSUME NEW n \in Ops PROVE \E p \in Places : PlacesOf(n) = {p}
      <3>1. /\ n \in Held <=> \E c \in Clients : client[c].op = n
            /\ n \in Logged <=> log[n] > 0
        <4>1. /\ Ops = 1..Len(committed) /\ Len(committed) \in Nat
              /\ MaxOps \in Nat /\ Len(committed) =< MaxOps
          BY Appended, ControlPlaneAssumption DEF TrailInv, Handlers, Ops
        <4> QED
          BY <4>1 DEF Held, Logged
      <3>2. CASE n \in Logged
        <4>1. PlacesOf(n) = {"log"}
          BY <3>1, <3>2 DEF TrailInv, Trail, PlacesOf, Places
        <4> QED
          BY <4>1 DEF Places
      <3>3. CASE n \in tasks
        <4>1. PlacesOf(n) = {"task"}
          BY <3>1, <3>3 DEF TrailInv, Trail, PlacesOf, Places
        <4> QED
          BY <4>1 DEF Places
      <3>4. CASE n \in lost
        <4>1. PlacesOf(n) = {"lost"}
          BY <3>1, <3>4 DEF TrailInv, Trail, PlacesOf, Places
        <4> QED
          BY <4>1 DEF Places
      <3>5. CASE n \in Held
        <4>1. PlacesOf(n) = {"handler"}
          BY <3>1, <3>5 DEF TrailInv, Trail, PlacesOf, Places
        <4> QED
          BY <4>1 DEF Places
      <3> QED
        BY <3>2, <3>3, <3>4, <3>5 DEF TrailInv, Trail
    <2>2. \A n \in DOMAIN log : log[n] > 0 =>
              n \in Ops /\ Role[committed[n].actor] = "admin" /\ log[n] = 1
      BY DEF TrailInv, Trail, ByAdmins, Logged
    <2> QED
      BY <2>1, <2>2 DEF AuditAccounted
  <1> QED
    BY <1>1, InitTrail, TrailStep, PTL DEF ApiSpec

-----------------------------------------------------------------------------
(* What each handler does to the tables.                                     *)

(* What a handler that has reached the database has done to the tables and *)
(* to the history.                                                         *)
Changes(c, q, tenant) ==
    /\ Good(db, db', tenant, NewId)
    /\ committed' = Append(committed, Event(c, q, tenant))
    /\ answer'.owner = None

Leaves == UNCHANGED <<db, committed>> /\ answer'.owner \in {None, answer'.scope}

(* A handler that writes leaves the tables alone or changes them as its      *)
(* statement does, and appends its operation to the history.                 *)
LEMMA WriteEffect ==
  ASSUME NEW c \in Clients, NEW q \in Requests, NEW valid, NEW result, NEW tenant,
         Write(c, q, valid, result, tenant),
         valid /\ result.error = "none" => Good(db, result.db, tenant, NewId)
  PROVE  Leaves \/ Changes(c, q, tenant)
  <1>1. ASSUME NEW s, Refused(c, s) PROVE Leaves
    BY <1>1 DEF Refused, Tell, Response, Leaves
  <1>2. ASSUME valid, result.error = "none",
               Commits(c, q, result.db, tenant) \/ ReplyLost(c, q, result.db, tenant)
        PROVE  Changes(c, q, tenant)
    BY <1>2 DEF Commits, ReplyLost, Tell, NoAnswer, Response, Changes
  <1> QED
    BY <1>1, <1>2 DEF Write

(* A handler that reads changes nothing, and shows a row of the tenant it    *)
(* was asked about only.                                                     *)
LEMMA ReadEffect ==
  ASSUME NEW c \in Clients, NEW q \in Requests, NEW result,
         Read(c, q, result),
         result.error = "none" /\ q.tenant # None => result.row.tenant_id = q.tenant
  PROVE  Leaves
  BY DEF Read, Leaves, Response

(* The accounts an open transaction has locked, and those of a new tenant. *)
Locks ==
    \A c \in Clients : client[c].pc = "tx" =>
        /\ client[c].locked \subseteq Ids(db.accounts)
        /\ \A a \in db.accounts : a.id \in client[c].locked => a.tenant_id = client[c].tenant

NewIds == \A a \in db.accounts : a.id \in 0..(NewId - 1)

TablesInv == Schema(db) /\ Sound(db) /\ AccountIds(db) /\ NewIds /\ Locks

(* The tables, as the invariant has them, are what the statements start      *)
(* from: NewId is the id of no account yet.                                  *)
LEMMA TablesReady ==
  ASSUME TablesInv, IsSequence(committed)
  PROVE  NewId \in Nat /\ Ready(db, NewId)
  <1>1. NewId \in Nat
    BY ControlPlaneAssumption, Appended DEF NewId
  <1>2. \A a \in db.accounts : a.id # NewId
    BY <1>1 DEF TablesInv, NewIds
  <1> QED
    BY <1>1, <1>2, Zenon DEF TablesInv, Ready

(* A request of an endpoint that takes no tenant_id has none.                *)
LEMMA Unscoped ==
  ASSUME NEW q \in Requests, q.op \notin Scoped
  PROVE  q.tenant = None
  BY ControlPlaneAssumption, Zenon

Effect(c, q) == Leaves \/ \E tenant : Changes(c, q, tenant) /\ q.tenant \in {None, tenant}

(* Each GET handler changes nothing and shows only what the tenant in its    *)
(* query owns: the two that are scoped put it in their WHERE clause.         *)
LEMMA ReadsLeave ==
  ASSUME NEW c \in Clients, NEW q \in Requests,
         \/ q.op = "get_tenant" /\ GetTenant(c, q)
         \/ q.op = "get_route" /\ GetRoute(c, q)
         \/ GetAccount(c, q) \/ GetPolicy(c, q)
  PROVE  Leaves
  <1>1. CASE q.op = "get_tenant" /\ GetTenant(c, q)
    <2>1. q.tenant = None
      BY <1>1, Unscoped DEF GetTenant, Scoped
    <2> QED
      BY <1>1, <2>1, ReadEffect, Zenon DEF GetTenant
  <1>2. CASE q.op = "get_route" /\ GetRoute(c, q)
    <2>1. q.tenant = None
      BY <1>2, Unscoped DEF GetRoute, Scoped
    <2> QED
      BY <1>2, <2>1, ReadEffect, Zenon DEF GetRoute
  <1>3. CASE GetAccount(c, q)
    <2> DEFINE result == accounts_get_by_id(db, q.tenant, q.id)
    <2>1. result.error = "none" => result.row.tenant_id = q.tenant
      BY DEF accounts_get_by_id, Select, Account, Err, Returning
    <2>2. Read(c, q, result)
      BY <1>3, Zenon DEF GetAccount
    <2> HIDE DEF result
    <2> QED
      BY <2>1, <2>2, ReadEffect, Zenon
  <1>4. CASE GetPolicy(c, q)
    <2> DEFINE result == policies_get_by_id(db, q.tenant, q.id)
    <2>1. result.error = "none" => result.row.tenant_id = q.tenant
      BY DEF policies_get_by_id, Select, Policy, Err, Returning
    <2>2. Read(c, q, result)
      BY <1>4, Zenon DEF GetPolicy
    <2> HIDE DEF result
    <2> QED
      BY <2>1, <2>2, ReadEffect, Zenon
  <1> QED
    BY <1>1, <1>2, <1>3, <1>4, Zenon

(* Each of the admin handlers leaves the tables alone or changes them in the *)
(* name of the tenant its request names, when it names one.                  *)
LEMMA HandlerEffect ==
  ASSUME TablesInv, IsSequence(committed), NEW c \in Clients, NEW q \in Requests, Handler(c, q)
  PROVE  Effect(c, q)
  <1>0. Ready(db, NewId) /\ Decoded(q)
    BY TablesReady, ControlPlaneAssumption, Zenon
  <1>u. ASSUME q.op \notin Scoped, NEW t, Leaves \/ Changes(c, q, t) PROVE Effect(c, q)
    BY <1>u, Unscoped, Zenon DEF Effect
  <1>s. ASSUME Leaves \/ Changes(c, q, q.tenant) PROVE Effect(c, q)
    BY <1>s, Zenon DEF Effect
  <1>1. CASE \/ q.op = "get_tenant" /\ GetTenant(c, q)
             \/ q.op = "get_route" /\ GetRoute(c, q)
             \/ GetAccount(c, q) \/ GetPolicy(c, q)
    BY <1>1, ReadsLeave, Zenon DEF Effect
  <1>2. CASE q.op = "create_tenant" /\ CreateTenant(c, q)
    <2>1. Leaves \/ Changes(c, q, NewId)
      BY <1>0, <1>2, TenantCreated, WriteEffect, Zenon DEF CreateTenant
    <2>2. q.op \notin Scoped
      BY <1>2, Zenon DEF CreateTenant, Scoped
    <2> QED
      BY <2>1, <2>2, <1>u, Zenon
  <1>3. CASE q.op = "update_tenant" /\ UpdateTenant(c, q)
    <2>1. Leaves \/ Changes(c, q, q.id)
      BY <1>0, <1>3, TenantUpdated, WriteEffect, Zenon DEF UpdateTenant
    <2>2. q.op \notin Scoped
      BY <1>3, Zenon DEF UpdateTenant, Scoped
    <2> QED
      BY <2>1, <2>2, <1>u, Zenon
  <1>4. CASE q.op = "delete_tenant" /\ DeleteTenantBegin(c, q)
    BY <1>4 DEF DeleteTenantBegin, Refused, Tell, NoAnswer, Response, Effect, Leaves
  <1>5. CASE q.op = "delete_tenant" /\ DeleteTenantEnd(c, q)
    <2> DEFINE result == soft_delete(db, client[c].tenant, client[c].locked)
    <2>0. client[c].pc = "tx" /\ client[c].tenant = q.id /\ q.op \notin Scoped
      BY <1>5, Zenon DEF DeleteTenantEnd, Scoped
    <2>1. \A a \in db.accounts : a.id \in client[c].locked => a.tenant_id = client[c].tenant
      BY <2>0, Zenon DEF TablesInv, Locks
    <2>2. result.error = "none" => Good(db, result.db, q.id, NewId)
      BY <1>0, <2>0, <2>1, TenantSoftDeleted, Zenon
    <2>3. \/ \E s : Refused(c, s)
          \/ result.error = "none" /\ (Commits(c, q, result.db, q.id) \/ ReplyLost(c, q, result.db, q.id))
      BY <1>5, Zenon DEF DeleteTenantEnd
    <2> HIDE DEF result
    <2>4. Leaves \/ Changes(c, q, q.id)
      <3>1. ASSUME NEW s, Refused(c, s) PROVE Leaves
        BY <3>1 DEF Refused, Tell, Response, Leaves
      <3>2. ASSUME result.error = "none", Commits(c, q, result.db, q.id) \/ ReplyLost(c, q, result.db, q.id)
            PROVE  Changes(c, q, q.id)
        BY <2>2, <3>2 DEF Commits, ReplyLost, Tell, NoAnswer, Response, Changes
      <3> QED
        BY <2>3, <3>1, <3>2, Zenon
    <2> QED
      BY <2>0, <2>4, <1>u, Zenon
  <1>6. CASE q.op = "create_service_account" /\ CreateAccount(c, q)
    <2>1. CreateServiceAccountRequest(q.body)
      BY <1>0, <1>6, Zenon DEF CreateAccount, Decoded
    <2> QED
      BY <1>0, <1>6, <1>s, <2>1, AccountCreated, WriteEffect, Zenon DEF CreateAccount
  <1>7. CASE q.op = "update_service_account" /\ UpdateAccount(c, q)
    <2> DEFINE patch == Columns(q.body, {"name", "description"})
               result == accounts_update(db, q.tenant, q.id, q.body)
    <2>1. DOMAIN patch \subseteq {"name", "description", "status"}
      BY DEF Columns
    <2>2. result = Update(db, "accounts", Account(db, q.tenant, q.id), patch)
      BY Zenon DEF accounts_update
    <2> HIDE DEF patch
    <2>3. result.error = "none" => Good(db, result.db, q.tenant, NewId)
      BY <1>0, <2>1, <2>2, AccountUpdated, Zenon
    <2> QED
      BY <1>7, <1>s, <2>3, WriteEffect, Zenon DEF UpdateAccount
  <1>8. CASE q.op = "suspend_service_account" /\ SuspendAccount(c, q)
    <2> DEFINE patch == [status |-> "suspended"]
               result == suspend(db, q.tenant, q.id)
    <2>1. DOMAIN patch \subseteq {"name", "description", "status"}
      BY SMT
    <2>2. result = Update(db, "accounts", Account(db, q.tenant, q.id), patch)
      BY Zenon DEF suspend
    <2> HIDE DEF patch
    <2>3. result.error = "none" => Good(db, result.db, q.tenant, NewId)
      BY <1>0, <2>1, <2>2, AccountUpdated, Zenon
    <2> QED
      BY <1>8, <1>s, <2>3, WriteEffect, Zenon DEF SuspendAccount
  <1>9. CASE q.op = "activate_service_account" /\ ActivateAccount(c, q)
    <2> DEFINE patch == [status |-> "active"]
               result == activate(db, q.tenant, q.id)
    <2>1. DOMAIN patch \subseteq {"name", "description", "status"}
      BY SMT
    <2>2. result = Update(db, "accounts", Account(db, q.tenant, q.id), patch)
      BY Zenon DEF activate
    <2> HIDE DEF patch
    <2>3. result.error = "none" => Good(db, result.db, q.tenant, NewId)
      BY <1>0, <2>1, <2>2, AccountUpdated, Zenon
    <2> QED
      BY <1>9, <1>s, <2>3, WriteEffect, Zenon DEF ActivateAccount
  <1>10. CASE \/ q.op = "register_key" /\ RegisterKey(c, q)
              \/ q.op = "revoke_key" /\ RevokeKey(c, q)
    <2>1. Leaves \/ Changes(c, q, None)
      BY <1>0, <1>10, KeyRegistered, KeyRevoked, WriteEffect, Zenon DEF RegisterKey, RevokeKey
    <2>2. q.op \notin Scoped
      BY <1>10, Zenon DEF RegisterKey, RevokeKey, Scoped
    <2> QED
      BY <2>1, <2>2, <1>u, Zenon
  <1>11. CASE q.op = "create_policy" /\ CreatePolicy(c, q)
    <2>1. CreatePolicyRequest(q.body)
      BY <1>0, <1>11, Zenon DEF CreatePolicy, Decoded
    <2> QED
      BY <1>0, <1>11, <1>s, <2>1, PolicyCreated, WriteEffect, Zenon DEF CreatePolicy
  <1>12. CASE q.op = "update_policy" /\ UpdatePolicy(c, q)
    <2>1. UpdatePolicyRequest(q.body)
      BY <1>0, <1>12, Zenon DEF UpdatePolicy, Decoded
    <2> QED
      BY <1>0, <1>12, <1>s, <2>1, PolicyUpdated, WriteEffect, Zenon DEF UpdatePolicy
  <1>13. CASE q.op = "delete_policy" /\ DeletePolicy(c, q)
    BY <1>0, <1>13, <1>s, PolicyDeleted, WriteEffect, Zenon DEF DeletePolicy
  <1>14. CASE \/ q.op = "create_binding" /\ CreateBinding(c, q)
              \/ q.op = "delete_binding" /\ DeleteBinding(c, q)
    <2>1. Leaves \/ Changes(c, q, None)
      BY <1>0, <1>14, BindingCreated, BindingDeleted, WriteEffect, Zenon DEF CreateBinding, DeleteBinding
    <2>2. q.op \notin Scoped
      BY <1>14, Zenon DEF CreateBinding, DeleteBinding, Scoped
    <2> QED
      BY <2>1, <2>2, <1>u, Zenon
  <1>15. CASE q.op = "create_route" /\ CreateRoute(c, q)
    <2>1. CreateRouteRequest(q.body)
      BY <1>0, <1>15, Zenon DEF CreateRoute, Decoded
    <2> QED
      BY <1>0, <1>15, <1>s, <2>1, RouteCreated, WriteEffect, Zenon DEF CreateRoute
  <1>16. CASE q.op = "update_route" /\ UpdateRoute(c, q)
    <2> DEFINE result == routes_update(db, q.id, q.body)
               t == IF result.error = "none" THEN result.row.tenant_id ELSE None
    <2>0. UpdateRouteRequest(q.body) /\ q.op \notin Scoped
      BY <1>0, <1>16, Zenon DEF UpdateRoute, Decoded, Scoped
    <2>1. Write(c, q, ValidRouteBody(q.body), result, t)
      BY <1>16, Zenon DEF UpdateRoute
    <2>2. ValidRouteBody(q.body) /\ result.error = "none" => Good(db, result.db, t, NewId)
      BY <1>0, <2>0, RouteUpdated, Zenon
    <2> HIDE DEF result, t
    <2>3. Leaves \/ Changes(c, q, t)
      BY <2>1, <2>2, WriteEffect, Zenon
    <2> QED
      BY <2>0, <2>3, <1>u, Zenon
  <1>17. CASE q.op = "delete_route" /\ DeleteRoute(c, q)
    <2>1. Leaves \/ Changes(c, q, None)
      BY <1>0, <1>17, RouteDeleted, WriteEffect, Zenon DEF DeleteRoute
    <2>2. q.op \notin Scoped
      BY <1>17, Zenon DEF DeleteRoute, Scoped
    <2> QED
      BY <2>1, <2>2, <1>u, Zenon
  <1> QED
    BY <1>1, <1>2, <1>3, <1>4, <1>5, <1>6, <1>7, <1>8, <1>9, <1>10, <1>11, <1>12, <1>13, <1>14, <1>15,
       <1>16, <1>17, Zenon DEF Handler

-----------------------------------------------------------------------------
(* What each step does to the tables, and the theorems on them.              *)

(* A step leaves a transaction's locks alone, or takes them. *)
LocksOf(c) ==
    client'[c].pc = "tx" =>
        \/ client'[c] = client[c]
        \/ UNCHANGED db /\ client'[c].locked = Ids(Cascade(db, client'[c].tenant))

(* What a step does to the tables. *)
TablesStep == UNCHANGED <<db, committed>> \/ \E t, ev : Good(db, db', t, NewId) /\ committed' = Append(committed, ev)

(* A transaction that has locked accounts still has accounts of its tenant   *)
(* locked after a step of another handler: accounts keep their ids and       *)
(* tenants, and a new account has an id that was not there to be locked.     *)
LEMMA LocksKept ==
  ASSUME AccountIds(db), NewIds, Locks, NewId \in Nat, NEW c \in Clients, LocksOf(c), client'[c].pc = "tx",
         UNCHANGED db \/ Owners(db, db', NewId)
  PROVE  /\ client'[c].locked \subseteq Ids(db'.accounts)
         /\ \A a \in db'.accounts : a.id \in client'[c].locked => a.tenant_id = client'[c].tenant
  <1>1. CASE UNCHANGED db /\ client'[c].locked = Ids(Cascade(db, client'[c].tenant))
    BY <1>1 DEF Ids, Cascade, AccountIds
  <1>2. CASE client'[c] = client[c]
    <2>1. /\ client[c].locked \subseteq Ids(db.accounts)
          /\ \A a \in db.accounts : a.id \in client[c].locked => a.tenant_id = client[c].tenant
      BY <1>2, Zenon DEF Locks
    <2>2. NewId \notin client[c].locked
      BY <2>1 DEF Ids, NewIds
    <2>3. CASE UNCHANGED db
      BY <1>2, <2>1, <2>3
    <2>4. CASE Owners(db, db', NewId)
      <3>1. Ids(db.accounts) \subseteq Ids(db'.accounts)
        BY <2>4 DEF Owners, Ids
      <3>2. ASSUME NEW b \in db'.accounts, b.id \in client[c].locked PROVE b.tenant_id = client[c].tenant
        BY <2>1, <2>2, <2>4, <3>2, Zenon DEF Owners
      <3> QED
        BY <1>2, <2>1, <3>1, <3>2, Zenon
    <2> QED
      BY <2>3, <2>4
  <1> QED
    BY <1>1, <1>2, Zenon DEF LocksOf

(* A step that does to the tables what a statement does keeps what the       *)
(* invariant says of them.                                                   *)
LEMMA TablesKept ==
  ASSUME TablesInv, IsSequence(committed), TablesStep, \A c \in Clients : LocksOf(c)
  PROVE  TablesInv'
  <1>0. NewId \in Nat /\ AccountIds(db) /\ NewIds /\ Locks
    BY TablesReady, Zenon DEF TablesInv
  <1>1. CASE UNCHANGED <<db, committed>>
    <2>1. Locks'
      BY <1>0, <1>1, LocksKept, Zenon DEF Locks
    <2>2. NewIds'
      BY <1>0, <1>1, Zenon DEF NewIds, NewId
    <2> QED
      BY <1>1, <2>1, <2>2, Zenon DEF TablesInv, AccountIds
  <1>2. ASSUME NEW t, NEW ev, Good(db, db', t, NewId), committed' = Append(committed, ev)
        PROVE  TablesInv'
    <2>0. Owners(db, db', NewId) /\ Schema(db') /\ Sound(db')
      BY <1>2, Zenon DEF Good
    <2>1. Locks'
      BY <1>0, <2>0, LocksKept, Zenon DEF Locks
    <2>2. NewId' = NewId + 1
      BY <1>2, Appended, ControlPlaneAssumption DEF NewId
    <2>3. NewIds'
      <3>1. \A b \in db'.accounts : b.id = NewId \/ \E a \in db.accounts : a.id = b.id
        BY <2>0, Zenon DEF Owners
      <3> QED
        BY <1>0, <2>2, <3>1 DEF NewIds
    <2> QED
      BY <2>0, <2>1, <2>3, Zenon DEF TablesInv, Owners, AccountIds
  <1> QED
    BY <1>1, <1>2, Zenon DEF TablesStep

(* What a step of the specification does to the tables, the history and    *)
(* the answer.                                                             *)
StepEffect == Leaves \/ \E c \in Clients : \E q \in Requests : Effect(c, q)

(* Each step of the admin API leaves the tables alone or does what one       *)
(* handler's statement does, and respects the locks of open transactions.    *)
LEMMA ClientStep ==
  ASSUME TrailInv, TablesInv, ApiNext
  PROVE  StepEffect /\ \A c \in Clients : LocksOf(c)
  <1>0. Handlers /\ IsSequence(committed) /\ DOMAIN client = Clients
    BY Zenon DEF TrailInv, Handlers
  <1>i. ASSUME NEW c \in Clients, client' = client \/ client' = [client EXCEPT ![c] = Idle]
        PROVE  \A b \in Clients : LocksOf(b)
    BY <1>0, <1>i, IdleState DEF LocksOf
  <1>1. ASSUME NEW c \in Clients, NEW q \in Requests, Handler(c, q)
        PROVE  StepEffect /\ \A b \in Clients : LocksOf(b)
    <2>1. StepEffect
      BY <1>0, <1>1, HandlerEffect, Zenon DEF StepEffect
    <2>2. CASE Silent(c)
      BY <1>i, <2>1, <2>2, Zenon DEF Silent
    <2>3. CASE Begins(c)
      <3>1. PICK t : client' = [client EXCEPT ![c] = State("tx", 0, Ids(Cascade(db, t)), t)]
        BY <2>3, Zenon DEF Begins
      <3> DEFINE x == State("tx", 0, Ids(Cascade(db, t)), t)
      <3>2. x.locked = Ids(Cascade(db, x.tenant)) /\ client' = [client EXCEPT ![c] = x]
        BY <3>1 DEF State
      <3> HIDE DEF x
      <3>3. client'[c] = x /\ \A b \in Clients \ {c} : client'[b] = client[b]
        BY <1>0, <3>2, Replaced, Zenon
      <3>4. UNCHANGED db
        BY <2>3, Zenon DEF Begins
      <3>5. \A b \in Clients : LocksOf(b)
        BY <3>2, <3>3, <3>4, Zenon DEF LocksOf
      <3> QED
        BY <2>1, <3>5, Zenon
    <2>4. CASE Performs(c, q)
      <3>1. PICK d, t : Commits(c, q, d, t) \/ ReplyLost(c, q, d, t)
        BY <2>4, Zenon DEF Performs
      <3>2. CASE ReplyLost(c, q, d, t)
        BY <1>i, <2>1, <3>2, Zenon DEF ReplyLost, Tell
      <3>3. CASE Commits(c, q, d, t)
        <4> DEFINE x == State("committed", Len(committed'), {}, None)
        <4>1. client' = [client EXCEPT ![c] = x] /\ x.pc = "committed"
          BY <3>3 DEF Commits, State
        <4> HIDE DEF x
        <4>2. client'[c] = x /\ \A b \in Clients \ {c} : client'[b] = client[b]
          BY <1>0, <4>1, Replaced, Zenon
        <4>3. \A b \in Clients : LocksOf(b)
          BY <4>1, <4>2, Zenon DEF LocksOf
        <4> QED
          BY <2>1, <4>3, Zenon
      <3> QED
        BY <3>1, <3>2, <3>3, Zenon
    <2> QED
      BY <1>0, <1>1, <2>2, <2>3, <2>4, HandlerShape, Zenon
  <1>2. ASSUME NEW c \in Clients, Respond(c) \/ Cancelled(c)
        PROVE  StepEffect /\ \A b \in Clients : LocksOf(b)
    <2>1. Leaves
      BY <1>2 DEF Respond, Cancelled, Tell, NoAnswer, Response, Leaves
    <2>2. client' = [client EXCEPT ![c] = Idle]
      BY <1>2, Zenon DEF Respond, Cancelled, Tell
    <2> QED
      BY <1>i, <2>1, <2>2, Zenon DEF StepEffect
  <1>3. ASSUME NEW n \in tasks, AuditInsert(n) \/ AuditFails(n)
        PROVE  StepEffect /\ \A b \in Clients : LocksOf(b)
    <2>1. Leaves
      BY <1>3 DEF AuditInsert, AuditFails, NoAnswer, Response, Leaves
    <2>2. client' = client
      BY <1>3, Zenon DEF AuditInsert, AuditFails
    <2> QED
      BY <2>1, <2>2, Zenon DEF StepEffect, LocksOf
  <1>4. CASE Crash
    <2>1. Leaves
      BY <1>4 DEF Crash, NoAnswer, Response, Leaves
    <2>2. \A b \in Clients : client'[b] = Idle
      BY <1>4, Zenon DEF Crash
    <2> QED
      BY <2>1, <2>2, IdleState, Zenon DEF StepEffect, LocksOf
  <1> QED
    BY <1>1, <1>2, <1>3, <1>4, Zenon, Dispatched DEF ApiNext

AdminInv == TrailInv /\ TablesInv

(* The databases the gateway is started on are sound, and nothing is locked. *)
LEMMA InitTables == ApiInit => TablesInv
  <1> SUFFICES ASSUME ApiInit PROVE TablesInv
    OBVIOUS
  <1>1. /\ db \in Databases /\ Schema(db) /\ Sound(db)
        /\ \A t \in DOMAIN db \ {"bindings"} :
              /\ Ids(db[t]) \subseteq 0..(FirstId - 1)
              /\ \A r, s \in db[t] : r.id = s.id => r = s
    BY ControlPlaneAssumption, Zenon DEF ApiInit
  <1>2. "accounts" \in DOMAIN db \ {"bindings"}
    BY <1>1, TableNames, Zenon
  <1>3. AccountIds(db)
    BY <1>1, <1>2, Zenon DEF AccountIds
  <1>4. Ids(db.accounts) \subseteq 0..(FirstId - 1)
    BY <1>1, <1>2, Zenon
  <1>5. Len(committed) = 0
    BY DEF ApiInit
  <1>6. NewId = FirstId
    BY <1>5, ControlPlaneAssumption DEF NewId
  <1>7. NewIds
    BY <1>4, <1>6, Zenon DEF NewIds, Ids
  <1>8. Locks
    BY IdleState, Zenon DEF ApiInit, Locks
  <1> QED
    BY <1>1, <1>3, <1>7, <1>8, Zenon DEF TablesInv

(* Every step keeps both halves of the invariant.                            *)
LEMMA AdminStep == AdminInv /\ [ApiNext]_apiVars => AdminInv'
  <1> SUFFICES ASSUME AdminInv, [ApiNext]_apiVars PROVE TablesInv'
    BY TrailStep, Zenon DEF AdminInv
  <1>0. TrailInv /\ TablesInv /\ IsSequence(committed)
    BY Zenon DEF AdminInv, TrailInv, Handlers
  <1>1. CASE ApiNext
    <2>1. StepEffect /\ \A c \in Clients : LocksOf(c)
      BY <1>0, <1>1, ClientStep, Zenon
    <2>2. TablesStep
      BY <2>1, Zenon DEF StepEffect, Effect, Leaves, Changes, TablesStep
    <2> QED
      BY <1>0, <2>1, <2>2, TablesKept, Zenon
  <1>2. CASE UNCHANGED apiVars
    BY <1>0, <1>2, TablesKept, Zenon DEF apiVars, TablesStep, LocksOf
  <1> QED
    BY <1>1, <1>2, Zenon

(* Whatever the admin handlers do, in any interleaving and with crashes and  *)
(* lost replies, the rows they leave are sound: the foreign keys have        *)
(* targets, slugs and key ids are unique, environments and providers parse,  *)
(* keys are readable and policies can be merged, so that the data plane      *)
(* never meets a row it cannot use.                                          *)
THEOREM Rows == ApiSpec => []RowsSound
  <1>1. ApiInit => AdminInv
    BY InitTrail, InitTables, Zenon DEF AdminInv
  <1>2. AdminInv => RowsSound
    BY Zenon DEF AdminInv, TablesInv, RowsSound
  <1> QED
    BY <1>1, <1>2, AdminStep, PTL DEF ApiSpec

(* What is taken away does not come back: no handler revives a deleted       *)
(* tenant or un-revokes a key, not even by registering its key_id anew.      *)
THEOREM Final == ApiSpec => NothingComesBack
  <1> DEFINE A == /\ \A t \in db.tenants : t.status = "deleted" =>
                        \E u \in db'.tenants : u.slug = t.slug /\ u.status = "deleted"
                  /\ \A k \in db.keys : k.status = "revoked" =>
                        \A l \in db'.keys : l.key_id = k.key_id => l.status = "revoked"
  <1>1. ApiInit => AdminInv
    BY InitTrail, InitTables, Zenon DEF AdminInv
  <1>2. AdminInv /\ [ApiNext]_apiVars => [A]_apiVars
    <2> SUFFICES ASSUME AdminInv, ApiNext PROVE A
      BY Zenon
    <2>1. StepEffect /\ Sound(db)
      BY ClientStep, Zenon DEF AdminInv, TablesInv
    <2>2. CASE UNCHANGED db
      BY <2>1, <2>2, Zenon DEF Sound, KeyIdsUnique
    <2>3. CASE Permanent(db, db')
      BY <2>3, Zenon DEF Permanent
    <2> QED
      BY <2>1, <2>2, <2>3, Zenon DEF StepEffect, Effect, Leaves, Changes, Good
  <1> QED
    BY <1>1, <1>2, AdminStep, PTL DEF ApiSpec, NothingComesBack

(* A handler changes rows of the tenant its request names only, and of the   *)
(* one its audit event names, and shows rows of that tenant only; for the    *)
(* deletion of a tenant, which reads in one step and writes in a later one,  *)
(* this rests on the locks it takes.                                         *)
THEOREM Scoping == ApiSpec => TenantScoped
  <1> DEFINE A == /\ \A n \in DOMAIN committed' \ DOMAIN committed :
                        LET e == committed'[n]
                        IN  /\ e.scope # None => Touched(db, db') \subseteq {e.scope}
                            /\ e.tenant # None => Touched(db, db') \subseteq {e.tenant}
                  /\ answer'.owner \in {None, answer'.scope}
  <1>1. ApiInit => AdminInv
    BY InitTrail, InitTables, Zenon DEF AdminInv
  <1>2. AdminInv /\ [ApiNext]_apiVars => [A]_apiVars
    <2> SUFFICES ASSUME AdminInv, ApiNext PROVE A
      BY Zenon
    <2>0. IsSequence(committed)
      BY Zenon DEF AdminInv, TrailInv, Handlers
    <2>1. StepEffect
      BY ClientStep, Zenon DEF AdminInv
    <2>2. CASE Leaves
      BY <2>2, Zenon DEF Leaves
    <2>3. ASSUME NEW c \in Clients, NEW q \in Requests, NEW t, Changes(c, q, t), q.tenant \in {None, t}
          PROVE  A
      <3>1. /\ committed' = Append(committed, Event(c, q, t)) /\ answer'.owner = None
            /\ t # None => Touched(db, db') \subseteq {t}
        BY <2>3, Zenon DEF Changes, Good
      <3>2. \A n \in DOMAIN committed' \ DOMAIN committed : committed'[n] = Event(c, q, t)
        BY <2>0, <3>1, Appended
      <3>3. Event(c, q, t).scope = q.tenant /\ Event(c, q, t).tenant = t
        BY DEF Event
      <3> QED
        BY <2>3, <3>1, <3>2, <3>3, Zenon
    <2> QED
      BY <2>1, <2>2, <2>3, Zenon DEF StepEffect, Effect
  <1> QED
    BY <1>1, <1>2, AdminStep, PTL DEF ApiSpec, TenantScoped
====
