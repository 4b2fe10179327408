------------------------------- MODULE Server -------------------------------
(***************************************************************************)
(* The gateway process: configuration, startup, the router with its three  *)
(* groups of routes and their layers, graceful shutdown and crashes.       *)
(* Admin requests pass through AdminAuth, data-plane requests through      *)
(* authentication, policy, rate limit and concurrency limit, each reduced  *)
(* here to the outcomes it can have (its own module has the detail).       *)
(*                                                                         *)
(* Source: main.rs, config.rs, server.rs, error.rs, api/health.rs,         *)
(* storage/postgres.rs, storage/redis.rs, policy/middleware.rs,            *)
(* policy/headers.rs.                                                      *)
(***************************************************************************)
EXTENDS AdminAuth

CONSTANTS Environments,  \* environments the process may be started in
          DataPlaneConnections,  \* bound: connections that carry data-plane requests
          HandlerErrors, \* errors an admin handler may return
          Rejections     \* bound: statuses with which axum itself refuses a request

VARIABLES
    phase,    \* of the process
    config,   \* the GatewayConfig it runs with
    stage,    \* per connection: where its request is
    charged,  \* per connection: a rate counter was charged for its request
    reply     \* per connection: the response being sent

serverVars == <<phase, config, stage, charged, reply>>
vars == <<adminVars, serverVars>>
-----------------------------------------------------------------------------
(* Environment variables: the two URLs, the host, and the numbers. *)
Urls == {"DATABASE_URL", "VALKEY_URL"}
Numbers == {"PORT", "PG_POOL_SIZE", "VALKEY_POOL_SIZE", "TIMESTAMP_SKEW_SECS",
            "PROVIDER_TIMEOUT_MS", "POLICY_CACHE_TTL_SECS", "ADMIN_KEY_CACHE_TTL_SECS",
            "ROUTING_CACHE_TTL_SECS", "GLOBAL_RPM", "RATE_LIMIT_WINDOW_SECS"}
Names == Urls \cup Numbers \cup {"HOST"}

(* A value as its parser sees it. *)
Values == {"unset", "unparsable", "zero", "given"}

ASSUME ServerAssumption ==
    /\ Environments \subseteq [Names -> Values]
    /\ HandlerErrors \subseteq {"Validation", "NotFound", "Conflict", "Storage", "Config"}

ASSUME RejectionsAssumption == Rejections \subseteq {400, 404, 405, 413, 415, 422}

(* parse_val: the default if unset, else what the text parses to.          *)
ParseVal(env, name, default) ==
    CASE env[name] = "unset" -> default
      [] env[name] = "zero"  -> 0
      [] env[name] = "given" -> 1

(* load_from: the URLs are required, everything given must parse, and the  *)
(* two parameters of the rate limiter must not be zero.                    *)
ConfigLoads(env) ==
    /\ \A u \in Urls : env[u] # "unset"
    /\ env["HOST"] \in {"unset", "given"}
    /\ \A n \in Numbers : env[n] # "unparsable"
    /\ ParseVal(env, "GLOBAL_RPM", 1000) # 0
    /\ ParseVal(env, "RATE_LIMIT_WINDOW_SECS", 60) # 0

(* The part of the configuration that later steps of this module read.     *)
LoadFrom(env) == [database_url |-> env["DATABASE_URL"],
                  valkey_url |-> env["VALKEY_URL"],
                  pg_pool_size |-> ParseVal(env, "PG_POOL_SIZE", 20),
                  valkey_pool_size |-> ParseVal(env, "VALKEY_POOL_SIZE", 10)]

NotLoaded == [database_url |-> "unset", valkey_url |-> "unset", pg_pool_size |-> 0, valkey_pool_size |-> 0]
-----------------------------------------------------------------------------
(* GatewayError::status_code *)
StatusCode(error) ==
    CASE error = "Auth"                    -> 401
      [] error \in {"Policy", "Budget"}    -> 403
      [] error = "RateLimit"               -> 429
      [] error = "Routing"                 -> 502
      [] error \in {"Storage", "Config"}   -> 500
      [] error = "Validation"              -> 422
      [] error = "NotFound"                -> 404
      [] error = "Conflict"                -> 409

(* IntoResponse: a RateLimit error tells when to come back.                *)
ErrorResponse(error) ==
    [status |-> StatusCode(error), headers |-> IF error = "RateLimit" THEN {"Retry-After"} ELSE {}]

Ok == [status |-> 200, headers |-> {}]

(* inject_rate_limit_headers *)
WithLimits(response) == [response EXCEPT !.headers = @ \cup {"X-RateLimit"}]

NoReply == [status |-> 0, headers |-> {}]
-----------------------------------------------------------------------------
Init ==
    /\ AdminInit
    /\ phase = "down" /\ config = NotLoaded
    /\ stage = [r \in Requests |-> "none"]
    /\ charged = [r \in Requests |-> FALSE]
    /\ reply = [r \in Requests |-> NoReply]

(* GatewayConfig::load *)
LoadConfig(env) ==
    /\ phase = "down"
    /\ \/ ConfigLoads(env) /\ phase' = "loaded" /\ config' = LoadFrom(env)
       \/ ~ConfigLoads(env) /\ phase' = "failed" /\ UNCHANGED config
    /\ UNCHANGED <<adminVars, stage, charged, reply>>

(* create_pg_pool parses its URL and connects: a pool of size zero times   *)
(* out, a database that does not answer fails, and main returns the error. *)
ConnectPg ==
    /\ phase = "loaded"
    /\ \/ config.database_url = "given" /\ config.pg_pool_size > 0 /\ phase' = "connected"
       \/ phase' = "failed"
    /\ UNCHANGED <<adminVars, config, stage, charged, reply>>

(* create_redis_pool connects to nothing and fails only on its URL; the    *)
(* caches are built empty; binding the address may fail.                   *)
Bind ==
    /\ phase = "connected"
    /\ \/ config.valkey_url = "given" /\ phase' = "serving"
       \/ phase' = "failed"
    /\ UNCHANGED <<adminVars, config, stage, charged, reply>>

(* The process is started again. *)
Launch ==
    /\ phase \in {"failed", "exited"}
    /\ phase' = "down" /\ config' = NotLoaded
    /\ UNCHANGED <<adminVars, stage, charged, reply>>

(* shutdown_signal returns: no further connection is accepted.             *)
Signal ==
    /\ phase = "serving"
    /\ phase' = "draining"
    /\ UNCHANGED <<adminVars, config, stage, charged, reply>>

(* Every accepted request has been answered: serve returns, main returns   *)
(* and the runtime is dropped with the tasks that were still spawned.      *)
Exit ==
    /\ phase = "draining"
    /\ \A r \in Requests : stage[r] = "none"
    /\ phase' = "exited"
    /\ Restart
    /\ UNCHANGED <<config, stage, charged, reply>>

(* The process is killed. *)
Crash ==
    /\ phase \in {"loaded", "connected", "serving", "draining"}
    /\ phase' = "failed"
    /\ Restart
    /\ stage' = [r \in Requests |-> "none"]
    /\ charged' = [r \in Requests |-> FALSE]
    /\ reply' = [r \in Requests |-> NoReply]
    /\ UNCHANGED config
-----------------------------------------------------------------------------
Enter(r, s) == stage' = [stage EXCEPT ![r] = s] /\ UNCHANGED reply
Reply(r, response) ==
    /\ stage' = [stage EXCEPT ![r] = "done"]
    /\ reply' = [reply EXCEPT ![r] = response]

(* No handler of the gateway runs: there is no route or no such method,    *)
(* the body is too long, or the Json extractor refuses it.                 *)
Rejected(statuses) == {[Ok EXCEPT !.status = s] : s \in statuses \cap Rejections}
NotRouted == {404, 405, 413}
NotExtracted == {400, 413, 415, 422}
NoMethod == {405}

(* Mutant of Accept: requests are accepted until the process has left. *)
AcceptWhileDraining(r) ==
    /\ phase \in {"serving", "draining"} /\ stage[r] = "none"
    /\ Enter(r, "headers") \/ Enter(r, "admin") \/ Reply(r, Ok)
    /\ UNCHANGED <<adminVars, phase, config, charged>>

(* build_router: a request is matched to its group, or to none.  A layer   *)
(* around all groups refuses a declared body over MAX_BODY_SIZE; the       *)
(* health routes have no authentication and answer at once.                *)
Accept(r) ==
    /\ phase = "serving" /\ stage[r] = "none"
    /\ \/ r \in DataPlaneConnections /\ Enter(r, "headers")
       \/ Enter(r, "admin")
       \/ \E response \in {Ok} \cup Rejected(NotRouted) : Reply(r, response)
    /\ UNCHANGED <<adminVars, phase, config, charged>>

(* The response leaves. *)
Sent(r) ==
    /\ stage[r] = "done"
    /\ stage' = [stage EXCEPT ![r] = "none"]
    /\ reply' = [reply EXCEPT ![r] = NoReply]
    /\ charged' = [charged EXCEPT ![r] = FALSE]
    /\ UNCHANGED <<adminVars, phase, config>>

Fail(r, error) == Reply(r, ErrorResponse(error))

(* pool.get() of a pool of size zero waits for a connection for ever.      *)
RedisAnswers == config.valkey_pool_size > 0

(* extract_auth_headers, then auth_middleware waits for the body.          *)
CheckHeaders(r) ==
    /\ stage[r] = "headers"
    /\ Fail(r, "Auth") \/ Enter(r, "collect")
    /\ UNCHANGED charged

(* The client has sent its body, or broken it off: body hash, timestamp    *)
(* and nonce length.                                                       *)
CheckBody(r) ==
    /\ stage[r] = "collect"
    /\ Fail(r, "Auth") \/ Enter(r, "key")
    /\ UNCHANGED <<adminVars, phase, config, charged>>

(* Key (through Redis), account and tenant, claimed account, signature,    *)
(* and the nonce in Redis.                                                 *)
VerifyCaller(r) ==
    /\ stage[r] = "key" /\ RedisAnswers
    /\ Fail(r, "Auth") \/ Enter(r, "policy")
    /\ UNCHANGED charged

(* Mutant of Evaluate: the limits are charged before the policy is known.  *)
EvaluateLate(r) ==
    /\ stage[r] = "policy"
    /\ charged' = [charged EXCEPT ![r] = TRUE]
    /\ Fail(r, "Policy") \/ Enter(r, "rate")

(* get_or_evaluate: the policy cannot be loaded or is not valid, or it is  *)
(* evaluated.                                                              *)
Evaluate(r) ==
    /\ stage[r] = "policy"
    /\ Fail(r, "Policy") \/ Enter(r, "rate")
    /\ UNCHANGED charged

(* RateLimitEvaluator::evaluate: a refusal or a failure of Redis, which    *)
(* may leave the account's level charged, or both levels are charged; the  *)
(* policy may or may not limit concurrency.                                *)
ChargeRate(r) ==
    /\ stage[r] = "rate" /\ RedisAnswers
    /\ \/ /\ \E c \in BOOLEAN : charged' = [charged EXCEPT ![r] = c]
          /\ Fail(r, "RateLimit") \/ Fail(r, "Config")
       \/ /\ charged' = [charged EXCEPT ![r] = TRUE]
          /\ Enter(r, "acquire") \/ Enter(r, "handler")

(* ConcurrencyLimiter::acquire: over the limit, Redis fails, or a permit.  *)
Acquire(r) ==
    /\ stage[r] = "acquire" /\ RedisAnswers
    /\ Fail(r, "RateLimit") \/ Fail(r, "Config") \/ Enter(r, "holding")
    /\ UNCHANGED charged

(* The placeholder handlers, or the route does not have the method. *)
Responses == {Ok} \cup Rejected(NoMethod)

(* next.run: with a permit it is released next, without one the headers    *)
(* are added at once.                                                      *)
Handle(r) ==
    /\ \/ stage[r] = "holding" /\ Enter(r, "release")
       \/ stage[r] = "handler" /\ \E response \in Responses : Reply(r, WithLimits(response))
    /\ UNCHANGED charged

(* permit.release, whose failure is only logged, then the headers.         *)
Release(r) ==
    /\ stage[r] = "release" /\ RedisAnswers
    /\ \E response \in Responses : Reply(r, WithLimits(response))
    /\ UNCHANGED charged

(* The layers of the data plane, outermost first. *)
DataPlane(r) ==
    /\ \/ CheckHeaders(r) \/ VerifyCaller(r) \/ Evaluate(r)
       \/ ChargeRate(r) \/ Acquire(r) \/ Handle(r) \/ Release(r)
    /\ UNCHANGED <<adminVars, phase, config>>
-----------------------------------------------------------------------------
(* admin_auth_middleware, around every admin handler. *)
AdminStep(r) ==
    /\ stage[r] = "admin"
    /\ BadToken(r) \/ Progress(r)
    /\ UNCHANGED serverVars

AdminRefused(r) ==
    /\ stage[r] = "admin" /\ pc[r] \in Refusals
    /\ Answered(r)
    /\ Fail(r, "Auth")
    /\ UNCHANGED <<phase, config, charged>>

(* The Json extractor of a handler that has a body waits for it. *)
AwaitBody(r) ==
    /\ stage[r] = "admin" /\ pc[r] = "admitted"
    /\ Enter(r, "body")
    /\ UNCHANGED <<adminVars, phase, config, charged>>

(* The body is there, and parses or does not. *)
ExtractBody(r) ==
    /\ stage[r] = "body"
    /\ \/ Enter(r, "parsed") /\ UNCHANGED adminVars
       \/ /\ Answered(r)
          /\ \E response \in Rejected(NotExtracted) : Reply(r, response)
    /\ UNCHANGED <<phase, config, charged>>

(* An admin handler: a viewer may only read, what an admin sends may be    *)
(* refused by validation or by the storage, and revoke_key goes on to the  *)
(* Redis copy of the key.  The route may not have the method.              *)
AdminHandle(r) ==
    /\ stage[r] \in {"admin", "parsed"} /\ pc[r] = "admitted"
    /\ Answered(r)
    /\ \/ \E response \in Responses : Reply(r, response)
       \/ ctx[r].role = "viewer" /\ Fail(r, "Policy")
       \/ \E e \in HandlerErrors : Fail(r, e)
       \/ ctx[r].role = "admin" /\ Enter(r, "revoking")
    /\ UNCHANGED <<phase, config, charged>>

InvalidateKey(r) ==
    /\ stage[r] = "revoking" /\ RedisAnswers
    /\ Reply(r, Ok)
    /\ UNCHANGED <<adminVars, phase, config, charged>>

(* The client goes away.  What ran for it in AdminAuth is dropped; a       *)
(* permit is released by its Drop (Concurrency has that task).             *)
ClientGone(r) ==
    /\ stage[r] # "none"
    /\ stage' = [stage EXCEPT ![r] = "none"]
    /\ reply' = [reply EXCEPT ![r] = NoReply]
    /\ charged' = [charged EXCEPT ![r] = FALSE]
    /\ IF pc[r] = "idle" THEN UNCHANGED adminVars ELSE Disconnect(r)
    /\ UNCHANGED <<phase, config>>

LoadKeys == (Query \/ Insert) /\ UNCHANGED serverVars

(* What the process does for a request by itself. *)
RequestStep(r) ==
    \/ AdminStep(r) \/ AdminRefused(r) \/ AwaitBody(r) \/ AdminHandle(r)
    \/ InvalidateKey(r) \/ DataPlane(r)

(* What it does when the client has sent its body or read its response.    *)
ClientStep(r) == CheckBody(r) \/ ExtractBody(r) \/ Sent(r)
AwaitsClient == {"collect", "body", "done"}

(* What happens around the process: its tasks, the clock, the operator.    *)
Around ==
    /\ \/ LoadFails \/ Tick
       \/ \E k \in AdminKeys, v \in RowValues : ChangeRow(k, v)
    /\ UNCHANGED serverVars

Next ==
    \/ \E env \in Environments : LoadConfig(env)
    \/ ConnectPg \/ Bind \/ Launch \/ Signal \/ Exit \/ Crash
    \/ \E r \in Requests : Accept(r) \/ RequestStep(r) \/ ClientStep(r) \/ ClientGone(r)
    \/ LoadKeys \/ Around

(* Calls to PostgreSQL and Redis return, with a result or an error, and so *)
(* do bcrypt tasks; a runtime that has nothing left to wait for ends.  No  *)
(* layer and no timeout bounds the wait for a client: its steps, and its   *)
(* going away, are not fair.                                               *)
Fairness ==
    /\ \A r \in Requests : WF_vars(RequestStep(r))
    /\ WF_vars(LoadKeys) /\ WF_vars(Exit)

Spec == Init /\ [][Next]_vars /\ Fairness
-----------------------------------------------------------------------------
Stages == {"none", "headers", "collect", "key", "policy", "rate", "acquire", "handler", "holding", "release",
           "admin", "body", "parsed", "revoking", "done"}
Statuses == {0, 200, 400, 401, 403, 404, 405, 409, 413, 415, 422, 429, 500}

TypeOK ==
    /\ AdminTypeOK
    /\ phase \in {"down", "loaded", "connected", "serving", "draining", "failed", "exited"}
    /\ config \in [database_url : Values, valkey_url : Values, pg_pool_size : Nat, valkey_pool_size : Nat]
    /\ stage \in [Requests -> Stages]
    /\ charged \in [Requests -> BOOLEAN]
    /\ reply \in [Requests -> [status : Statuses, headers : SUBSET {"Retry-After", "X-RateLimit"}]]

(* A response says what became of the request's quota: whatever was        *)
(* refused by the body limit, authentication or policy was charged         *)
(* nothing, only a request that was charged carries X-RateLimit headers,   *)
(* and a 429 always carries Retry-After.                                   *)
ResponseTells ==
    \A r \in Requests : stage[r] = "done" =>
        /\ "X-RateLimit" \in reply[r].headers => charged[r]
        /\ charged[r] => "X-RateLimit" \in reply[r].headers \/ reply[r].status \in {429, 500}
        /\ reply[r].status = 429 <=> "Retry-After" \in reply[r].headers

(* While the Redis pool can hold a connection, a request never hangs in    *)
(* the gateway: it comes to be answered or dropped, or waits for its own   *)
(* client to send a body or read a response.  What another client does or  *)
(* leaves undone does not hold it up, and a request that waits for         *)
(* another's load of the admin keys is not forgotten when that one goes.   *)
OnlyItsClientHoldsARequest ==
    \A r \in Requests :
        stage[r] # "none" /\ RedisAnswers ~> stage[r] \in AwaitsClient \cup {"none"}

(* Graceful shutdown ends, whatever requests were in flight, if no client  *)
(* keeps a request waiting for ever: axum::serve drains without a bound.   *)
ShutdownCompletes ==
    (\A r \in Requests : []<>(stage[r] \notin AwaitsClient)) =>
        (phase = "draining" /\ RedisAnswers ~> phase \in {"exited", "failed"})
=============================================================================
