------------------------------ MODULE Fallback ------------------------------
(***************************************************************************)
(* One request's walk through the routing layer: the rows that match the   *)
(* alias are resolved in order, ExecutionPlan::build turns them into       *)
(* attempts, and execute_with_fallback tries the attempts one after the    *)
(* other, each through retry_with_backoff.                                 *)
(*                                                                         *)
(* Source: routing/resolver.rs, routing/router.rs (ExecutionPlan),         *)
(* routing/retry.rs, routing/fallback.rs and resolve_routes of             *)
(* storage/repositories/routes.rs.  The provider call itself is the        *)
(* closure call_fn: any of the three AttemptOutcome values may come back.  *)
(* An error is named by the ordinal of the call that produced it.          *)
(***************************************************************************)
EXTENDS Integers, Sequences, FiniteSets

CONSTANTS Routes,    \* the provider_routes rows there may be
          Tenant,    \* the tenant of the request
          Alias,     \* the model alias of the request
          Global,    \* the NULL tenant_id of a global route
          BackoffCap,     \* DEFAULT_BACKOFF_CAP, in milliseconds
          MaxBackoffShift \* MAX_BACKOFF_SHIFT

ASSUME BackoffAssumption == BackoffCap \in Nat /\ MaxBackoffShift \in Nat

ASSUME RoutesAssumption ==
    /\ IsFiniteSet(Routes) /\ Tenant # Global
    /\ \A r \in Routes : /\ r.max_retries \in Int
                         /\ r.timeout_ms \in Int
                         /\ r.retry_backoff_ms \in Int
                         /\ r.priority \in Int
                         /\ r.enabled \in BOOLEAN

VARIABLES
    rows,           \* the rows of provider_routes when the request resolves
    phase,          \* "resolve", "call", "backoff" or "done"
    plan,           \* ExecutionPlan.attempts
    cur,            \* index in plan of the route being tried
    attempt,        \* the loop variable of retry_with_backoff_rng
    total_attempts, \* the local of execute_with_fallback
    routes_tried,   \* the local of execute_with_fallback
    last_error,     \* the local of execute_with_fallback; 0 is None
    backoff,        \* the sleep chosen before the next call
    slept,          \* history: sleeps of the walk so far, the present one included
    result,         \* what the caller gets
    tries,          \* history: calls made on each route of the plan
    last,           \* history: outcome of the last call on each route
    ncalls          \* history: calls made in all

walkVars == <<rows, phase, plan, cur, attempt, total_attempts, routes_tried,
              last_error, backoff, slept, result, tries, last, ncalls>>

Outcomes == {"success", "retryable", "fatal"}
NoResult == [kind |-> "none"]

Matching(tab) ==
    {r \in tab : r.alias = Alias /\ r.enabled /\ r.tenant_id \in {Tenant, Global}}

(* Mutant of Before: the tenant CASE of the ORDER BY is missing. *)
BeforeByPriority(r, s) == r.priority =< s.priority

(* ORDER BY (tenant row first), priority ASC; ties come in any order. *)
Before(r, s) ==
    \/ r.tenant_id # Global /\ s.tenant_id = Global
    \/ (r.tenant_id = Global) = (s.tenant_id = Global) /\ r.priority =< s.priority

(* Every answer the query of resolve_routes may give. *)
ResolveRoutes(tab) ==
    {s \in [1..Cardinality(Matching(tab)) -> Matching(tab)] :
        \A i, j \in DOMAIN s : i < j => s[i] # s[j] /\ Before(s[i], s[j])}

ValidRoute(r) == r.max_retries >= 0 /\ r.timeout_ms >= 0 /\ r.retry_backoff_ms >= 0

(* Mutant of BackoffChoices: the cap is not applied. *)
BackoffUncapped(base, n) == 0..(base * 2^n)

(* compute_backoff: the jitter is uniform over this interval. *)
BackoffChoices(base, n) ==
    IF base = 0 \/ BackoffCap = 0 THEN {0}
    ELSE LET shift == IF n < MaxBackoffShift THEN n ELSE MaxBackoffShift
             exponential == base * 2^shift
         IN  {ms \in 0..BackoffCap : ms =< exponential}

TotalCalls == 1 + plan[cur].max_retries

WalkInit ==
    /\ rows \in SUBSET Routes
    /\ phase = "resolve"
    /\ plan = <<>> /\ cur = 0 /\ attempt = 0
    /\ total_attempts = 0 /\ routes_tried = 0 /\ last_error = 0
    /\ backoff = 0 /\ slept = 0 /\ result = NoResult
    /\ tries = <<>> /\ last = <<>> /\ ncalls = 0

Finish(res) == phase' = "done" /\ result' = res

(* RouteResolver::resolve finds no enabled route for the alias. *)
NoRoute ==
    /\ phase = "resolve"
    /\ Matching(rows) = {}
    /\ Finish([kind |-> "error", code |-> "no_route"])
    /\ UNCHANGED <<rows, plan, cur, attempt, total_attempts, routes_tried,
                   last_error, backoff, slept, tries, last, ncalls>>

(* ExecutionPlan::build refuses the whole list when one row is negative. *)
BuildFails ==
    /\ phase = "resolve"
    /\ \E r \in Matching(rows) : ~ValidRoute(r)
    /\ Finish([kind |-> "error", code |-> "invalid_route_config"])
    /\ UNCHANGED <<rows, plan, cur, attempt, total_attempts, routes_tried,
                   last_error, backoff, slept, tries, last, ncalls>>

(* build succeeds and execute_with_fallback enters its first route. *)
Build ==
    /\ phase = "resolve"
    /\ Matching(rows) # {}
    /\ \A r \in Matching(rows) : ValidRoute(r)
    /\ \E s \in ResolveRoutes(rows) :
        /\ plan' = s
        /\ tries' = [i \in DOMAIN s |-> 0]
        /\ last' = [i \in DOMAIN s |-> "none"]
    /\ phase' = "call" /\ cur' = 1 /\ attempt' = 0 /\ routes_tried' = 1
    /\ UNCHANGED <<rows, total_attempts, last_error, backoff, slept, result, ncalls>>

(* What every completed call leaves in the history. *)
Record(outcome) ==
    /\ tries' = [tries EXCEPT ![cur] = @ + 1]
    /\ last' = [last EXCEPT ![cur] = outcome]
    /\ ncalls' = ncalls + 1

(* Mutant of CallSucceeds: attempts_used is the zero-based index. *)
CallSucceedsZeroBased ==
    /\ phase = "call"
    /\ Record("success")
    /\ total_attempts' = total_attempts + attempt
    /\ Finish([kind |-> "ok", route |-> plan[cur], routes_tried |-> routes_tried,
               total_attempts |-> total_attempts + attempt])
    /\ UNCHANGED <<rows, plan, cur, attempt, routes_tried, last_error, backoff, slept>>

CallSucceeds ==
    /\ phase = "call"
    /\ Record("success")
    /\ total_attempts' = total_attempts + (attempt + 1)
    /\ Finish([kind |-> "ok", route |-> plan[cur], routes_tried |-> routes_tried,
               total_attempts |-> total_attempts + (attempt + 1)])
    /\ UNCHANGED <<rows, plan, cur, attempt, routes_tried, last_error, backoff, slept>>

(* Mutant of LeaveRoute: the loop stops one route early. *)
LeaveRouteEarly(e, used) ==
    /\ total_attempts' = total_attempts + used
    /\ last_error' = e
    /\ \/ /\ cur + 1 < Len(plan)
          /\ cur' = cur + 1
          /\ routes_tried' = routes_tried + 1
          /\ attempt' = 0
          /\ UNCHANGED <<phase, result>>
       \/ /\ cur + 1 >= Len(plan)
          /\ Finish([kind |-> "error", code |-> "provider", error |-> e])
          /\ UNCHANGED <<cur, routes_tried, attempt>>

(* retry_with_backoff returned Err((e, used)): the fallback loop moves on. *)
LeaveRoute(e, used) ==
    /\ total_attempts' = total_attempts + used
    /\ last_error' = e
    /\ \/ /\ cur < Len(plan)
          /\ cur' = cur + 1
          /\ routes_tried' = routes_tried + 1
          /\ attempt' = 0
          /\ UNCHANGED <<phase, result>>
       \/ /\ cur = Len(plan)
          /\ Finish([kind |-> "error", code |-> "provider", error |-> e])
          /\ UNCHANGED <<cur, routes_tried, attempt>>

CallFatal ==
    /\ phase = "call"
    /\ Record("fatal")
    /\ LeaveRoute(ncalls + 1, attempt + 1)
    /\ UNCHANGED <<rows, plan, backoff, slept>>

(* A retryable failure with retries left: sleep, then call again. *)
CallRetryable ==
    /\ phase = "call"
    /\ attempt + 1 < TotalCalls
    /\ Record("retryable")
    /\ backoff' \in BackoffChoices(plan[cur].retry_backoff_ms, attempt)
    /\ slept' = slept + backoff'
    /\ phase' = "backoff"
    /\ UNCHANGED <<rows, plan, cur, attempt, total_attempts, routes_tried,
                   last_error, result>>

RetriesExhausted ==
    /\ phase = "call"
    /\ attempt + 1 >= TotalCalls
    /\ Record("retryable")
    /\ LeaveRoute(ncalls + 1, TotalCalls)
    /\ UNCHANGED <<rows, plan, backoff, slept>>

(* tokio::time::sleep returns and the retry loop makes its next call. *)
WakeUp ==
    /\ phase = "backoff"
    /\ phase' = "call"
    /\ attempt' = attempt + 1
    /\ backoff' = 0
    /\ UNCHANGED <<rows, plan, cur, total_attempts, routes_tried, last_error,
                   slept, result, tries, last, ncalls>>

WalkNext ==
    \/ NoRoute \/ BuildFails \/ Build
    \/ CallSucceeds \/ CallFatal \/ CallRetryable \/ RetriesExhausted \/ WakeUp

WalkSpec == WalkInit /\ [][WalkNext]_walkVars
-----------------------------------------------------------------------------
WalkTypeOK ==
    /\ phase \in {"resolve", "call", "backoff", "done"}
    /\ cur \in 0..Len(plan)
    /\ attempt \in Nat /\ total_attempts \in Nat /\ routes_tried \in Nat
    /\ last_error \in Nat /\ ncalls \in Nat /\ backoff \in 0..BackoffCap /\ slept \in Nat
    /\ tries \in [DOMAIN plan -> Nat]
    /\ last \in [DOMAIN plan -> Outcomes \cup {"none"}]
    /\ plan = <<>> \/ plan \in ResolveRoutes(rows)

(* A route that will not be called again: fatal, or every retry used up. *)
GivenUp(i) ==
    \/ last[i] = "fatal"
    \/ last[i] = "retryable" /\ tries[i] = 1 + plan[i].max_retries

(* What execute_with_fallback reports is the walk really made: the route   *)
(* is the one that answered, total_attempts counts every provider call of  *)
(* every route, routes_tried every route called, whatever mix of retries   *)
(* and fallbacks led there.                                                *)
ReportedAttemptsAreCallsMade ==
    result.kind = "ok" =>
        /\ result.route = plan[cur] /\ last[cur] = "success"
        /\ result.total_attempts = ncalls
        /\ result.routes_tried = Cardinality({i \in DOMAIN plan : tries[i] > 0})

(* A route is called only when every enabled route that goes before it was *)
(* given up for a reason retry_with_backoff gives: a fatal error, or all   *)
(* 1+max_retries calls retryable.  The tenant's own routes go before the   *)
(* global ones, and then a lower priority before a higher one.  No route   *)
(* is called more often than that.                                         *)
EarlierRoutesGivenUp ==
    \A i \in DOMAIN plan :
        /\ tries[i] =< 1 + plan[i].max_retries
        /\ tries[i] > 0 =>
              \A r \in Matching(rows) :
                  \/ r.tenant_id = Tenant /\ plan[i].tenant_id = Global
                  \/ r.tenant_id = plan[i].tenant_id /\ r.priority < plan[i].priority
                  => \E j \in DOMAIN plan : plan[j] = r /\ GivenUp(j)

(* A request fails with a provider error only when every enabled row that  *)
(* matches the alias was called and given up, and the error is that of the *)
(* very last call (the doc of execute_with_fallback, step 4).              *)
FailureOnlyAfterEveryRoute ==
    (result.kind = "error" /\ result.code = "provider") =>
        /\ \A r \in Matching(rows) : \E i \in DOMAIN plan : plan[i] = r /\ GivenUp(i)
        /\ result.error = ncalls

(* A walk sleeps only for a retry it then makes, at most BackoffCap each:  *)
(* no route's first call waits, and nothing waits after a last call        *)
(* (compute_backoff and the remaining > 0 of retry_with_backoff_rng).      *)
SleepsOnlyForRetries ==
    LET first == Cardinality({i \in DOMAIN plan : tries[i] > 0})
        next  == IF phase = "backoff" \/ (phase = "call" /\ attempt > 0) THEN 1 ELSE 0
    IN  slept =< BackoffCap * (ncalls - first + next)
=============================================================================
