----------------------------- MODULE PolicyMerge -----------------------------
(***************************************************************************)
(* From the policies bound to a service account to the decision on one     *)
(* request: merge_policies walks the list and accumulates the merged       *)
(* policy, then apply_policy_checks tests the request against it.          *)
(*                                                                         *)
(* Source: policy/engine.rs, model_access.rs, features.rs, quotas.rs.      *)
(* A model name is a sequence of characters; a pattern is its text without *)
(* a trailing *, and whether there was one.  Model lists are sets: neither *)
(* order nor repetition has an effect.                                     *)
(***************************************************************************)
EXTENDS Integers, Sequences

CONSTANTS PolicyRows,   \* rows of the policies table, as the database has them
          MaxPolicies,  \* bound: policies of one service account
          Requests,     \* requests to decide on
          Malformed,    \* a model list that is not a JSON array of strings
          None          \* Option::None

LimitFields == {"max_input_tokens", "max_output_tokens", "rpm_limit", "concurrency_limit"}
FlagFields == {"streaming", "tools", "files"}

(* Column types; an INTEGER column may hold any number. *)
ASSUME PolicyAssumption ==
    /\ None \notin Int
    /\ MaxPolicies \in Nat
    /\ \A p \in PolicyRows : p.limits \in [LimitFields -> Int \cup {None}]
    /\ \A p \in PolicyRows : p.flags \in [FlagFields -> BOOLEAN]
    /\ \A r \in Requests : r.input \in Nat \cup {None} /\ r.output \in Nat \cup {None}

VARIABLES
    policies,       \* list_policies_for_service_account
    request,
    pc,
    i,              \* the policy the loop is at
    allowed_models, denied_models, limits, flags, first_allowlist,
    decision        \* the outcome, and effective_max_output_tokens

vars == <<policies, request, pc, i, allowed_models, denied_models, limits, flags,
          first_allowlist, decision>>
merged == <<allowed_models, denied_models, limits, flags, first_allowlist>>
inputs == <<policies, request>>

Lists == UNION {[1..n -> PolicyRows] : n \in 0..MaxPolicies}
Decision(outcome, output, clamped) == [outcome |-> outcome, output |-> output, clamped |-> clamped]
Undecided == Decision("none", None, FALSE)

Init ==
    /\ policies \in Lists
    /\ request \in Requests
    /\ pc = "start" /\ i = 1
    /\ allowed_models = {} /\ denied_models = {}
    /\ limits = [f \in LimitFields |-> None]
    /\ flags = [f \in FlagFields |-> TRUE]
    /\ first_allowlist = TRUE
    /\ decision = Undecided

(* EvaluatedPolicy::default, for an account without policies. *)
MergeNothing ==
    /\ pc = "start" /\ policies = <<>>
    /\ flags' = [f \in FlagFields |-> f = "streaming"]
    /\ pc' = "check"
    /\ UNCHANGED <<i, allowed_models, denied_models, limits, first_allowlist, decision>>
    /\ UNCHANGED inputs

MergeStart ==
    /\ pc = "start" /\ policies # <<>>
    /\ pc' = "merge"
    /\ UNCHANGED <<i, decision>> /\ UNCHANGED merged /\ UNCHANGED inputs

(* serde and merge_positive_limit reject what the write path would have. *)
ConfigInvalid(p) ==
    \/ Malformed \in {p.allowed, p.denied}
    \/ \E f \in LimitFields : p.limits[f] # None /\ p.limits[f] =< 0

(* merge_positive_limit on a valid value. *)
MinLimit(cur, value) ==
    IF value = None \/ (cur # None /\ cur =< value) THEN cur ELSE value

(* Mutant of Intersect: a later allowlist replaces the earlier one. *)
IntersectReplaces(p) == IF p.allowed = {} THEN allowed_models ELSE p.allowed
(* The allowlists that are not empty intersect, pattern by pattern. *)
Intersect(p) ==
    IF p.allowed = {} THEN allowed_models
    ELSE IF first_allowlist THEN p.allowed ELSE allowed_models \cap p.allowed

(* Mutant of MergePolicy: only the first denylist is kept. *)
MergePolicyFirstDenylist ==
    /\ pc = "merge" /\ i =< Len(policies)
    /\ LET p == policies[i]
       IN  /\ ~ConfigInvalid(p)
           /\ allowed_models' = Intersect(p)
           /\ first_allowlist' = (first_allowlist /\ p.allowed = {})
           /\ denied_models' = IF denied_models = {} THEN p.denied ELSE denied_models
           /\ limits' = [f \in LimitFields |-> MinLimit(limits[f], p.limits[f])]
           /\ flags' = [f \in FlagFields |-> flags[f] /\ p.flags[f]]
    /\ i' = i + 1
    /\ UNCHANGED <<pc, decision>> /\ UNCHANGED inputs

(* One turn of the loop. *)
MergePolicy ==
    /\ pc = "merge" /\ i =< Len(policies)
    /\ LET p == policies[i]
       IN  /\ ~ConfigInvalid(p)
           /\ allowed_models' = Intersect(p)
           /\ first_allowlist' = (first_allowlist /\ p.allowed = {})
           /\ denied_models' = denied_models \cup p.denied
           /\ limits' = [f \in LimitFields |-> MinLimit(limits[f], p.limits[f])]
           /\ flags' = [f \in FlagFields |-> flags[f] /\ p.flags[f]]
    /\ i' = i + 1
    /\ UNCHANGED <<pc, decision>> /\ UNCHANGED inputs

(* Mutant of MergeInvalid: a bad policy is skipped. *)
MergeInvalidSkips ==
    /\ pc = "merge" /\ i =< Len(policies) /\ ConfigInvalid(policies[i])
    /\ i' = i + 1
    /\ UNCHANGED <<pc, decision>> /\ UNCHANGED merged /\ UNCHANGED inputs

(* policy_config_invalid: the whole evaluation fails. *)
MergeInvalid ==
    /\ pc = "merge" /\ i =< Len(policies) /\ ConfigInvalid(policies[i])
    /\ decision' = Decision("invalid", None, FALSE)
    /\ pc' = "done"
    /\ UNCHANGED i /\ UNCHANGED merged /\ UNCHANGED inputs

MergeEnd ==
    /\ pc = "merge" /\ i > Len(policies)
    /\ pc' = "check"
    /\ UNCHANGED <<i, decision>> /\ UNCHANGED merged /\ UNCHANGED inputs

(* matches_glob: a trailing * matches every continuation. *)
matches_glob(pattern, value) ==
    IF pattern.wild
    THEN Len(pattern.text) =< Len(value) /\ SubSeq(value, 1, Len(pattern.text)) = pattern.text
    ELSE pattern.text = value

Matches(patterns, model) == \E p \in patterns : matches_glob(p, model)

(* The three checks, on any model lists, flags and limits. *)
ModelAllowed(allowed, denied, model) ==
    ~Matches(denied, model) /\ (allowed # {} => Matches(allowed, model))
FeaturesAllowed(flag, features) == features \subseteq {f \in FlagFields : flag[f]}
InputAllowed(limit, input) == limit = None \/ input = None \/ input =< limit

(* The output tokens sent to the provider. *)
EffectiveOutput(limit, output) ==
    IF limit # None /\ (output = None \/ output > limit) THEN limit ELSE output

(* Whether a policy by itself would let the request pass. *)
Admits(p, r) ==
    /\ ModelAllowed(p.allowed, p.denied, r.model)
    /\ FeaturesAllowed(p.flags, r.features)
    /\ InputAllowed(p.limits["max_input_tokens"], r.input)

(* apply_policy_checks: model access, then features, then tokens. *)
Check ==
    /\ pc = "check"
    /\ LET out == limits["max_output_tokens"]
           ok  == /\ ModelAllowed(allowed_models, denied_models, request.model)
                  /\ FeaturesAllowed(flags, request.features)
                  /\ InputAllowed(limits["max_input_tokens"], request.input)
       IN  decision' = IF ok
                       THEN Decision("admitted", EffectiveOutput(out, request.output),
                                     out # None /\ request.output # None /\ request.output > out)
                       ELSE Decision("denied", None, FALSE)
    /\ pc' = "done"
    /\ UNCHANGED i /\ UNCHANGED merged /\ UNCHANGED inputs

Next == MergeNothing \/ MergeStart \/ MergePolicy \/ MergeInvalid \/ MergeEnd \/ Check

Spec == Init /\ [][Next]_vars
-----------------------------------------------------------------------------
(* The policies merged so far, and the ones among them with an allowlist. *)
Merged == {j \in 1..Len(policies) : j < i}
Listing == {j \in Merged : policies[j].allowed # {}}

TypeOK ==
    /\ policies \in Lists /\ request \in Requests
    /\ pc \in {"start", "merge", "check", "done"}
    /\ i \in 1..(Len(policies) + 1)
    /\ limits \in [LimitFields -> (Nat \ {0}) \cup {None}]
    /\ flags \in [FlagFields -> BOOLEAN]
    /\ first_allowlist \in BOOLEAN
    /\ decision.outcome \in {"none", "invalid", "denied", "admitted"}

(* Whatever the order of the policies, a limit of the merged policy is the *)
(* least of the limits set (merge_policies, "minimum of all Some values"). *)
LimitIsMinimum ==
    \A f \in LimitFields :
        /\ limits[f] = None <=> \A j \in Merged : policies[j].limits[f] = None
        /\ limits[f] # None =>
              /\ \E j \in Merged : policies[j].limits[f] = limits[f]
              /\ \A j \in Merged : policies[j].limits[f] # None =>
                    limits[f] =< policies[j].limits[f]

(* Whatever the order of the policies, a pattern is in the merged          *)
(* allowlist exactly when every policy that has an allowlist lists it.     *)
AllowlistIsIntersection ==
    /\ first_allowlist <=> Listing = {}
    /\ Listing # {} =>
          allowed_models = {p \in UNION {policies[j].allowed : j \in Listing} :
                               \A j \in Listing : p \in policies[j].allowed}

(* Every denylist counts, and a feature is on exactly when all grant it. *)
DenylistIsUnion == denied_models = UNION {policies[j].denied : j \in Merged}
FlagsGrantedByAll ==
    policies # <<>> =>
        \A f \in FlagFields : flags[f] <=> \A j \in Merged : policies[j].flags[f]

(* The loop of merge_policies computes, in every order of the policies and *)
(* after every turn, what its doc says of the policies merged so far:      *)
(* least limits, common patterns, all denied patterns, flags all grant.    *)
MergeIsOrderFree ==
    LimitIsMinimum /\ AllowlistIsIntersection /\ DenylistIsUnion /\ FlagsGrantedByAll

(* The output tokens asked of the provider are within a bound. *)
OutputWithin(bound) == bound # None => (decision.output # None /\ decision.output =< bound)

(* A request that is admitted passes every one of the policies, as long as *)
(* their allowlists have a pattern in common; and the output tokens asked  *)
(* of the provider are within every policy's limit and the request's own.  *)
AdmittedByEach ==
    (decision.outcome = "admitted" /\ (allowed_models # {} \/ first_allowlist)) =>
        /\ \A j \in 1..Len(policies) :
              /\ Admits(policies[j], request)
              /\ OutputWithin(policies[j].limits["max_output_tokens"])
        /\ OutputWithin(request.output)

(* One policy that cannot be read, or has a limit that is not positive,    *)
(* and nothing is admitted (fail-safe).                                    *)
InvalidPolicyAdmitsNothing ==
    pc = "done" =>
        (decision.outcome = "invalid" <=> \E j \in 1..Len(policies) : ConfigInvalid(policies[j]))

(* engine.rs:5 and 108, "most restrictive wins": what the merged policy    *)
(* admits, every policy admits.                                            *)
MostRestrictiveWins ==
    decision.outcome = "admitted" => \A j \in 1..Len(policies) : Admits(policies[j], request)
=============================================================================
