----------------------------- MODULE PolicyProofs -----------------------------
(***************************************************************************)
(* Proofs about policies.  First the merge and the checks on its result,   *)
(* for any policies in any number and order, and any request; then the     *)
(* policy cache, for any number of instances, handlers and policies, any   *)
(* TTL and any bound on the duration of a load.                            *)
(***************************************************************************)
EXTENDS PolicyMerge, PolicyCache, SequenceTheorems, TLAPS

USE PolicyAssumption, SMTT(20), Zenon, Z3T(20)

Valid(p) == ~ConfigInvalid(p)

(* Where the loop is. *)
Progress ==
    /\ pc = "start" => i = 1
    /\ pc = "check" => i = Len(policies) + 1
    /\ pc # "done" => decision = Undecided
    /\ \A j \in Merged : Valid(policies[j])

IInv == /\ TypeOK /\ Progress /\ DenylistIsUnion /\ FlagsGrantedByAll
        /\ LimitIsMinimum /\ AllowlistIsIntersection
        /\ InvalidPolicyAdmitsNothing /\ AdmittedByEach

(* The list of policies is a sequence of rows. *)
LEMMA ListsAreSequences ==
  ASSUME policies \in Lists
  PROVE  /\ Len(policies) \in Nat /\ DOMAIN policies = 1..Len(policies)
         /\ \A j \in 1..Len(policies) : policies[j] \in PolicyRows
  <1>1. PICK n \in 0..MaxPolicies : policies \in [1..n -> PolicyRows]
    BY DEF Lists
  <1>2. policies \in Seq(PolicyRows)
    BY <1>1, SeqDef
  <1> QED
    BY <1>2

LEMMA InitIInv == Init => IInv
  <1> SUFFICES ASSUME Init PROVE IInv
    OBVIOUS
  <1> USE DEF Init
  <1>0. Len(policies) \in Nat
    BY ListsAreSequences
  <1>1. Merged = {} /\ Listing = {}
    BY <1>0 DEF Merged, Listing
  <1>2. TypeOK
    BY <1>0 DEF TypeOK, Undecided, Decision
  <1>3. Progress /\ DenylistIsUnion /\ FlagsGrantedByAll
    BY <1>1 DEF Progress, DenylistIsUnion, FlagsGrantedByAll
  <1>4. LimitIsMinimum /\ AllowlistIsIntersection
    BY <1>1 DEF LimitIsMinimum, AllowlistIsIntersection
  <1>5. InvalidPolicyAdmitsNothing /\ AdmittedByEach
    BY DEF InvalidPolicyAdmitsNothing, AdmittedByEach, Undecided, Decision
  <1> QED
    BY <1>2, <1>3, <1>4, <1>5 DEF IInv

(* What one turn of the loop adds. *)
LEMMA OneMore ==
  ASSUME IInv, MergePolicy
  PROVE  /\ i \in 1..Len(policies) /\ i' = i + 1 /\ UNCHANGED <<pc, decision, policies, request>>
         /\ policies[i] \in PolicyRows /\ Valid(policies[i])
         /\ i \notin Merged /\ Merged' = Merged \cup {i}
         /\ Listing' = IF policies[i].allowed = {} THEN Listing ELSE Listing \cup {i}
  <1>1. /\ i \in 1..Len(policies) /\ i' = i + 1 /\ UNCHANGED <<pc, decision, policies, request>>
        /\ Valid(policies[i]) /\ Len(policies) \in Nat
    BY ListsAreSequences DEF MergePolicy, IInv, TypeOK, Valid, inputs
  <1>2. policies[i] \in PolicyRows
    BY <1>1, ListsAreSequences, Zenon DEF IInv, TypeOK
  <1>3. i \notin Merged /\ Merged' = Merged \cup {i}
    BY <1>1 DEF Merged
  <1>4. Listing' = IF policies[i].allowed = {} THEN Listing ELSE Listing \cup {i}
    BY <1>1, <1>3 DEF Listing
  <1> QED
    BY <1>1, <1>2, <1>3, <1>4

(* One turn of the loop keeps the invariant. *)
LEMMA MergePolicyIInv == ASSUME IInv, MergePolicy PROVE IInv'
  <1> DEFINE p == policies[i]
  <1>0. /\ i \in 1..Len(policies) /\ i' = i + 1 /\ UNCHANGED <<pc, decision, policies, request>>
        /\ p \in PolicyRows /\ Valid(p)
        /\ i \notin Merged /\ Merged' = Merged \cup {i}
        /\ Listing' = IF p.allowed = {} THEN Listing ELSE Listing \cup {i}
    BY OneMore, Zenon
  <1>1. /\ allowed_models' = Intersect(p)
        /\ first_allowlist' = (first_allowlist /\ p.allowed = {})
        /\ denied_models' = denied_models \cup p.denied
        /\ limits' = [f \in LimitFields |-> MinLimit(limits[f], p.limits[f])]
        /\ flags' = [f \in FlagFields |-> flags[f] /\ p.flags[f]]
        /\ pc = "merge"
    BY Zenon DEF MergePolicy
  <1>2. p.limits \in [LimitFields -> Int \cup {None}] /\ p.flags \in [FlagFields -> BOOLEAN]
    BY <1>0
  <1>3. \A f \in LimitFields : p.limits[f] \in (Nat \ {0}) \cup {None}
    BY <1>0, <1>2 DEF Valid, ConfigInvalid
  <1> HIDE DEF p
  <1>4. limits \in [LimitFields -> (Nat \ {0}) \cup {None}] /\ Len(policies) \in Nat
    BY ListsAreSequences DEF IInv, TypeOK
  <1>5. TypeOK'
    <2>1. limits' \in [LimitFields -> (Nat \ {0}) \cup {None}]
      BY <1>1, <1>3, <1>4, Zenon DEF MinLimit
    <2>2. flags' \in [FlagFields -> BOOLEAN]
      BY <1>1, <1>2, Zenon DEF IInv, TypeOK
    <2>3. first_allowlist' \in BOOLEAN
      BY <1>1, Zenon DEF IInv, TypeOK
    <2>4. i' \in 1..(Len(policies) + 1)
      BY <1>0, <1>4
    <2> QED
      BY <1>0, <2>1, <2>2, <2>3, <2>4 DEF IInv, TypeOK
  <1>6. Progress'
    BY <1>0, <1>1, Zenon DEF IInv, Progress, p
  <1>7. DenylistIsUnion'
    BY <1>0, <1>1 DEF IInv, DenylistIsUnion, p
  <1>8. FlagsGrantedByAll'
    BY <1>0, <1>1, Zenon DEF IInv, FlagsGrantedByAll, p
  <1>9. LimitIsMinimum'
    <2> SUFFICES ASSUME NEW f \in LimitFields
                 PROVE  /\ limits'[f] = None <=> \A j \in Merged' : policies[j].limits[f] = None
                        /\ limits'[f] # None =>
                              /\ \E j \in Merged' : policies[j].limits[f] = limits'[f]
                              /\ \A j \in Merged' : policies[j].limits[f] # None =>
                                    limits'[f] =< policies[j].limits[f]
      BY <1>0, Zenon DEF LimitIsMinimum
    <2> DEFINE cur == limits[f]
               new == limits'[f]
    <2>1. /\ cur = None <=> \A j \in Merged : policies[j].limits[f] = None
          /\ cur # None =>
                /\ \E j \in Merged : policies[j].limits[f] = cur
                /\ \A j \in Merged : policies[j].limits[f] # None => cur =< policies[j].limits[f]
      BY Zenon DEF IInv, LimitIsMinimum
    <2>2. new = MinLimit(cur, p.limits[f])
      BY <1>1
    <2>3. cur \in Nat \cup {None} /\ p.limits[f] \in Nat \cup {None} /\ None \notin Int
      BY <1>3, <1>4
    <2>4. \A j \in Merged : policies[j].limits[f] \in Int \cup {None}
      BY ListsAreSequences DEF IInv, TypeOK, Merged
    <2>5. \A j \in Merged' : j \in Merged \/ j = i
      BY <1>0, Zenon
    <2>6. i \in Merged' /\ Merged \subseteq Merged' /\ policies[i] = p
      BY <1>0 DEF p
    <2> HIDE DEF cur, new
    <2>7. CASE p.limits[f] = None \/ (cur # None /\ cur =< p.limits[f])
      <3>1. new = cur
        BY <2>2, <2>7, Zenon DEF MinLimit
      <3> QED
        BY <2>1, <2>3, <2>5, <2>6, <2>7, <3>1, Zenon DEF new
    <2>8. CASE ~(p.limits[f] = None \/ (cur # None /\ cur =< p.limits[f]))
      <3>1. new = p.limits[f] /\ new # None
        BY <2>2, <2>8, Zenon DEF MinLimit
      <3>2. \A j \in Merged : policies[j].limits[f] # None => new =< policies[j].limits[f]
        BY <2>1, <2>3, <2>4, <2>8, <3>1
      <3>3. new =< new
        BY <2>3, <3>1
      <3> QED
        BY <2>5, <2>6, <3>1, <3>2, <3>3, Zenon DEF new
    <2> QED
      BY <2>7, <2>8, Zenon
  <1>10. AllowlistIsIntersection'
    <2>1. /\ first_allowlist <=> Listing = {}
          /\ Listing # {} =>
                allowed_models = {q \in UNION {policies[j].allowed : j \in Listing} :
                                     \A j \in Listing : q \in policies[j].allowed}
      BY DEF IInv, AllowlistIsIntersection
    <2>2. policies[i] = p
      BY DEF p
    <2>3. CASE p.allowed = {}
      <3>1. Listing' = Listing /\ allowed_models' = allowed_models
        BY <1>0, <1>1, <2>3, Zenon DEF Intersect
      <3>2. first_allowlist' = first_allowlist
        BY <1>1, <2>3, Zenon DEF IInv, TypeOK
      <3> QED
        BY <1>0, <2>1, <3>1, <3>2 DEF AllowlistIsIntersection
    <2>4. CASE p.allowed # {} /\ first_allowlist
      <3>1. Listing' = {i} /\ allowed_models' = p.allowed /\ first_allowlist' = FALSE
        BY <1>0, <1>1, <2>1, <2>4, Zenon DEF Intersect
      <3> QED
        BY <1>0, <2>2, <3>1, Zenon DEF AllowlistIsIntersection
    <2>5. CASE p.allowed # {} /\ ~first_allowlist
      <3>1. /\ Listing' = Listing \cup {i} /\ allowed_models' = allowed_models \cap p.allowed
            /\ first_allowlist' = FALSE /\ Listing # {}
        BY <1>0, <1>1, <2>1, <2>5, Zenon DEF Intersect
      <3>2. \A q : q \in allowed_models <=> \A j \in Listing : q \in policies[j].allowed
        BY <2>1, <3>1, Zenon
      <3>3. allowed_models' = {q \in UNION {policies[j].allowed : j \in Listing'} :
                                  \A j \in Listing' : q \in policies[j].allowed}
        BY <2>2, <3>1, <3>2, Zenon
      <3> QED
        BY <1>0, <3>1, <3>3 DEF AllowlistIsIntersection
    <2> QED
      BY <2>3, <2>4, <2>5
  <1>11. InvalidPolicyAdmitsNothing'
    BY <1>0, <1>1, Zenon DEF InvalidPolicyAdmitsNothing
  <1>12. AdmittedByEach'
    BY <1>0, <1>1 DEF IInv, Progress, AdmittedByEach, Undecided, Decision
  <1> QED
    BY <1>5, <1>6, <1>7, <1>8, <1>9, <1>10, <1>11, <1>12, Zenon DEF IInv

(* The checks on the merged policy: what passes them passes every policy.  *)
LEMMA CheckAdmits == ASSUME IInv, Check PROVE AdmittedByEach'
  <1> SUFFICES ASSUME decision'.outcome = "admitted", allowed_models # {} \/ first_allowlist
               PROVE  /\ \A j \in 1..Len(policies) :
                            /\ Admits(policies[j], request)
                            /\ OutputWithin(policies[j].limits["max_output_tokens"])'
                      /\ OutputWithin(request.output)'
    BY Zenon DEF Check, merged, inputs, AdmittedByEach
  <1>0. /\ Len(policies) \in Nat /\ i = Len(policies) + 1 /\ Merged = 1..Len(policies)
        /\ request \in Requests /\ UNCHANGED <<policies, request>>
    BY ListsAreSequences DEF Check, IInv, TypeOK, Progress, Merged, inputs
  <1>1. /\ ModelAllowed(allowed_models, denied_models, request.model)
        /\ FeaturesAllowed(flags, request.features)
        /\ InputAllowed(limits["max_input_tokens"], request.input)
        /\ decision'.output = EffectiveOutput(limits["max_output_tokens"], request.output)
    BY Zenon DEF Check, Decision
  <1>2. /\ request.input \in Nat \cup {None} /\ request.output \in Nat \cup {None}
        /\ limits \in [LimitFields -> (Nat \ {0}) \cup {None}]
    BY <1>0, Zenon DEF IInv, TypeOK
  <1>3. ASSUME NEW f \in LimitFields, NEW j \in Merged, policies[j].limits[f] # None
        PROVE  limits[f] \in Nat /\ policies[j].limits[f] \in Int /\ limits[f] =< policies[j].limits[f]
    <2>1. policies[j].limits[f] \in Int
      BY <1>0, <1>3, ListsAreSequences, Zenon DEF IInv, TypeOK
    <2>2. limits[f] # None /\ limits[f] =< policies[j].limits[f]
      BY <1>3, Zenon DEF IInv, LimitIsMinimum
    <2> QED
      BY <1>2, <2>1, <2>2, Zenon
  <1>4. ASSUME NEW j \in Merged PROVE Admits(policies[j], request)
    <2> DEFINE p == policies[j]
    <2>1. ~Matches(p.denied, request.model)
      BY <1>1, Zenon DEF ModelAllowed, Matches, IInv, DenylistIsUnion
    <2>2. ASSUME p.allowed # {} PROVE Matches(p.allowed, request.model)
      <3>1. j \in Listing
        BY <2>2 DEF Listing
      <3>2. allowed_models # {} /\ allowed_models \subseteq p.allowed
        BY <3>1 DEF IInv, AllowlistIsIntersection
      <3> QED
        BY <1>1, <3>2, Zenon DEF ModelAllowed, Matches
    <2>3. FeaturesAllowed(p.flags, request.features)
      <3>1. policies # <<>>
        BY <1>0
      <3>2. \A f \in FlagFields : flags[f] => p.flags[f]
        BY <3>1, Zenon DEF IInv, FlagsGrantedByAll
      <3> QED
        BY <1>1, <3>2, Zenon DEF FeaturesAllowed
    <2>4. InputAllowed(p.limits["max_input_tokens"], request.input)
      BY <1>1, <1>2, <1>3 DEF InputAllowed, LimitFields
    <2> QED
      BY <2>1, <2>2, <2>3, <2>4, Zenon DEF Admits, ModelAllowed
  <1>5. ASSUME NEW j \in Merged PROVE OutputWithin(policies[j].limits["max_output_tokens"])'
    BY <1>0, <1>1, <1>2, <1>3 DEF OutputWithin, EffectiveOutput, LimitFields
  <1>6. OutputWithin(request.output)'
    BY <1>0, <1>1, <1>2 DEF OutputWithin, EffectiveOutput, LimitFields
  <1> QED
    BY <1>0, <1>4, <1>5, <1>6, Zenon

(* A step that leaves the loop variables alone leaves what they say. *)
LEMMA MergedUnchanged ==
  ASSUME IInv, UNCHANGED <<policies, request, i, allowed_models, denied_models, limits, first_allowlist>>
  PROVE  /\ LimitIsMinimum' /\ AllowlistIsIntersection' /\ DenylistIsUnion'
         /\ UNCHANGED flags => FlagsGrantedByAll'
         /\ \A j \in Merged' : Valid(policies'[j])
  <1>1. UNCHANGED <<Merged, Listing>>
    BY Zenon DEF Merged, Listing
  <1> QED
    BY <1>1 DEF IInv, LimitIsMinimum, AllowlistIsIntersection, DenylistIsUnion, FlagsGrantedByAll, Progress

(* Every step keeps the invariant. *)
LEMMA NextIInv == IInv /\ [Next]_vars => IInv'
  <1> SUFFICES ASSUME IInv, [Next]_vars PROVE IInv'
    BY Zenon
  <1>0. Len(policies) \in Nat
    BY ListsAreSequences, Zenon DEF IInv, TypeOK
  <1>1. CASE MergeNothing
    <2>1. /\ policies = <<>> /\ i = 1 /\ pc' = "check"
          /\ UNCHANGED <<policies, request, i, allowed_models, denied_models, limits, first_allowlist, decision>>
          /\ decision = Undecided
      BY <1>1, Zenon DEF MergeNothing, IInv, Progress, inputs
    <2>2. flags' \in [FlagFields -> BOOLEAN]
      BY <1>1, Zenon DEF MergeNothing
    <2>3. Merged' = {} /\ Len(policies) = 0
      BY <2>1 DEF Merged
    <2>4. TypeOK'
      BY <2>1, <2>2, Zenon DEF IInv, TypeOK
    <2>5. Progress' /\ FlagsGrantedByAll'
      BY <2>1, <2>3 DEF Progress, FlagsGrantedByAll
    <2>6. InvalidPolicyAdmitsNothing' /\ AdmittedByEach'
      BY <2>1, Zenon DEF InvalidPolicyAdmitsNothing, AdmittedByEach, Undecided, Decision
    <2> QED
      BY <2>1, <2>4, <2>5, <2>6, MergedUnchanged, Zenon DEF IInv
  <1>2. CASE MergeStart \/ MergeEnd
    <2>1. /\ UNCHANGED <<policies, request, i, allowed_models, denied_models, limits, flags, first_allowlist, decision>>
          /\ decision = Undecided /\ pc' \in {"merge", "check"}
          /\ pc' = "check" => i = Len(policies) + 1
      BY <1>0, <1>2 DEF MergeStart, MergeEnd, IInv, TypeOK, Progress, merged, inputs
    <2>2. TypeOK'
      BY <2>1, Zenon DEF IInv, TypeOK
    <2>3. Progress'
      BY <2>1, MergedUnchanged, Zenon DEF Progress
    <2>4. InvalidPolicyAdmitsNothing' /\ AdmittedByEach'
      BY <2>1, Zenon DEF InvalidPolicyAdmitsNothing, AdmittedByEach, Undecided, Decision
    <2> QED
      BY <2>1, <2>2, <2>3, <2>4, MergedUnchanged, Zenon DEF IInv
  <1>3. CASE MergePolicy
    BY <1>3, MergePolicyIInv
  <1>4. CASE MergeInvalid
    <2>1. /\ UNCHANGED <<policies, request, i, allowed_models, denied_models, limits, flags, first_allowlist>>
          /\ pc' = "done" /\ decision'.outcome = "invalid"
          /\ i \in 1..Len(policies) /\ ConfigInvalid(policies[i])
      BY <1>0, <1>4 DEF MergeInvalid, IInv, TypeOK, merged, inputs, Decision
    <2>2. TypeOK'
      BY <2>1, Zenon DEF IInv, TypeOK
    <2>3. Progress'
      BY <2>1, MergedUnchanged, Zenon DEF Progress
    <2>4. InvalidPolicyAdmitsNothing' /\ AdmittedByEach'
      BY <2>1, Zenon DEF InvalidPolicyAdmitsNothing, AdmittedByEach
    <2> QED
      BY <2>1, <2>2, <2>3, <2>4, MergedUnchanged, Zenon DEF IInv
  <1>5. CASE Check
    <2>1. /\ UNCHANGED <<policies, request, i, allowed_models, denied_models, limits, flags, first_allowlist>>
          /\ pc' = "done" /\ decision'.outcome \in {"admitted", "denied"}
          /\ i = Len(policies) + 1
      BY <1>5, Zenon DEF Check, IInv, Progress, merged, inputs, Decision
    <2>2. TypeOK'
      BY <2>1, Zenon DEF IInv, TypeOK
    <2>3. Progress'
      BY <2>1, MergedUnchanged, Zenon DEF Progress
    <2>4. InvalidPolicyAdmitsNothing'
      BY <1>0, <2>1 DEF IInv, Progress, Merged, Valid, InvalidPolicyAdmitsNothing
    <2> QED
      BY <1>5, <2>1, <2>2, <2>3, <2>4, CheckAdmits, MergedUnchanged, Zenon DEF IInv
  <1>6. CASE UNCHANGED vars
    <2>1. UNCHANGED <<policies, request, pc, i, allowed_models, denied_models, limits, flags, first_allowlist, decision>>
      BY <1>6, Zenon DEF vars
    <2>2. TypeOK'
      BY <2>1, Zenon DEF IInv, TypeOK
    <2>3. Progress'
      BY <2>1, MergedUnchanged, Zenon DEF IInv, Progress
    <2>4. InvalidPolicyAdmitsNothing' /\ AdmittedByEach'
      BY <2>1, Zenon DEF IInv, InvalidPolicyAdmitsNothing, AdmittedByEach, OutputWithin
    <2> QED
      BY <2>1, <2>2, <2>3, <2>4, MergedUnchanged, Zenon DEF IInv
  <1> QED
    BY <1>1, <1>2, <1>3, <1>4, <1>5, <1>6 DEF Next

LEMMA Invariance == Spec => []IInv
  BY InitIInv, NextIInv, PTL DEF Spec

(* The loop variables keep their types. *)
THEOREM TypeCorrect == Spec => []TypeOK
  BY Invariance, PTL DEF IInv

(* The merge is what its doc says, for any policies in any order: least    *)
(* limits, common allowlist patterns, all denylists, flags all grant.      *)
THEOREM OrderFree == Spec => []MergeIsOrderFree
  <1>1. IInv => MergeIsOrderFree
    BY Zenon DEF IInv, MergeIsOrderFree
  <1> QED
    BY <1>1, Invariance, PTL

(* One policy that cannot be read fails the whole evaluation. *)
THEOREM FailSafe == Spec => []InvalidPolicyAdmitsNothing
  BY Invariance, PTL DEF IInv

(* What the merged policy admits, each of the policies admits, unless      *)
(* their allowlists have nothing in common.                                *)
THEOREM AdmittedByAll == Spec => []AdmittedByEach
  BY Invariance, PTL DEF IInv

-----------------------------------------------------------------------------
(* The policy cache. *)

HIDE PolicyAssumption
USE PolicyCacheAssumption

(* A view holds the present row of every policy that has been bound, or    *)
(* once the default was queried been the default, unchanged since before s.*)
Complete(view, s, queried, r, rAt, b, bAt) ==
    \A p \in Policies :
        /\ r[p] > 0 /\ rAt[p] < s
        /\ (p \in b /\ bAt[p] < s) \/ (queried /\ p = Default)
        => [id |-> p, version |-> r[p]] \in view

(* What a view holds and does no longer apply was changed at s or later. *)
Current(view, s, r, rAt, b, bAt) ==
    \A v \in view :
        /\ v.version # r[v.id] => rAt[v.id] >= s
        /\ v.id \notin b \cup {Default} => bAt[v.id] >= s

(* A load is young.  Once it has queried it knows every policy settled     *)
(* before it began, and has seen every write that was cleanly acknowledged *)
(* at its instance.                                                        *)
LoadsSound ==
    \A c \in Instances : load[c] # Absent =>
        /\ now - load[c].since =< MaxLoad
        /\ load[c].stage = "bound" => Default # Absent
        /\ load[c].stage # "start" =>
              /\ Complete(load[c].view, load[c].since, load[c].stage = "read",
                          rule, ruleAt, bound, boundAt)
              /\ Current(load[c].view, load[c].since, rule, ruleAt, bound, boundAt)
              /\ load[c].read >= floor[c]

(* The same of an entry, whose load began at most MaxLoad before it. *)
EntriesSound ==
    \A c \in Instances : cache[c] # Absent =>
        /\ now - cache[c].at < TTL
        /\ Complete(cache[c].view, cache[c].at - MaxLoad, TRUE, rule, ruleAt, bound, boundAt)
        /\ Current(cache[c].view, cache[c].at - MaxLoad, rule, ruleAt, bound, boundAt)
        /\ cache[c].read >= floor[c]

CacheInv == CacheTypeOK /\ LoadsSound /\ EntriesSound

(* The invariant holds of empty caches and empty tables. *)
LEMMA CacheInitInv == CacheInit => CacheInv
  <1> SUFFICES ASSUME CacheInit PROVE CacheInv
    OBVIOUS
  <1>1. CacheTypeOK
    BY DEF CacheInit, CacheTypeOK
  <1>2. LoadsSound /\ EntriesSound
    BY DEF CacheInit, LoadsSound, EntriesSound
  <1> QED
    BY <1>1, <1>2 DEF CacheInv

(* A load that is there has the fields of a load. *)
LEMMA LoadTypes ==
  ASSUME CacheInv, NEW c \in Instances, load[c] # Absent
  PROVE  /\ load[c].stage \in {"start", "bound", "read"} /\ load[c].view \in Views
         /\ load[c].read \in 0..writes /\ load[c].since \in 0..now
         /\ now \in Nat /\ writes \in Nat
  <1>1. load[c] \in Loads /\ now \in Nat /\ writes \in Nat
    BY DEF CacheInv, CacheTypeOK
  <1> QED
    BY <1>1, Zenon DEF Loads

(* An entry that is there has the fields of an entry. *)
LEMMA EntryTypes ==
  ASSUME CacheInv, NEW c \in Instances, cache[c] # Absent
  PROVE  /\ cache[c].view \in Views /\ cache[c].read \in 0..writes /\ cache[c].at \in 0..now
         /\ now \in Nat /\ writes \in Nat
  <1>1. cache[c] \in Entries /\ now \in Nat /\ writes \in Nat
    BY DEF CacheInv, CacheTypeOK
  <1> QED
    BY <1>1 DEF Entries

(* What a query returns: the present rows of the policies it selects. *)
LEMMA RowsTyped ==
  ASSUME CacheTypeOK, NEW S \in SUBSET Policies
  PROVE  /\ Rows(S) \in Views
         /\ \A p \in S : rule[p] > 0 => [id |-> p, version |-> rule[p]] \in Rows(S)
         /\ \A v \in Rows(S) : v.id \in S /\ v.version = rule[v.id]
BY DEF CacheTypeOK, Rows, Views

(* A write stamps what it changes. *)
Stamped ==
    /\ \A p \in Policies : (rule'[p] = rule[p] /\ ruleAt'[p] = ruleAt[p]) \/ ruleAt'[p] = now
    /\ \A p \in Policies : ((p \in bound' <=> p \in bound) /\ boundAt'[p] = boundAt[p]) \/ boundAt'[p] = now

(* So every view that was complete and current stays so. *)
LEMMA ViewsKept ==
  ASSUME Stamped, NEW view \in Views, NEW s \in Int, s =< now, now \in Nat, NEW q \in BOOLEAN
  PROVE  /\ Complete(view, s, q, rule, ruleAt, bound, boundAt) => Complete(view, s, q, rule', ruleAt', bound', boundAt')
         /\ Current(view, s, rule, ruleAt, bound, boundAt) => Current(view, s, rule', ruleAt', bound', boundAt')
  <1>1. ASSUME Complete(view, s, q, rule, ruleAt, bound, boundAt) PROVE Complete(view, s, q, rule', ruleAt', bound', boundAt')
    BY <1>1 DEF Complete, Stamped
  <1>2. ASSUME Current(view, s, rule, ruleAt, bound, boundAt) PROVE Current(view, s, rule', ruleAt', bound', boundAt')
    <2>1. \A v \in view : v.id \in Policies
      BY DEF Views
    <2> QED
      BY <1>2, <2>1, Zenon DEF Current, Stamped
  <1> QED
    BY <1>1, <1>2

(* Every write keeps the invariant: loads and entries are left alone. *)
LEMMA WriteInv ==
  ASSUME CacheInv, NEW d \in Admins, Commit(d), Stamped,
         rule' \in [Policies -> Nat], bound' \subseteq {p \in Policies : rule'[p] > 0},
         ruleAt' \in [Policies -> 0..now], boundAt' \in [Policies -> 0..now]
  PROVE  CacheInv'
  <1>1. /\ writes' = writes + 1 /\ admin' = [admin EXCEPT ![d] = writes'] /\ writes < MaxWrites
        /\ now' = now /\ cache' = cache /\ load' = load /\ floor' = floor
    BY Zenon DEF Commit
  <1>2. now \in 0..Horizon /\ writes \in 0..MaxWrites /\ now \in Nat
    BY DEF CacheInv, CacheTypeOK
  <1>3. CacheTypeOK'
    <2>1. cache' \in [Instances -> Entries' \cup {Absent}]
      BY <1>1, <1>2 DEF CacheInv, CacheTypeOK, Entries
    <2>2. load' \in [Instances -> Loads' \cup {Absent}]
      BY <1>1, <1>2 DEF CacheInv, CacheTypeOK, Loads
    <2>3. admin' \in [Admins -> 1..writes' \cup {Absent}]
      BY <1>1, <1>2 DEF CacheInv, CacheTypeOK
    <2>4. floor' \in [Instances -> 0..writes']
      BY <1>1, <1>2 DEF CacheInv, CacheTypeOK
    <2> QED
      BY <1>1, <1>2, <2>1, <2>2, <2>3, <2>4 DEF CacheTypeOK
  <1>4. LoadsSound'
    <2> SUFFICES ASSUME NEW c \in Instances, load[c] # Absent
                 PROVE  /\ now - load[c].since =< MaxLoad
                        /\ load[c].stage = "bound" => Default # Absent
                        /\ load[c].stage # "start" =>
                              /\ Complete(load[c].view, load[c].since, load[c].stage = "read",
                                          rule', ruleAt', bound', boundAt')
                              /\ Current(load[c].view, load[c].since, rule', ruleAt', bound', boundAt')
                              /\ load[c].read >= floor[c]
      BY <1>1, Zenon DEF LoadsSound
    <2>1. load[c].view \in Views /\ load[c].since \in Int /\ load[c].since =< now
      BY <1>2, LoadTypes
    <2>2. (load[c].stage = "read") \in BOOLEAN
      BY Zenon
    <2> QED
      BY <1>2, <2>1, <2>2, ViewsKept, Zenon DEF CacheInv, LoadsSound
  <1>5. EntriesSound'
    <2> SUFFICES ASSUME NEW c \in Instances, cache[c] # Absent
                 PROVE  /\ now - cache[c].at < TTL
                        /\ Complete(cache[c].view, cache[c].at - MaxLoad, TRUE, rule', ruleAt', bound', boundAt')
                        /\ Current(cache[c].view, cache[c].at - MaxLoad, rule', ruleAt', bound', boundAt')
                        /\ cache[c].read >= floor[c]
      BY <1>1, Zenon DEF EntriesSound
    <2>1. cache[c].view \in Views /\ cache[c].at - MaxLoad \in Int /\ cache[c].at - MaxLoad =< now
      BY <1>2, EntryTypes
    <2> QED
      BY <1>2, <2>1, ViewsKept, Zenon DEF CacheInv, EntriesSound
  <1> QED
    BY <1>3, <1>4, <1>5 DEF CacheInv

(* Every step keeps the invariant. *)
LEMMA CacheNextInv == CacheInv /\ [CacheNext]_cacheVars => CacheInv'
  <1> SUFFICES ASSUME CacheInv, [CacheNext]_cacheVars PROVE CacheInv'
    BY Zenon
  <1>0. /\ now \in Nat /\ now \in 0..Horizon /\ writes \in Nat /\ writes \in 0..MaxWrites
        /\ cache \in [Instances -> Entries \cup {Absent}] /\ load \in [Instances -> Loads \cup {Absent}]
        /\ admin \in [Admins -> 1..writes \cup {Absent}] /\ floor \in [Instances -> 0..writes]
        /\ bound \subseteq Policies
    BY DEF CacheInv, CacheTypeOK
  <1>1. ASSUME NEW c \in Instances, StartLoad(c) PROVE CacheInv'
    <2> DEFINE new == [stage |-> "start", view |-> {}, read |-> writes, since |-> now]
    <2>1. load' = [load EXCEPT ![c] = new] /\ UNCHANGED <<now, cache, admin, floor, rule, bound, ruleAt, boundAt, writes>>
      BY <1>1, Zenon DEF StartLoad, db
    <2>2. new \in Loads
      BY <1>0 DEF Loads, Views
    <2>3. new.stage = "start" /\ new.since = now
      BY Zenon
    <2> HIDE DEF new
    <2>4. CacheTypeOK'
      BY <1>0, <2>1, <2>2, Zenon DEF CacheInv, CacheTypeOK, Loads, Entries
    <2>5. LoadsSound'
      BY <1>0, <2>1, <2>3 DEF CacheInv, LoadsSound
    <2>6. EntriesSound'
      BY <2>1, Zenon DEF CacheInv, EntriesSound
    <2> QED
      BY <2>4, <2>5, <2>6 DEF CacheInv
  <1>2. ASSUME NEW c \in Instances, QueryBound(c) PROVE CacheInv'
    <2> DEFINE stage == IF Default \in bound \cup {Absent} THEN "read" ELSE "bound"
               new == [stage |-> stage, view |-> Rows(bound), read |-> writes, since |-> load[c].since]
    <2>1. /\ load' = [load EXCEPT ![c] = new] /\ load[c] # Absent
          /\ UNCHANGED <<now, cache, admin, floor, rule, bound, ruleAt, boundAt, writes>>
      BY <1>0, <1>2, Zenon DEF QueryBound, db
    <2>2. load[c] \in Loads /\ load[c].since \in 0..now
      BY <1>0, <2>1, LoadTypes, Zenon
    <2>3. /\ Rows(bound) \in Views
          /\ \A p \in bound : rule[p] > 0 => [id |-> p, version |-> rule[p]] \in Rows(bound)
          /\ \A v \in Rows(bound) : v.id \in bound /\ v.version = rule[v.id]
      BY <1>0, RowsTyped, Zenon DEF CacheInv
    <2>4. /\ stage \in {"bound", "read"} /\ (stage = "bound" => Default # Absent)
          /\ stage = "read" => Default \in bound \/ Default \notin Policies
      OBVIOUS
    <2> HIDE DEF stage
    <2>5. /\ new \in Loads /\ new.view = Rows(bound) /\ new.read = writes /\ new.stage = stage
          /\ new.since = load[c].since
      <3>1. writes \in 0..writes
        BY <1>0
      <3> QED
        BY <2>2, <2>3, <2>4, <3>1, Zenon DEF Loads
    <2> HIDE DEF new
    <2>6. CacheTypeOK'
      BY <1>0, <2>1, <2>5, Zenon DEF CacheInv, CacheTypeOK, Loads, Entries
    <2>7. Complete(Rows(bound), load[c].since, stage = "read", rule, ruleAt, bound, boundAt)
      BY <2>3, <2>4, Zenon DEF Complete
    <2>8. Current(Rows(bound), load[c].since, rule, ruleAt, bound, boundAt)
      BY <2>3, Zenon DEF Current
    <2>9. LoadsSound'
      <3> SUFFICES ASSUME NEW b \in Instances, load'[b] # Absent
                   PROVE  /\ now - load'[b].since =< MaxLoad
                          /\ load'[b].stage = "bound" => Default # Absent
                          /\ load'[b].stage # "start" =>
                                /\ Complete(load'[b].view, load'[b].since, load'[b].stage = "read",
                                            rule, ruleAt, bound, boundAt)
                                /\ Current(load'[b].view, load'[b].since, rule, ruleAt, bound, boundAt)
                                /\ load'[b].read >= floor[b]
        BY <2>1, Zenon DEF LoadsSound
      <3>1. CASE b = c
        <4>1. load'[b] = new /\ now - load[c].since =< MaxLoad /\ writes >= floor[c]
          BY <1>0, <2>1, <3>1 DEF CacheInv, LoadsSound
        <4> QED
          BY <2>4, <2>5, <2>7, <2>8, <3>1, <4>1, Zenon
      <3>2. CASE b # c
        <4>1. load'[b] = load[b]
          BY <1>0, <2>1, <3>2, Zenon
        <4> QED
          BY <4>1, Zenon DEF CacheInv, LoadsSound
      <3> QED
        BY <3>1, <3>2, Zenon
    <2>10. EntriesSound'
      BY <2>1, Zenon DEF CacheInv, EntriesSound
    <2> QED
      BY <2>6, <2>9, <2>10 DEF CacheInv
  <1>3. ASSUME NEW c \in Instances, QueryDefault(c) PROVE CacheInv'
    <2> DEFINE view == load[c].view \cup Rows({Default})
               new == [load[c] EXCEPT !.view = view, !.stage = "read"]
    <2>1. /\ load' = [load EXCEPT ![c] = new] /\ load[c] # Absent /\ load[c].stage = "bound"
          /\ UNCHANGED <<now, cache, admin, floor, rule, bound, ruleAt, boundAt, writes>>
      BY <1>0, <1>3, Zenon DEF QueryDefault, db
    <2>2. load[c] \in Loads /\ load[c].since \in 0..now /\ load[c].view \in Views
      BY <1>0, <2>1, LoadTypes
    <2>3. /\ Complete(load[c].view, load[c].since, FALSE, rule, ruleAt, bound, boundAt)
          /\ Current(load[c].view, load[c].since, rule, ruleAt, bound, boundAt)
          /\ now - load[c].since =< MaxLoad /\ load[c].read >= floor[c]
      <3>1. load[c].stage # "start" /\ (load[c].stage = "read") = FALSE
        BY <2>1
      <3> QED
        BY <2>1, <3>1, Zenon DEF CacheInv, LoadsSound
    <2>4. /\ Rows({Default}) \in Views
          /\ \A v \in Rows({Default}) : v.id = Default /\ v.version = rule[v.id]
          /\ rule[Default] > 0 => [id |-> Default, version |-> rule[Default]] \in Rows({Default})
      <3>1. {Default} \in SUBSET Policies
        BY <2>1 DEF CacheInv, LoadsSound
      <3> QED
        BY <3>1, RowsTyped, Zenon DEF CacheInv
    <2>5. view \in Views
      BY <2>2, <2>4, Zenon DEF Views
    <2>6. Complete(view, load[c].since, TRUE, rule, ruleAt, bound, boundAt)
      BY <2>3, <2>4, Zenon DEF Complete
    <2>7. Current(view, load[c].since, rule, ruleAt, bound, boundAt)
      BY <2>3, <2>4, Zenon DEF Current
    <2> HIDE DEF view
    <2>8. /\ new \in Loads /\ new.view = view /\ new.read = load[c].read /\ new.stage = "read"
          /\ new.since = load[c].since
      BY <2>2, <2>5, Zenon DEF Loads
    <2> HIDE DEF new
    <2>9. CacheTypeOK'
      BY <1>0, <2>1, <2>8, Zenon DEF CacheInv, CacheTypeOK, Loads, Entries
    <2>10. LoadsSound'
      <3> SUFFICES ASSUME NEW b \in Instances, load'[b] # Absent
                   PROVE  /\ now - load'[b].since =< MaxLoad
                          /\ load'[b].stage = "bound" => Default # Absent
                          /\ load'[b].stage # "start" =>
                                /\ Complete(load'[b].view, load'[b].since, load'[b].stage = "read",
                                            rule, ruleAt, bound, boundAt)
                                /\ Current(load'[b].view, load'[b].since, rule, ruleAt, bound, boundAt)
                                /\ load'[b].read >= floor[b]
        BY <2>1, Zenon DEF LoadsSound
      <3>1. CASE b = c
        <4>1. load'[b] = new
          BY <1>0, <2>1, <3>1, Zenon
        <4>2. (new.stage = "read") = TRUE
          BY <2>8, Zenon
        <4> QED
          BY <2>3, <2>6, <2>7, <2>8, <3>1, <4>1, <4>2, Zenon
      <3>2. CASE b # c
        <4>1. load'[b] = load[b]
          BY <1>0, <2>1, <3>2, Zenon
        <4> QED
          BY <4>1, Zenon DEF CacheInv, LoadsSound
      <3> QED
        BY <3>1, <3>2, Zenon
    <2>11. EntriesSound'
      BY <2>1, Zenon DEF CacheInv, EntriesSound
    <2> QED
      BY <2>9, <2>10, <2>11, Zenon DEF CacheInv
  <1>4. ASSUME NEW c \in Instances, LoadFails(c) PROVE CacheInv'
    <2>1. /\ load' = [load EXCEPT ![c] = Absent]
          /\ UNCHANGED <<now, cache, admin, floor, rule, bound, ruleAt, boundAt, writes>>
      BY <1>4, Zenon DEF LoadFails, db
    <2>2. CacheTypeOK'
      BY <1>0, <2>1, Zenon DEF CacheInv, CacheTypeOK, Loads, Entries
    <2>3. LoadsSound'
      BY <1>0, <2>1, Zenon DEF CacheInv, LoadsSound
    <2>4. EntriesSound'
      BY <2>1, Zenon DEF CacheInv, EntriesSound
    <2> QED
      BY <2>2, <2>3, <2>4, Zenon DEF CacheInv
  <1>5. ASSUME NEW c \in Instances, Insert(c) PROVE CacheInv'
    <2> DEFINE new == [view |-> load[c].view, read |-> load[c].read, at |-> now]
    <2>1. /\ load' = [load EXCEPT ![c] = Absent] /\ cache' = [cache EXCEPT ![c] = new]
          /\ load[c] # Absent /\ load[c].stage = "read"
          /\ UNCHANGED <<now, admin, floor, rule, bound, ruleAt, boundAt, writes>>
      BY <1>5, Zenon DEF Insert, db
    <2>2. load[c].since \in 0..now /\ load[c].view \in Views /\ load[c].read \in 0..writes
      BY <2>1, LoadTypes, Zenon
    <2>3. /\ Complete(load[c].view, load[c].since, TRUE, rule, ruleAt, bound, boundAt)
          /\ Current(load[c].view, load[c].since, rule, ruleAt, bound, boundAt)
          /\ now - load[c].since =< MaxLoad /\ load[c].read >= floor[c]
      <3>1. load[c].stage # "start" /\ (load[c].stage = "read") = TRUE
        BY <2>1, Zenon
      <3> QED
        BY <2>1, <3>1, Zenon DEF CacheInv, LoadsSound
    <2>4. /\ ruleAt \in [Policies -> 0..now] /\ boundAt \in [Policies -> 0..now]
          /\ \A v \in load[c].view : v.id \in Policies
      BY <2>2, Zenon DEF CacheInv, CacheTypeOK, Views
    <2>5. /\ Complete(load[c].view, now - MaxLoad, TRUE, rule, ruleAt, bound, boundAt)
          /\ Current(load[c].view, now - MaxLoad, rule, ruleAt, bound, boundAt)
      <3>1. now - MaxLoad =< load[c].since /\ load[c].since \in Int /\ now - MaxLoad \in Int
        BY <1>0, <2>2, <2>3
      <3>2. Complete(load[c].view, now - MaxLoad, TRUE, rule, ruleAt, bound, boundAt)
        BY <1>0, <2>3, <2>4, <3>1 DEF Complete
      <3>3. Current(load[c].view, now - MaxLoad, rule, ruleAt, bound, boundAt)
        BY <1>0, <2>3, <2>4, <3>1 DEF Current
      <3> QED
        BY <3>2, <3>3, Zenon
    <2>6. /\ new \in Entries /\ new.view = load[c].view /\ new.read = load[c].read /\ new.at = now
      BY <1>0, <2>2 DEF Entries
    <2> HIDE DEF new
    <2>7. CacheTypeOK'
      BY <1>0, <2>1, <2>6, Zenon DEF CacheInv, CacheTypeOK, Loads, Entries
    <2>8. LoadsSound'
      BY <1>0, <2>1, Zenon DEF CacheInv, LoadsSound
    <2>9. EntriesSound'
      <3> SUFFICES ASSUME NEW b \in Instances, cache'[b] # Absent
                   PROVE  /\ now - cache'[b].at < TTL
                          /\ Complete(cache'[b].view, cache'[b].at - MaxLoad, TRUE, rule, ruleAt, bound, boundAt)
                          /\ Current(cache'[b].view, cache'[b].at - MaxLoad, rule, ruleAt, bound, boundAt)
                          /\ cache'[b].read >= floor[b]
        BY <2>1, Zenon DEF EntriesSound
      <3>1. CASE b = c
        <4>1. cache'[b] = new /\ now - now < TTL
          BY <1>0, <2>1, <3>1
        <4> QED
          BY <2>3, <2>5, <2>6, <3>1, <4>1, Zenon
      <3>2. CASE b # c
        <4>1. cache'[b] = cache[b]
          BY <1>0, <2>1, <3>2, Zenon
        <4> QED
          BY <4>1, Zenon DEF CacheInv, EntriesSound
      <3> QED
        BY <3>1, <3>2, Zenon
    <2> QED
      BY <2>7, <2>8, <2>9, Zenon DEF CacheInv
  <1>6. ASSUME NEW c \in Instances, Restart(c) PROVE CacheInv'
    <2>1. /\ load' = [load EXCEPT ![c] = Absent] /\ cache' = [cache EXCEPT ![c] = Absent]
          /\ admin' = [d \in Admins |-> IF Home[d] = c THEN Absent ELSE admin[d]]
          /\ UNCHANGED <<now, floor, rule, bound, ruleAt, boundAt, writes>>
      BY <1>6, Zenon DEF Restart, db
    <2>2. CacheTypeOK'
      BY <1>0, <2>1, Zenon DEF CacheInv, CacheTypeOK, Loads, Entries
    <2>3. LoadsSound'
      BY <1>0, <2>1, Zenon DEF CacheInv, LoadsSound
    <2>4. EntriesSound'
      BY <1>0, <2>1, Zenon DEF CacheInv, EntriesSound
    <2> QED
      BY <2>2, <2>3, <2>4, Zenon DEF CacheInv
  <1>7. ASSUME NEW d \in Admins, NEW p \in Policies,
               UpdatePolicy(d, p) \/ DeletePolicy(d, p) \/ CreateBinding(d, p) \/ DeleteBinding(d, p)
        PROVE  CacheInv'
    <2>1. /\ rule \in [Policies -> Nat] /\ bound \subseteq {q \in Policies : rule[q] > 0}
          /\ ruleAt \in [Policies -> 0..now] /\ boundAt \in [Policies -> 0..now]
      BY Zenon DEF CacheInv, CacheTypeOK
    <2>2. CASE UpdatePolicy(d, p)
      <3>1. /\ rule' \in [Policies -> Nat] /\ bound' \subseteq {q \in Policies : rule'[q] > 0}
            /\ ruleAt' \in [Policies -> 0..now] /\ boundAt' \in [Policies -> 0..now]
        BY <1>0, <2>1, <2>2 DEF UpdatePolicy
      <3>2. Stamped
        BY <2>1, <2>2, Zenon DEF UpdatePolicy, Stamped
      <3> QED
        BY <2>2, <3>1, <3>2, WriteInv, Zenon DEF UpdatePolicy
    <2>3. CASE DeletePolicy(d, p)
      <3>1. /\ rule' \in [Policies -> Nat] /\ bound' \subseteq {q \in Policies : rule'[q] > 0}
            /\ ruleAt' \in [Policies -> 0..now] /\ boundAt' \in [Policies -> 0..now]
        BY <1>0, <2>1, <2>3 DEF DeletePolicy
      <3>2. Stamped
        BY <2>1, <2>3, Zenon DEF DeletePolicy, Stamped
      <3> QED
        BY <2>3, <3>1, <3>2, WriteInv, Zenon DEF DeletePolicy
    <2>4. CASE CreateBinding(d, p)
      <3>1. /\ rule' \in [Policies -> Nat] /\ bound' \subseteq {q \in Policies : rule'[q] > 0}
            /\ ruleAt' \in [Policies -> 0..now] /\ boundAt' \in [Policies -> 0..now]
        BY <1>0, <2>1, <2>4 DEF CreateBinding
      <3>2. Stamped
        BY <2>1, <2>4, Zenon DEF CreateBinding, Stamped
      <3> QED
        BY <2>4, <3>1, <3>2, WriteInv, Zenon DEF CreateBinding
    <2>5. CASE DeleteBinding(d, p)
      <3>1. /\ rule' \in [Policies -> Nat] /\ bound' \subseteq {q \in Policies : rule'[q] > 0}
            /\ ruleAt' \in [Policies -> 0..now] /\ boundAt' \in [Policies -> 0..now]
        BY <1>0, <2>1, <2>5 DEF DeleteBinding
      <3>2. Stamped
        BY <2>1, <2>5, Zenon DEF DeleteBinding, Stamped
      <3> QED
        BY <2>5, <3>1, <3>2, WriteInv, Zenon DEF DeleteBinding
    <2> QED
      BY <1>7, <2>2, <2>3, <2>4, <2>5, Zenon
  <1>8. ASSUME NEW d \in Admins, Invalidate(d) PROVE CacheInv'
    <2> DEFINE c == Home[d]
               new == IF admin[d] > floor[c] /\ NoLoadBefore(c, admin[d]) THEN admin[d] ELSE floor[c]
    <2>1. /\ cache' = [cache EXCEPT ![c] = Absent] /\ floor' = [floor EXCEPT ![c] = new]
          /\ admin' = [admin EXCEPT ![d] = Absent] /\ admin[d] # Absent
          /\ UNCHANGED <<now, load, rule, bound, ruleAt, boundAt, writes>>
      BY <1>0, <1>8, Zenon DEF Invalidate, Acknowledge, db
    <2>2. c \in Instances /\ admin[d] \in 1..writes
      BY <1>0, <2>1, Zenon
    <2>3. new \in 0..writes
      BY <1>0, <2>2
    <2>4. load[c] # Absent /\ load[c].stage # "start" => load[c].read >= new
      BY <2>2, Zenon DEF CacheInv, LoadsSound, NoLoadBefore
    <2> HIDE DEF new, c
    <2>5. CacheTypeOK'
      BY <1>0, <2>1, <2>2, <2>3, Zenon DEF CacheInv, CacheTypeOK, Loads, Entries
    <2>6. LoadsSound'
      BY <1>0, <2>1, <2>2, <2>4, Zenon DEF CacheInv, LoadsSound
    <2>7. EntriesSound'
      BY <1>0, <2>1, <2>2, Zenon DEF CacheInv, EntriesSound
    <2> QED
      BY <2>5, <2>6, <2>7, Zenon DEF CacheInv
  <1>9. ASSUME NEW d \in Admins, Cancelled(d) PROVE CacheInv'
    <2>1. /\ admin' = [admin EXCEPT ![d] = Absent]
          /\ UNCHANGED <<now, cache, load, floor, rule, bound, ruleAt, boundAt, writes>>
      BY <1>9, Zenon DEF Cancelled, db
    <2>2. CacheTypeOK'
      BY <1>0, <2>1, Zenon DEF CacheInv, CacheTypeOK, Loads, Entries
    <2>3. LoadsSound' /\ EntriesSound'
      BY <2>1, Zenon DEF CacheInv, LoadsSound, EntriesSound
    <2> QED
      BY <2>2, <2>3, Zenon DEF CacheInv
  <1>10. CASE Tick
    <2>1. /\ now < Horizon /\ now' = now + 1
          /\ \A c \in Instances : load[c] # Absent => now - load[c].since < MaxLoad
          /\ cache' = [c \in Instances |->
                IF cache[c] # Absent /\ now + 1 - cache[c].at >= TTL THEN Absent ELSE cache[c]]
          /\ UNCHANGED <<load, admin, floor, rule, bound, ruleAt, boundAt, writes>>
      BY <1>10, Zenon DEF Tick, db
    <2>2. /\ \A c \in Instances : cache'[c] # Absent => cache'[c] = cache[c] /\ now + 1 - cache[c].at < TTL
          /\ cache' \in [Instances -> Entries \cup {Absent}]
      <3>1. ASSUME NEW c \in Instances, cache[c] # Absent PROVE cache[c].at \in Int
        BY <3>1, EntryTypes
      <3>2. ASSUME NEW c \in Instances, cache'[c] # Absent
            PROVE  cache'[c] = cache[c] /\ now + 1 - cache[c].at < TTL
        BY <1>0, <2>1, <3>1, <3>2
      <3>3. cache' \in [Instances -> Entries \cup {Absent}]
        BY <1>0, <2>1, Zenon
      <3> QED
        BY <3>2, <3>3, Zenon
    <2>3. now' \in Nat /\ now' \in 0..Horizon /\ 0..now \subseteq 0..now'
      BY <1>0, <2>1
    <2>4. Loads \subseteq Loads' /\ Entries \subseteq Entries'
      BY <2>1, <2>3, Zenon DEF Loads, Entries
    <2>5. CacheTypeOK'
      <3>1. ruleAt' \in [Policies -> 0..now'] /\ boundAt' \in [Policies -> 0..now']
        BY <2>1, <2>3, Zenon DEF CacheInv, CacheTypeOK
      <3>2. cache' \in [Instances -> Entries' \cup {Absent}] /\ load' \in [Instances -> Loads' \cup {Absent}]
        BY <1>0, <2>1, <2>2, <2>4, Zenon
      <3> QED
        BY <1>0, <2>1, <2>3, <3>1, <3>2, Zenon DEF CacheInv, CacheTypeOK
    <2>6. LoadsSound'
      <3>1. ASSUME NEW c \in Instances, load[c] # Absent PROVE now' - load[c].since =< MaxLoad
        <4>1. load[c].since \in Int
          BY <1>0, <3>1, LoadTypes
        <4> QED
          BY <1>0, <2>1, <3>1, <4>1
      <3> QED
        BY <2>1, <3>1, Zenon DEF CacheInv, LoadsSound
    <2>7. EntriesSound'
      <3> SUFFICES ASSUME NEW c \in Instances, cache'[c] # Absent
                   PROVE  /\ now' - cache'[c].at < TTL
                          /\ Complete(cache'[c].view, cache'[c].at - MaxLoad, TRUE, rule, ruleAt, bound, boundAt)
                          /\ Current(cache'[c].view, cache'[c].at - MaxLoad, rule, ruleAt, bound, boundAt)
                          /\ cache'[c].read >= floor[c]
        BY <2>1, Zenon DEF EntriesSound
      <3>1. cache'[c] = cache[c] /\ now + 1 - cache[c].at < TTL
        BY <2>2, Zenon
      <3>2. now' - cache'[c].at < TTL
        <4>1. now \in Nat /\ cache[c].at \in Int
          BY <1>0, <3>1, EntryTypes
        <4> QED
          BY <2>1, <3>1, <4>1
      <3> QED
        BY <3>1, <3>2, Zenon DEF CacheInv, EntriesSound
    <2> QED
      BY <2>5, <2>6, <2>7, Zenon DEF CacheInv
  <1>11. CASE UNCHANGED cacheVars
    <2>1. UNCHANGED <<now, cache, load, admin, floor, rule, bound, ruleAt, boundAt, writes>>
      BY <1>11, Zenon DEF cacheVars
    <2>2. CacheTypeOK'
      BY <2>1, Zenon DEF CacheInv, CacheTypeOK, Loads, Entries
    <2>3. LoadsSound' /\ EntriesSound'
      BY <2>1, Zenon DEF CacheInv, LoadsSound, EntriesSound
    <2> QED
      BY <2>2, <2>3 DEF CacheInv
  <1> QED
    BY <1>1, <1>2, <1>3, <1>4, <1>5, <1>6, <1>7, <1>8, <1>9, <1>10, <1>11, Zenon DEF CacheNext

(* The inductive invariant holds in every state of the cache. *)
LEMMA CacheInvariance == CacheSpec => []CacheInv
  BY CacheInitInv, CacheNextInv, PTL DEF CacheSpec

(* The variables of the cache keep their types. *)
THEOREM CacheTypeCorrect == CacheSpec => []CacheTypeOK
  <1>1. CacheInv => CacheTypeOK
    BY DEF CacheInv
  <1> QED
    BY <1>1, CacheInvariance, PTL

(* A rule that was written and bound, or is the default, and was left      *)
(* alone for TTL and the longest load is enforced by every entry.          *)
THEOREM Enforced == CacheSpec => []EnforcedInTime
  <1>1. ASSUME CacheInv PROVE EnforcedInTime
    <2> SUFFICES ASSUME NEW c \in Instances, NEW p \in bound \cup ({Default} \cap Policies),
                        cache[c] # Absent, rule[p] > 0, Settled(ruleAt[p]),
                        p = Default \/ Settled(boundAt[p])
                 PROVE  [id |-> p, version |-> rule[p]] \in cache[c].view
      BY Zenon DEF EnforcedInTime
    <2>1. p \in Policies /\ ruleAt[p] \in Int /\ boundAt[p] \in Int /\ now \in Int
      BY <1>1 DEF CacheInv, CacheTypeOK
    <2>2. cache[c].at \in Int /\ now - cache[c].at < TTL
      <3>1. cache[c].at \in 0..now /\ now \in Nat
        BY <1>1, EntryTypes, Zenon
      <3>2. cache[c].at \in Int /\ now \in Int
        BY <3>1
      <3> QED
        BY <1>1, <3>2, Zenon DEF CacheInv, EntriesSound
    <2>3. ruleAt[p] < cache[c].at - MaxLoad /\ (p # Default => boundAt[p] < cache[c].at - MaxLoad)
      BY <2>1, <2>2 DEF Settled
    <2>4. Complete(cache[c].view, cache[c].at - MaxLoad, TRUE, rule, ruleAt, bound, boundAt)
      BY <1>1, Zenon DEF CacheInv, EntriesSound
    <2> QED
      BY <2>1, <2>3, <2>4, Zenon DEF Complete
  <1> QED
    BY <1>1, CacheInvariance, PTL

(* An entry enforces a superseded or unbound rule no longer than TTL and   *)
(* the longest load after the write that changed it.                       *)
THEOREM Lifted == CacheSpec => []LiftedInTime
  <1>1. ASSUME CacheInv PROVE LiftedInTime
    <2> SUFFICES ASSUME NEW c \in Instances, cache[c] # Absent, NEW v \in cache[c].view
                 PROVE  /\ v.version # rule[v.id] => ~Settled(ruleAt[v.id])
                        /\ v.id \notin bound \cup {Default} => ~Settled(boundAt[v.id])
      BY Zenon DEF LiftedInTime
    <2>1. /\ cache[c].at \in Int /\ now - cache[c].at < TTL /\ now \in Int
          /\ Current(cache[c].view, cache[c].at - MaxLoad, rule, ruleAt, bound, boundAt)
      <3>1. cache[c].at \in 0..now /\ now \in Nat
        BY <1>1, EntryTypes, Zenon
      <3>2. cache[c].at \in Int /\ now \in Int
        BY <3>1
      <3> QED
        BY <1>1, <3>2, Zenon DEF CacheInv, EntriesSound
    <2>2. v.id \in Policies
      BY <1>1, EntryTypes, Zenon DEF Views
    <2>3. ruleAt[v.id] \in Int /\ boundAt[v.id] \in Int
      BY <1>1, <2>2 DEF CacheInv, CacheTypeOK
    <2> QED
      BY <2>1, <2>2, <2>3 DEF Current, Settled
  <1> QED
    BY <1>1, CacheInvariance, PTL

(* After a write that no load of the instance overlapped, the instance     *)
(* serves no entry read before the write.                                  *)
THEOREM CleanWrite == CacheSpec => []CleanWriteIsImmediate
  <1>1. CacheInv => CleanWriteIsImmediate
    BY Zenon DEF CacheInv, EntriesSound, CleanWriteIsImmediate
  <1> QED
    BY <1>1, CacheInvariance, PTL

===============================================================================
