----------------------------- MODULE AuthProofs -----------------------------
(***************************************************************************)
(* Proofs about auth_middleware, for any set of requests and messages, any *)
(* skew and any bound on the age of a cached key; and about the cache of   *)
(* keys it asks, for any number of instances and lookups and any TTLs and  *)
(* delay bound.                                                            *)
(***************************************************************************)
EXTENDS Auth, KeyStore, TLAPS

USE AuthAssumption, SMTT(20), Zenon, Z3T(20)

PastKey == {"account", "signature", "nonce", "admitted"}
PastAccount == {"signature", "nonce", "admitted"}
PastSignature == {"nonce", "admitted"}

(* What a request has shown by the time it is at a step. *)
ChecksPassed ==
    \A r \in Requests :
        /\ pc[r] # "new" => arrived[r] # Never
        /\ pc[r] \in PastKey =>
              /\ Wellformed(r) /\ arrived[r] =< ExpiresAt
              /\ revoked = Never \/ arrived[r] - revoked < KeyBound
        /\ pc[r] \in PastAccount => Claimed(r) /\ active[r]
        /\ pc[r] \in PastSignature => Verified(r)
        /\ pc[r] = "key" => Wellformed(r)
        /\ pc[r] \in PastKey \cup {"key"} => arrived[r] - Msg[r].timestamp =< Skew

(* A request that is there while the rows are active has seen them so. *)
ActiveSeen == \A r \in Requests : (arrived[r] # Never /\ account /\ tenant) => active[r]

(* An admission leaves a nonce that is kept for its whole life. *)
NonceKept ==
    \A r \in Requests : admitted[r] # Never => stored[Msg[r].nonce] >= admitted[r] + Skew

(* Two admissions with one nonce are Skew apart. *)
SkewApart ==
    \A r, s \in Requests :
        (r # s /\ Msg[r].nonce = Msg[s].nonce /\ admitted[r] # Never /\ admitted[s] # Never) =>
            \/ admitted[r] - admitted[s] >= Skew
            \/ admitted[s] - admitted[r] >= Skew

IInv == /\ TypeOK /\ ChecksPassed /\ ActiveSeen /\ NonceKept
        /\ SkewApart /\ OnlyVerifiedLeaveTraces

LEMMA InitIInv == Init => IInv
  <1> SUFFICES ASSUME Init PROVE IInv
    OBVIOUS
  <1> USE DEF Init
  <1>1. TypeOK
    BY DEF TypeOK
  <1>2. ChecksPassed
    BY Zenon DEF ChecksPassed, PastKey, PastAccount, PastSignature
  <1>3. ActiveSeen /\ NonceKept /\ SkewApart /\ OnlyVerifiedLeaveTraces
    BY DEF ActiveSeen, NonceKept, SkewApart, OnlyVerifiedLeaveTraces
  <1> QED
    BY <1>1, <1>2, <1>3 DEF IInv

(* Every step keeps the types. *)
LEMMA TypeStep == IInv /\ [Next]_vars => TypeOK'
  <1> SUFFICES ASSUME IInv, [Next]_vars PROVE TypeOK'
    OBVIOUS
  <1> USE DEF IInv, TypeOK
  <1>1. ASSUME NEW r \in Requests, Receive(r) PROVE TypeOK'
    BY <1>1 DEF Receive, validate_timestamp, Step, Goto, db
  <1>2. ASSUME NEW r \in Requests, LookupKey(r) PROVE TypeOK'
    BY <1>2 DEF LookupKey, SeenActive, Step, Goto, db
  <1>3. ASSUME NEW r \in Requests, LookupAccount(r) PROVE TypeOK'
    BY <1>3 DEF LookupAccount, AccountOK, get_with_tenant_status, Step, Goto, db
  <1>4. ASSUME NEW r \in Requests, Verify(r) PROVE TypeOK'
    BY <1>4 DEF Verify, Step, Goto, db
  <1>5. ASSUME NEW r \in Requests, CheckNonce(r) PROVE TypeOK'
    BY <1>5 DEF CheckNonce, Fresh, Step, Goto, db
  <1>6. ASSUME NEW r \in Requests, CheckNonceFails(r) PROVE TypeOK'
    BY <1>6 DEF CheckNonceFails, Fresh, Step, Goto, db
  <1>7. ASSUME NEW r \in Requests, Abandon(r) PROVE TypeOK'
    BY <1>7 DEF Abandon, Goto, db
  <1>8. ASSUME NEW r \in Requests, Touch(r) PROVE TypeOK'
    BY <1>8 DEF Touch, db
  <1>9. CASE Admin
    <2>1. /\ UNCHANGED <<now, stored, pc, arrived, admitted, touch, last_used>>
          /\ revoked' \in 0..now \cup {Never}
      BY <1>9 DEF Admin
    <2>2. account' \in BOOLEAN /\ tenant' \in BOOLEAN
      BY <1>9, Zenon DEF Admin
    <2>3. active' \in [Requests -> BOOLEAN]
      BY <1>9, <2>2, Zenon DEF Admin
    <2> QED
      BY <2>1, <2>2, <2>3
  <1>10. CASE Tick
    BY <1>10 DEF Tick, db
  <1>11. CASE UNCHANGED vars
    BY <1>11 DEF vars
  <1> HIDE DEF IInv, TypeOK
  <1> QED
    BY <1>1, <1>2, <1>3, <1>4, <1>5, <1>6, <1>7, <1>8, <1>9, <1>10, <1>11 DEF Next

(* Every step keeps what the requests have shown. *)
LEMMA ChecksStep == IInv /\ [Next]_vars => ChecksPassed'
  <1> SUFFICES ASSUME IInv, [Next]_vars PROVE ChecksPassed'
    OBVIOUS
  <1> USE DEF IInv, TypeOK, ChecksPassed, ActiveSeen, PastKey, PastAccount, PastSignature
  <1>1. ASSUME NEW r \in Requests, Receive(r) PROVE ChecksPassed'
    BY <1>1 DEF Receive, validate_timestamp, Step, Goto, db
  <1>2. ASSUME NEW r \in Requests, LookupKey(r) PROVE ChecksPassed'
    <2>1. /\ pc[r] = "key" /\ pc' = [pc EXCEPT ![r] = pc'[r]] /\ pc'[r] \in {"account", "rejected"}
          /\ UNCHANGED <<now, arrived, active, revoked>>
      BY <1>2 DEF LookupKey, Step, Goto, db
    <2>2. pc'[r] = "account" => now =< ExpiresAt /\ (revoked = Never \/ now - revoked < KeyBound)
      BY <1>2, Zenon DEF LookupKey, SeenActive, Step, Goto
    <2>3. arrived[r] \in 0..now /\ Wellformed(r)
      BY <2>1
    <2>4. pc'[r] = "account" => /\ arrived[r] =< ExpiresAt
                                /\ revoked = Never \/ arrived[r] - revoked < KeyBound
      BY <2>2, <2>3
    <2> QED
      BY <2>1, <2>3, <2>4
  <1>3. ASSUME NEW r \in Requests, LookupAccount(r) PROVE ChecksPassed'
    BY <1>3 DEF LookupAccount, AccountOK, get_with_tenant_status, Step, Goto, db
  <1>4. ASSUME NEW r \in Requests, Verify(r) PROVE ChecksPassed'
    BY <1>4 DEF Verify, Step, Goto, db
  <1>5. ASSUME NEW r \in Requests, CheckNonce(r) PROVE ChecksPassed'
    BY <1>5 DEF CheckNonce, Fresh, Step, Goto, db
  <1>6. ASSUME NEW r \in Requests, CheckNonceFails(r) PROVE ChecksPassed'
    BY <1>6 DEF CheckNonceFails, Fresh, Step, Goto, db
  <1>7. ASSUME NEW r \in Requests, Abandon(r) PROVE ChecksPassed'
    BY <1>7 DEF Abandon, Goto, db
  <1>8. ASSUME NEW r \in Requests, Touch(r) PROVE ChecksPassed'
    BY <1>8 DEF Touch, db
  <1>9. CASE Admin
    BY <1>9 DEF Admin
  <1>10. CASE Tick
    BY <1>10 DEF Tick, db
  <1>11. CASE UNCHANGED vars
    BY <1>11 DEF vars
  <1> HIDE DEF IInv, TypeOK, ChecksPassed, ActiveSeen, PastKey, PastAccount, PastSignature
  <1> QED
    BY <1>1, <1>2, <1>3, <1>4, <1>5, <1>6, <1>7, <1>8, <1>9, <1>10, <1>11 DEF Next

(* Every step keeps the record of the rows' states. *)
LEMMA ActiveStep == IInv /\ [Next]_vars => ActiveSeen'
  <1> SUFFICES ASSUME IInv, [Next]_vars PROVE ActiveSeen'
    OBVIOUS
  <1> USE DEF IInv, TypeOK, ActiveSeen
  <1>1. ASSUME NEW r \in Requests, Receive(r) PROVE ActiveSeen'
    BY <1>1, Zenon DEF Receive, validate_timestamp, Step, Goto, db
  <1>2. ASSUME NEW r \in Requests, LookupKey(r) PROVE ActiveSeen'
    BY <1>2 DEF LookupKey, SeenActive, Step, Goto, db
  <1>3. ASSUME NEW r \in Requests, LookupAccount(r) PROVE ActiveSeen'
    BY <1>3 DEF LookupAccount, AccountOK, get_with_tenant_status, Step, Goto, db
  <1>4. ASSUME NEW r \in Requests, Verify(r) PROVE ActiveSeen'
    BY <1>4 DEF Verify, Step, Goto, db
  <1>5. ASSUME NEW r \in Requests, CheckNonce(r) PROVE ActiveSeen'
    BY <1>5 DEF CheckNonce, Fresh, Step, Goto, db
  <1>6. ASSUME NEW r \in Requests, CheckNonceFails(r) PROVE ActiveSeen'
    BY <1>6 DEF CheckNonceFails, Fresh, Step, Goto, db
  <1>7. ASSUME NEW r \in Requests, Abandon(r) PROVE ActiveSeen'
    BY <1>7 DEF Abandon, Goto, db
  <1>8. ASSUME NEW r \in Requests, Touch(r) PROVE ActiveSeen'
    BY <1>8 DEF Touch, db
  <1>9. CASE Admin
    BY <1>9, Zenon DEF Admin
  <1>10. CASE Tick
    BY <1>10 DEF Tick, db
  <1>11. CASE UNCHANGED vars
    BY <1>11 DEF vars
  <1> HIDE DEF IInv, TypeOK, ActiveSeen
  <1> QED
    BY <1>1, <1>2, <1>3, <1>4, <1>5, <1>6, <1>7, <1>8, <1>9, <1>10, <1>11 DEF Next

(* Every step keeps the nonces of admitted requests. *)
LEMMA NonceStep == IInv /\ [Next]_vars => NonceKept'
  <1> SUFFICES ASSUME IInv, [Next]_vars PROVE NonceKept'
    OBVIOUS
  <1> USE DEF IInv, TypeOK, NonceKept
  <1>1. ASSUME NEW r \in Requests, Receive(r) PROVE NonceKept'
    BY <1>1 DEF Receive, validate_timestamp, Step, Goto, db
  <1>2. ASSUME NEW r \in Requests, LookupKey(r) PROVE NonceKept'
    BY <1>2 DEF LookupKey, SeenActive, Step, Goto, db
  <1>3. ASSUME NEW r \in Requests, LookupAccount(r) PROVE NonceKept'
    BY <1>3 DEF LookupAccount, AccountOK, get_with_tenant_status, Step, Goto, db
  <1>4. ASSUME NEW r \in Requests, Verify(r) PROVE NonceKept'
    BY <1>4 DEF Verify, Step, Goto, db
  <1>5. ASSUME NEW r \in Requests, CheckNonce(r) PROVE NonceKept'
    BY <1>5 DEF CheckNonce, Fresh, Step, Goto, db
  <1>6. ASSUME NEW r \in Requests, CheckNonceFails(r) PROVE NonceKept'
    BY <1>6 DEF CheckNonceFails, Fresh, Step, Goto, db
  <1>7. ASSUME NEW r \in Requests, Abandon(r) PROVE NonceKept'
    BY <1>7 DEF Abandon, Goto, db
  <1>8. ASSUME NEW r \in Requests, Touch(r) PROVE NonceKept'
    BY <1>8 DEF Touch, db
  <1>9. CASE Admin
    BY <1>9 DEF Admin
  <1>10. CASE Tick
    BY <1>10 DEF Tick, db
  <1>11. CASE UNCHANGED vars
    BY <1>11 DEF vars
  <1> HIDE DEF IInv, TypeOK, NonceKept
  <1> QED
    BY <1>1, <1>2, <1>3, <1>4, <1>5, <1>6, <1>7, <1>8, <1>9, <1>10, <1>11 DEF Next

(* No step admits a second copy in the life of its nonce. *)
LEMMA AdmissionStep == IInv /\ [Next]_vars => SkewApart'
  <1> SUFFICES ASSUME IInv, [Next]_vars PROVE SkewApart'
    OBVIOUS
  <1> USE DEF IInv, TypeOK, NonceKept, SkewApart
  <1>1. ASSUME NEW r \in Requests, Receive(r) PROVE SkewApart'
    BY <1>1 DEF Receive, validate_timestamp, Step, Goto, db
  <1>2. ASSUME NEW r \in Requests, LookupKey(r) PROVE SkewApart'
    BY <1>2 DEF LookupKey, SeenActive, Step, Goto, db
  <1>3. ASSUME NEW r \in Requests, LookupAccount(r) PROVE SkewApart'
    BY <1>3 DEF LookupAccount, AccountOK, get_with_tenant_status, Step, Goto, db
  <1>4. ASSUME NEW r \in Requests, Verify(r) PROVE SkewApart'
    BY <1>4 DEF Verify, Step, Goto, db
  <1>5. ASSUME NEW r \in Requests, CheckNonce(r) PROVE SkewApart'
    BY <1>5 DEF CheckNonce, Fresh, Step, Goto, db
  <1>6. ASSUME NEW r \in Requests, CheckNonceFails(r) PROVE SkewApart'
    BY <1>6, Zenon DEF CheckNonceFails, Fresh, Step, Goto, db
  <1>7. ASSUME NEW r \in Requests, Abandon(r) PROVE SkewApart'
    BY <1>7 DEF Abandon, Goto, db
  <1>8. ASSUME NEW r \in Requests, Touch(r) PROVE SkewApart'
    BY <1>8 DEF Touch, db
  <1>9. CASE Admin
    BY <1>9 DEF Admin
  <1>10. CASE Tick
    BY <1>10 DEF Tick, db
  <1>11. CASE UNCHANGED vars
    BY <1>11 DEF vars
  <1> HIDE DEF IInv, TypeOK, NonceKept, SkewApart
  <1> QED
    BY <1>1, <1>2, <1>3, <1>4, <1>5, <1>6, <1>7, <1>8, <1>9, <1>10, <1>11 DEF Next

(* Only requests that passed every check leave traces. *)
LEMMA TracesStep == IInv /\ [Next]_vars => OnlyVerifiedLeaveTraces'
  <1> SUFFICES ASSUME IInv, [Next]_vars PROVE OnlyVerifiedLeaveTraces'
    OBVIOUS
  <1> USE DEF IInv, TypeOK, ChecksPassed, OnlyVerifiedLeaveTraces, PastKey, PastAccount, PastSignature
  <1>1. ASSUME NEW r \in Requests, Receive(r) PROVE OnlyVerifiedLeaveTraces'
    BY <1>1 DEF Receive, validate_timestamp, Step, Goto, db
  <1>2. ASSUME NEW r \in Requests, LookupKey(r) PROVE OnlyVerifiedLeaveTraces'
    BY <1>2 DEF LookupKey, SeenActive, Step, Goto, db
  <1>3. ASSUME NEW r \in Requests, LookupAccount(r) PROVE OnlyVerifiedLeaveTraces'
    BY <1>3 DEF LookupAccount, AccountOK, get_with_tenant_status, Step, Goto, db
  <1>4. ASSUME NEW r \in Requests, Verify(r) PROVE OnlyVerifiedLeaveTraces'
    BY <1>4 DEF Verify, Step, Goto, db
  <1>5. ASSUME NEW r \in Requests, CheckNonce(r) PROVE OnlyVerifiedLeaveTraces'
    BY <1>5 DEF CheckNonce, Fresh, Step, Goto, db
  <1>6. ASSUME NEW r \in Requests, CheckNonceFails(r) PROVE OnlyVerifiedLeaveTraces'
    BY <1>6 DEF CheckNonceFails, Fresh, Step, Goto, db
  <1>7. ASSUME NEW r \in Requests, Abandon(r) PROVE OnlyVerifiedLeaveTraces'
    BY <1>7 DEF Abandon, Goto, db
  <1>8. ASSUME NEW r \in Requests, Touch(r) PROVE OnlyVerifiedLeaveTraces'
    BY <1>8 DEF Touch, db
  <1>9. CASE Admin
    BY <1>9, Zenon DEF Admin
  <1>10. CASE Tick
    BY <1>10 DEF Tick, db
  <1>11. CASE UNCHANGED vars
    BY <1>11, Zenon DEF vars
  <1> HIDE DEF IInv, TypeOK, ChecksPassed, OnlyVerifiedLeaveTraces, PastKey, PastAccount, PastSignature
  <1> QED
    BY <1>1, <1>2, <1>3, <1>4, <1>5, <1>6, <1>7, <1>8, <1>9, <1>10, <1>11, Zenon DEF Next

LEMMA Invariance == Spec => []IInv
  <1>1. IInv /\ [Next]_vars => IInv'
    BY TypeStep, ChecksStep, ActiveStep, NonceStep, AdmissionStep, TracesStep DEF IInv
  <1> QED
    BY InitIInv, <1>1, PTL DEF Spec

(* The state of the pipeline keeps its type. *)
THEOREM TypeCorrect == Spec => []TypeOK
  BY Invariance, PTL DEF IInv

(* However many copies of a message race, a nonce passes again only Skew   *)
(* later, and at once only if it passed first before its timestamp was up. *)
THEOREM RepeatsEarly == Spec => []RepeatedOnlyEarly
  <1>1. IInv => RepeatedOnlyEarly
    <2> SUFFICES ASSUME IInv, NEW r \in Requests, NEW s \in Requests,
                        r # s, Msg[r].nonce = Msg[s].nonce,
                        admitted[r] # Never, admitted[s] # Never, admitted[r] =< admitted[s]
                 PROVE  /\ admitted[s] - admitted[r] >= Skew
                        /\ admitted[s] - arrived[s] >= admitted[r] - Msg[s].timestamp
      BY DEF RepeatedOnlyEarly
    <2>1. admitted[r] \in Int /\ admitted[s] \in Int /\ pc[s] = "admitted"
      BY DEF IInv, TypeOK
    <2>2. admitted[s] - admitted[r] >= Skew
      BY <2>1 DEF IInv, SkewApart
    <2>3. arrived[s] # Never /\ arrived[s] - Msg[s].timestamp =< Skew
      BY <2>1, Zenon DEF IInv, ChecksPassed, PastKey
    <2>4. arrived[s] \in Int
      BY <2>3 DEF IInv, TypeOK
    <2> QED
      BY <2>1, <2>2, <2>3, <2>4
  <1> QED
    BY Invariance, <1>1, PTL

(* Nonces and last_used_at come only from requests that passed the checks. *)
THEOREM VerifiedTraces == Spec => []OnlyVerifiedLeaveTraces
  BY Invariance, PTL DEF IInv

(* What is admitted was entitled, up to the age of a cached key. *)
THEOREM Entitled == Spec => []AdmittedWasEntitled
  <1>1. ASSUME NEW r \in Requests, Wellformed(r), Verified(r)
        PROVE  <<Msg[r].method, Msg[r].path, Msg[r].timestamp, Msg[r].nonce, compute_body_hash(Msg[r].body)>> \in Signed
    <2>1. compute_body_hash(Msg[r].body) = Msg[r].body_hash
      BY <1>1 DEF Wellformed, verify_body_hash
    <2> QED
      BY <1>1, <2>1 DEF Verified, verify_signature, build_canonical_string
  <1>2. IInv => AdmittedWasEntitled
    BY <1>1, Zenon DEF IInv, TypeOK, ChecksPassed, AdmittedWasEntitled, PastKey, PastAccount, PastSignature
  <1> QED
    BY Invariance, <1>2, PTL
HIDE AuthAssumption
-----------------------------------------------------------------------------
(* The cache of keys.  The bound on the last active answer is not          *)
(* inductive: it needs, for every place a copy can be (a lookup's hands,   *)
(* L2, an L1), a bound on how long a copy read before the revocation can   *)
(* still be there.                                                         *)

(* The last second in which a lookup can read an active copy from L2. *)
LastL2Read == revokedAt + MaxDelay + (L2TTL - 1)

(* Lookups hold a copy only between reading and answering, for at most     *)
(* MaxDelay; cache entries have not outlived their TTL.                    *)
FreshCopies ==
    /\ \A r \in Readers :
        /\ stage[r] \in {"idle", "l2", "db"} => copy[r] = "none"
        /\ copy[r] # "none" => since[r] =< clock /\ clock =< since[r] + MaxDelay
    /\ l2.status # "none" => clock < l2.until /\ l2.until =< clock + L2TTL
    /\ \A i \in Instances :
        l1[i].status # "none" => clock < l1[i].until /\ l1[i].until =< clock + L1TTL

(* Before the revocation nothing has been counted against it. *)
NotRevoked == status = "active" => okAt = 0 /\ revoker = "idle" /\ ~clean

(* Where a copy read before the revocation can be, and until when. *)
StaleCopies ==
    status = "revoked" =>
        /\ revokedAt =< clock
        /\ revoker # "idle"
        /\ \A r \in Readers : copy[r] = "active" =>
            /\ stage[r] \in {"fromDb", "setL2"} => since[r] =< revokedAt
            /\ stage[r] = "fromL2" => since[r] =< LastL2Read
        /\ l2.status = "active" => l2.until =< LastL2Read + 1
        /\ \A i \in Instances :
            l1[i].status = "active" => l1[i].until =< LastL2Read + MaxDelay + L1TTL
        /\ okAt =< LastL2Read + MaxDelay + (L1TTL - 1)

KeyInv == KeyTypeOK /\ FreshCopies /\ NotRevoked /\ StaleCopies /\ CleanRevocationIsFinal

USE KeyStoreAssumption

(* The initial state satisfies the invariant: caches are empty and the key *)
(* is active.                                                              *)
LEMMA InitKeyInv == KeyInit => KeyInv
  <1> SUFFICES ASSUME KeyInit PROVE KeyInv
    OBVIOUS
  <1>1. KeyTypeOK
    BY Zenon DEF KeyInit, KeyTypeOK, Empty, Statuses
  <1>2. FreshCopies /\ NotRevoked /\ StaleCopies
    BY DEF KeyInit, FreshCopies, NotRevoked, StaleCopies, Empty
  <1>3. CleanRevocationIsFinal
    BY DEF KeyInit, CleanRevocationIsFinal
  <1> QED
    BY <1>1, <1>2, <1>3 DEF KeyInv

(* Every step keeps the variables in their types. *)
LEMMA KeyTypeStep == KeyTypeOK /\ [KeyNext]_keyVars => KeyTypeOK'
  <1> SUFFICES ASSUME KeyTypeOK, [KeyNext]_keyVars PROVE KeyTypeOK'
    OBVIOUS
  <1> USE DEF KeyTypeOK, Statuses, Empty, Entry, admin
  <1>1. ASSUME NEW r \in Readers, LookupL1(r) PROVE KeyTypeOK'
    BY <1>1 DEF LookupL1, Answer
  <1>2. ASSUME NEW r \in Readers, MissL1(r) PROVE KeyTypeOK'
    BY <1>2 DEF MissL1
  <1>3. ASSUME NEW r \in Readers, ReadL2(r) PROVE KeyTypeOK'
    BY <1>3 DEF ReadL2, Hold
  <1>4. ASSUME NEW r \in Readers, MissL2(r) PROVE KeyTypeOK'
    BY <1>4 DEF MissL2
  <1>5. ASSUME NEW r \in Readers, FillFromL2(r) PROVE KeyTypeOK'
    BY <1>5 DEF FillFromL2, InsertL1, Answer
  <1>6. ASSUME NEW r \in Readers, ReadDb(r) PROVE KeyTypeOK'
    BY <1>6 DEF ReadDb, Hold
  <1>7. ASSUME NEW r \in Readers, DbFails(r) PROVE KeyTypeOK'
    BY <1>7 DEF DbFails, Answer
  <1>8. ASSUME NEW r \in Readers, FillFromDb(r) PROVE KeyTypeOK'
    BY <1>8 DEF FillFromDb, InsertL1
  <1>9. ASSUME NEW r \in Readers, SetL2(r) PROVE KeyTypeOK'
    BY <1>9 DEF SetL2, Answer
  <1>10. CASE RevokeInDb
    BY <1>10 DEF RevokeInDb
  <1>11. CASE InvalidateL1
    BY <1>11 DEF InvalidateL1
  <1>12. CASE InvalidateL2
    BY <1>12 DEF InvalidateL2, NothingSlippedThrough, HoldsActive
  <1>13. CASE InvalidateL2Fails
    BY <1>13 DEF InvalidateL2Fails
  <1>14. ASSUME NEW i \in Instances, Restart(i) PROVE KeyTypeOK'
    BY <1>14 DEF Restart
  <1>15. CASE Elapse
    BY <1>15 DEF Elapse, Expire
  <1>16. CASE UNCHANGED keyVars
    BY <1>16 DEF keyVars
  <1> QED
    BY <1>1, <1>2, <1>3, <1>4, <1>5, <1>6, <1>7, <1>8, <1>9, <1>10, <1>11, <1>12,
       <1>13, <1>14, <1>15, <1>16, Zenon DEF KeyNext

(* Every step keeps the staleness bounds. *)
LEMMA BoundStep == KeyInv /\ [KeyNext]_keyVars => (FreshCopies /\ NotRevoked /\ StaleCopies)'
  <1> SUFFICES ASSUME KeyInv, KeyTypeOK', [KeyNext]_keyVars
               PROVE (FreshCopies /\ NotRevoked /\ StaleCopies)'
    BY KeyTypeStep DEF KeyInv
  <1> USE DEF KeyInv, KeyTypeOK, Statuses, Empty, Entry, admin, FreshCopies, NotRevoked,
      StaleCopies, LastL2Read
  <1>1. ASSUME NEW r \in Readers, LookupL1(r) PROVE (FreshCopies /\ NotRevoked /\ StaleCopies)'
    BY <1>1 DEF LookupL1, Answer, Cached
  <1>2. ASSUME NEW r \in Readers, MissL1(r) PROVE (FreshCopies /\ NotRevoked /\ StaleCopies)'
    BY <1>2, Zenon DEF MissL1
  <1>3. ASSUME NEW r \in Readers, ReadL2(r) PROVE (FreshCopies /\ NotRevoked /\ StaleCopies)'
    BY <1>3 DEF ReadL2, Hold, Cached
  <1>4. ASSUME NEW r \in Readers, MissL2(r) PROVE (FreshCopies /\ NotRevoked /\ StaleCopies)'
    BY <1>4, Zenon DEF MissL2
  <1>5. ASSUME NEW r \in Readers, FillFromL2(r) PROVE (FreshCopies /\ NotRevoked /\ StaleCopies)'
    BY <1>5 DEF FillFromL2, InsertL1, Answer
  <1>6. ASSUME NEW r \in Readers, ReadDb(r) PROVE (FreshCopies /\ NotRevoked /\ StaleCopies)'
    BY <1>6 DEF ReadDb, Hold
  <1>7. ASSUME NEW r \in Readers, DbFails(r) PROVE (FreshCopies /\ NotRevoked /\ StaleCopies)'
    BY <1>7, Zenon DEF DbFails, Answer
  <1>8. ASSUME NEW r \in Readers, FillFromDb(r) PROVE (FreshCopies /\ NotRevoked /\ StaleCopies)'
    BY <1>8 DEF FillFromDb, InsertL1
  <1>9. ASSUME NEW r \in Readers, SetL2(r) PROVE (FreshCopies /\ NotRevoked /\ StaleCopies)'
    BY <1>9 DEF SetL2, Answer
  <1>10. CASE RevokeInDb
    BY <1>10 DEF RevokeInDb
  <1>11. CASE InvalidateL1
    BY <1>11, Zenon DEF InvalidateL1
  <1>12. CASE InvalidateL2
    BY <1>12, Zenon DEF InvalidateL2
  <1>13. CASE InvalidateL2Fails
    BY <1>13, Zenon DEF InvalidateL2Fails
  <1>14. ASSUME NEW i \in Instances, Restart(i) PROVE (FreshCopies /\ NotRevoked /\ StaleCopies)'
    BY <1>14 DEF Restart
  <1>15. CASE Elapse
    BY <1>15 DEF Elapse, Expire
  <1>16. CASE UNCHANGED keyVars
    BY <1>16, Zenon DEF keyVars
  <1> QED
    BY <1>1, <1>2, <1>3, <1>4, <1>5, <1>6, <1>7, <1>8, <1>9, <1>10, <1>11, <1>12,
       <1>13, <1>14, <1>15, <1>16, Zenon DEF KeyNext

(* No step brings an active copy back to the revoking instance once the    *)
(* revocation was clean.                                                   *)
LEMMA CleanStep == KeyInv /\ [KeyNext]_keyVars => CleanRevocationIsFinal'
  <1> SUFFICES ASSUME KeyInv, KeyTypeOK', [KeyNext]_keyVars, clean'
               PROVE (l2.status # "active" /\ NothingSlippedThrough)'
    BY KeyTypeStep DEF KeyInv, CleanRevocationIsFinal
  <1>a. CASE InvalidateL2
    BY <1>a, Zenon DEF InvalidateL2, NothingSlippedThrough, HoldsActive, Empty
  <1>b. CASE ~InvalidateL2
    <2>1. clean
      BY <1>b, Zenon DEF KeyNext, keyVars, admin, LookupL1, MissL1, ReadL2, MissL2, FillFromL2, ReadDb,
         DbFails, FillFromDb, SetL2, RevokeInDb, InvalidateL1, InvalidateL2Fails, Restart, Elapse
    <2>2. l2.status # "active" /\ NothingSlippedThrough /\ status = "revoked"
      BY <2>1 DEF KeyInv, CleanRevocationIsFinal, NotRevoked, KeyTypeOK
    <2> USE <2>2 DEF KeyInv, KeyTypeOK, Statuses, Empty, Entry, admin, FreshCopies,
        NothingSlippedThrough, HoldsActive
    <2>3. ASSUME NEW r \in Readers, LookupL1(r)
          PROVE (l2.status # "active" /\ NothingSlippedThrough)'
      BY <2>3, Zenon DEF LookupL1, Answer
    <2>4. ASSUME NEW r \in Readers, MissL1(r) \/ MissL2(r)
          PROVE (l2.status # "active" /\ NothingSlippedThrough)'
      BY <2>4, Zenon DEF MissL1, MissL2
    <2>5. ASSUME NEW r \in Readers, ReadL2(r) \/ ReadDb(r)
          PROVE (l2.status # "active" /\ NothingSlippedThrough)'
      BY <2>5, Zenon DEF ReadL2, ReadDb, Hold
    <2>6. ASSUME NEW r \in Readers, FillFromL2(r)
          PROVE (l2.status # "active" /\ NothingSlippedThrough)'
      BY <2>6 DEF FillFromL2, InsertL1, Answer
    <2>6a. ASSUME NEW r \in Readers, FillFromDb(r)
          PROVE (l2.status # "active" /\ NothingSlippedThrough)'
      BY <2>6a, Zenon DEF FillFromDb, InsertL1
    <2>7. ASSUME NEW r \in Readers, DbFails(r)
          PROVE (l2.status # "active" /\ NothingSlippedThrough)'
      BY <2>7, Zenon DEF DbFails, Answer
    <2>7a. ASSUME NEW r \in Readers, SetL2(r)
          PROVE (l2.status # "active" /\ NothingSlippedThrough)'
      BY <2>7a DEF SetL2, Answer
    <2>8. CASE RevokeInDb
      BY <2>8 DEF RevokeInDb
    <2>8a. CASE InvalidateL1
      BY <2>8a DEF InvalidateL1
    <2>8b. CASE InvalidateL2Fails
      BY <2>8b DEF InvalidateL2Fails
    <2>9. ASSUME NEW i \in Instances, Restart(i)
          PROVE (l2.status # "active" /\ NothingSlippedThrough)'
      BY <2>9 DEF Restart
    <2>10. CASE Elapse
      BY <2>10, Zenon DEF Elapse, Expire
    <2>11. CASE UNCHANGED keyVars
      BY <2>11, Zenon DEF keyVars
    <2> QED
      BY <1>b, <2>3, <2>4, <2>5, <2>6, <2>6a, <2>7, <2>7a, <2>8, <2>8a, <2>8b,
         <2>9, <2>10, <2>11, Zenon DEF KeyNext
  <1> QED
    BY <1>a, <1>b

(* The strengthened invariant holds in every reachable state. *)
LEMMA KeyInvariance == KeySpec => []KeyInv
  <1>1. KeyInv /\ [KeyNext]_keyVars => KeyInv'
    BY KeyTypeStep, BoundStep, CleanStep DEF KeyInv
  <1> QED
    BY InitKeyInv, <1>1, PTL DEF KeySpec

(* The variables of the key cache keep their types. *)
THEOREM KeyTypeCorrect == KeySpec => []KeyTypeOK
  BY KeyInvariance, PTL DEF KeyInv

(* A revoked key is answered as active at most MaxDelay + L2TTL - 1 +      *)
(* MaxDelay + L1TTL - 1 after revoke_scoped committed, on every instance,  *)
(* however lookups, fills, failed invalidations and restarts interleave.   *)
THEOREM BoundedRevocation == KeySpec => []RevocationTakesEffect
  <1>1. KeyInv => RevocationTakesEffect
    BY DEF KeyInv, KeyTypeOK, StaleCopies, LastL2Read, RevocationTakesEffect
  <1> QED
    BY <1>1, KeyInvariance, PTL

(* After a clean invalidation the revoking instance never again has an     *)
(* active copy in its L1, in L2 or in the hands of a lookup.               *)
THEOREM CleanRevocation == KeySpec => []CleanRevocationIsFinal
  BY KeyInvariance, PTL DEF KeyInv
=============================================================================
