---------------------------- MODULE ServerProofs ----------------------------
(***************************************************************************)
(* Proofs about admin authentication, alone and inside the gateway         *)
(* process, for any number of connections, admin keys and roles, any TTL   *)
(* and any bounds on the duration of a load and of a verification.         *)
(***************************************************************************)
EXTENDS Server, TLAPS

USE AdminAuthAssumption, SMTT(20), Zenon, Z3T(20)

Stay == IF TTL = 0 THEN 0 ELSE TTL - 1

(* Every key's row had the value of the list rows at t or later. *)
SinceThen(rows, t) ==
    \A k \in AdminKeys : held[k][rows[k]] # None /\ held[k][rows[k]] >= t

HistoryOK ==
    /\ \A k \in AdminKeys : held[k][row[k]] = now
    /\ \A k \in AdminKeys, v \in RowValues : held[k][v] # None => held[k][v] =< now

LoadOK ==
    load # None =>
        /\ load.since =< now /\ now - load.since =< MaxLoad
        /\ load.read => SinceThen(load.rows, load.since)

CacheOK ==
    cache # None =>
        /\ cache.at =< now /\ now - cache.at < TTL
        /\ SinceThen(cache.rows, cache.at - MaxLoad)

(* What a request verifies against is as old as the load and the cache     *)
(* made it, and the verification is young.                                 *)
ListsOK ==
    \A r \in Requests : pc[r] = "verifying" =>
        /\ begun[r] =< now /\ now - begun[r] =< MaxVerify
        /\ SinceThen(snap[r], begun[r] - MaxLoad - Stay)

IInv == AdminTypeOK /\ HistoryOK /\ LoadOK /\ CacheOK /\ ListsOK

LEMMA StayType == Stay \in Nat /\ Lag = MaxLoad + MaxVerify + Stay /\ (TTL > 0 => Stay = TTL - 1)
  BY DEF Stay, Lag

LEMMA InitIInv == AdminInit => IInv
  <1> SUFFICES ASSUME AdminInit PROVE IInv
    OBVIOUS
  <1> USE DEF AdminInit
  <1>1. AdminTypeOK
    BY DEF AdminTypeOK, Rows
  <1>2. HistoryOK
    BY DEF HistoryOK, Rows
  <1> QED
    BY <1>1, <1>2 DEF IInv, LoadOK, CacheOK, ListsOK

(* A list stays as recent as it was while time goes on and rows change.    *)
LEMMA StillSince ==
  ASSUME AdminTypeOK, NEW rows \in Rows, NEW t \in Int, SinceThen(rows, t),
         AdminTypeOK',
         \A k \in AdminKeys, v \in RowValues :
            held[k][v] # None => held'[k][v] # None /\ held'[k][v] >= held[k][v]
  PROVE  SinceThen(rows, t)'
  BY DEF AdminTypeOK, SinceThen, Rows

(* An older bound is a weaker one. *)
LEMMA Weaker ==
  ASSUME AdminTypeOK, NEW rows \in Rows, NEW t \in Int, NEW u \in Int, u =< t, SinceThen(rows, t)
  PROVE  SinceThen(rows, u)
  BY DEF AdminTypeOK, SinceThen, Rows

LEMMA TypeStep == AdminTypeOK /\ [AdminNext]_adminVars => AdminTypeOK'
  <1> SUFFICES ASSUME AdminTypeOK, [AdminNext]_adminVars PROVE AdminTypeOK'
    OBVIOUS
  <1> USE DEF AdminTypeOK, tableVars, slotVars, Refusals, Loads, Entries
  <1>1. ASSUME NEW r \in Requests, BadToken(r) PROVE AdminTypeOK'
    BY <1>1 DEF BadToken
  <1>2. ASSUME NEW r \in Requests, Hit(r) PROVE AdminTypeOK'
    BY <1>2 DEF Hit, Receive
  <1>3. ASSUME NEW r \in Requests, Miss(r) PROVE AdminTypeOK'
    <2>1. NewLoad(r) \in Loads
      BY DEF NewLoad
    <2> QED
      BY <1>3, <2>1, Zenon DEF Miss
  <1>4. ASSUME NEW r \in Requests, Decide(r) PROVE AdminTypeOK'
    <2>1. ASSUME NEW c \in Refusals, Refuse(r, c), UNCHANGED <<tableVars, load, cache, snap, begun>>
          PROVE  AdminTypeOK'
      BY <2>1, Zenon DEF Refuse
    <2>2. ASSUME NEW k \in Matched(r), KnownRole(snap[r][k]), Admit(r, k),
                 UNCHANGED <<tableVars, load, cache, snap, begun>>
          PROVE  AdminTypeOK'
      <3>1. k \in AdminKeys
        BY DEF Matched, Active
      <3>2. [key |-> k, role |-> snap[r][k]] \in Contexts
        BY <2>2, <3>1 DEF Contexts, KnownRole
      <3> QED
        BY <2>2, <3>2, Zenon DEF Admit
    <2> QED
      BY <1>4, <2>1, <2>2, Zenon DEF Decide
  <1>5. ASSUME NEW r \in Requests, Answered(r) PROVE AdminTypeOK'
    BY <1>5 DEF Answered, Forget
  <1>6. ASSUME NEW r \in Requests, Disconnect(r) PROVE AdminTypeOK'
    <2>1. \A q \in Requests : NewLoad(q) \in Loads
      BY DEF NewLoad
    <2>2. Waiting \subseteq Requests
      BY DEF Waiting
    <2>3. load' \in Loads \cup {None}
      BY <1>6, <2>1, <2>2 DEF Disconnect
    <2> QED
      BY <1>6, <2>3, Zenon DEF Disconnect, Forget
  <1>7. CASE Query
    BY <1>7, Zenon DEF Query
  <1>8. CASE LoadFails
    BY <1>8, Zenon DEF LoadFails
  <1>9. CASE Insert
    BY <1>9, Zenon DEF Insert, Receive
  <1>10. CASE Restart
    BY <1>10, Zenon DEF Restart
  <1>11. CASE Tick
    <2>1. \A k \in AdminKeys : held'[k] = [held[k] EXCEPT ![row[k]] = now + 1] /\ row[k] \in RowValues
      BY <1>11, Zenon DEF Tick, Rows
    <2>2. held' \in [AdminKeys -> [RowValues -> Nat \cup {None}]]
      BY <1>11, <2>1 DEF Tick
    <2> QED
      BY <1>11, <2>2 DEF Tick
  <1>12. ASSUME NEW k \in AdminKeys, NEW v \in RowValues, ChangeRow(k, v) PROVE AdminTypeOK'
    <2>1. row' \in Rows
      BY <1>12, Zenon DEF ChangeRow, Rows
    <2> QED
      BY <1>12, <2>1 DEF ChangeRow
  <1>13. CASE UNCHANGED adminVars
    BY <1>13, Zenon DEF adminVars
  <1> QED
    BY <1>1, <1>2, <1>3, <1>4, <1>5, <1>6, <1>7, <1>8, <1>9, <1>10, <1>11, <1>12, <1>13, Zenon
       DEF AdminNext, Progress

(* Rows only gain history. *)
LEMMA HistoryGrows ==
  ASSUME IInv, [AdminNext]_adminVars
  PROVE  \A k \in AdminKeys, v \in RowValues :
            held[k][v] # None => held'[k][v] # None /\ held'[k][v] >= held[k][v]
  <1> USE DEF IInv, AdminTypeOK, HistoryOK, tableVars, slotVars, Rows
  <1>1. CASE Tick
    <2>1. ASSUME NEW k \in AdminKeys PROVE held'[k] = [held[k] EXCEPT ![row[k]] = now + 1]
      BY <1>1, Zenon DEF Tick
    <2>2. ASSUME NEW k \in AdminKeys, NEW v \in RowValues, held[k][v] # None
          PROVE  held'[k][v] # None /\ held'[k][v] >= held[k][v]
      <3>1. held[k] \in [RowValues -> Nat \cup {None}] /\ held[k][v] =< now /\ held[k][v] \in Nat
        BY <2>2
      <3>2. held'[k][v] = IF v = row[k] THEN now + 1 ELSE held[k][v]
        BY <2>1, <3>1, Zenon
      <3> QED
        BY <2>2, <3>1, <3>2
    <2> QED
      BY <2>2, Zenon
  <1>2. ASSUME NEW k \in AdminKeys, NEW v \in RowValues, ChangeRow(k, v)
        PROVE  held' = [held EXCEPT ![k][v] = now]
    BY <1>2, Zenon DEF ChangeRow
  <1>3. CASE \E k \in AdminKeys, v \in RowValues : ChangeRow(k, v)
    BY <1>2, <1>3
  <1>4. CASE UNCHANGED held
    BY <1>4
  <1> QED
    BY <1>1, <1>3, <1>4, Zenon DEF AdminNext, adminVars, Progress, BadToken, Hit, Miss, Decide, Answered,
       Disconnect, Query, LoadFails, Insert, Restart

LEMMA HistoryStep == IInv /\ [AdminNext]_adminVars => HistoryOK'
  <1> SUFFICES ASSUME IInv, [AdminNext]_adminVars PROVE HistoryOK'
    BY Zenon
  <1> USE DEF IInv, AdminTypeOK, HistoryOK, tableVars, slotVars, Rows
  <1>1. CASE Tick
    <2>1. ASSUME NEW k \in AdminKeys
          PROVE  held'[k] = [held[k] EXCEPT ![row[k]] = now + 1] /\ row'[k] = row[k] /\ now' = now + 1
      BY <1>1, Zenon DEF Tick
    <2>2. now' = now + 1 /\ now \in Nat
      BY <1>1, Zenon DEF Tick
    <2>3. ASSUME NEW k \in AdminKeys, NEW v \in RowValues
          PROVE  held'[k][v] = IF v = row[k] THEN now + 1 ELSE held[k][v]
      <3>1. held[k] \in [RowValues -> Nat \cup {None}]
        BY Zenon
      <3> QED
        BY <2>1, <3>1, Zenon
    <2>4. ASSUME NEW k \in AdminKeys PROVE held'[k][row'[k]] = now'
      <3>1. row[k] \in RowValues
        BY Zenon
      <3> QED
        BY <2>1, <2>2, <2>3, <3>1, Zenon
    <2>5. ASSUME NEW k \in AdminKeys, NEW v \in RowValues, held'[k][v] # None
          PROVE  held'[k][v] =< now'
      <3>1. held[k][v] # None => held[k][v] =< now
        BY Zenon
      <3>2. held[k][v] \in Nat \cup {None}
        OBVIOUS
      <3>3. held'[k][v] = now + 1 \/ held'[k][v] = held[k][v]
        BY <2>3, Zenon
      <3> HIDE DEF IInv, AdminTypeOK, HistoryOK
      <3> QED
        BY <2>2, <2>5, <3>1, <3>2, <3>3
    <2> QED
      BY <2>4, <2>5, Zenon
  <1>2. ASSUME NEW k \in AdminKeys, NEW v \in RowValues, ChangeRow(k, v) PROVE HistoryOK'
    <2>1. held' = [held EXCEPT ![k][v] = now] /\ row' = [row EXCEPT ![k] = v] /\ now' = now
      BY <1>2, Zenon DEF ChangeRow
    <2> QED
      BY <2>1
  <1>3. CASE UNCHANGED tableVars
    BY <1>3, Zenon
  <1> QED
    BY <1>1, <1>2, <1>3, Zenon DEF AdminNext, adminVars, Progress, BadToken, Hit, Miss, Decide, Answered,
       Disconnect, Query, LoadFails, Insert, Restart

(* Only the query of a load fills it, and time passes only while it is     *)
(* young.                                                                  *)
LEMMA LoadStep == IInv /\ [AdminNext]_adminVars => LoadOK'
  <1> SUFFICES ASSUME IInv, [AdminNext]_adminVars PROVE LoadOK'
    OBVIOUS
  <1>0. AdminTypeOK /\ AdminTypeOK' /\ LoadOK /\ HistoryOK
    BY TypeStep DEF IInv
  <1>1. ASSUME load' # None, load' = load, now' = now \/ (now' = now + 1 /\ now - load.since < MaxLoad)
        PROVE  LoadOK'
    <2>1. load \in Loads /\ now \in Nat
      BY <1>0, <1>1, Zenon DEF AdminTypeOK
    <2>2. load.since \in Int /\ load.rows \in Rows
      BY <2>1 DEF Loads
    <2>3. load.since =< now /\ now - load.since =< MaxLoad
      BY <1>0, <1>1 DEF LoadOK
    <2>4. ASSUME load.read PROVE SinceThen(load.rows, load.since)'
      <3>1. SinceThen(load.rows, load.since)
        BY <1>0, <1>1, <2>4, Zenon DEF LoadOK
      <3>2. \A k \in AdminKeys : held[k][load.rows[k]] # None /\ held[k][load.rows[k]] >= load.since
        BY <3>1, Zenon DEF SinceThen
      <3>3. \A k \in AdminKeys : /\ held'[k][load.rows[k]] # None
                                 /\ held'[k][load.rows[k]] >= held[k][load.rows[k]]
        BY <2>2, <3>2, HistoryGrows, Zenon DEF Rows
      <3>4. \A k \in AdminKeys : /\ held[k][load.rows[k]] \in Nat \cup {None}
                                 /\ held'[k][load.rows[k]] \in Nat \cup {None}
        BY <1>0, <2>2 DEF AdminTypeOK, Rows
      <3> QED
        BY <1>1, <2>2, <3>2, <3>3, <3>4 DEF SinceThen
    <2>5. load.since =< now' /\ now' - load.since =< MaxLoad
      BY <1>1, <2>1, <2>2, <2>3
    <2> QED
      BY <1>1, <2>4, <2>5 DEF LoadOK
  <1>2. ASSUME NEW r \in Requests, load' = NewLoad(r), now' = now PROVE LoadOK'
    BY <1>0, <1>2 DEF LoadOK, NewLoad, AdminTypeOK
  <1>3. ASSUME load' = None PROVE LoadOK'
    BY <1>3 DEF LoadOK
  <1>4. CASE Query
    <2>1. load \in Loads /\ load' = [by |-> load.by, read |-> TRUE, rows |-> row, since |-> load.since]
      BY <1>0, <1>4, Zenon DEF Query, AdminTypeOK
    <2>2. now' = now /\ held' = held
      BY <1>4, Zenon DEF Query, tableVars
    <2>3. load.since \in Nat /\ load'.since = load.since /\ load'.rows = row /\ load # None
      BY <2>1, <1>4 DEF Loads, Query
    <2>4. load.since =< now /\ now - load.since =< MaxLoad
      BY <1>0, <2>3, Zenon DEF LoadOK
    <2>5. \A k \in AdminKeys : held[k][row[k]] # None /\ held[k][row[k]] >= load.since
      BY <1>0, <2>3, <2>4, Zenon DEF HistoryOK, AdminTypeOK
    <2> QED
      BY <2>2, <2>3, <2>4, <2>5, Zenon DEF LoadOK, SinceThen
  <1>5. ASSUME NEW r \in Requests, Miss(r) PROVE LoadOK'
    <2>1. load' = NewLoad(r) \/ (load' = load /\ load' # None)
      BY <1>5, Zenon DEF Miss
    <2> QED
      BY <1>5, <1>1, <1>2, <2>1, Zenon DEF Miss, tableVars
  <1>6. ASSUME NEW r \in Requests, Disconnect(r) PROVE LoadOK'
    <2>1. load' = load \/ load' = None \/ \E q \in Waiting \ {r} : load' = NewLoad(q)
      BY <1>6, Zenon DEF Disconnect
    <2>2. now' = now
      BY <1>6, Zenon DEF Disconnect, tableVars
    <2> QED
      BY <1>1, <1>2, <1>3, <2>1, <2>2 DEF Waiting
  <1>7. CASE Tick
    BY <1>1, <1>3, <1>7, Zenon DEF Tick
  <1>8. CASE LoadFails \/ Insert \/ Restart
    BY <1>3, <1>8, Zenon DEF LoadFails, Insert, Restart
  <1>9. ASSUME UNCHANGED <<load, now>> PROVE LoadOK'
    BY <1>1, <1>3, <1>9, Zenon
  <1> QED
    BY <1>4, <1>5, <1>6, <1>7, <1>8, <1>9, Zenon
       DEF AdminNext, adminVars, Progress, BadToken, Hit, Decide, Answered, ChangeRow, tableVars

(* A list that was recent enough before a step still is after it.          *)
LEMMA StillRecent ==
  ASSUME IInv, [AdminNext]_adminVars, NEW rows \in Rows, NEW t \in Int, SinceThen(rows, t)
  PROVE  SinceThen(rows, t)'
  <1>1. AdminTypeOK /\ AdminTypeOK'
    BY TypeStep, Zenon DEF IInv
  <1>2. \A k \in AdminKeys : held[k][rows[k]] # None /\ held[k][rows[k]] >= t
    BY Zenon DEF SinceThen
  <1>3. \A k \in AdminKeys : held'[k][rows[k]] # None /\ held'[k][rows[k]] >= held[k][rows[k]]
    BY <1>2, HistoryGrows, Zenon DEF Rows
  <1>4. \A k \in AdminKeys : /\ held[k][rows[k]] \in Nat \cup {None}
                             /\ held'[k][rows[k]] \in Nat \cup {None}
    BY <1>1 DEF AdminTypeOK, Rows
  <1> QED
    BY <1>2, <1>3, <1>4 DEF SinceThen

(* What a load that has been read returns. *)
LEMMA LoadedRows ==
  ASSUME IInv, load # None, load.read
  PROVE  load.rows \in Rows /\ SinceThen(load.rows, now - MaxLoad)
  <1>1. AdminTypeOK /\ load \in Loads /\ now \in Nat
    BY Zenon DEF IInv, AdminTypeOK
  <1>2. load.rows \in Rows /\ load.since \in Nat
    BY <1>1 DEF Loads
  <1>3. now - load.since =< MaxLoad /\ SinceThen(load.rows, load.since)
    BY DEF IInv, LoadOK
  <1>4. now - MaxLoad =< load.since
    BY <1>1, <1>2, <1>3
  <1> QED
    BY <1>1, <1>2, <1>3, <1>4, Weaker

LEMMA CacheStep == IInv /\ [AdminNext]_adminVars => CacheOK'
  <1> SUFFICES ASSUME IInv, [AdminNext]_adminVars PROVE CacheOK'
    BY Zenon
  <1>0. AdminTypeOK /\ AdminTypeOK' /\ CacheOK /\ now \in Nat
    BY TypeStep, Zenon DEF IInv, AdminTypeOK
  <1>1. ASSUME cache' # None, cache' = cache, now' = now \/ (now' = now + 1 /\ now + 1 - cache.at < TTL)
        PROVE  CacheOK'
    <2>1. cache \in Entries
      BY <1>0, <1>1, Zenon DEF AdminTypeOK
    <2>2. cache.at \in Nat /\ cache.rows \in Rows
      BY <2>1 DEF Entries
    <2>3. cache.at =< now /\ now - cache.at < TTL /\ SinceThen(cache.rows, cache.at - MaxLoad)
      BY <1>0, <1>1, Zenon DEF CacheOK
    <2>4. cache.at - MaxLoad \in Int
      BY <2>2
    <2>5. \A t \in Int : t = cache.at - MaxLoad => SinceThen(cache.rows, t)'
      BY <1>1, <2>2, <2>3, StillRecent, Zenon
    <2>6. SinceThen(cache.rows, cache.at - MaxLoad)'
      BY <1>1, <2>4, <2>5, Zenon DEF SinceThen
    <2>7. cache.at =< now' /\ now' - cache.at < TTL
      BY <1>0, <1>1, <2>2, <2>3
    <2> QED
      BY <1>1, <2>6, <2>7, Zenon DEF CacheOK
  <1>2. ASSUME cache' = None PROVE CacheOK'
    BY <1>2, Zenon DEF CacheOK
  <1>3. CASE Insert
    <2>1. load # None /\ load.read /\ now' = now /\ held' = held
      BY <1>3, Zenon DEF Insert, tableVars
    <2>2. SinceThen(load.rows, now - MaxLoad)
      BY <2>1, LoadedRows, Zenon
    <2>3. CASE TTL = 0
      BY <1>2, <1>3, <2>3, Zenon DEF Insert
    <2>4. CASE TTL # 0
      <3>1. cache' = [rows |-> load.rows, at |-> now]
        BY <1>3, <2>4, Zenon DEF Insert
      <3>2. cache'.rows = load.rows /\ cache'.at = now
        BY <3>1, Zenon
      <3>3. now - now < TTL
        BY <1>0, <2>4
      <3> QED
        BY <1>0, <2>1, <2>2, <3>2, <3>3 DEF CacheOK, SinceThen
    <2> QED
      BY <2>3, <2>4
  <1>4. CASE Tick
    <2>1. CASE cache # None /\ now + 1 - cache.at >= TTL
      BY <1>2, <1>4, <2>1, Zenon DEF Tick
    <2>2. CASE cache # None /\ ~(now + 1 - cache.at >= TTL)
      <3>1. cache.at \in Nat
        BY <1>0, <2>2, Zenon DEF AdminTypeOK, Entries
      <3> QED
        BY <1>0, <1>1, <1>4, <2>2, <3>1 DEF Tick
    <2>3. CASE cache = None
      BY <1>2, <1>4, <2>3, Zenon DEF Tick
    <2> QED
      BY <2>1, <2>2, <2>3, Zenon
  <1>5. CASE Restart
    BY <1>2, <1>5, Zenon DEF Restart
  <1>6. CASE UNCHANGED <<cache, now>>
    BY <1>1, <1>2, <1>6, Zenon
  <1> QED
    BY <1>3, <1>4, <1>5, <1>6, Zenon
       DEF AdminNext, adminVars, Progress, BadToken, Hit, Miss, Decide, Answered, Disconnect, Query,
           LoadFails, ChangeRow, tableVars

(* A request that is not given a list in this step keeps its own. *)
LEMMA KeepsList ==
  ASSUME IInv, [AdminNext]_adminVars, NEW r \in Requests,
         pc'[r] = "verifying", pc[r] = "verifying", snap'[r] = snap[r], begun'[r] = begun[r],
         now' = now \/ (now' = now + 1 /\ now - begun[r] < MaxVerify)
  PROVE  /\ begun'[r] =< now' /\ now' - begun'[r] =< MaxVerify
         /\ SinceThen(snap[r], begun[r] - MaxLoad - Stay)'
  <1>1. begun[r] \in Nat /\ snap[r] \in Rows /\ now \in Nat
    BY Zenon DEF IInv, AdminTypeOK
  <1>2. /\ begun[r] =< now /\ now - begun[r] =< MaxVerify
        /\ SinceThen(snap[r], begun[r] - MaxLoad - Stay)
    BY Zenon DEF IInv, ListsOK
  <1>3. begun[r] - MaxLoad - Stay \in Int
    BY <1>1, StayType
  <1>4. \A t \in Int : t = begun[r] - MaxLoad - Stay => SinceThen(snap[r], t)'
    BY <1>1, <1>2, StillRecent, Zenon
  <1>5. SinceThen(snap[r], begun[r] - MaxLoad - Stay)'
    BY <1>3, <1>4, Zenon DEF SinceThen, Stay
  <1> QED
    BY <1>1, <1>2, <1>5

(* A request that is given a list gets one that is recent enough. *)
LEMMA GetsList ==
  ASSUME IInv, NEW R \in SUBSET Requests, NEW rows \in Rows, Receive(R, rows),
         SinceThen(rows, now - MaxLoad - Stay), held' = held, now' = now
  PROVE  ListsOK'
  <1>1. now \in Nat /\ AdminTypeOK /\ ListsOK
    BY Zenon DEF IInv, AdminTypeOK
  <1>2. ASSUME NEW r \in Requests, pc'[r] = "verifying"
        PROVE  /\ begun'[r] =< now' /\ now' - begun'[r] =< MaxVerify
               /\ SinceThen(snap[r], begun[r] - MaxLoad - Stay)'
    <2>1. CASE r \in R
      <3>1. begun'[r] = now /\ snap'[r] = rows
        BY <2>1, Zenon DEF Receive
      <3> QED
        BY <1>1, <3>1 DEF SinceThen, Stay
    <2>2. CASE r \notin R
      <3>1. begun'[r] = begun[r] /\ snap'[r] = snap[r] /\ pc[r] = "verifying"
        BY <1>2, <2>2, Zenon DEF Receive
      <3>2. /\ begun[r] =< now /\ now - begun[r] =< MaxVerify
            /\ SinceThen(snap[r], begun[r] - MaxLoad - Stay)
        BY <1>1, <3>1, Zenon DEF ListsOK
      <3> QED
        BY <3>1, <3>2, Zenon DEF SinceThen, Stay
    <2> QED
      BY <2>1, <2>2, Zenon
  <1> QED
    BY <1>2, Zenon DEF ListsOK

LEMMA ListsStep == IInv /\ [AdminNext]_adminVars => ListsOK'
  <1> SUFFICES ASSUME IInv, [AdminNext]_adminVars PROVE ListsOK'
    BY Zenon
  <1>0. AdminTypeOK /\ CacheOK /\ ListsOK /\ now \in Nat
    BY Zenon DEF IInv, AdminTypeOK
  <1>1. ASSUME \A r \in Requests : pc'[r] = "verifying" =>
                  /\ pc[r] = "verifying" /\ snap'[r] = snap[r] /\ begun'[r] = begun[r]
                  /\ now' = now \/ (now' = now + 1 /\ now - begun[r] < MaxVerify)
        PROVE  ListsOK'
    <2>1. ASSUME NEW r \in Requests, pc'[r] = "verifying"
          PROVE  /\ begun'[r] =< now' /\ now' - begun'[r] =< MaxVerify
                 /\ SinceThen(snap[r], begun[r] - MaxLoad - Stay)'
      BY <1>1, <2>1, KeepsList, Zenon
    <2> QED
      BY <2>1, Zenon DEF ListsOK
  <1>2. ASSUME NEW r \in Requests, Hit(r) PROVE ListsOK'
    <2>1. cache \in Entries /\ cache # None
      BY <1>0, <1>2, Zenon DEF AdminTypeOK, Hit
    <2>2. cache.rows \in Rows /\ cache.at \in Nat
      BY <2>1, Zenon DEF Entries
    <2>3. now - cache.at < TTL /\ SinceThen(cache.rows, cache.at - MaxLoad)
      BY <1>0, <2>1, Zenon DEF CacheOK
    <2>4. now - MaxLoad - Stay =< cache.at - MaxLoad
      BY <1>0, <2>2, <2>3, StayType
    <2>5. cache.at - MaxLoad \in Int /\ now - MaxLoad - Stay \in Int
      BY <1>0, <2>2, StayType
    <2>6. SinceThen(cache.rows, now - MaxLoad - Stay)
      BY <1>0, <2>2, <2>3, <2>4, <2>5, Weaker, Zenon
    <2>7. Receive({r}, cache.rows) /\ held' = held /\ now' = now
      BY <1>2, Zenon DEF Hit, tableVars
    <2> QED
      BY <2>2, <2>6, <2>7, GetsList, Zenon
  <1>3. CASE Insert
    <2>1. load.rows \in Rows /\ SinceThen(load.rows, now - MaxLoad)
      BY <1>3, LoadedRows, Zenon DEF Insert
    <2>2. now - MaxLoad \in Int /\ now - MaxLoad - Stay \in Int /\ now - MaxLoad - Stay =< now - MaxLoad
      BY <1>0, StayType
    <2>3. SinceThen(load.rows, now - MaxLoad - Stay)
      BY <1>0, <2>1, <2>2, Weaker, Zenon
    <2>4. Receive(Waiting, load.rows) /\ held' = held /\ now' = now /\ Waiting \in SUBSET Requests
      BY <1>3, Zenon DEF Insert, tableVars, Waiting
    <2> QED
      BY <2>1, <2>3, <2>4, GetsList, Zenon
  <1>4. ASSUME NEW r \in Requests, BadToken(r) \/ Miss(r) PROVE ListsOK'
    BY <1>0, <1>1, <1>4, Zenon DEF BadToken, Miss, tableVars, slotVars, AdminTypeOK
  <1>5. ASSUME NEW r \in Requests, Decide(r) PROVE ListsOK'
    <2>1. pc' = [pc EXCEPT ![r] = pc'[r]] /\ pc'[r] # "verifying"
      BY <1>0, <1>5, Zenon DEF Decide, Refuse, Admit, AdminTypeOK
    <2> QED
      BY <1>0, <1>1, <1>5, <2>1, Zenon DEF Decide, tableVars, AdminTypeOK
  <1>6. ASSUME NEW r \in Requests, Answered(r) \/ Disconnect(r) PROVE ListsOK'
    <2>1. Forget(r) /\ now' = now
      BY <1>6, Zenon DEF Answered, Disconnect, tableVars
    <2> QED
      BY <1>0, <1>1, <2>1, Zenon DEF Forget, AdminTypeOK
  <1>7. CASE Query
    BY <1>1, <1>7, Zenon DEF Query, tableVars, slotVars
  <1>8. CASE LoadFails
    BY <1>1, <1>8, Zenon DEF LoadFails, tableVars, slotVars
  <1>9. CASE Restart
    BY <1>1, <1>9, Zenon DEF Restart
  <1>10. CASE Tick
    BY <1>1, <1>10, Zenon DEF Tick, slotVars
  <1>11. ASSUME NEW k \in AdminKeys, NEW v \in RowValues, ChangeRow(k, v) PROVE ListsOK'
    BY <1>1, <1>11, Zenon DEF ChangeRow, slotVars
  <1>12. CASE UNCHANGED adminVars
    BY <1>1, <1>12, Zenon DEF adminVars
  <1> QED
    BY <1>2, <1>3, <1>4, <1>5, <1>6, <1>7, <1>8, <1>9, <1>10, <1>11, <1>12, Zenon DEF AdminNext, Progress

LEMMA NextIInv == IInv /\ [AdminNext]_adminVars => IInv'
  BY TypeStep, HistoryStep, LoadStep, CacheStep, ListsStep, Zenon DEF IInv

LEMMA AdminInvariance == AdminSpec => []IInv
  BY InitIInv, NextIInv, PTL DEF AdminSpec

(* The decision of a request rests on the list it was given. *)
LEMMA DecisionHolds ==
  ASSUME IInv, NEW r \in Requests, pc[r] = "verifying", NEW k \in AdminKeys
  PROVE  HeldWithin(k, snap[r][k])
  <1>1. /\ begun[r] \in Nat /\ snap[r] \in Rows /\ now \in Nat
        /\ held \in [AdminKeys -> [RowValues -> Nat \cup {None}]]
    BY Zenon DEF IInv, AdminTypeOK
  <1>2. /\ begun[r] =< now /\ now - begun[r] =< MaxVerify
        /\ held[k][snap[r][k]] # None /\ held[k][snap[r][k]] >= begun[r] - MaxLoad - Stay
    BY Zenon DEF IInv, ListsOK, SinceThen
  <1>3. held[k][snap[r][k]] \in Nat
    BY <1>1, <1>2 DEF Rows
  <1>4. now - held[k][snap[r][k]] =< Lag
    BY <1>1, <1>2, <1>3, StayType
  <1> QED
    BY <1>2, <1>4, Zenon DEF HeldWithin

(* Only Decide admits a request or tells it that its key is invalid.       *)
LEMMA OnlyDecideDecides ==
  ASSUME IInv, [AdminNext]_adminVars, NEW r \in Requests,
         pc[r] # pc'[r], pc'[r] \in {"admitted", "invalid_api_key"}
  PROVE  Decide(r)
  <1> USE DEF IInv, AdminTypeOK, Refusals
  <1>1. ASSUME NEW q \in Requests, BadToken(q) \/ Miss(q) PROVE FALSE
    BY <1>1, Zenon DEF BadToken, Miss
  <1>2. ASSUME NEW q \in Requests, Hit(q) PROVE FALSE
    BY <1>2, Zenon DEF Hit, Receive
  <1>3. ASSUME NEW q \in Requests, Decide(q) PROVE Decide(r)
    <2>1. pc' = [pc EXCEPT ![q] = pc'[q]]
      BY <1>3, Zenon DEF Decide, Refuse, Admit
    <2>2. q = r
      BY <2>1, Zenon
    <2> QED
      BY <1>3, <2>2, Zenon
  <1>4. ASSUME NEW q \in Requests, Answered(q) \/ Disconnect(q) PROVE FALSE
    BY <1>4, Zenon DEF Answered, Disconnect, Forget
  <1>5. CASE Insert
    BY <1>5, Zenon DEF Insert, Receive
  <1>6. CASE LoadFails \/ Restart
    BY <1>6, Zenon DEF LoadFails, Restart
  <1>7. CASE UNCHANGED pc
    BY <1>7, Zenon
  <1> QED
    BY <1>1, <1>2, <1>3, <1>4, <1>5, <1>6, <1>7, Zenon DEF AdminNext, Progress, adminVars, Query, Tick, ChangeRow

(* Admin requests are decided on rows that were in the table at most a     *)
(* load, a stay in the cache and a verification ago, whichever requests    *)
(* share the load, disconnect or wait meanwhile (admin_auth_middleware).   *)
THEOREM AdminJustified == AdminSpec => AdminDecisionJustified
  <1>1. ASSUME IInv, [AdminNext]_adminVars, NEW r \in Requests,
               pc[r] # "admitted", pc'[r] = "admitted"
        PROVE  ctx'[r].key \in Matches[r] /\ HeldWithin(ctx'[r].key, ctx'[r].role)
    <2>1. Decide(r)
      BY <1>1, OnlyDecideDecides, Zenon
    <2>2. pc'[r] # "internal_error" /\ pc'[r] # "invalid_api_key" /\ pc'[r] # "invalid_role"
      BY <1>1, Zenon
    <2>3. \A c \in Refusals : Refuse(r, c) => pc'[r] = c
      BY <1>1, Zenon DEF Refuse, IInv, AdminTypeOK
    <2>4. PICK k \in Matched(r) : Admit(r, k)
      BY <2>1, <2>2, <2>3, Zenon DEF Decide, Refusals
    <2>5. k \in AdminKeys /\ k \in Matches[r]
      BY Zenon DEF Matched, Active
    <2>6. ctx'[r] = [key |-> k, role |-> snap[r][k]]
      BY <1>1, <2>4, Zenon DEF Admit, IInv, AdminTypeOK
    <2>7. HeldWithin(k, snap[r][k])
      BY <1>1, <2>1, <2>5, DecisionHolds, Zenon DEF Decide
    <2> QED
      BY <2>5, <2>6, <2>7
  <1>2. ASSUME IInv, [AdminNext]_adminVars, NEW r \in Requests,
               pc[r] # "invalid_api_key", pc'[r] = "invalid_api_key", NEW k \in Matches[r]
        PROVE  HeldWithin(k, "inactive")
    <2>1. Decide(r)
      BY <1>2, OnlyDecideDecides, Zenon
    <2>2. Matched(r) = {}
      BY <1>2, <2>1, Zenon DEF Decide, Refuse, Admit, IInv, AdminTypeOK
    <2>3. k \in AdminKeys
      BY Zenon
    <2>4. snap[r][k] = "inactive"
      BY <2>2, <2>3, Zenon DEF Matched, Active
    <2> QED
      BY <1>2, <2>1, <2>3, <2>4, DecisionHolds DEF Decide
  <1> DEFINE Justified ==
        \A r \in Requests :
          /\ pc[r] # "admitted" /\ pc'[r] = "admitted" =>
                /\ ctx'[r].key \in Matches[r]
                /\ HeldWithin(ctx'[r].key, ctx'[r].role)
          /\ pc[r] # "invalid_api_key" /\ pc'[r] = "invalid_api_key" =>
                \A k \in Matches[r] : HeldWithin(k, "inactive")
  <1>3. IInv /\ [AdminNext]_adminVars => [Justified]_adminVars
    BY <1>1, <1>2, Zenon
  <1> QED
    BY <1>3, AdminInvariance, PTL DEF AdminSpec, AdminDecisionJustified
-----------------------------------------------------------------------------
LEMMA ServerStep == [Next]_vars => [AdminNext]_adminVars
  <1> SUFFICES ASSUME [Next]_vars PROVE [AdminNext]_adminVars
    BY Zenon
  <1>1. CASE \E env \in Environments : LoadConfig(env)
    BY <1>1, Zenon DEF LoadConfig
  <1>2. CASE ConnectPg \/ Bind \/ Launch \/ Signal
    BY <1>2, Zenon DEF ConnectPg, Bind, Launch, Signal
  <1>3. CASE Exit \/ Crash
    BY <1>3, Zenon DEF Exit, Crash, AdminNext
  <1>4. ASSUME NEW r \in Requests, Accept(r) PROVE UNCHANGED adminVars
    BY <1>4 DEF Accept
  <1>5. ASSUME NEW r \in Requests, RequestStep(r) PROVE [AdminNext]_adminVars
    <2>1. CASE AdminStep(r)
      BY <2>1, Zenon DEF AdminStep, AdminNext
    <2>2. CASE AdminRefused(r) \/ AdminHandle(r)
      BY <2>2, Zenon DEF AdminRefused, AdminHandle, AdminNext
    <2>3. CASE AwaitBody(r) \/ InvalidateKey(r) \/ DataPlane(r)
      BY <2>3, Zenon DEF AwaitBody, InvalidateKey, DataPlane
    <2> QED
      BY <1>5, <2>1, <2>2, <2>3, Zenon DEF RequestStep
  <1>6. ASSUME NEW r \in Requests, ClientStep(r) \/ ClientGone(r) PROVE [AdminNext]_adminVars
    BY <1>6, Zenon DEF ClientStep, CheckBody, ExtractBody, Sent, ClientGone, AdminNext
  <1>7. CASE LoadKeys
    BY <1>7, Zenon DEF LoadKeys, AdminNext
  <1>8. CASE Around
    BY <1>8, Zenon DEF Around, AdminNext
  <1>9. CASE UNCHANGED vars
    BY <1>9, Zenon DEF vars
  <1> QED
    BY <1>1, <1>2, <1>3, <1>4, <1>5, <1>6, <1>7, <1>8, <1>9, Zenon DEF Next

(* The process, with its startup, router, shutdown and crashes, uses admin *)
(* authentication only as AdminAuth allows.                                *)
THEOREM Composition == Spec => AdminSpec
  BY ServerStep, PTL DEF Spec, AdminSpec, Init

(* So its admin decisions are justified as well. *)
THEOREM ServerAdminJustified == Spec => AdminDecisionJustified
  BY Composition, AdminJustified, PTL
-----------------------------------------------------------------------------
(* Past the rate limiter a request is charged, before it nothing is.       *)
Charged == {"acquire", "handler", "holding", "release"}
Uncharged == {"none", "headers", "collect", "key", "policy", "rate", "admin", "body", "parsed", "revoking"}

SlotTypes ==
    /\ stage \in [Requests -> Stages]
    /\ charged \in [Requests -> BOOLEAN]
    /\ reply \in [Requests -> [status : Statuses, headers : SUBSET {"Retry-After", "X-RateLimit"}]]

ChargesOK == \A r \in Requests : /\ stage[r] \in Charged => charged[r]
                                 /\ stage[r] \in Uncharged => ~charged[r]

SInv == SlotTypes /\ ChargesOK /\ ResponseTells

(* The responses a request may get, given whether it was charged. *)
Fits(response, c) ==
    /\ response \in [status : Statuses, headers : SUBSET {"Retry-After", "X-RateLimit"}]
    /\ "X-RateLimit" \in response.headers => c
    /\ c => "X-RateLimit" \in response.headers \/ response.status \in {429, 500}
    /\ response.status = 429 <=> "Retry-After" \in response.headers

(* What a reply, an entry into a stage and a departure leave. *)
LEMMA ReplyKeeps ==
  ASSUME SInv, NEW r \in Requests, NEW response, Reply(r, response),
         NEW c \in BOOLEAN, charged' = [charged EXCEPT ![r] = c], Fits(response, c)
  PROVE  SInv'
  BY DEF SInv, SlotTypes, ChargesOK, ResponseTells, Reply, Fits, Stages, Charged, Uncharged

LEMMA EnterKeeps ==
  ASSUME SInv, NEW r \in Requests, NEW s \in Charged \cup (Uncharged \ {"none"}), Enter(r, s),
         NEW c \in BOOLEAN, c <=> s \in Charged, charged' = [charged EXCEPT ![r] = c]
  PROVE  SInv'
  <1> USE DEF SInv, SlotTypes, Enter
  <1>1. s \in Stages /\ s # "done"
    BY Zenon DEF Stages, Charged, Uncharged
  <1>2. SlotTypes'
    BY <1>1, Zenon
  <1>3. s \in Uncharged => ~c
    BY Zenon DEF Charged, Uncharged
  <1>4. ChargesOK'
    BY <1>3, Zenon DEF ChargesOK
  <1>5. ResponseTells'
    BY <1>1 DEF ResponseTells
  <1> QED
    BY <1>2, <1>4, <1>5, Zenon

LEMMA LeaveKeeps ==
  ASSUME SInv, NEW r \in Requests, stage' = [stage EXCEPT ![r] = "none"],
         reply' = [reply EXCEPT ![r] = NoReply], charged' = [charged EXCEPT ![r] = FALSE]
  PROVE  SInv'
  BY DEF SInv, SlotTypes, ChargesOK, ResponseTells, NoReply, Statuses, Stages, Charged, Uncharged

LEMMA ErrorsFit ==
  /\ \A e \in {"Auth", "Policy", "NotFound", "Validation", "Conflict", "Storage", "Config"} :
        Fits(ErrorResponse(e), FALSE)
  /\ \A c \in BOOLEAN : Fits(ErrorResponse("RateLimit"), c) /\ Fits(ErrorResponse("Config"), c)
  /\ Fits(Ok, FALSE)
  <1> USE DEF Fits, Statuses
  <1>1. ASSUME NEW e \in {"Auth", "Policy", "NotFound", "Validation", "Conflict", "Storage", "Config"}
        PROVE  Fits(ErrorResponse(e), FALSE)
    <2>1. StatusCode(e) \in {401, 403, 404, 422, 409, 500}
      BY DEF StatusCode
    <2>2. ErrorResponse(e) = [status |-> StatusCode(e), headers |-> {}]
      BY Zenon DEF ErrorResponse
    <2> QED
      BY <2>1, <2>2
  <1>2. ASSUME NEW c \in BOOLEAN PROVE Fits(ErrorResponse("RateLimit"), c)
    BY DEF StatusCode, ErrorResponse
  <1>3. ASSUME NEW c \in BOOLEAN PROVE Fits(ErrorResponse("Config"), c)
    BY DEF StatusCode, ErrorResponse
  <1>4. Fits(Ok, FALSE)
    BY DEF Ok
  <1> QED
    BY <1>1, <1>2, <1>3, <1>4

Codes == {400, 404, 405, 413, 415, 422}

(* Success, and what axum answers itself, says nothing of a quota. *)
LEMMA RejectionsFit ==
  ASSUME NEW n \in Codes
  PROVE  Fits([Ok EXCEPT !.status = n], FALSE) /\ Fits(WithLimits([Ok EXCEPT !.status = n]), TRUE)
  <1>1. n \in Statuses /\ n # 429
    BY DEF Codes, Statuses
  <1>2. [Ok EXCEPT !.status = n] = [status |-> n, headers |-> {}]
    BY Z3T(20) DEF Ok
  <1>3. Fits([status |-> n, headers |-> {}], FALSE)
    BY <1>1 DEF Fits
  <1>4. Fits(WithLimits([status |-> n, headers |-> {}]), TRUE)
    BY <1>1 DEF Fits, WithLimits
  <1> QED
    BY <1>2, <1>3, <1>4, Zenon

(* So do the responses of every step that gives one of them. *)
LEMMA RoutesFit ==
  ASSUME NEW statuses, NEW response \in {Ok} \cup Rejected(statuses)
  PROVE  Fits(response, FALSE) /\ Fits(WithLimits(response), TRUE)
  <1>1. Rejections \subseteq Codes
    BY RejectionsAssumption DEF Codes
  <1>2. Fits(Ok, FALSE) /\ Fits(WithLimits(Ok), TRUE)
    BY DEF Ok, WithLimits, Fits, Statuses
  <1>3. CASE response \in Rejected(statuses)
    BY <1>1, <1>3, RejectionsFit, Zenon DEF Rejected
  <1> QED
    BY <1>2, <1>3, Zenon

LEMMA DataPlaneStep ==
  ASSUME SInv, NEW r \in Requests, DataPlane(r)
  PROVE  SInv'
  <1> USE DEF Fail
  <1>0. /\ \A c \in BOOLEAN : charged[r] = c => charged = [charged EXCEPT ![r] = c]
        /\ stage[r] \in Charged => charged[r] = TRUE
        /\ stage[r] \in Uncharged => charged[r] = FALSE
    BY Zenon DEF SInv, SlotTypes, ChargesOK
  <1>1. CASE CheckHeaders(r)
    <2>1. charged' = [charged EXCEPT ![r] = FALSE]
      BY <1>0, <1>1, Zenon DEF CheckHeaders, Uncharged
    <2>2. ASSUME Fail(r, "Auth") PROVE SInv'
      BY <2>1, <2>2, ErrorsFit, ReplyKeeps, Zenon
    <2>3. ASSUME NEW s \in {"collect"}, Enter(r, s) PROVE SInv'
      BY <2>1, <2>3, EnterKeeps, Zenon DEF Uncharged, Charged
    <2> QED
      BY <1>1, <2>2, <2>3, Zenon DEF CheckHeaders
  <1>2. CASE VerifyCaller(r)
    <2>1. charged' = [charged EXCEPT ![r] = FALSE]
      BY <1>0, <1>2, Zenon DEF VerifyCaller, Uncharged
    <2>2. ASSUME Fail(r, "Auth") PROVE SInv'
      BY <2>1, <2>2, ErrorsFit, ReplyKeeps, Zenon
    <2>3. ASSUME NEW s \in {"policy"}, Enter(r, s) PROVE SInv'
      BY <2>1, <2>3, EnterKeeps, Zenon DEF Uncharged, Charged
    <2> QED
      BY <1>2, <2>2, <2>3, Zenon DEF VerifyCaller
  <1>3. CASE Evaluate(r)
    <2>1. charged' = [charged EXCEPT ![r] = FALSE]
      BY <1>0, <1>3, Zenon DEF Evaluate, Uncharged
    <2>2. ASSUME Fail(r, "Policy") PROVE SInv'
      BY <2>1, <2>2, ErrorsFit, ReplyKeeps, Zenon
    <2>3. ASSUME NEW s \in {"rate"}, Enter(r, s) PROVE SInv'
      BY <2>1, <2>3, EnterKeeps, Zenon DEF Uncharged, Charged
    <2> QED
      BY <1>3, <2>2, <2>3, Zenon DEF Evaluate
  <1>4. CASE ChargeRate(r)
    <2>1. ASSUME NEW c \in BOOLEAN, charged' = [charged EXCEPT ![r] = c],
                 Fail(r, "RateLimit") \/ Fail(r, "Config")
          PROVE  SInv'
      BY <2>1, ErrorsFit, ReplyKeeps, Zenon
    <2>2. ASSUME charged' = [charged EXCEPT ![r] = TRUE], NEW s \in {"acquire", "handler"}, Enter(r, s)
          PROVE  SInv'
      BY <2>2, EnterKeeps, Zenon DEF Charged, Uncharged
    <2> QED
      BY <1>4, <2>1, <2>2, Zenon DEF ChargeRate
  <1>5. CASE Acquire(r)
    <2>1. charged' = [charged EXCEPT ![r] = TRUE]
      BY <1>0, <1>5, Zenon DEF Acquire, Charged
    <2>2. ASSUME Fail(r, "RateLimit") \/ Fail(r, "Config") PROVE SInv'
      BY <2>1, <2>2, ErrorsFit, ReplyKeeps, Zenon
    <2>3. ASSUME Enter(r, "holding") PROVE SInv'
      BY <2>1, <2>3, EnterKeeps, Zenon DEF Uncharged, Charged
    <2> QED
      BY <1>5, <2>2, <2>3, Zenon DEF Acquire
  <1>6. CASE Handle(r)
    <2>1. charged' = [charged EXCEPT ![r] = TRUE]
      BY <1>0, <1>6, Zenon DEF Handle, Charged
    <2>2. ASSUME Enter(r, "release") PROVE SInv'
      BY <2>1, <2>2, EnterKeeps, Zenon DEF Uncharged, Charged
    <2>3. ASSUME NEW response \in Responses, Reply(r, WithLimits(response)) PROVE SInv'
      BY <2>1, <2>3, RoutesFit, ReplyKeeps, Zenon DEF Responses
    <2> QED
      BY <1>6, <2>2, <2>3, Zenon DEF Handle
  <1>7. CASE Release(r)
    <2>1. charged' = [charged EXCEPT ![r] = TRUE]
      BY <1>0, <1>7, Zenon DEF Release, Charged
    <2> QED
      BY <1>7, <2>1, RoutesFit, ReplyKeeps, Zenon DEF Release, Responses
  <1> QED
    BY <1>1, <1>2, <1>3, <1>4, <1>5, <1>6, <1>7, Zenon DEF DataPlane

LEMMA SlotStep == SInv /\ [Next]_vars => SInv'
  <1> SUFFICES ASSUME SInv, [Next]_vars PROVE SInv'
    BY Zenon
  <1> USE ServerAssumption DEF Fail
  <1>0. ASSUME NEW r \in Requests, stage[r] \in Uncharged, UNCHANGED charged
        PROVE  charged' = [charged EXCEPT ![r] = FALSE]
    BY <1>0, Zenon DEF SInv, SlotTypes, ChargesOK
  <1>1. ASSUME UNCHANGED <<stage, charged, reply>> PROVE SInv'
    BY <1>1 DEF SInv, SlotTypes, ChargesOK, ResponseTells
  <1>2. ASSUME NEW r \in Requests, Accept(r) PROVE SInv'
    <2>1. charged' = [charged EXCEPT ![r] = FALSE]
      BY <1>0, <1>2 DEF Accept, Uncharged
    <2>2. ASSUME NEW s \in {"headers", "admin"}, Enter(r, s) PROVE SInv'
      BY <2>1, <2>2, EnterKeeps, Zenon DEF Charged, Uncharged
    <2>3. ASSUME NEW response \in {Ok} \cup Rejected(NotRouted), Reply(r, response) PROVE SInv'
      BY <2>1, <2>3, RoutesFit, ReplyKeeps, Zenon
    <2> QED
      BY <1>2, <2>2, <2>3 DEF Accept
  <1>3. ASSUME NEW r \in Requests, AdminRefused(r) PROVE SInv'
    <2>1. charged' = [charged EXCEPT ![r] = FALSE]
      BY <1>0, <1>3, Zenon DEF AdminRefused, Uncharged
    <2> QED
      BY <1>3, <2>1, ErrorsFit, ReplyKeeps, Zenon DEF AdminRefused
  <1>4. ASSUME NEW r \in Requests, AdminHandle(r) PROVE SInv'
    <2>1. charged' = [charged EXCEPT ![r] = FALSE]
      BY <1>0, <1>4, Zenon DEF AdminHandle, Uncharged
    <2>2. ASSUME NEW response \in Responses, Reply(r, response) PROVE SInv'
      BY <2>1, <2>2, RoutesFit, ReplyKeeps, Zenon DEF Responses
    <2>3. ASSUME NEW e \in HandlerErrors \cup {"Policy"}, Fail(r, e) PROVE SInv'
      BY <2>1, <2>3, ErrorsFit, ReplyKeeps, Zenon
    <2>4. ASSUME NEW s \in {"revoking"}, Enter(r, s) PROVE SInv'
      BY <2>1, <2>4, EnterKeeps, Zenon DEF Charged, Uncharged
    <2> QED
      BY <1>4, <2>2, <2>3, <2>4, Zenon DEF AdminHandle
  <1>5. ASSUME NEW r \in Requests, InvalidateKey(r) PROVE SInv'
    <2>1. charged' = [charged EXCEPT ![r] = FALSE]
      BY <1>0, <1>5, Zenon DEF InvalidateKey, Uncharged
    <2> QED
      BY <1>5, <2>1, ErrorsFit, ReplyKeeps, Zenon DEF InvalidateKey
  <1>6. ASSUME NEW r \in Requests, Sent(r) \/ ClientGone(r) PROVE SInv'
    BY <1>6, LeaveKeeps, Zenon DEF Sent, ClientGone
  <1>7. CASE Crash
    BY <1>7 DEF Crash, SInv, SlotTypes, ChargesOK, ResponseTells, NoReply, Statuses, Stages,
       Charged, Uncharged
  <1>8. ASSUME NEW r \in Requests, AwaitBody(r) PROVE SInv'
    <2>1. charged' = [charged EXCEPT ![r] = FALSE]
      BY <1>0, <1>8, Zenon DEF AwaitBody, Uncharged
    <2>2. ASSUME NEW s \in {"body"}, Enter(r, s) PROVE SInv'
      BY <2>1, <2>2, EnterKeeps, Zenon DEF Charged, Uncharged
    <2> QED
      BY <1>8, <2>2, Zenon DEF AwaitBody
  <1>9. ASSUME NEW r \in Requests, CheckBody(r) PROVE SInv'
    <2>1. charged' = [charged EXCEPT ![r] = FALSE]
      BY <1>0, <1>9, Zenon DEF CheckBody, Uncharged
    <2>2. ASSUME Fail(r, "Auth") PROVE SInv'
      BY <2>1, <2>2, ErrorsFit, ReplyKeeps, Zenon
    <2>3. ASSUME NEW s \in {"key"}, Enter(r, s) PROVE SInv'
      BY <2>1, <2>3, EnterKeeps, Zenon DEF Uncharged, Charged
    <2> QED
      BY <1>9, <2>2, <2>3, Zenon DEF CheckBody
  <1>10. ASSUME NEW r \in Requests, ExtractBody(r) PROVE SInv'
    <2>1. charged' = [charged EXCEPT ![r] = FALSE]
      BY <1>0, <1>10, Zenon DEF ExtractBody, Uncharged
    <2>2. ASSUME NEW s \in {"parsed"}, Enter(r, s) PROVE SInv'
      BY <2>1, <2>2, EnterKeeps, Zenon DEF Uncharged, Charged
    <2>3. ASSUME NEW response \in Rejected(NotExtracted), Reply(r, response) PROVE SInv'
      BY <2>1, <2>3, RoutesFit, ReplyKeeps, Zenon
    <2> QED
      BY <1>10, <2>2, <2>3 DEF ExtractBody
  <1>11. ASSUME NEW r \in Requests, RequestStep(r) PROVE SInv'
    BY <1>1, <1>3, <1>4, <1>5, <1>8, <1>11, DataPlaneStep, Zenon DEF RequestStep, AdminStep, serverVars
  <1>12. ASSUME NEW r \in Requests, ClientStep(r) PROVE SInv'
    BY <1>6, <1>9, <1>10, <1>12, Zenon DEF ClientStep
  <1> QED
    BY <1>1, <1>2, <1>6, <1>7, <1>11, <1>12, Zenon DEF Next, vars, serverVars, LoadConfig, ConnectPg, Bind, Launch,
       Signal, Exit, LoadKeys, Around

(* A response says what became of the request's quota, whatever is refused *)
(* or fails on the way (rate_limit_middleware, GatewayError).              *)
THEOREM ResponsesTell == Spec => []ResponseTells
  <1>1. Init => SInv
    BY DEF Init, SInv, SlotTypes, ChargesOK, ResponseTells, NoReply, Statuses, Stages, Charged, Uncharged
  <1>2. SInv => ResponseTells
    BY Zenon DEF SInv
  <1> QED
    BY <1>1, <1>2, SlotStep, PTL DEF Spec

ProcessTypes ==
    /\ phase \in {"down", "loaded", "connected", "serving", "draining", "failed", "exited"}
    /\ config \in [database_url : Values, valkey_url : Values, pg_pool_size : Nat, valkey_pool_size : Nat]

LEMMA ProcessStep == ProcessTypes /\ [Next]_vars => ProcessTypes'
  <1> SUFFICES ASSUME ProcessTypes, [Next]_vars PROVE ProcessTypes'
    BY Zenon
  <1> USE DEF ProcessTypes
  <1>1. ASSUME NEW env \in Environments, LoadConfig(env) PROVE ProcessTypes'
    <2>1. env \in [Names -> Values]
      BY ServerAssumption, Zenon
    <2>2. ASSUME ConfigLoads(env), NEW n \in Numbers, NEW d \in Nat PROVE ParseVal(env, n, d) \in Nat
      BY <2>1, <2>2 DEF ConfigLoads, ParseVal, Names, Values
    <2>3. ConfigLoads(env) => LoadFrom(env) \in [database_url : Values, valkey_url : Values,
                                                 pg_pool_size : Nat, valkey_pool_size : Nat]
      BY <2>1, <2>2, Zenon DEF LoadFrom, Numbers, Names, Urls
    <2> QED
      BY <1>1, <2>3, Zenon DEF LoadConfig
  <1>2. CASE ConnectPg \/ Bind \/ Signal \/ Exit \/ Crash
    BY <1>2, Zenon DEF ConnectPg, Bind, Signal, Exit, Crash
  <1>3. CASE Launch
    BY <1>3, Zenon DEF Launch, NotLoaded, Values
  <1>4. CASE UNCHANGED <<phase, config>>
    BY <1>4, Zenon
  <1>5. ASSUME NEW r \in Requests, Accept(r) \/ RequestStep(r) \/ ClientStep(r) \/ ClientGone(r)
        PROVE  UNCHANGED <<phase, config>>
    BY <1>5, Zenon DEF Accept, RequestStep, ClientStep, ClientGone, AdminStep, AdminRefused, AwaitBody,
       AdminHandle, InvalidateKey, DataPlane, CheckBody, ExtractBody, Sent, serverVars
  <1>6. CASE LoadKeys \/ Around
    BY <1>6, Zenon DEF LoadKeys, Around, serverVars
  <1> QED
    BY <1>1, <1>2, <1>3, <1>4, <1>5, <1>6, Zenon DEF Next, vars, serverVars

(* Every part of the process's state keeps its type. *)
THEOREM TypeCorrect == Spec => []TypeOK
  <1>1. Init => SInv /\ ProcessTypes
    BY DEF Init, SInv, SlotTypes, ChargesOK, ResponseTells, NoReply, NotLoaded, ProcessTypes, Values,
       Statuses, Stages, Charged, Uncharged
  <1>2. SInv /\ ProcessTypes /\ AdminTypeOK => TypeOK
    BY Zenon DEF SInv, SlotTypes, ProcessTypes, TypeOK
  <1>3. Init => AdminTypeOK
    BY InitIInv, Zenon DEF Init, IInv
  <1>4. AdminTypeOK /\ [Next]_vars => AdminTypeOK'
    BY TypeStep, ServerStep, Zenon
  <1> QED
    BY <1>1, <1>2, <1>3, <1>4, SlotStep, ProcessStep, PTL DEF Spec
=============================================================================
