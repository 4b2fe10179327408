----------------------------- MODULE LimitProofs -----------------------------
(***************************************************************************)
(* Proofs about the two limiters: the sliding windows, for any requests,   *)
(* accounts, limits and window length, when a script runs at most one      *)
(* window after the clock was read; and the concurrency counter, for any   *)
(* number of requests and instances, any limits and any TTL.               *)
(***************************************************************************)
EXTENDS RateLimit, Concurrency, FiniteSetTheorems, TLAPS

(* The earliest second at which a counter of window w may expire. *)
EndsAt(w) == (w + 2) * Window

Types ==
    /\ now \in Window..Horizon
    /\ cnt \in [Keys -> [Windows -> Int]]
    /\ exp \in [Keys -> [Windows -> Nat]]
    /\ sa \in [Requests -> ServiceAccounts]
    /\ pc \in [Requests -> {"new", "sa", "global", "rollback", "admitted", "refused", "failed"}]
    /\ since \in [Requests -> Nat] /\ read \in [Requests -> Nat]
    /\ saWindow \in [Requests -> Windows]
    /\ live \in [ServiceAccounts -> [Windows -> Int]]
    /\ misplaced \in [ServiceAccounts -> [Windows -> Nat]]
    /\ admitted \in [Windows -> Nat]

(* A request that awaits a script has read no clock before the run began. *)
Started ==
    \A r \in Requests : pc[r] \in {"sa", "global", "rollback"} => since[r] \in Window..now

(* No counter expires while its window is current or previous. *)
Expiries == \A k \in Keys, w \in Windows : exp[k][w] # 0 => exp[k][w] >= EndsAt(w)

(* Until then the global counter covers the admissions of the window. *)
GlobalCovered ==
    \A w \in Windows :
        /\ cnt[Global][w] >= 0
        /\ now < EndsAt(w) => cnt[Global][w] >= admitted[w]

(* The counter of a service account misses only misplaced rollbacks. *)
SaCovered ==
    \A a \in ServiceAccounts, w \in Windows :
        now < EndsAt(w) => cnt[a][w] + misplaced[a][w] >= live[a][w]

IInv ==
    /\ Types /\ Started /\ Expiries /\ GlobalCovered /\ SaCovered
    /\ GlobalLimitPerWindow /\ SaLimitPerWindow

USE RateLimitAssumption, SMTT(20), Zenon, Z3T(20)

(* Division with remainder by a positive divisor. *)
LEMMA DivMod ==
  ASSUME NEW a \in Nat, NEW d \in Nat \ {0}
  PROVE  /\ a \div d \in Nat /\ a % d \in 0..(d - 1)
         /\ a = d * (a \div d) + (a % d)
  BY Z3

(* Where a second lies in its window. *)
LEMMA WindowLemma ==
  ASSUME NEW t \in Nat
  PROVE  /\ WindowOf(t) \in Nat
         /\ t + 2 * Window >= EndsAt(WindowOf(t))
         /\ t + Window < EndsAt(WindowOf(t))
         /\ t < EndsAt(WindowOf(t) - 1)
  <1> DEFINE q == t \div Window
             m == t % Window
  <1>1. q \in Nat /\ m \in 0..(Window - 1) /\ t = Window * q + m
    BY DivMod, Zenon
  <1> HIDE DEF q, m
  <1>2. (q + 2) * Window = Window * q + 2 * Window
    BY <1>1
  <1>3. (q - 1 + 2) * Window = Window * q + Window
    BY <1>1
  <1> QED
    BY <1>1, <1>2, <1>3 DEF WindowOf, EndsAt, q

(* Division is monotone. *)
LEMMA DivMono ==
  ASSUME NEW a \in Nat, NEW b \in Nat, NEW d \in Nat \ {0}, a =< b
  PROVE  a \div d =< b \div d
  <1> DEFINE q == a \div d
             p == b \div d
  <1>1. q \in Nat /\ p \in Nat
    BY DivMod
  <1>2. d * q =< a /\ b < d * p + d
    BY DivMod
  <1> HIDE DEF q, p
  <1>3. ASSUME q >= p + 1 PROVE FALSE
    <2>1. d * q >= d * (p + 1)
      BY <1>1, <1>3
    <2>2. d * (p + 1) = d * p + d
      BY <1>1
    <2>3. d * q \in Nat /\ d * p \in Nat
      BY <1>1
    <2> QED
      BY <1>2, <2>1, <2>2, <2>3
  <1> QED
    BY <1>1, <1>3 DEF q, p

(* The overlap is a natural number and grows with the previous counter. *)
LEMMA OverlapLemma ==
  ASSUME NEW p \in Nat, NEW q \in Nat, q =< p, NEW t \in Nat
  PROVE  Overlap(p, t) \in Nat /\ Overlap(q, t) \in Nat /\ Overlap(q, t) =< Overlap(p, t)
  <1> DEFINE k == Window - (t % Window)
  <1>1. k \in Nat
    BY DivMod
  <1> HIDE DEF k
  <1>2. p * k \in Nat /\ q * k \in Nat /\ q * k =< p * k
    BY <1>1
  <1>3. p * k + Window - 1 \in Nat /\ q * k + Window - 1 \in Nat
    BY <1>2
  <1>4. q * k + Window - 1 =< p * k + Window - 1
    BY <1>2
  <1> QED
    BY <1>3, <1>4, DivMod, DivMono, Zenon DEF Overlap, k
(* A window that a request may use now is one of the run's, has a          *)
(* predecessor, and is still covered; so is the predecessor of the current *)
(* window.                                                                 *)
LEMMA ClockWindow ==
  ASSUME Types, Started, NEW r \in Requests, NEW t \in ClockReads(r),
         pc[r] \in {"sa", "global", "rollback"}
  PROVE  LET w == WindowOf(t)
         IN  /\ t \in Nat /\ w \in Windows /\ w - 1 \in Windows
             /\ now + 2 * Window >= EndsAt(w) /\ now < EndsAt(w)
             /\ EndsAt(w) \in Int /\ EndsAt(w - 1) \in Int
             /\ WindowOf(now) = w => now < EndsAt(w - 1)
  <1> DEFINE w == WindowOf(t)
  <1>1. /\ t \in Nat /\ Window =< t /\ t =< now /\ now =< Horizon /\ now \in Nat
        /\ now =< t + MaxDelay
    BY DEF Types, Started, ClockReads
  <1>2. w \in Nat /\ w =< WindowOf(Horizon) /\ WindowOf(Horizon) \in Nat
    <2>1. t \div Window \in Nat /\ Horizon \div Window \in Nat
      BY <1>1, DivMod
    <2>2. t \div Window =< Horizon \div Window
      BY <1>1, DivMono
    <2> QED
      BY <2>1, <2>2 DEF WindowOf
  <1>3. 1 =< w
    <2>1. Window \div Window =< t \div Window
      BY <1>1, DivMono
    <2>2. Window \div Window = 1
      OBVIOUS
    <2> QED
      BY <2>1, <2>2 DEF WindowOf
  <1>4. EndsAt(w) \in Int /\ EndsAt(w - 1) \in Int
    BY <1>2 DEF EndsAt
  <1>5. /\ t + 2 * Window >= EndsAt(w) /\ t + Window < EndsAt(w)
        /\ now < EndsAt(WindowOf(now) - 1)
    BY <1>1, WindowLemma
  <1>6. w \in Windows /\ w - 1 \in Windows
    BY <1>2, <1>3 DEF Windows
  <1>7. now + 2 * Window >= EndsAt(w) /\ now < EndsAt(w)
    <2> HIDE DEF w
    <2> QED
      BY <1>1, <1>4, <1>5
  <1>8. WindowOf(now) = w => now < EndsAt(w - 1)
    BY <1>5
  <1> QED
    BY <1>1, <1>4, <1>6, <1>7, <1>8

(* What an allowed answer says about the counters. *)
LEMMA AllowedLemma ==
  ASSUME NEW cur \in Int, NEW prev \in Int, NEW t \in Nat, NEW lim \in Int,
         MayAllow(cur, prev, t, lim)
  PROVE  prev \in Nat /\ cur + Overlap(prev, t) =< lim /\ cur =< lim
  <1>1. prev \in Nat /\ cur \in Nat
    BY DEF MayAllow
  <1>2. Overlap(prev, t) \in Nat
    BY <1>1, OverlapLemma
  <1>3. \A c \in WeightedCounts(cur, prev, t) : c \in Int /\ c >= cur + Overlap(prev, t)
    BY <1>1, <1>2 DEF WeightedCounts
  <1> QED
    BY <1>1, <1>2, <1>3 DEF MayAllow

(* What the script does to the counters. *)
LEMMA ScriptLemma ==
  ASSUME Types, Started, Expiries, NEW k \in Keys,
         NEW r \in Requests, pc[r] \in {"sa", "global", "rollback"},
         NEW t \in ClockReads(r), Script(k, WindowOf(t))
  PROVE  /\ cnt' \in [Keys -> [Windows -> Int]]
         /\ exp' \in [Keys -> [Windows -> Nat]]
         /\ Expiries'
         /\ \A j \in Keys, v \in Windows :
               /\ cnt'[j][v] = IF j = k /\ v = WindowOf(t) THEN cnt[j][v] + 1 ELSE cnt[j][v]
               /\ cnt'[j][v] >= cnt[j][v]
  <1> DEFINE w == WindowOf(t)
  <1>1. w \in Windows /\ now + 2 * Window >= EndsAt(w) /\ EndsAt(w) \in Int
    BY ClockWindow
  <1>2. Script(k, w)
    OBVIOUS
  <1> HIDE DEF w
  <1>3. /\ cnt' \in [Keys -> [Windows -> Int]]
        /\ exp' \in [Keys -> [Windows -> Nat]]
    BY <1>1, <1>2 DEF Types, Script
  <1>4. \A j \in Keys, v \in Windows :
           /\ cnt'[j][v] = IF j = k /\ v = w THEN cnt[j][v] + 1 ELSE cnt[j][v]
           /\ cnt'[j][v] >= cnt[j][v]
    BY <1>1, <1>2 DEF Types, Script
  <1>5. Expiries'
    BY <1>1, <1>2 DEF Types, Expiries, Script
  <1> QED
    BY <1>3, <1>4, <1>5 DEF w

(* The initial state satisfies the invariant. *)
LEMMA InitIInv == Init => IInv
  <1> SUFFICES ASSUME Init PROVE IInv
    OBVIOUS
  <1>0. 0 \in Windows
    BY DivMod DEF Windows, WindowOf
  <1> USE <1>0 DEF Init, PerWindow
  <1>1. Types
    BY DEF Types
  <1>2. Started
    BY DEF Started
  <1>3. Expiries
    BY DEF Expiries
  <1>4. GlobalCovered
    BY DEF GlobalCovered, Keys
  <1>5. SaCovered
    BY DEF SaCovered, Keys
  <1>6. GlobalLimitPerWindow
    BY DEF GlobalLimitPerWindow
  <1>7. SaLimitPerWindow
    BY DEF SaLimitPerWindow
  <1> QED
    BY <1>1, <1>2, <1>3, <1>4, <1>5, <1>6, <1>7 DEF IInv

(* A step that leaves the histories alone and at most raises counters      *)
(* through the script keeps what the counters cover.                       *)
LEMMA CoverKept ==
  ASSUME IInv, UNCHANGED <<now, live, misplaced, admitted>>,
         cnt' \in [Keys -> [Windows -> Int]],
         \A j \in Keys, v \in Windows : cnt'[j][v] >= cnt[j][v]
  PROVE  (GlobalCovered /\ SaCovered /\ GlobalLimitPerWindow /\ SaLimitPerWindow)'
  <1> USE DEF IInv, Types, Keys
  <1>1. GlobalCovered'
    BY DEF GlobalCovered
  <1>2. SaCovered'
    BY DEF SaCovered
  <1>3. (GlobalLimitPerWindow /\ SaLimitPerWindow)'
    BY DEF GlobalLimitPerWindow, SaLimitPerWindow
  <1> QED
    BY <1>1, <1>2, <1>3

(* Start reads the clock and touches no counter. *)
LEMMA StartStep ==
  ASSUME IInv, NEW r \in Requests, Start(r)
  PROVE  IInv'
  <1> USE DEF Start, Goto, Stamp, ghosts
  <1>1. (Types /\ Started /\ Expiries)'
    BY DEF IInv, Types, Started, Expiries
  <1>2. (GlobalCovered /\ SaCovered /\ GlobalLimitPerWindow /\ SaLimitPerWindow)'
    BY CoverKept DEF IInv, Types
  <1> QED
    BY <1>1, <1>2 DEF IInv

(* A refusal by the SA check keeps its increment. *)
LEMMA SaRefusedStep ==
  ASSUME IInv, NEW r \in Requests, SaRefused(r)
  PROVE  IInv'
  <1>0. pc[r] \in {"sa", "global", "rollback"} /\ sa[r] \in Keys
    BY DEF SaRefused, IInv, Types, Keys
  <1>1. PICK t \in ClockReads(r) : Script(sa[r], WindowOf(t))
    BY Zenon DEF SaRefused
  <1>2. /\ cnt' \in [Keys -> [Windows -> Int]] /\ exp' \in [Keys -> [Windows -> Nat]]
        /\ Expiries' /\ \A j \in Keys, v \in Windows : cnt'[j][v] >= cnt[j][v]
    BY <1>0, <1>1, ScriptLemma DEF IInv
  <1>3. (Types /\ Started)'
    BY <1>2, Zenon DEF SaRefused, End, Goto, ghosts, IInv, Types, Started
  <1> QED
    BY <1>2, <1>3, CoverKept, Zenon DEF IInv, SaRefused, ghosts

(* A failed check may or may not have run its script. *)
LEMMA CheckFailsStep ==
  ASSUME IInv, NEW r \in Requests, CheckFails(r)
  PROVE  IInv'
  <1>0. pc[r] \in {"sa", "global", "rollback"} /\ sa[r] \in Keys /\ Global \in Keys
    BY DEF CheckFails, IInv, Types, Keys
  <1>1. /\ cnt' \in [Keys -> [Windows -> Int]] /\ exp' \in [Keys -> [Windows -> Nat]]
        /\ Expiries' /\ \A j \in Keys, v \in Windows : cnt'[j][v] >= cnt[j][v]
    <2>1. CASE UNCHANGED <<cnt, exp>>
      BY <2>1 DEF IInv, Types, Expiries
    <2>2. ASSUME NEW k \in Keys, NEW t \in ClockReads(r), Script(k, WindowOf(t))
          PROVE  /\ cnt' \in [Keys -> [Windows -> Int]] /\ exp' \in [Keys -> [Windows -> Nat]]
                 /\ Expiries' /\ \A j \in Keys, v \in Windows : cnt'[j][v] >= cnt[j][v]
      BY <1>0, <2>2, ScriptLemma, Zenon DEF IInv
    <2> QED
      BY <1>0, <2>1, <2>2 DEF CheckFails
  <1>2. (Types /\ Started)'
    BY <1>1 DEF CheckFails, End, Goto, ghosts, IInv, Types, Started
  <1> QED
    BY <1>1, <1>2, CoverKept, Zenon DEF IInv, CheckFails, ghosts

(* A refusal by the global check keeps its increment too. *)
LEMMA GlobalRefusedStep ==
  ASSUME IInv, NEW r \in Requests, GlobalRefused(r)
  PROVE  IInv'
  <1>0. pc[r] \in {"sa", "global", "rollback"} /\ Global \in Keys
    BY Zenon DEF GlobalRefused, IInv, Types, Keys
  <1>1. PICK t \in ClockReads(r) : Script(Global, WindowOf(t))
    BY Zenon DEF GlobalRefused
  <1>2. /\ cnt' \in [Keys -> [Windows -> Int]] /\ exp' \in [Keys -> [Windows -> Nat]]
        /\ Expiries' /\ \A j \in Keys, v \in Windows : cnt'[j][v] >= cnt[j][v]
    BY <1>0, <1>1, ScriptLemma, Zenon DEF IInv
  <1>3. /\ UNCHANGED <<now, sa, read, saWindow, live, misplaced, admitted>>
        /\ End(r, "refused") \/ (Goto(r, "rollback") /\ Stamp(r))
    BY Zenon DEF GlobalRefused
  <1>4. ASSUME End(r, "refused") PROVE (Types /\ Started)'
    BY <1>2, <1>3, <1>4, Zenon DEF End, Goto, IInv, Types, Started
  <1>5. ASSUME Goto(r, "rollback"), Stamp(r) PROVE (Types /\ Started)'
    BY <1>2, <1>3, <1>5 DEF Goto, Stamp, IInv, Types, Started
  <1>6. (Types /\ Started)'
    BY <1>3, <1>4, <1>5
  <1> QED
    BY <1>2, <1>3, <1>6, CoverKept, Zenon DEF IInv

(* An admission by the SA check is counted before it is answered. *)
LEMMA SaAllowedStep ==
  ASSUME IInv, NEW r \in Requests, SaAllowed(r)
  PROVE  IInv'
  <1> DEFINE a == sa[r]
  <1>0. pc[r] \in {"sa", "global", "rollback"} /\ a \in Keys /\ a \in ServiceAccounts
    BY Zenon DEF SaAllowed, IInv, Types, Keys
  <1>1. PICK t \in ClockReads(r) :
           /\ MayAllow(Current(a, WindowOf(t)), Previous(a, WindowOf(t)), t, RpmLimit[a])
           /\ Script(a, WindowOf(t))
           /\ saWindow' = [saWindow EXCEPT ![r] = WindowOf(t)]
           /\ live' = [live EXCEPT ![a][WindowOf(t)] = @ + 1]
    BY Zenon DEF SaAllowed
  <1> DEFINE w == WindowOf(t)
  <1>2. t \in Nat /\ w \in Windows /\ w - 1 \in Windows /\ now < EndsAt(w)
    BY <1>0, ClockWindow, Zenon DEF IInv
  <1>3. /\ cnt' \in [Keys -> [Windows -> Int]] /\ exp' \in [Keys -> [Windows -> Nat]]
        /\ Expiries'
        /\ \A j \in Keys, v \in Windows :
               cnt'[j][v] = IF j = a /\ v = w THEN cnt[j][v] + 1 ELSE cnt[j][v]
    BY <1>0, <1>1, ScriptLemma DEF IInv
  <1>4. RpmLimit[a] # NoLimit => cnt[a][w] + 1 =< RpmLimit[a]
    <2> SUFFICES ASSUME RpmLimit[a] # NoLimit PROVE cnt[a][w] + 1 =< RpmLimit[a]
      OBVIOUS
    <2>1. RpmLimit[a] \in Int /\ cnt[a][w] + 1 \in Int /\ cnt[a][w - 1] \in Int
      BY <1>0, <1>2 DEF IInv, Types
    <2> HIDE DEF w, a
    <2>2. MayAllow(cnt[a][w] + 1, cnt[a][w - 1], t, RpmLimit[a])
      BY <1>1 DEF Current, Previous, w
    <2> QED
      BY <1>2, <2>1, <2>2, AllowedLemma, Zenon
  <1>5. /\ UNCHANGED <<now, sa, read, misplaced, admitted>>
        /\ Goto(r, "global") /\ Stamp(r)
        /\ saWindow' = [saWindow EXCEPT ![r] = w]
        /\ live' = [live EXCEPT ![a][w] = @ + 1]
    BY <1>1, Zenon DEF SaAllowed
  <1> HIDE DEF w, a
  <1>6. (Types /\ Started)'
    BY <1>0, <1>2, <1>3, <1>5 DEF Goto, Stamp, IInv, Types, Started
  <1>7. GlobalCovered'
    BY <1>0, <1>3, <1>5, Zenon DEF GlobalCovered, IInv, Keys
  <1>8. SaCovered'
    BY <1>0, <1>2, <1>3, <1>5 DEF SaCovered, IInv, Types, Keys
  <1>9. SaLimitPerWindow'
    <2> SUFFICES ASSUME NEW b \in ServiceAccounts, NEW v \in Windows, RpmLimit[b] # NoLimit
                 PROVE  live'[b][v] =< RpmLimit[b] + misplaced[b][v]
      BY <1>5 DEF SaLimitPerWindow
    <2>1. RpmLimit[b] \in Nat /\ misplaced[b][v] \in Nat /\ live[b][v] \in Int
      BY DEF IInv, Types
    <2>2. CASE b = a /\ v = w
      BY <1>0, <1>2, <1>4, <1>5, <2>1, <2>2 DEF SaCovered, IInv, Types
    <2>3. CASE ~(b = a /\ v = w)
      BY <1>0, <1>2, <1>5, <2>1, <2>3, Zenon DEF SaLimitPerWindow, IInv, Types
    <2> QED
      BY <2>2, <2>3, Zenon
  <1>10. GlobalLimitPerWindow'
    BY <1>5 DEF GlobalLimitPerWindow, IInv
  <1> QED
    BY <1>3, <1>6, <1>7, <1>8, <1>9, <1>10, Zenon DEF IInv

(* So is an admission by the global check. *)
LEMMA GlobalAllowedStep ==
  ASSUME IInv, NEW r \in Requests, GlobalAllowed(r)
  PROVE  /\ IInv'
         /\ \E t \in ClockReads(r) :
               /\ read'[r] = t
               /\ admitted'[WindowOf(t)] = admitted[WindowOf(t)] + 1
               /\ MayAllow(cnt[Global][WindowOf(t)] + 1, cnt[Global][WindowOf(t) - 1],
                           t, GlobalRpm)
  <1>0. pc[r] \in {"sa", "global", "rollback"} /\ Global \in Keys
    BY Zenon DEF GlobalAllowed, IInv, Types, Keys
  <1>1. PICK t \in ClockReads(r) :
           /\ MayAllow(Current(Global, WindowOf(t)), Previous(Global, WindowOf(t)), t, GlobalRpm)
           /\ Script(Global, WindowOf(t))
           /\ admitted' = [admitted EXCEPT ![WindowOf(t)] = @ + 1]
           /\ read' = [read EXCEPT ![r] = t]
    BY Zenon DEF GlobalAllowed
  <1> DEFINE w == WindowOf(t)
  <1>2. t \in Nat /\ w \in Windows /\ w - 1 \in Windows /\ now < EndsAt(w)
    BY <1>0, ClockWindow DEF IInv
  <1>3. /\ cnt' \in [Keys -> [Windows -> Int]] /\ exp' \in [Keys -> [Windows -> Nat]]
        /\ Expiries'
        /\ \A j \in Keys, v \in Windows :
               cnt'[j][v] = IF j = Global /\ v = w THEN cnt[j][v] + 1 ELSE cnt[j][v]
    BY <1>0, <1>1, ScriptLemma DEF IInv
  <1>4. MayAllow(cnt[Global][w] + 1, cnt[Global][w - 1], t, GlobalRpm)
    BY <1>1, Zenon DEF Current, Previous
  <1>5. /\ UNCHANGED <<now, sa, saWindow, live, misplaced>> /\ End(r, "admitted")
        /\ admitted' = [admitted EXCEPT ![w] = @ + 1]
        /\ read' = [read EXCEPT ![r] = t]
    BY <1>1, Zenon DEF GlobalAllowed
  <1>6. read'[r] = t /\ admitted'[w] = admitted[w] + 1
    BY <1>2, <1>5 DEF IInv, Types
  <1> HIDE DEF w
  <1>7. cnt[Global][w] + 1 =< GlobalRpm
    <2>1. cnt[Global][w] + 1 \in Int /\ cnt[Global][w - 1] \in Int
      BY <1>0, <1>2 DEF IInv, Types
    <2> QED
      BY <1>2, <1>4, <2>1, AllowedLemma
  <1>8. (Types /\ Started)'
    BY <1>2, <1>3, <1>5 DEF End, Goto, IInv, Types, Started
  <1>9. GlobalCovered'
    BY <1>0, <1>2, <1>3, <1>5 DEF GlobalCovered, IInv, Types
  <1>10. SaCovered'
    BY <1>3, <1>5, Zenon DEF SaCovered, IInv, Types, Keys
  <1>11. GlobalLimitPerWindow'
    BY <1>0, <1>2, <1>5, <1>7 DEF GlobalLimitPerWindow, GlobalCovered, IInv, Types
  <1>12. SaLimitPerWindow'
    BY <1>5, Zenon DEF SaLimitPerWindow, IInv
  <1>13. IInv'
    BY <1>3, <1>8, <1>9, <1>10, <1>11, <1>12, Zenon DEF IInv
  <1> QED
    BY <1>4, <1>6, <1>13, Zenon DEF w

(* A rollback takes back its own increment, or is recorded as misplaced. *)
LEMMA RollbackStep ==
  ASSUME IInv, NEW r \in Requests, Rollback(r)
  PROVE  IInv'
  <1> DEFINE a == sa[r]
             u == saWindow[r]
  <1>0. /\ pc[r] \in {"sa", "global", "rollback"} /\ a \in Keys /\ a \in ServiceAccounts
        /\ u \in Windows /\ a # Global
    BY DEF Rollback, IInv, Types, Keys
  <1>1. PICK t \in ClockReads(r) :
           /\ cnt' = [cnt EXCEPT ![a][WindowOf(t)] = @ - 1]
           /\ misplaced' = [misplaced EXCEPT ![a][WindowOf(t)] =
                               IF WindowOf(t) = u THEN @ ELSE @ + 1]
    BY Zenon DEF Rollback
  <1> DEFINE w == WindowOf(t)
  <1>2. w \in Windows
    BY <1>0, ClockWindow, Zenon DEF IInv
  <1>3. /\ cnt' = [cnt EXCEPT ![a][w] = @ - 1]
        /\ misplaced' = [misplaced EXCEPT ![a][w] = IF w = u THEN @ ELSE @ + 1]
        /\ live' = [live EXCEPT ![a][u] = @ - 1]
        /\ End(r, "refused")
        /\ UNCHANGED <<now, exp, sa, read, saWindow, admitted>>
    BY <1>1, Zenon DEF Rollback
  <1> HIDE DEF w, a, u
  <1>4. (Types /\ Started /\ Expiries)'
    BY <1>0, <1>2, <1>3 DEF End, Goto, IInv, Types, Started, Expiries
  <1>5. (GlobalCovered /\ GlobalLimitPerWindow)'
    BY <1>0, <1>2, <1>3, Zenon DEF GlobalCovered, GlobalLimitPerWindow, IInv, Types, Keys
  <1>6. ASSUME NEW b \in ServiceAccounts, NEW v \in Windows
        PROVE  /\ cnt'[b][v] + misplaced'[b][v] - live'[b][v]
                      >= cnt[b][v] + misplaced[b][v] - live[b][v]
               /\ misplaced'[b][v] - live'[b][v] >= misplaced[b][v] - live[b][v]
               /\ cnt[b][v] \in Int /\ misplaced[b][v] \in Int /\ live[b][v] \in Int
               /\ cnt'[b][v] \in Int /\ misplaced'[b][v] \in Int /\ live'[b][v] \in Int
    <2>1. b \in Keys
      BY DEF Keys
    <2> QED
      BY <1>0, <1>2, <1>3, <2>1 DEF IInv, Types
  <1>7. SaCovered'
    BY <1>3, <1>6 DEF SaCovered, IInv
  <1>8. SaLimitPerWindow'
    BY <1>6 DEF SaLimitPerWindow, IInv
  <1> QED
    BY <1>4, <1>5, <1>7, <1>8 DEF IInv

(* A rollback that fails leaves the counter too high. *)
LEMMA RollbackFailsStep ==
  ASSUME IInv, NEW r \in Requests, RollbackFails(r)
  PROVE  IInv'
  <1>0. sa[r] \in ServiceAccounts /\ saWindow[r] \in Windows
    BY Zenon DEF IInv, Types
  <1> USE DEF RollbackFails, End, Goto
  <1>1. (Types /\ Started /\ Expiries)'
    BY <1>0 DEF IInv, Types, Started, Expiries
  <1>2. (GlobalCovered /\ GlobalLimitPerWindow)'
    BY Zenon DEF GlobalCovered, GlobalLimitPerWindow, IInv
  <1>3. \A b \in ServiceAccounts, v \in Windows :
           live'[b][v] =< live[b][v] /\ live[b][v] \in Int /\ live'[b][v] \in Int
    BY <1>0 DEF IInv, Types
  <1>4. SaCovered'
    BY <1>3 DEF SaCovered, IInv, Types, Keys
  <1>5. SaLimitPerWindow'
    BY <1>3 DEF SaLimitPerWindow, IInv, Types
  <1> QED
    BY <1>1, <1>2, <1>4, <1>5, Zenon DEF IInv

(* When a key expires its window is no longer covered. *)
LEMMA TickStep ==
  ASSUME IInv, Tick
  PROVE  IInv'
  <1> USE DEF Tick, ghosts
  <1>1. (Types /\ Started /\ Expiries)'
    BY DEF IInv, Types, Started, Expiries
  <1>2. \A k \in Keys, w \in Windows :
           /\ cnt'[k][w] \in {0, cnt[k][w]} /\ cnt[k][w] \in Int
           /\ now' < EndsAt(w) => cnt'[k][w] = cnt[k][w] /\ now < EndsAt(w)
    <2> TAKE k \in Keys, w \in Windows
    <2>1. EndsAt(w) \in Int /\ now \in Int
      BY DivMod DEF EndsAt, Windows, IInv, Types
    <2> QED
      BY <2>1 DEF IInv, Types, Expiries
  <1>3. GlobalCovered'
    <2> SUFFICES ASSUME NEW w \in Windows
                 PROVE  /\ cnt'[Global][w] >= 0
                        /\ now' < EndsAt(w) => cnt'[Global][w] >= admitted[w]
      BY Zenon DEF GlobalCovered
    <2>1. Global \in Keys
      BY Zenon DEF Keys
    <2>2. cnt[Global][w] >= 0 /\ (now < EndsAt(w) => cnt[Global][w] >= admitted[w])
      BY Zenon DEF IInv, GlobalCovered
    <2>3. /\ cnt'[Global][w] = 0 \/ cnt'[Global][w] = cnt[Global][w]
          /\ now' < EndsAt(w) => cnt'[Global][w] = cnt[Global][w] /\ now < EndsAt(w)
      BY <1>2, <2>1, Zenon
    <2> HIDE DEF Tick
    <2> QED
      BY <2>2, <2>3
  <1>4. SaCovered'
    BY <1>2, Zenon DEF SaCovered, IInv, Types, Keys
  <1>5. (GlobalLimitPerWindow /\ SaLimitPerWindow)'
    BY Zenon DEF GlobalLimitPerWindow, SaLimitPerWindow, IInv
  <1> QED
    BY <1>1, <1>3, <1>4, <1>5, Zenon DEF IInv

(* The strengthened invariant holds in every reachable state. *)
LEMMA Invariance == Spec => []IInv
  <1>1. ASSUME IInv, UNCHANGED vars PROVE IInv'
    BY <1>1, Zenon DEF vars, IInv, Types, Started, Expiries, GlobalCovered, SaCovered,
       GlobalLimitPerWindow, SaLimitPerWindow
  <1>2. IInv /\ [Next]_vars => IInv'
    BY <1>1, TickStep, StartStep, SaAllowedStep, SaRefusedStep, CheckFailsStep,
       GlobalAllowedStep, GlobalRefusedStep, RollbackStep, RollbackFailsStep, Zenon DEF Next
  <1> QED
    BY InitIInv, <1>2, PTL DEF Spec

(* In no window does the global check admit more than global_rpm requests, *)
(* for any number of requests and instances and any delays, failures and   *)
(* expiries, as long as a script runs within a window of its clock read.   *)
THEOREM GlobalLimit == Spec => []GlobalLimitPerWindow
  BY Invariance, PTL DEF IInv

(* In no window does a service account have more requests past its check   *)
(* than rpm_limit plus the rollbacks that were meant for another window.   *)
THEOREM SaLimit == Spec => []SaLimitPerWindow
  BY Invariance, PTL DEF IInv

(* The counters cover what was let through for as long as they count, up   *)
(* to the rollbacks of rollback_sa_counter that hit another window.        *)
THEOREM Accounted == Spec => []CountersAccounted
  <1>1. ASSUME IInv PROVE CountersAccounted
    <2>1. ASSUME NEW w \in Windows, now < (w + 2) * Window
          PROVE  cnt[Global][w] >= admitted[w]
      BY <1>1, <2>1, Zenon DEF IInv, GlobalCovered, EndsAt
    <2>2. ASSUME NEW w \in Windows, now < (w + 2) * Window, NEW a \in ServiceAccounts
          PROVE  cnt[a][w] >= live[a][w] - misplaced[a][w]
      <3>1. cnt[a][w] \in Int /\ live[a][w] \in Int /\ misplaced[a][w] \in Nat
        BY <1>1 DEF IInv, Types, Keys
      <3>2. cnt[a][w] + misplaced[a][w] >= live[a][w]
        BY <1>1, <2>2 DEF IInv, SaCovered, EndsAt
      <3> QED
        BY <3>1, <3>2
    <2> QED
      BY <2>1, <2>2, Zenon DEF CountersAccounted
  <1> QED
    BY <1>1, Invariance, PTL

(* A step from the global check to admitted is the check of that request. *)
LEMMA OnlyTheCheckAdmits ==
  ASSUME Types, [Next]_vars, NEW r \in Requests, pc[r] = "global", pc'[r] = "admitted"
  PROVE  GlobalAllowed(r)
  <1> USE DEF Types, Goto, End
  <1>1. ASSUME NEW q \in Requests, GlobalAllowed(q) PROVE q = r
    BY <1>1, Zenon DEF GlobalAllowed
  <1>2. ASSUME NEW q \in Requests, Start(q) PROVE FALSE
    BY <1>2, Zenon DEF Start
  <1>3. ASSUME NEW q \in Requests, SaAllowed(q) PROVE FALSE
    BY <1>3, Zenon DEF SaAllowed
  <1>4. ASSUME NEW q \in Requests, SaRefused(q) PROVE FALSE
    BY <1>4, Zenon DEF SaRefused
  <1>5. ASSUME NEW q \in Requests, CheckFails(q) PROVE FALSE
    BY <1>5, Zenon DEF CheckFails
  <1>6. ASSUME NEW q \in Requests, GlobalRefused(q) PROVE FALSE
    BY <1>6, Zenon DEF GlobalRefused
  <1>7. ASSUME NEW q \in Requests, Rollback(q) PROVE FALSE
    BY <1>7, Zenon DEF Rollback
  <1>8. ASSUME NEW q \in Requests, RollbackFails(q) PROVE FALSE
    BY <1>8, Zenon DEF RollbackFails
  <1>9. ASSUME Tick \/ UNCHANGED vars PROVE FALSE
    BY <1>9, Zenon DEF Tick, vars
  <1> QED
    BY <1>1, <1>2, <1>3, <1>4, <1>5, <1>6, <1>7, <1>8, <1>9, Zenon DEF Next

(* The sliding-window promise: a request admitted while its window lasts   *)
(* leaves this window's admissions and the overlapping part of the last    *)
(* window's within global_rpm.                                             *)
THEOREM SlidingWindow == Spec => SlidingWindowBound
  <1>1. ASSUME IInv, [Next]_vars
        PROVE [\A r \in Requests :
                 LET w == WindowOf(read'[r])
                 IN  (pc[r] = "global" /\ pc'[r] = "admitted" /\ WindowOf(now) = w) =>
                         admitted'[w] + Overlap(admitted[w - 1], read'[r]) =< GlobalRpm]_vars
    <2> SUFFICES ASSUME NEW r \in Requests, pc[r] = "global", pc'[r] = "admitted",
                        WindowOf(now) = WindowOf(read'[r])
                 PROVE  admitted'[WindowOf(read'[r])]
                          + Overlap(admitted[WindowOf(read'[r]) - 1], read'[r]) =< GlobalRpm
      BY Zenon
    <2>0. GlobalAllowed(r)
      BY <1>1, OnlyTheCheckAdmits, Zenon DEF IInv
    <2>1. PICK t \in ClockReads(r) :
             /\ read'[r] = t
             /\ admitted'[WindowOf(t)] = admitted[WindowOf(t)] + 1
             /\ MayAllow(cnt[Global][WindowOf(t)] + 1, cnt[Global][WindowOf(t) - 1],
                         t, GlobalRpm)
      BY <1>1, <2>0, GlobalAllowedStep, Zenon
    <2> DEFINE w == WindowOf(t)
    <2>2. /\ t \in Nat /\ w \in Windows /\ w - 1 \in Windows /\ now < EndsAt(w)
          /\ now < EndsAt(w - 1)
      BY <1>1, <2>1, ClockWindow, Zenon DEF IInv
    <2>3. /\ read'[r] = t /\ admitted'[w] = admitted[w] + 1
          /\ MayAllow(cnt[Global][w] + 1, cnt[Global][w - 1], t, GlobalRpm)
      BY <2>1, Zenon
    <2> HIDE DEF w
    <2>4. /\ cnt[Global][w] \in Int /\ cnt[Global][w - 1] \in Int
          /\ admitted[w] \in Nat /\ admitted[w - 1] \in Nat
      BY <1>1, <2>2 DEF IInv, Types, Keys
    <2>5. cnt[Global][w] >= admitted[w] /\ cnt[Global][w - 1] >= admitted[w - 1]
      BY <1>1, <2>2, Zenon DEF IInv, GlobalCovered
    <2>6. /\ cnt[Global][w - 1] \in Nat
          /\ cnt[Global][w] + 1 + Overlap(cnt[Global][w - 1], t) =< GlobalRpm
      BY <2>2, <2>3, <2>4, AllowedLemma
    <2>7. /\ Overlap(cnt[Global][w - 1], t) \in Nat /\ Overlap(admitted[w - 1], t) \in Nat
          /\ Overlap(admitted[w - 1], t) =< Overlap(cnt[Global][w - 1], t)
      BY <2>2, <2>4, <2>5, <2>6, OverlapLemma, Zenon
    <2>8. admitted'[w] + Overlap(admitted[w - 1], t) =< GlobalRpm
      BY <2>3, <2>4, <2>5, <2>6, <2>7
    <2> QED
      BY <2>3, <2>8, Zenon DEF w
  <1> QED
    BY <1>1, Invariance, PTL DEF SlidingWindowBound, Spec
HIDE RateLimitAssumption
-----------------------------------------------------------------------------
(* The concurrency limiter. *)

(* A request owes a DECR exactly while it is between its INCR and the end  *)
(* of its release, and the flag says whether the release has begun.        *)
Owing == {"granted", "running", "releasing", "spawned"}
SlotsMatchRequests ==
    \A r \in Slots :
        /\ r \in owed <=> stage[r] \in Owing
        /\ stage[r] = "running" => ~released[r]
        /\ stage[r] \in {"releasing", "leaving"} => released[r]

(* A slot that Redis counts is under a running TTL: no crash between two   *)
(* steps leaves a positive counter that cannot expire (the header of       *)
(* concurrency.rs: INCR and EXPIRE in one script).                         *)
CountedSlotsExpire == count > 0 => ttl > 0

PermitInv == PermitTypeOK /\ SlotsMatchRequests /\ CounterAccounts /\ CountedSlotsExpire

USE ConcurrencyAssumption

(* The slots in use are finitely many, at most one per request. *)
LEMMA OwedFinite ==
  ASSUME owed \subseteq Slots
  PROVE  /\ IsFiniteSet(owed)
         /\ Cardinality(owed) \in 0..Cardinality(Slots)
  <1>1. IsFiniteSet(owed) /\ Cardinality(owed) =< Cardinality(Slots)
    BY FS_Subset
  <1>2. Cardinality(owed) \in Nat /\ Cardinality(Slots) \in Nat
    BY <1>1, FS_CardinalityType
  <1> QED
    BY <1>1, <1>2

(* Taking a slot raises the number of slots in use by one. *)
LEMMA TakeSlot ==
  ASSUME owed \subseteq Slots, NEW r \in Slots, r \notin owed
  PROVE  Cardinality(owed \cup {r}) = Cardinality(owed) + 1
  BY OwedFinite, FS_AddElement, Zenon

(* Giving a slot back lowers it by one. *)
LEMMA GiveSlot ==
  ASSUME owed \subseteq Slots, NEW r \in owed
  PROVE  Cardinality(owed \ {r}) = Cardinality(owed) - 1
  BY OwedFinite, FS_RemoveElement, Zenon

(* The slots of a crashed instance and the others are together all slots. *)
LEMMA SplitSlots ==
  ASSUME owed \subseteq Slots, NEW i \in Instances
  PROVE  /\ Cardinality({r \in owed : Host[r] # i})
               + Cardinality({r \in owed : Host[r] = i}) = Cardinality(owed)
         /\ Cardinality({r \in owed : Host[r] = i}) \in Nat
         /\ Cardinality({r \in owed : Host[r] # i}) \in Nat
  <1> DEFINE S == {r \in owed : Host[r] # i}
             T == {r \in owed : Host[r] = i}
  <1>1. IsFiniteSet(owed)
    BY OwedFinite
  <1>2. IsFiniteSet(S) /\ IsFiniteSet(T)
    BY <1>1, FS_Subset
  <1>3. S \cup T = owed /\ S \cap T = {}
    OBVIOUS
  <1>4. Cardinality(S) \in Nat /\ Cardinality(T) \in Nat
    BY <1>2, FS_CardinalityType
  <1>5. Cardinality(S \cup T) = Cardinality(S) + Cardinality(T) - Cardinality(S \cap T)
    BY <1>2, FS_Union
  <1>6. Cardinality(S \cap T) = 0
    BY <1>3, FS_EmptySet, Zenon
  <1>7. Cardinality(S \cup T) = Cardinality(owed)
    BY <1>3, Zenon
  <1> QED
    BY <1>4, <1>5, <1>6, <1>7

LEMMA InitPermitInv == PermitInit => PermitInv
  <1> SUFFICES ASSUME PermitInit PROVE PermitInv
    OBVIOUS
  <1> USE DEF PermitInit
  <1>0. Cardinality({}) = 0 /\ Cardinality(Slots) \in Nat
    BY FS_EmptySet, FS_CardinalityType
  <1>1. PermitTypeOK
    <2>1. released \in [Slots -> BOOLEAN]
      OBVIOUS
    <2> QED
      BY <1>0, <2>1 DEF PermitTypeOK, States
  <1>2. SlotsMatchRequests
    BY DEF SlotsMatchRequests, Owing
  <1>3. CounterAccounts /\ CountedSlotsExpire
    BY <1>0 DEF CounterAccounts, CountedSlotsExpire
  <1> QED
    BY <1>1, <1>2, <1>3 DEF PermitInv

(* Every step keeps the types. *)
LEMMA PermitTypeStep == PermitInv /\ [PermitNext]_permitVars => PermitTypeOK'
  <1> SUFFICES ASSUME PermitInv, [PermitNext]_permitVars PROVE PermitTypeOK'
    OBVIOUS
  <1>0. /\ IsFiniteSet(owed) /\ Cardinality(owed) \in 0..Cardinality(Slots)
        /\ Cardinality(Slots) \in Nat
    BY OwedFinite, FS_CardinalityType DEF PermitInv, PermitTypeOK
  <1> USE DEF PermitTypeOK, States
  <1>1. ASSUME NEW r \in Slots, NEW lim \in Limits, AcquireScript(r, lim) PROVE PermitTypeOK'
    BY <1>1 DEF AcquireScript, Enter, PermitInv
  <1>2. ASSUME NEW r \in Slots, Refused(r) PROVE PermitTypeOK'
    BY <1>2 DEF Refused, Enter, PermitInv
  <1>3. ASSUME NEW r \in Slots, Granted(r) PROVE PermitTypeOK'
    BY <1>3 DEF Granted, Enter, PermitInv
  <1>4. ASSUME NEW r \in Slots, GrantLost(r) PROVE PermitTypeOK'
    BY <1>4 DEF GrantLost, Enter, Leak, PermitInv
  <1>5. ASSUME NEW r \in Slots, Release(r) PROVE PermitTypeOK'
    BY <1>5 DEF Release, Enter, PermitInv
  <1>6. ASSUME NEW r \in Slots, ReleaseDecr(r) PROVE PermitTypeOK'
    BY <1>6 DEF ReleaseDecr, Decr, Enter, PermitInv
  <1>7. ASSUME NEW r \in Slots, ReleaseFails(r) PROVE PermitTypeOK'
    BY <1>7 DEF ReleaseFails, Leak, Enter, PermitInv
  <1>8. ASSUME NEW r \in Slots, ReleaseCancelled(r) PROVE PermitTypeOK'
    BY <1>8 DEF ReleaseCancelled, Leak, Enter, PermitInv
  <1>9. ASSUME NEW r \in Slots, DropPermit(r) PROVE PermitTypeOK'
    BY <1>9 DEF DropPermit, Enter, PermitInv
  <1>10. ASSUME NEW r \in Slots, SpawnedDecr(r) PROVE PermitTypeOK'
    BY <1>10 DEF SpawnedDecr, Decr, Enter, PermitInv
  <1>11. ASSUME NEW r \in Slots, SpawnedFails(r) PROVE PermitTypeOK'
    BY <1>11 DEF SpawnedFails, Leak, Enter, PermitInv
  <1>12. ASSUME NEW i \in Instances, Crash(i) PROVE PermitTypeOK'
    <2>1. Cardinality({r \in owed : Host[r] = i}) \in Nat
      BY SplitSlots, Zenon DEF PermitInv
    <2>2. leaked' \in Nat
      BY <1>12, <2>1 DEF Crash, PermitInv
    <2>3. stage' \in [Slots -> States] /\ owed' \subseteq Slots
      BY <1>12 DEF Crash, PermitInv
    <2>4. UNCHANGED <<count, ttl, limit, released, debt>>
      BY <1>12 DEF Crash
    <2> QED
      BY <2>2, <2>3, <2>4 DEF PermitInv
  <1>13. CASE Elapse
    BY <1>0, <1>13 DEF Elapse, PermitInv
  <1>14. CASE UNCHANGED permitVars
    BY <1>14 DEF permitVars, PermitInv
  <1> QED
    BY <1>1, <1>2, <1>3, <1>4, <1>5, <1>6, <1>7, <1>8, <1>9, <1>10, <1>11, <1>12,
       <1>13, <1>14 DEF PermitNext, Acquire, Steps, Failures

(* Every step keeps the slots in use and the state of the requests in line. *)
LEMMA SlotsStep == PermitInv /\ [PermitNext]_permitVars => SlotsMatchRequests'
  <1> SUFFICES ASSUME PermitInv, [PermitNext]_permitVars PROVE SlotsMatchRequests'
    OBVIOUS
  <1> USE DEF PermitTypeOK, SlotsMatchRequests, Owing
  <1>1. ASSUME NEW r \in Slots, NEW lim \in Limits, AcquireScript(r, lim)
        PROVE SlotsMatchRequests'
    BY <1>1 DEF AcquireScript, Enter, PermitInv
  <1>2. ASSUME NEW r \in Slots, Refused(r) PROVE SlotsMatchRequests'
    BY <1>2 DEF Refused, Enter, PermitInv
  <1>3. ASSUME NEW r \in Slots, Granted(r) PROVE SlotsMatchRequests'
    BY <1>3 DEF Granted, Enter, PermitInv
  <1>4. ASSUME NEW r \in Slots, GrantLost(r) PROVE SlotsMatchRequests'
    BY <1>4 DEF GrantLost, Enter, Leak, PermitInv
  <1>5. ASSUME NEW r \in Slots, Release(r) PROVE SlotsMatchRequests'
    BY <1>5 DEF Release, Enter, PermitInv
  <1>6. ASSUME NEW r \in Slots, ReleaseDecr(r) PROVE SlotsMatchRequests'
    BY <1>6 DEF ReleaseDecr, Decr, Enter, PermitInv
  <1>7. ASSUME NEW r \in Slots, ReleaseFails(r) PROVE SlotsMatchRequests'
    BY <1>7 DEF ReleaseFails, Leak, Enter, PermitInv
  <1>8. ASSUME NEW r \in Slots, ReleaseCancelled(r) PROVE SlotsMatchRequests'
    BY <1>8 DEF ReleaseCancelled, Leak, Enter, PermitInv
  <1>9. ASSUME NEW r \in Slots, DropPermit(r) PROVE SlotsMatchRequests'
    BY <1>9 DEF DropPermit, Enter, PermitInv
  <1>10. ASSUME NEW r \in Slots, SpawnedDecr(r) PROVE SlotsMatchRequests'
    BY <1>10 DEF SpawnedDecr, Decr, Enter, PermitInv
  <1>11. ASSUME NEW r \in Slots, SpawnedFails(r) PROVE SlotsMatchRequests'
    BY <1>11 DEF SpawnedFails, Leak, Enter, PermitInv
  <1>12. ASSUME NEW i \in Instances, Crash(i) PROVE SlotsMatchRequests'
    BY <1>12 DEF Crash, PermitInv
  <1>13. CASE Elapse
    BY <1>13 DEF Elapse, PermitInv
  <1>14. CASE UNCHANGED permitVars
    BY <1>14 DEF permitVars, PermitInv
  <1> QED
    BY <1>1, <1>2, <1>3, <1>4, <1>5, <1>6, <1>7, <1>8, <1>9, <1>10, <1>11, <1>12,
       <1>13, <1>14, Zenon DEF PermitNext, Acquire, Steps, Failures

(* Every step keeps the account of the counter and its expiry. *)
LEMMA CountStep == PermitInv /\ [PermitNext]_permitVars => (CounterAccounts /\ CountedSlotsExpire)'
  <1> SUFFICES ASSUME PermitInv, [PermitNext]_permitVars PROVE (CounterAccounts /\ CountedSlotsExpire)'
    OBVIOUS
  <1> DEFINE Goal == CounterAccounts /\ CountedSlotsExpire
  <1>0. /\ owed \subseteq Slots
        /\ Cardinality(owed) \in Nat /\ count \in Int /\ leaked \in Nat /\ debt \in Nat
        /\ ttl \in 0..KeyTTL
        /\ count = Cardinality(owed) + leaked - debt
        /\ count > 0 => ttl > 0
    BY OwedFinite, FS_CardinalityType
    DEF PermitInv, PermitTypeOK, CounterAccounts, CountedSlotsExpire
  <1>m. \A r \in Slots : r \in owed <=> stage[r] \in Owing
    BY DEF PermitInv, SlotsMatchRequests
  <1> USE DEF CounterAccounts, CountedSlotsExpire
  <1>1. ASSUME NEW r \in Slots, NEW lim \in Limits, AcquireScript(r, lim) PROVE Goal'
    <2>1. r \notin owed
      BY <1>1, <1>m DEF AcquireScript, Owing
    <2> QED
      BY <1>0, <1>1, <2>1, TakeSlot DEF AcquireScript
  <1>2. ASSUME NEW r \in Slots, Refused(r) PROVE Goal'
    BY <1>0, <1>2 DEF Refused
  <1>3. ASSUME NEW r \in Slots, Granted(r) PROVE Goal'
    BY <1>0, <1>3 DEF Granted
  <1>4. ASSUME NEW r \in Slots, GrantLost(r) PROVE Goal'
    BY <1>0, <1>m, <1>4, GiveSlot DEF GrantLost, Leak, Owing
  <1>5. ASSUME NEW r \in Slots, Release(r) PROVE Goal'
    BY <1>0, <1>5 DEF Release
  <1>6. ASSUME NEW r \in Slots, ReleaseDecr(r) PROVE Goal'
    BY <1>0, <1>m, <1>6, GiveSlot DEF ReleaseDecr, Decr, Owing
  <1>7. ASSUME NEW r \in Slots, ReleaseFails(r) PROVE Goal'
    BY <1>0, <1>m, <1>7, GiveSlot DEF ReleaseFails, Leak, Owing
  <1>8. ASSUME NEW r \in Slots, ReleaseCancelled(r) PROVE Goal'
    BY <1>0, <1>m, <1>8, GiveSlot DEF ReleaseCancelled, Leak, Owing
  <1>9. ASSUME NEW r \in Slots, DropPermit(r) PROVE Goal'
    BY <1>0, <1>9 DEF DropPermit
  <1>10. ASSUME NEW r \in Slots, SpawnedDecr(r) PROVE Goal'
    BY <1>0, <1>m, <1>10, GiveSlot DEF SpawnedDecr, Decr, Owing
  <1>11. ASSUME NEW r \in Slots, SpawnedFails(r) PROVE Goal'
    BY <1>0, <1>m, <1>11, GiveSlot DEF SpawnedFails, Leak, Owing
  <1>12. ASSUME NEW i \in Instances, Crash(i) PROVE Goal'
    <2> DEFINE kept == Cardinality({r \in owed : Host[r] # i})
               gone == Cardinality({r \in owed : Host[r] = i})
    <2>1. kept + gone = Cardinality(owed) /\ kept \in Nat /\ gone \in Nat
      BY <1>0, SplitSlots, Zenon
    <2>2. Cardinality(owed') = kept /\ leaked' = leaked + gone /\ UNCHANGED <<count, ttl, debt>>
      BY <1>12, Zenon DEF Crash
    <2> HIDE DEF kept, gone
    <2> QED
      BY <1>0, <2>1, <2>2
  <1>13. CASE Elapse
    BY <1>0, <1>13 DEF Elapse
  <1>14. CASE UNCHANGED permitVars
    BY <1>0, <1>14 DEF permitVars
  <1> QED
    BY <1>1, <1>2, <1>3, <1>4, <1>5, <1>6, <1>7, <1>8, <1>9, <1>10, <1>11, <1>12,
       <1>13, <1>14 DEF PermitNext, Acquire, Steps, Failures

(* The strengthened invariant holds in every reachable state. *)
LEMMA PermitInvariance == PermitSpec => []PermitInv
  <1>1. PermitInv /\ [PermitNext]_permitVars => PermitInv'
    BY PermitTypeStep, SlotsStep, CountStep DEF PermitInv
  <1> QED
    BY InitPermitInv, <1>1, PTL DEF PermitSpec

(* The variables of the limiter keep their types. *)
THEOREM PermitTypeCorrect == PermitSpec => []PermitTypeOK
  BY PermitInvariance, PTL DEF PermitInv

(* For every interleaving of acquires, releases, drops, failures, crashes  *)
(* and expiries the counter accounts exactly for the slots.                *)
THEOREM Accounting == PermitSpec => []CounterAccounts
  BY PermitInvariance, PTL DEF PermitInv

(* A positive counter always has a running TTL. *)
THEOREM Expiring == PermitSpec => []CountedSlotsExpire
  BY PermitInvariance, PTL DEF PermitInv

(* A step that moves a request from idle to granted or refused is the      *)
(* acquire script of that request.                                         *)
LEMMA OnlyTheScriptDecides ==
  ASSUME PermitInv, [PermitNext]_permitVars, NEW r \in Slots,
         stage[r] = "idle", stage'[r] \in {"granted", "refused"}
  PROVE  \E lim \in Limits : AcquireScript(r, lim)
  <1> USE DEF PermitInv, PermitTypeOK, States, Enter
  <1>1. ASSUME NEW q \in Slots, NEW lim \in Limits, AcquireScript(q, lim)
        PROVE \E l \in Limits : AcquireScript(r, l)
    <2>1. q = r
      BY <1>1 DEF AcquireScript
    <2> QED
      BY <1>1, <2>1
  <1>2. ASSUME NEW q \in Slots, Steps(q) PROVE FALSE
    BY <1>2 DEF Steps, Refused, Granted, Release, ReleaseDecr, DropPermit, SpawnedDecr
  <1>3. ASSUME NEW q \in Slots, Failures(q) PROVE FALSE
    BY <1>3 DEF Failures, GrantLost, ReleaseFails, SpawnedFails, ReleaseCancelled
  <1>4. ASSUME NEW i \in Instances, Crash(i) PROVE FALSE
    BY <1>4 DEF Crash
  <1>5. CASE Elapse
    BY <1>5 DEF Elapse
  <1>6. CASE UNCHANGED permitVars
    BY <1>6 DEF permitVars
  <1> QED
    BY <1>1, <1>2, <1>3, <1>4, <1>5, <1>6 DEF PermitNext, Acquire

(* The requests in flight never outnumber the limit a grant was checked    *)
(* against plus the slots forgotten at the last expiry.                    *)
THEOREM GrantsBounded == PermitSpec => GrantWithinLimit
  <1>1. ASSUME PermitInv, PermitInv', [PermitNext]_permitVars
        PROVE [\A r \in Slots : (stage[r] = "idle" /\ stage'[r] = "granted") =>
                 Cardinality(InFlight') =< limit'[r] + debt]_permitVars
    <2> SUFFICES ASSUME NEW r \in Slots, stage[r] = "idle", stage'[r] = "granted"
                 PROVE  Cardinality(InFlight') =< limit'[r] + debt
      OBVIOUS
    <2>1. PICK lim \in Limits : AcquireScript(r, lim)
      BY <1>1, OnlyTheScriptDecides
    <2>2. /\ limit'[r] = lim /\ lim \in Nat
          /\ count + 1 =< lim
          /\ owed' = owed \cup {r}
          /\ r \notin owed
      BY <1>1, <2>1 DEF AcquireScript, Enter, PermitInv, PermitTypeOK, SlotsMatchRequests, Owing
    <2>3. owed \subseteq Slots /\ owed' \subseteq Slots
      BY <1>1 DEF PermitInv, PermitTypeOK
    <2>4. /\ Cardinality(owed) \in Nat /\ IsFiniteSet(owed')
          /\ Cardinality(owed') = Cardinality(owed) + 1
      BY <2>2, <2>3, OwedFinite, TakeSlot, FS_CardinalityType, FS_AddElement
    <2>5. InFlight' \subseteq owed'
      BY <1>1, Zenon DEF InFlight, PermitInv, SlotsMatchRequests, Owing
    <2>6. Cardinality(InFlight') =< Cardinality(owed') /\ Cardinality(InFlight') \in Nat
      BY <2>4, <2>5, FS_Subset, FS_CardinalityType
    <2>7. /\ count = Cardinality(owed) + leaked - debt
          /\ leaked \in Nat /\ debt \in Int
      BY <1>1 DEF PermitInv, PermitTypeOK, CounterAccounts
    <2> QED
      BY <2>2, <2>4, <2>6, <2>7
  <1> QED
    BY <1>1, PermitInvariance, PTL DEF GrantWithinLimit, PermitSpec

(* A refusal means that slots in use and leaked slots fill the limit. *)
THEOREM RefusalsJustified == PermitSpec => RefusalOnlyWhenFull
  <1>1. ASSUME PermitInv, [PermitNext]_permitVars
        PROVE [\A r \in Slots : (stage[r] = "idle" /\ stage'[r] = "refused") =>
                 Cardinality(owed) + leaked >= limit'[r]]_permitVars
    <2> SUFFICES ASSUME NEW r \in Slots, stage[r] = "idle", stage'[r] = "refused"
                 PROVE  Cardinality(owed) + leaked >= limit'[r]
      OBVIOUS
    <2>1. PICK lim \in Limits : AcquireScript(r, lim)
      BY <1>1, OnlyTheScriptDecides
    <2>2. limit'[r] = lim /\ lim \in Nat /\ count + 1 > lim
      BY <1>1, <2>1 DEF AcquireScript, Enter, PermitInv, PermitTypeOK
    <2>3. /\ count = Cardinality(owed) + leaked - debt
          /\ Cardinality(owed) \in Nat /\ leaked \in Nat /\ debt \in Nat
      BY <1>1, OwedFinite, FS_CardinalityType DEF PermitInv, PermitTypeOK, CounterAccounts
    <2> QED
      BY <2>2, <2>3
  <1> QED
    BY <1>1, PermitInvariance, PTL DEF RefusalOnlyWhenFull, PermitSpec
=============================================================================
