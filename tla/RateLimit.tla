------------------------------ MODULE RateLimit ------------------------------
(***************************************************************************)
(* The two-level sliding-window rate limiter.  Requests of all gateway     *)
(* instances share the Redis counters rl:sa:{id}:{window} and              *)
(* rl:global:{window}.  A request reads the clock, waits for a connection, *)
(* and only then runs its script; in between time passes and other         *)
(* requests run theirs.                                                    *)
(*                                                                         *)
(* Source: policy/rate_limit.rs.  Redis runs a script or a command         *)
(* atomically.  An absent key and a key of value 0 behave alike; expiry 0  *)
(* means that the key has no TTL.                                          *)
(***************************************************************************)
EXTENDS Integers

CONSTANTS Requests,       \* the requests of the run
          ServiceAccounts,
          Global,         \* the key prefix rl:global
          NoLimit,        \* rpm_limit = None
          RpmLimit,       \* merged rpm_limit of each service account
          GlobalRpm,      \* RateLimitConfig.global_rpm
          Window,         \* RateLimitConfig.window_secs
          MaxDelay,       \* bound: seconds from reading the clock to the script
          Horizon         \* bound: the last second of the run

ASSUME RateLimitAssumption ==
    /\ Global \notin ServiceAccounts
    /\ RpmLimit \in [ServiceAccounts -> Nat \cup {NoLimit}]
    /\ NoLimit \notin Int
    /\ GlobalRpm \in Nat \ {0}
    /\ Window \in Nat \ {0}
    /\ MaxDelay \in 0..Window
    /\ Horizon \in Nat /\ Window =< Horizon

Keys == ServiceAccounts \cup {Global}
WindowOf(t) == t \div Window
Windows == 0..WindowOf(Horizon)

VARIABLES
    now,       \* seconds since the epoch
    cnt,       \* the counters, by key prefix and window
    exp,       \* when each counter expires; 0: never
    pc,        \* where each request is in evaluate
    sa,        \* the service account of each request
    since,     \* when the request's last step took place; 0 at its end
    read,      \* the now_secs of the global check that admitted the request
    saWindow,  \* the window of the request's SA increment
    live,      \* history: SA increments of requests not turned away, by window
    misplaced, \* history: rollbacks that hit another window than their INCR
    admitted   \* history: requests the global check admitted, by window

vars == <<now, cnt, exp, pc, sa, since, read, saWindow, live, misplaced,
          admitted>>
ghosts == <<live, misplaced, admitted>>

PerWindow == [w \in Windows |-> 0]

Init ==
    /\ now = Window
    /\ cnt = [k \in Keys |-> PerWindow]
    /\ exp = [k \in Keys |-> PerWindow]
    /\ pc = [r \in Requests |-> "new"]
    /\ sa \in [Requests -> ServiceAccounts]
    /\ since = [r \in Requests |-> 0]
    /\ read = [r \in Requests |-> 0]
    /\ saWindow = [r \in Requests |-> 0]
    /\ live = [a \in ServiceAccounts |-> PerWindow]
    /\ misplaced = [a \in ServiceAccounts |-> PerWindow]
    /\ admitted = PerWindow

(* The values now_secs may have when r's script runs now. *)
ClockReads(r) == {t \in since[r]..now : now - t =< MaxDelay}

(* The part of the previous window that still counts at t, rounded up. *)
Overlap(prev, t) == (prev * (Window - (t % Window)) + Window - 1) \div Window

(* What ceil(weighted_count) may be: when the exact value is an integer,   *)
(* the f64 product may lie just above it.                                  *)
WeightedCounts(cur, prev, t) ==
    {cur + Overlap(prev, t)} \cup
        IF t % Window # 0 /\ prev > 0 /\ (prev * (Window - (t % Window))) % Window = 0
        THEN {cur + Overlap(prev, t) + 1} ELSE {}

(* Mutant of MayAllow: the comparison is made before counting this request. *)
MayAllowOneMore(cur, prev, t, limit) ==
    cur >= 0 /\ prev >= 0 /\ \E c \in WeightedCounts(cur, prev, t) : c - 1 =< limit

(* Whether build_check_result may answer allowed, or refused, for these    *)
(* counters: a negative reply read as u64 is above every limit.            *)
MayAllow(cur, prev, t, limit) ==
    cur >= 0 /\ prev >= 0 /\ \E c \in WeightedCounts(cur, prev, t) : c =< limit
MayRefuse(cur, prev, t, limit) ==
    cur < 0 \/ prev < 0 \/ \E c \in WeightedCounts(cur, prev, t) : c > limit

(* Mutant of Script: the TTL is one window. *)
ScriptShortTTL(k, w) ==
    /\ cnt' = [cnt EXCEPT ![k][w] = @ + 1]
    /\ exp' = [exp EXCEPT ![k][w] = now + Window]

(* LUA_SLIDING_WINDOW on the counter of k for window w: INCR and EXPIRE. *)
Script(k, w) ==
    /\ cnt' = [cnt EXCEPT ![k][w] = @ + 1]
    /\ exp' = [exp EXCEPT ![k][w] = now + 2 * Window]

(* The reply of the script: the new current and the previous counter. *)
Current(k, w) == cnt[k][w] + 1
Previous(k, w) == cnt[k][w - 1]

Goto(r, state) == pc' = [pc EXCEPT ![r] = state]
Stamp(r) == since' = [since EXCEPT ![r] = now]
End(r, state) == Goto(r, state) /\ since' = [since EXCEPT ![r] = 0]

(* evaluate is called; without rpm_limit the SA check is skipped. *)
Start(r) ==
    /\ pc[r] = "new"
    /\ Goto(r, IF RpmLimit[sa[r]] = NoLimit THEN "global" ELSE "sa")
    /\ Stamp(r)
    /\ UNCHANGED <<now, cnt, exp, sa, read, saWindow>> /\ UNCHANGED ghosts

(* check_and_increment on the SA key, allowed. *)
SaAllowed(r) ==
    /\ pc[r] = "sa"
    /\ \E t \in ClockReads(r) :
        LET w == WindowOf(t)
        IN  /\ MayAllow(Current(sa[r], w), Previous(sa[r], w), t, RpmLimit[sa[r]])
            /\ Script(sa[r], w)
            /\ saWindow' = [saWindow EXCEPT ![r] = w]
            /\ live' = [live EXCEPT ![sa[r]][w] = @ + 1]
    /\ Goto(r, "global")
    /\ Stamp(r)
    /\ UNCHANGED <<now, sa, read, misplaced, admitted>>

(* The SA check refuses: 429, the increment stays, global is not touched. *)
SaRefused(r) ==
    /\ pc[r] = "sa"
    /\ \E t \in ClockReads(r) :
        LET w == WindowOf(t)
        IN  /\ MayRefuse(Current(sa[r], w), Previous(sa[r], w), t, RpmLimit[sa[r]])
            /\ Script(sa[r], w)
    /\ End(r, "refused")
    /\ UNCHANGED <<now, sa, read, saWindow>> /\ UNCHANGED ghosts

(* check_and_increment fails: the pool, or the reply after the script ran. *)
CheckFails(r) ==
    /\ pc[r] \in {"sa", "global"}
    /\ LET k == IF pc[r] = "sa" THEN sa[r] ELSE Global
       IN  \/ \E t \in ClockReads(r) : Script(k, WindowOf(t))
           \/ UNCHANGED <<cnt, exp>>
    /\ End(r, "failed")
    /\ UNCHANGED <<now, sa, read, saWindow>> /\ UNCHANGED ghosts

GlobalAllowed(r) ==
    /\ pc[r] = "global"
    /\ \E t \in ClockReads(r) :
        LET w == WindowOf(t)
        IN  /\ MayAllow(Current(Global, w), Previous(Global, w), t, GlobalRpm)
            /\ Script(Global, w)
            /\ admitted' = [admitted EXCEPT ![w] = @ + 1]
            /\ read' = [read EXCEPT ![r] = t]
    /\ End(r, "admitted")
    /\ UNCHANGED <<now, sa, saWindow, live, misplaced>>

(* The global check refuses; its own increment is never undone. *)
GlobalRefused(r) ==
    /\ pc[r] = "global"
    /\ \E t \in ClockReads(r) :
        LET w == WindowOf(t)
        IN  /\ MayRefuse(Current(Global, w), Previous(Global, w), t, GlobalRpm)
            /\ Script(Global, w)
    /\ \/ RpmLimit[sa[r]] = NoLimit /\ End(r, "refused")
       \/ RpmLimit[sa[r]] # NoLimit /\ Goto(r, "rollback") /\ Stamp(r)
    /\ UNCHANGED <<now, sa, read, saWindow, live, misplaced, admitted>>

(* Mutant of Rollback: the DECR is sent a second time. *)
RollbackTwice(r) ==
    /\ pc[r] = "rollback"
    /\ \E t \in ClockReads(r) :
        LET w == WindowOf(t)
        IN  /\ cnt' = [cnt EXCEPT ![sa[r]][w] = @ - 2]
            /\ misplaced' = [misplaced EXCEPT ![sa[r]][w] =
                                IF w = saWindow[r] THEN @ ELSE @ + 1]
    /\ live' = [live EXCEPT ![sa[r]][saWindow[r]] = @ - 1]
    /\ End(r, "refused")
    /\ UNCHANGED <<now, exp, sa, read, saWindow, admitted>>

(* rollback_sa_counter reads the clock again and DECRs that window's key;  *)
(* DECR sets no TTL, and leaves -1 where there was no key.                 *)
Rollback(r) ==
    /\ pc[r] = "rollback"
    /\ \E t \in ClockReads(r) :
        LET w == WindowOf(t)
        IN  /\ cnt' = [cnt EXCEPT ![sa[r]][w] = @ - 1]
            /\ misplaced' = [misplaced EXCEPT ![sa[r]][w] =
                                IF w = saWindow[r] THEN @ ELSE @ + 1]
    /\ live' = [live EXCEPT ![sa[r]][saWindow[r]] = @ - 1]
    /\ End(r, "refused")
    /\ UNCHANGED <<now, exp, sa, read, saWindow, admitted>>

RollbackFails(r) ==
    /\ pc[r] = "rollback"
    /\ live' = [live EXCEPT ![sa[r]][saWindow[r]] = @ - 1]
    /\ End(r, "refused")
    /\ UNCHANGED <<now, cnt, exp, sa, read, saWindow, misplaced, admitted>>

(* A second passes and Redis drops the keys whose TTL ends. *)
Tick ==
    /\ now < Horizon
    /\ now' = now + 1
    /\ cnt' = [k \in Keys |-> [w \in Windows |-> IF exp[k][w] = now + 1 THEN 0 ELSE cnt[k][w]]]
    /\ exp' = [k \in Keys |-> [w \in Windows |-> IF exp[k][w] = now + 1 THEN 0 ELSE exp[k][w]]]
    /\ UNCHANGED <<pc, sa, since, read, saWindow>> /\ UNCHANGED ghosts

Next ==
    \/ Tick
    \/ \E r \in Requests :
        \/ Start(r) \/ SaAllowed(r) \/ SaRefused(r) \/ CheckFails(r)
        \/ GlobalAllowed(r) \/ GlobalRefused(r) \/ Rollback(r) \/ RollbackFails(r)

Spec == Init /\ [][Next]_vars
-----------------------------------------------------------------------------
TypeOK ==
    /\ now \in Nat
    /\ cnt \in [Keys -> [Windows -> Int]]
    /\ exp \in [Keys -> [Windows -> Nat]]
    /\ pc \in [Requests -> {"new", "sa", "global", "rollback", "admitted", "refused", "failed"}]
    /\ sa \in [Requests -> ServiceAccounts]
    /\ since \in [Requests -> Nat] /\ read \in [Requests -> Nat]
    /\ saWindow \in [Requests -> Windows]
    /\ live \in [ServiceAccounts -> [Windows -> Nat]]
    /\ misplaced \in [ServiceAccounts -> [Windows -> Nat]]
    /\ admitted \in [Windows -> Nat]

(* In no window are more requests admitted than global_rpm, whatever the   *)
(* delays, failed replies, refused increments and expiries.                *)
GlobalLimitPerWindow == \A w \in Windows : admitted[w] =< GlobalRpm

(* The sliding window: a request admitted while its window lasts leaves    *)
(* the window's admissions plus the overlapping part of the previous       *)
(* window's within global_rpm.  The previous counter must not have expired *)
(* by then: the TTL of two windows is just enough.                         *)
SlidingWindowBound ==
    [][\A r \in Requests :
          LET w == WindowOf(read'[r])
          IN  (pc[r] = "global" /\ pc'[r] = "admitted" /\ WindowOf(now) = w) =>
                  admitted'[w] + Overlap(admitted[w - 1], read'[r]) =< GlobalRpm]_vars

(* A service account never has more requests past its SA check in a window *)
(* (admitted, or still before the global check) than its rpm_limit and the *)
(* rollbacks that were meant for another window.                           *)
SaLimitPerWindow ==
    \A a \in ServiceAccounts, w \in Windows :
        RpmLimit[a] # NoLimit => live[a][w] =< RpmLimit[a] + misplaced[a][w]

(* As long as a window counts, its counters cover the requests that were   *)
(* let through in it: nothing undoes an increment but that request's own   *)
(* rollback.  What is missing from an SA counter, which may so fall below  *)
(* 0, are rollbacks that read the clock in another window than their INCR. *)
CountersAccounted ==
    \A w \in Windows : now < (w + 2) * Window =>
        /\ cnt[Global][w] >= admitted[w]
        /\ \A a \in ServiceAccounts : cnt[a][w] >= live[a][w] - misplaced[a][w]
=============================================================================
