-------------------------- MODULE BoundedStaleness --------------------------
(***************************************************************************)
(* What a read-through cache with a TTL promises: a copy is a value the    *)
(* source had at most MaxLoad before the copy was made, and a copy lives   *)
(* for less than TTL.  Nothing is said about invalidation: a copy may be   *)
(* dropped at any time.                                                    *)
(***************************************************************************)
EXTENDS Integers, Sequences

CONSTANTS Instances, Values, Initial, TTL, MaxLoad, None

VARIABLES
    now,
    hist,   \* every value the source had, and since when
    copy    \* per instance: None, or a value and when it was copied

vars == <<now, hist, copy>>

Init ==
    /\ now = 0
    /\ hist = <<[value |-> Initial, at |-> 0]>>
    /\ copy = [c \in Instances |-> None]

Write ==
    /\ \E v \in Values : hist' = Append(hist, [value |-> v, at |-> now])
    /\ UNCHANGED <<now, copy>>

(* The value at place k of the history still stood MaxLoad ago. *)
Recent(k) == k = Len(hist) \/ now - hist[k + 1].at =< MaxLoad

Refresh(c) ==
    /\ \E k \in 1..Len(hist) :
          Recent(k) /\ copy' = [copy EXCEPT ![c] = [value |-> hist[k].value, at |-> now]]
    /\ UNCHANGED <<now, hist>>

Drop(c) == copy' = [copy EXCEPT ![c] = None] /\ UNCHANGED <<now, hist>>

(* Copies that have reached their age are dropped with the passing of time. *)
Tick ==
    /\ now' = now + 1
    /\ copy' = [c \in Instances |->
                   IF copy[c] # None /\ now + 1 - copy[c].at >= TTL THEN None ELSE copy[c]]
    /\ UNCHANGED hist

Next == Write \/ Tick \/ \E c \in Instances : Refresh(c) \/ Drop(c)

Spec == Init /\ [][Next]_vars
=============================================================================
