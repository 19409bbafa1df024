----------------------------- MODULE ExpiringMap -----------------------------
(***************************************************************************)
(* What pkg/memcache promises its callers, with no list, no index and no   *)
(* element reuse: a map from key to (value, absolute expiry second) in     *)
(* which an entry whose expiry has passed is gone.  expiry 0 = never.      *)
(*                                                                         *)
(* Dead entries are not represented: the map only holds live ones, and the *)
(* passage of time removes those whose expiry it reaches.                  *)
(***************************************************************************)
EXTENDS Integers

CONSTANTS
    Keys,       \* cache keys
    Values,     \* what may be stored
    Absent,     \* marker for "no live entry"
    MaxTime     \* bound on the clock

VARIABLES
    store,      \* key -> [value, exp] or Absent
    now         \* the clock, in seconds

vars == <<store, now>>

Entry == [value : Values, exp : 0..MaxTime + 8]

TypeOK ==
    /\ store \in [Keys -> Entry \cup {Absent}]
    /\ now \in 1..MaxTime

\* An expiry that is still in the future at time t (0 = never).
Alive(exp, t) == exp = 0 \/ t < exp

Init ==
    /\ store = [k \in Keys |-> Absent]
    /\ now = 1

\* Store v under k until exp (replaces any previous entry of k).
Put(k, v, exp) ==
    /\ Alive(exp, now)
    /\ store' = [store EXCEPT ![k] = [value |-> v, exp |-> exp]]
    /\ UNCHANGED now

\* Make k absent (delete, or an expiry set to "now").
Remove(k) ==
    /\ store' = [store EXCEPT ![k] = Absent]
    /\ UNCHANGED now

Clear ==
    /\ store' = [k \in Keys |-> Absent]
    /\ UNCHANGED now

\* One second passes; entries whose expiry is reached disappear.
Tick ==
    /\ now < MaxTime
    /\ now' = now + 1
    /\ store' = [k \in Keys |->
                    IF store[k] # Absent /\ ~Alive(store[k].exp, now + 1)
                    THEN Absent ELSE store[k]]

Next ==
    \/ \E k \in Keys, v \in Values, exp \in 0..MaxTime + 8 : Put(k, v, exp)
    \/ \E k \in Keys : Remove(k)
    \/ Clear
    \/ Tick

Spec == Init /\ [][Next]_vars

=============================================================================
