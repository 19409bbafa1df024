------------------------------- MODULE LRUSpec -------------------------------
(***************************************************************************)
(* What a count-bounded LRU cache promises when nothing expires: an        *)
(* ordered collection of (key, value) pairs, most recently used first,    *)
(* with each key at most once.  Storing a key puts it in front; when more  *)
(* than cap pairs are held, those at the back are dropped.  Reading a key  *)
(* moves it to the front.  There is no list, no index and no node reuse.   *)
(***************************************************************************)
EXTENDS Integers, SequencesExt

CONSTANTS
    Keys,       \* cache keys
    Values,     \* what may be stored
    InitCap     \* the capacity the cache is created with

VARIABLES
    items,      \* <<[key, value], ...>>, most recently used first
    cap         \* the capacity bound

vars == <<items, cap>>

Pair == [key : Keys, value : Values]

TypeOK ==
    /\ items \in Seq(Pair)
    /\ cap \in Int

\* The keys held.
Held == {items[i].key : i \in DOMAIN items}

\* items without key k.
Without(k) == SelectSeq(items, LAMBDA it : it.key # k)

\* The first c pairs of s (all of s when it is shorter).
Bound(s, c) == IF Len(s) > c THEN SubSeq(s, 1, c) ELSE s

Init ==
    /\ items = <<>>
    /\ cap = InitCap

\* A read of a held key makes it the most recently used.
Touch(k) ==
    /\ k \in Held
    /\ items' = <<CHOOSE it \in ToSet(items) : it.key = k>> \o Without(k)
    /\ UNCHANGED cap

\* Store v under k as the most recently used pair; the least recently
\* used pairs beyond the capacity are evicted.
Put(k, v) ==
    /\ items' = Bound(<<[key |-> k, value |-> v]>> \o Without(k), cap)
    /\ UNCHANGED cap

Drop(k) ==
    /\ items' = Without(k)
    /\ UNCHANGED cap

Clear ==
    /\ items' = <<>>
    /\ UNCHANGED cap

\* A new capacity; the least recently used pairs beyond it are evicted.
Resize(c) ==
    /\ c >= 0
    /\ cap' = c
    /\ items' = Bound(items, c)

Next ==
    \/ \E k \in Keys : Touch(k) \/ Drop(k)
    \/ \E k \in Keys, v \in Values : Put(k, v)
    \/ Clear
    \/ \E c \in 0..Cardinality(Keys) : Resize(c)

Spec == Init /\ [][Next]_vars

=============================================================================
