---------------------------- MODULE LrucacheModule ----------------------------
(***************************************************************************)
(* internal/lrucache: the LRU cache as a core module (CLrucacheModule).    *)
(* Its methods are the code of 3rdparty/lrucache copied line for line      *)
(* (src/api.go), so each action here is the LRUCache action of the same    *)
(* name.  What differs: Init() sets defaultCapacity and defaultTTL, and    *)
(* SetDefaultTTL changes lru.ttl at any time, without taking lru.mu.       *)
(***************************************************************************)
EXTENDS Integers

CONSTANTS
    Keys, Values, Elems, Procs, TTLs, Caps, MaxTime, Nil,
    defaultCapacity,    \* init.go: 10000
    defaultTTL,         \* init.go: 20 minutes
    DefaultTTLs         \* SetDefaultTTL arguments

VARIABLES
    lst, table, ent, size, capacity, ttl, now, panicked,
    pc, gkey, gelem, last

vars == <<lst, table, ent, size, capacity, ttl, now, panicked,
          pc, gkey, gelem, last>>

L == INSTANCE LRUCache WITH InitCap <- defaultCapacity, InitTTL <- defaultTTL

TypeOK == L!TypeOK

\* CLrucacheModule.Init: empty list and table, the default capacity and ttl
Init == L!Init

\* SetDefaultTTL writes lru.ttl without lru.mu.  The word-sized write is
\* ordered before or after each locked method, so it is one step of its own.
SetDefaultTTL(d) ==
    /\ ttl' = d
    /\ UNCHANGED <<lst, table, ent, size, capacity, now, panicked,
                   pc, gkey, gelem, last>>

GetLock(p, k) == L!GetLock(p, k)
GetRead(p) == L!GetRead(p)
PeekLock(p, k) == L!PeekLock(p, k)
Set(k, v) == L!Set(k, v)
SetWithTTL(k, v, d) == L!SetWithTTL(k, v, d)
SetIfAbsent(k, v) == L!SetIfAbsent(k, v)
SetExpired(k) == L!SetExpired(k)

Delete(k) == L!Delete(k)
Clear == L!Clear

SetCapacity(c) == L!SetCapacity(c)

\* The unexported helpers, copied from lru_cache.go as well.
Expired(e, t) == L!Expired(e, t)
ReplaceExisting(k, v, d) == L!ReplaceExisting(k, v, d)
TailReplaceable == L!TailReplaceable
ReplaceTail(k, v, d) == L!ReplaceTail(k, v, d)
AddNew(k, v, d, e) == L!AddNew(k, v, d, e)
CheckCapacity(s, c) == L!CheckCapacity(s, c)
Tick == L!Tick

Next ==
    \/ \E d \in DefaultTTLs : SetDefaultTTL(d)
    \/ \E p \in Procs, k \in Keys : GetLock(p, k) \/ PeekLock(p, k)
    \/ \E p \in Procs : GetRead(p)
    \/ \E k \in Keys, v \in Values : Set(k, v) \/ SetIfAbsent(k, v)
    \/ \E k \in Keys, v \in Values, d \in TTLs : SetWithTTL(k, v, d)
    \/ \E k \in Keys : SetExpired(k) \/ Delete(k)
    \/ Clear
    \/ \E c \in Caps : SetCapacity(c)
    \/ Tick

Spec == Init /\ [][Next]_vars

-----------------------------------------------------------------------------
(* Properties                                                              *)

\* "SetIfAbsent will set the value in the cache if not present.  If the
\* value exists in the cache, we don't set it" (api.go:102-103): a
\* SetIfAbsent that finds a live entry leaves its ttl as it was, so an
\* entry stored never to expire (SetWithTTL with ttl <= 0) is not made to
\* expire by it, whatever SetDefaultTTL has set since.
SetIfAbsentKeepsTTL ==
    [][\A k \in Keys, v \in Values :
          (L!LiveAt(k) /\ SetIfAbsent(k, v))
              => ent'[table[k]].ttl = ent[table[k]].ttl]_vars

GarbageFreeView == L!GarbageFreeView

=============================================================================
