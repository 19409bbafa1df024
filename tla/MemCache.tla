------------------------------ MODULE MemCache ------------------------------
(***************************************************************************)
(* pkg/memcache/cache.go: the mutex-guarded cache behind the token module  *)
(* (internal/token).  A container/list of *entry plus a map key -> element.*)
(* Every exported method below holds c.mu for its whole body, so each is   *)
(* one atomic step here.  Get is the exception the composing module       *)
(* TokenModule splits: it unlocks before reading e.value.                  *)
(*                                                                         *)
(* Elements have identities (Elems) because replaceOldItem reuses the tail *)
(* element for a new key, and a goroutine may still hold it.               *)
(* Time is whole seconds (now.Unix(), positive); expireTime 0 = never.     *)
(***************************************************************************)
EXTENDS Integers, SequencesExt

CONSTANTS
    Keys,       \* string keys (user ids)
    Values,     \* interface{} payloads
    Elems,      \* identities of *list.Element / *entry
    TTLs,       \* int64 ttl arguments callers pass
    MaxTime,    \* bound on the clock
    Nil

VARIABLES
    lst,        \* c.list, front (most recently set) first
    table,      \* c.table: key -> element, Nil when absent
    ent,        \* the *entry of each element
    now         \* time.Now().Unix()

cacheVars == <<lst, table, ent, now>>

Entry == [key : Keys \cup {Nil}, value : Values \cup {Nil},
          expireTime : Nat, accessTime : Nat]

TypeOK ==
    /\ lst \in Seq(Elems)
    /\ Len(lst) <= Cardinality(Elems)
    /\ table \in [Keys -> Elems \cup {Nil}]
    /\ ent \in [Elems -> Entry]
    /\ now \in 1..MaxTime

\* entry.expired (cache.go:27-29)
Expired(e, t) == ent[e].expireTime > 0 /\ t >= ent[e].expireTime

\* c.list.Back(), Nil on an empty list
Back == IF lst = <<>> THEN Nil ELSE Last(lst)

\* Mutant: container/list PushFront of an element already linked
MoveToFrontPush(e) == Cons(e, lst)

\* c.list.MoveToFront(e)
MoveToFront(e) == Cons(e, Remove(lst, e))

\* the expireTime a positive ttl gives; ttl <= 0 means never (addNew, updateInplace)
ExpireAt(ttl) == IF ttl > 0 THEN now + ttl ELSE 0

\* Elements not linked in the list: a new entry gets one of these.
Unlinked == Elems \ ToSet(lst)

Init ==
    /\ lst = <<>>
    /\ table = [k \in Keys |-> Nil]
    /\ ent = [e \in Elems |-> [key |-> Nil, value |-> Nil,
                                expireTime |-> 0, accessTime |-> 0]]
    /\ now = 1

-----------------------------------------------------------------------------
(* Set = replaceOldItem, or addNew when it returns false.                 *)

\* replaceOldItem, key present: updateInplace (value, expiry, move to front)
SetUpdate(k, v, ttl) ==
    /\ table[k] # Nil
    /\ ent' = [ent EXCEPT ![table[k]].value = v,
                          ![table[k]].expireTime = ExpireAt(ttl)]
    /\ lst' = MoveToFront(table[k])
    /\ UNCHANGED <<table, now>>

\* Mutant: the tail is reused whenever the list is non-empty
TailReusableLive(ttl) == ttl > 0 /\ Back # Nil

\* replaceOldItem's test for reusing the tail: ttl > 0 and the tail expired
TailReusable(ttl) == ttl > 0 /\ Back # Nil /\ Expired(Back, now)

\* Mutant: the old key's index entry is not deleted
SetReuseTailNoUnindex(k, v, ttl) ==
    /\ table[k] = Nil
    /\ TailReusable(ttl)
    /\ table' = [table EXCEPT ![k] = Back]
    /\ ent' = [ent EXCEPT ![Back].key = k, ![Back].value = v,
                          ![Back].expireTime = now + ttl]
    /\ lst' = MoveToFront(Back)
    /\ UNCHANGED now

\* replaceOldItem, key absent and the tail reusable: the tail element is
\* re-keyed to k (its accessTime is kept)
SetReuseTail(k, v, ttl) ==
    /\ table[k] = Nil
    /\ TailReusable(ttl)
    /\ table' = [table EXCEPT ![ent[Back].key] = Nil, ![k] = Back]
    /\ ent' = [ent EXCEPT ![Back].key = k, ![Back].value = v,
                          ![Back].expireTime = now + ttl]
    /\ lst' = MoveToFront(Back)
    /\ UNCHANGED now

\* addNew: push a fresh entry at the front
SetAddNew(k, v, ttl, e) ==
    /\ table[k] = Nil
    /\ ~TailReusable(ttl)
    /\ ent' = [ent EXCEPT ![e] = [key |-> k, value |-> v,
                                   expireTime |-> ExpireAt(ttl),
                                   accessTime |-> now]]
    /\ lst' = Cons(e, lst)
    /\ table' = [table EXCEPT ![k] = e]
    /\ UNCHANGED now

\* Cache.Set; a new element is taken from fresh (elements nobody refers to)
Set(k, v, ttl, fresh) ==
    \/ SetUpdate(k, v, ttl)
    \/ SetReuseTail(k, v, ttl)
    \/ \E e \in fresh : SetAddNew(k, v, ttl, e)

\* Mutant: ttl 0 means "never", as in 3rdparty/auth's copy (ttl > 0)
SetExpirationPositive(k, ttl) ==
    /\ table[k] # Nil
    /\ ent' = [ent EXCEPT ![table[k]].expireTime =
                              IF ttl > 0 THEN now + ttl ELSE 0]
    /\ UNCHANGED <<lst, table, now>>

\* Cache.SetExpiration: ttl < 0 never, 0 at once, > 0 in ttl seconds
SetExpiration(k, ttl) ==
    /\ table[k] # Nil
    /\ ent' = [ent EXCEPT ![table[k]].expireTime =
                              IF ttl >= 0 THEN now + ttl ELSE 0]
    /\ UNCHANGED <<lst, table, now>>

\* Cache.Delete of a present key (an absent key changes nothing)
Delete(k) ==
    /\ table[k] # Nil
    /\ lst' = Remove(lst, table[k])
    /\ table' = [table EXCEPT ![k] = Nil]
    /\ UNCHANGED <<ent, now>>

\* Cache.Clear
Clear ==
    /\ lst' = <<>>
    /\ table' = [k \in Keys |-> Nil]
    /\ UNCHANGED <<ent, now>>

\* The locked part of Cache.Get on a live entry: with accessed, the access
\* time is refreshed (the delta now - accessTime is returned to the caller).
\* A miss or an expired entry changes nothing.
GetLive(k) == table[k] # Nil /\ ~Expired(table[k], now)

GetTouch(k, accessed) ==
    /\ GetLive(k)
    /\ ent' = IF accessed THEN [ent EXCEPT ![table[k]].accessTime = now]
                          ELSE ent
    /\ UNCHANGED <<lst, table, now>>

\* One second of wall clock passes.
Tick ==
    /\ now < MaxTime
    /\ now' = now + 1
    /\ UNCHANGED <<lst, table, ent>>

-----------------------------------------------------------------------------
(* The cache on its own: any goroutine may call any method at any time.   *)

Next ==
    \/ \E k \in Keys, v \in Values, ttl \in TTLs : Set(k, v, ttl, Unlinked)
    \/ \E k \in Keys, ttl \in TTLs : SetExpiration(k, ttl)
    \/ \E k \in Keys : Delete(k)
    \/ \E k \in Keys, a \in BOOLEAN : GetTouch(k, a)
    \/ Clear
    \/ Tick

Spec == Init /\ [][Next]_cacheVars

-----------------------------------------------------------------------------
(* Properties                                                              *)

\* The index and the list agree (spec 3(a)): every key the table maps
\* points at a linked element carrying that key, every linked element is
\* indexed under its own key, and no element is linked twice.  Broken if
\* replaceOldItem re-keys the reused tail without moving its index entry.
IndexConsistent ==
    /\ IsInjective(lst)
    /\ \A k \in Keys : table[k] # Nil =>
            /\ table[k] \in ToSet(lst)
            /\ ent[table[k]].key = k
    /\ \A i \in DOMAIN lst : table[ent[lst[i]].key] = lst[i]

\* The cache implements ExpiringMap: a live entry is only changed by a Set,
\* SetExpiration, Delete or Clear of its own key, and disappears otherwise
\* only when its expiry passes.  Reusing the tail (replaceOldItem) must
\* therefore only ever take an entry that is already dead.
Abs == INSTANCE ExpiringMap WITH
    store <- [k \in Keys |->
                IF table[k] # Nil /\ ~Expired(table[k], now)
                THEN [value |-> ent[table[k]].value,
                      exp |-> ent[table[k]].expireTime]
                ELSE Nil],
    Absent <- Nil

ImplementsExpiringMap == Abs!Spec

=============================================================================
