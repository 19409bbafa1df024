------------------------------ MODULE LRUCache ------------------------------
(***************************************************************************)
(* 3rdparty/lrucache/lru_cache.go: a count-bounded LRU cache with sliding  *)
(* expiry.  A container/list of *entry (front = most recently used), a map *)
(* key -> element, a size counter and a capacity.  Every method holds      *)
(* lru.mu for its whole body and is one atomic step here, except Get,     *)
(* which unlocks before it reads e.value: that read is a second step of   *)
(* the calling goroutine (Procs).                                          *)
(*                                                                         *)
(* Elements have identities (Elems) because replaceOldItem re-keys the    *)
(* tail element, which a reader may still hold.  Time is counted in ticks  *)
(* of the clock's resolution; SetExpired's ttl of 1 ns is one tick.  The   *)
(* Unlock calls are not deferred, so a panic under lru.mu leaves the mutex *)
(* locked: after one, no method can run again (panicked).                  *)
(***************************************************************************)
EXTENDS Integers, SequencesExt

CONSTANTS
    Keys,       \* string keys
    Values,     \* interface{} values
    Elems,      \* identities of *list.Element / *entry
    Procs,      \* goroutines calling Get
    TTLs,       \* time.Duration arguments of SetWithTTL (ticks)
    InitCap,    \* NewLRUCache's capacity
    InitTTL,    \* NewLRUCache's ttl
    Caps,       \* SetCapacity arguments
    MaxTime,    \* bound on the clock
    Nil

VARIABLES
    lst,        \* lru.list, front first
    table,      \* lru.table: key -> element, Nil when absent
    ent,        \* the *entry of each element
    size,       \* lru.size
    capacity,   \* lru.capacity
    ttl,        \* lru.ttl, the ttl of Set and SetIfAbsent
    now,        \* time.Now(), in ticks
    panicked,   \* a method panicked holding lru.mu
    pc,         \* per Get/Peek caller: "idle" or "read" (unlocked, e.value
                \* unread)
    gkey,       \* the key the caller asked for
    gelem,      \* the element it found
    last        \* ghost: the last Get's [key, owner of the value it read]

lruVars == <<lst, table, ent, size, capacity, ttl, now, panicked>>
getVars == <<pc, gkey, gelem, last>>
vars == <<lruVars, getVars>>

Entry == [key : Keys, value : Values, assessTime : Nat, ttl : Int]

TypeOK ==
    /\ lst \in Seq(Elems)
    /\ table \in [Keys -> Elems \cup {Nil}]
    /\ ent \in [Elems -> Entry \cup {Nil}]
    /\ size \in 0..Cardinality(Elems) /\ capacity \in Int /\ ttl \in Int
    /\ now \in 1..MaxTime
    /\ panicked \in BOOLEAN
    /\ pc \in [Procs -> {"idle", "read"}]
    /\ gkey \in [Procs -> Keys \cup {Nil}]
    /\ gelem \in [Procs -> Elems \cup {Nil}]
    /\ last \in [key : Keys, owner : Keys] \cup {Nil}

\* entry.expired (item.go:21-24): the ttl runs from the last access
Expired(e, t) == ent[e].ttl > 0 /\ t - ent[e].assessTime >= ent[e].ttl

\* lru.list.Back(), Nil on an empty list
Back == IF lst = <<>> THEN Nil ELSE Last(lst)

MoveToFront(e) == Cons(e, Remove(lst, e))

\* k has an element that has not expired
LiveAt(k) == table[k] # Nil /\ ~Expired(table[k], now)

\* Elements neither linked nor held by a Get caller: PushFront allocates one.
Fresh == Elems \ (ToSet(lst) \cup {gelem[p] : p \in Procs})

\* The fields a locked method may change, as one record.
Cur == [lst |-> lst, table |-> table, ent |-> ent, size |-> size,
        panicked |-> FALSE]

Apply(s) ==
    /\ lst' = s.lst /\ table' = s.table /\ ent' = s.ent
    /\ size' = s.size /\ panicked' = s.panicked

\* checkCapacity: while size > c, unlink the back element and unindex its
\* key.  An empty list there is a nil delElem: the method panics, keeping
\* what it already removed.
RECURSIVE CheckCapacity(_, _)
CheckCapacity(s, c) ==
    IF s.size <= c THEN s
    ELSE IF s.lst = <<>> THEN [s EXCEPT !.panicked = TRUE]
    ELSE LET b == Last(s.lst) IN
         CheckCapacity([s EXCEPT !.lst = Front(s.lst),
                                 !.table = [@ EXCEPT ![s.ent[b].key] = Nil],
                                 !.size = @ - 1], c)

Init ==
    /\ lst = <<>>
    /\ table = [k \in Keys |-> Nil]
    /\ ent = [e \in Elems |-> Nil]
    /\ size = 0
    /\ capacity = InitCap
    /\ ttl = InitTTL
    /\ now = 1
    /\ panicked = FALSE
    /\ pc = [p \in Procs |-> "idle"]
    /\ gkey = [p \in Procs |-> Nil]
    /\ gelem = [p \in Procs |-> Nil]
    /\ last = Nil

-----------------------------------------------------------------------------
(* replaceOldItem, and addNew when it returns false                        *)

\* Mutant: the updated element keeps its place in the list
ReplaceExistingInPlace(k, v, d) ==
    [Cur EXCEPT !.ent = [ent EXCEPT ![table[k]] = [@ EXCEPT !.value = v,
                                        !.ttl = d, !.assessTime = now]]]

\* replaceOldItem, key present: new value, ttl and access time, to front
ReplaceExisting(k, v, d) ==
    [Cur EXCEPT !.ent = [ent EXCEPT ![table[k]] = [@ EXCEPT !.value = v,
                                        !.ttl = d, !.assessTime = now]],
                !.lst = MoveToFront(table[k])]

\* Mutant: the back entry is reused when it has NOT expired
TailReplaceableLive ==
    /\ Back # Nil
    /\ ~(size < capacity /\ Expired(Back, now))

\* replaceOldItem's test for reusing the back element: the list is not
\* empty, and it is full or the back entry has expired
TailReplaceable ==
    /\ Back # Nil
    /\ ~(size < capacity /\ ~Expired(Back, now))

\* Mutant: the back element's old key stays indexed
ReplaceTailKeepIndex(k, v, d) ==
    [Cur EXCEPT !.table = [table EXCEPT ![k] = Back],
                !.ent = [ent EXCEPT ![Back] = [key |-> k, value |-> v,
                                               assessTime |-> now, ttl |-> d]],
                !.lst = MoveToFront(Back)]

\* replaceOldItem, key absent: the back element is re-keyed to k and moved
\* to the front; size is unchanged
ReplaceTail(k, v, d) ==
    [Cur EXCEPT !.table = [table EXCEPT ![ent[Back].key] = Nil, ![k] = Back],
                !.ent = [ent EXCEPT ![Back] = [key |-> k, value |-> v,
                                               assessTime |-> now, ttl |-> d]],
                !.lst = MoveToFront(Back)]

\* Mutant: addNew without checkCapacity
AddNewUnchecked(k, v, d, e) ==
    [Cur EXCEPT !.table = [table EXCEPT ![k] = e],
                !.ent = [ent EXCEPT ![e] = [key |-> k, value |-> v,
                                            assessTime |-> now, ttl |-> d]],
                !.lst = Cons(e, lst),
                !.size = size + 1]

\* addNew: push a new entry in front, count it, then checkCapacity
AddNew(k, v, d, e) ==
    CheckCapacity(
        [Cur EXCEPT !.table = [table EXCEPT ![k] = e],
                    !.ent = [ent EXCEPT ![e] = [key |-> k, value |-> v,
                                                assessTime |-> now, ttl |-> d]],
                    !.lst = Cons(e, lst),
                    !.size = size + 1],
        capacity)

\* if !replaceOldItem(key, value, d) { addNew(key, value, d) }
Store(k, v, d) ==
    \/ table[k] # Nil /\ Apply(ReplaceExisting(k, v, d))
    \/ table[k] = Nil /\ TailReplaceable /\ Apply(ReplaceTail(k, v, d))
    \/ /\ table[k] = Nil /\ ~TailReplaceable
       /\ \E e \in Fresh : Apply(AddNew(k, v, d, e))

-----------------------------------------------------------------------------
(* The methods.  Each locked one needs lru.mu, lost for good after a panic.*)

Locked == ~panicked

\* Set: store with the cache's default ttl
Set(k, v) ==
    /\ Locked
    /\ Store(k, v, ttl)
    /\ UNCHANGED <<capacity, ttl, now, pc, gkey, gelem>> /\ last' = Nil

SetWithTTL(k, v, d) ==
    /\ Locked
    /\ Store(k, v, d)
    /\ UNCHANGED <<capacity, ttl, now, pc, gkey, gelem>> /\ last' = Nil

\* SetIfAbsent: a live entry only gets the default ttl, a new access time
\* and the front; otherwise the value is stored as by Set.
SetIfAbsent(k, v) ==
    /\ Locked
    /\ \/ /\ LiveAt(k)
          /\ ent' = [ent EXCEPT ![table[k]].ttl = ttl,
                                ![table[k]].assessTime = now]
          /\ lst' = MoveToFront(table[k])
          /\ UNCHANGED <<table, size, panicked>>
       \/ ~LiveAt(k) /\ Store(k, v, ttl)
    /\ UNCHANGED <<capacity, ttl, now, pc, gkey, gelem>> /\ last' = Nil

\* SetExpired: ttl = 1 ns; the entry stays linked and counted
SetExpired(k) ==
    /\ Locked
    /\ table[k] # Nil
    /\ ent' = [ent EXCEPT ![table[k]].ttl = 1]
    /\ UNCHANGED <<lst, table, size, capacity, ttl, now, panicked,
                   pc, gkey, gelem>> /\ last' = Nil

\* Mutant: Delete without the nil check on the element
DeleteUnchecked(k) ==
    /\ Locked
    /\ lst' = Remove(lst, table[k])
    /\ table' = [table EXCEPT ![k] = Nil]
    /\ size' = size - 1
    /\ UNCHANGED <<ent, capacity, ttl, now, panicked, pc, gkey, gelem>>
    /\ last' = Nil

\* Mutant: Delete that forgets lru.size--
DeleteUncounted(k) ==
    /\ Locked
    /\ table[k] # Nil
    /\ lst' = Remove(lst, table[k])
    /\ table' = [table EXCEPT ![k] = Nil]
    /\ UNCHANGED <<ent, size, capacity, ttl, now, panicked, pc, gkey, gelem>>
    /\ last' = Nil

\* Delete of a present key (an absent one changes nothing)
Delete(k) ==
    /\ Locked
    /\ table[k] # Nil
    /\ lst' = Remove(lst, table[k])
    /\ table' = [table EXCEPT ![k] = Nil]
    /\ size' = size - 1
    /\ UNCHANGED <<ent, capacity, ttl, now, panicked, pc, gkey, gelem>>
    /\ last' = Nil

Clear ==
    /\ Locked
    /\ lst' = <<>>
    /\ table' = [k \in Keys |-> Nil]
    /\ size' = 0
    /\ UNCHANGED <<ent, capacity, ttl, now, panicked, pc, gkey, gelem>>
    /\ last' = Nil

SetCapacity(c) ==
    /\ Locked
    /\ capacity' = c
    /\ Apply(CheckCapacity(Cur, c))
    /\ UNCHANGED <<ttl, now, pc, gkey, gelem>> /\ last' = Nil

\* Get, the locked part, on a live entry: refresh the access time, move to
\* front, unlock.  A miss or an expired entry changes nothing.
GetLock(p, k) ==
    /\ Locked
    /\ pc[p] = "idle"
    /\ LiveAt(k)
    /\ ent' = [ent EXCEPT ![table[k]].assessTime = now]
    /\ lst' = MoveToFront(table[k])
    /\ pc' = [pc EXCEPT ![p] = "read"]
    /\ gkey' = [gkey EXCEPT ![p] = k]
    /\ gelem' = [gelem EXCEPT ![p] = table[k]]
    /\ UNCHANGED <<table, size, capacity, ttl, now, panicked>> /\ last' = Nil

\* Peek, the locked part: the same lookup and expiry test as Get, but the
\* access time and the list order are left alone before the unlock.
PeekLock(p, k) ==
    /\ Locked
    /\ pc[p] = "idle"
    /\ LiveAt(k)
    /\ pc' = [pc EXCEPT ![p] = "read"]
    /\ gkey' = [gkey EXCEPT ![p] = k]
    /\ gelem' = [gelem EXCEPT ![p] = table[k]]
    /\ UNCHANGED lruVars /\ last' = Nil

\* Get or Peek, after the unlock: return e.value, read from the element found
GetRead(p) ==
    /\ pc[p] = "read"
    /\ last' = [key |-> gkey[p], owner |-> ent[gelem[p]].key]
    /\ pc' = [pc EXCEPT ![p] = "idle"]
    /\ gkey' = [gkey EXCEPT ![p] = Nil]
    /\ gelem' = [gelem EXCEPT ![p] = Nil]
    /\ UNCHANGED lruVars

Tick ==
    /\ now < MaxTime
    /\ now' = now + 1
    /\ UNCHANGED <<lst, table, ent, size, capacity, ttl, panicked,
                   pc, gkey, gelem>> /\ last' = Nil

\* Everything but SetExpired and TTLs: the cache as a plain LRU.
NextLRU ==
    \/ \E k \in Keys, v \in Values : Set(k, v) \/ SetIfAbsent(k, v)
    \/ \E k \in Keys, v \in Values, d \in TTLs : SetWithTTL(k, v, d)
    \/ \E k \in Keys : Delete(k)
    \/ Clear
    \/ \E c \in Caps : SetCapacity(c)
    \/ \E p \in Procs, k \in Keys : GetLock(p, k) \/ PeekLock(p, k)
    \/ \E p \in Procs : GetRead(p)
    \/ Tick

Next ==
    \/ NextLRU
    \/ \E k \in Keys : SetExpired(k)

Spec == Init /\ [][Next]_vars

SpecLRU == Init /\ [][NextLRU]_vars

-----------------------------------------------------------------------------
(* Properties                                                              *)

\* size counts the linked entries: addNew and checkCapacity, Delete and
\* Clear each keep the counter and the list in step, and replaceOldItem's
\* reuse of the back element changes neither.  A drift would make
\* checkCapacity evict too much, too little, or run off an empty list.
SizeIsLength == size = Len(lst)

\* The index and the list agree (spec 3(a)): every indexed key points at a
\* linked element carrying it, every linked element is indexed under its
\* own key, and no element is linked twice.
IndexConsistent ==
    /\ IsInjective(lst)
    /\ \A k \in Keys : table[k] # Nil =>
            table[k] \in ToSet(lst) /\ ent[table[k]].key = k
    /\ \A i \in DOMAIN lst : table[ent[lst[i]].key] = lst[i]

\* After every method the count bound holds (spec 3(e)): with a capacity
\* c >= 0 the list never holds more than c entries, whichever of
\* replaceOldItem, addNew or SetCapacity's checkCapacity ran last.
WithinCapacity == capacity >= 0 => Len(lst) <= capacity

\* A write while the cache has room never costs another key its live
\* entry: replaceOldItem may only take the back element when the cache is
\* full or that entry has expired.  Stated of every step that leaves the
\* capacity alone and does not shrink the cache (so not Delete, Clear or a
\* smaller SetCapacity): each key live before it is still indexed after.
NoEvictionBelowCapacity ==
    [][ (Locked /\ size < capacity /\ capacity' = capacity /\ size' >= size)
          => \A k \in Keys : LiveAt(k) => table'[k] # Nil ]_vars

\* spec 4.7: "all operations are total; no panics".  checkCapacity loops
\* while size > capacity and dereferences list.Back() unchecked.
NoPanic == ~panicked

\* A Get returns the value of the key it was asked for (spec 5: observers
\* never see an entry in one place and not the other).  Get reads e.value
\* after lru.mu.Unlock(), from an element a concurrent Set may re-key;
\* so does Peek.
GetReturnsOwnValue == last # Nil => last.owner = last.key

\* With no expiry in play the cache is an LRU: its list, read front to
\* back, is the pair sequence of LRUSpec, so an N+1st distinct key evicts
\* exactly the least recently used one (spec 6).
LRU == INSTANCE LRUSpec WITH
    items <- [i \in DOMAIN lst |-> [key |-> ent[lst[i]].key,
                                    value |-> ent[lst[i]].value]],
    cap <- capacity

ImplementsLRU == LRU!Spec

\* The state without elements nobody can reach: entries of unlinked
\* elements no Get holds are garbage.
GarbageFreeView ==
    <<lst, table,
      [e \in Elems |-> IF e \in Fresh THEN Nil ELSE ent[e]],
      size, capacity, ttl, now, panicked, pc, gkey, gelem, last>>

=============================================================================
