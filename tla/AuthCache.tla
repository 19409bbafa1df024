------------------------------ MODULE AuthCache ------------------------------
(***************************************************************************)
(* 3rdparty/auth/cache.go: the TTL cache behind GameTokenCache and         *)
(* NonceCache.  It is pkg/memcache/cache.go with two differences:          *)
(*   - every method defers the unlock, so Get reads e.value under the lock *)
(*     and is one atomic step (GetTouch);                                  *)
(*   - SetExpiration treats ttl <= 0 as "never" (memcache: ttl < 0).       *)
(* The other operations are MemCache's, through M.                         *)
(***************************************************************************)
EXTENDS Integers

CONSTANTS Keys, Values, Elems, TTLs, MaxTime, Nil

VARIABLES lst, table, ent, now

M == INSTANCE MemCache

Entry == M!Entry
Expired(e, t) == M!Expired(e, t)

\* NewCache
Init == M!Init

\* Get(key, accessed), whole body under the lock
GetTouch(k, accessed) == M!GetTouch(k, accessed)
GetLive(k) == M!GetLive(k)

\* updateElement: new value and expiry (ttl <= 0: never), to the front
SetUpdate(k, v, ttl) == M!SetUpdate(k, v, ttl)

\* replaceOldItem, key absent, ttl > 0, the back entry expired: re-key it
SetReuseTail(k, v, ttl) == M!SetReuseTail(k, v, ttl)

\* addNewItem: push a new entry in front
SetAddNew(k, v, ttl, e) == M!SetAddNew(k, v, ttl, e)

\* Set: replaceOldItem, or addNewItem when it returns false
Set(k, v, ttl, fresh) ==
    \/ SetUpdate(k, v, ttl)
    \/ SetReuseTail(k, v, ttl)
    \/ \E e \in fresh : SetAddNew(k, v, ttl, e)

\* SetExpiration: ttl > 0 expires in ttl seconds, otherwise never
SetExpiration(k, ttl) ==
    /\ table[k] # Nil
    /\ ent' = [ent EXCEPT ![table[k]].expireTime =
                              IF ttl > 0 THEN now + ttl ELSE 0]
    /\ UNCHANGED <<lst, table, now>>

Delete(k) == M!Delete(k)
Clear == M!Clear
Tick == M!Tick

=============================================================================
