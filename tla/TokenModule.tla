----------------------------- MODULE TokenModule -----------------------------
(***************************************************************************)
(* internal/token/src: the game-token module (CTokenModule) on top of the *)
(* memcache.Cache of MemCache.tla, called by concurrent goroutines Procs.  *)
(*                                                                         *)
(* The cache methods are atomic under c.mu, except that Cache.Get releases *)
(* the mutex before it reads e.value (cache.go:59-60), so each API call    *)
(* that uses Get is a locked step followed by an unlocked read of the      *)
(* element's value.  The *GameToken fields (AccessCount, Kicked) are read  *)
(* and written with no lock at all.  The Ticker goroutine runs             *)
(* Cache.ExpiredKeys, which takes no lock either.                          *)
(*                                                                         *)
(* Time is whole seconds.  Cache.Get's delta is a time.Duration: two       *)
(* accesses in different seconds are at least 60 ms apart, two in the same *)
(* second may or may not be, so "too quick" is a free choice then.         *)
(***************************************************************************)
EXTENDS Integers, SequencesExt

CONSTANTS
    Users,      \* userId strings (cache keys)
    TokStrs,    \* token strings callers pass to SetToken and Verify
    TokObjs,    \* identities of *itoken.GameToken objects
    Elems,      \* identities of cache list elements
    Procs,      \* goroutines calling the module's API
    TTLs,       \* ttl arguments of SetToken and SetTokenTTL
    Lookahead,  \* expiredDuration passed to ExpiredKeys, in seconds
    MaxAccess,  \* bound on AccessCount (a model bound, > 5)
    MaxTime,    \* bound on the clock
    CallbackSet, \* SetExpiredCallback was called: the Ticker sweeps
    Nil

ASSUME MaxAccess \in Nat \ {0}

VARIABLES
    lst, table, ent, now,   \* the memcache.Cache (values are TokObjs)
    tok,        \* the *GameToken objects
    pc,         \* per goroutine: where it is inside an API call
    usr,        \* userId argument of the current call
    arg,        \* token argument of the current Verify
    elem,       \* element found by Get, read after the unlock
    quick,      \* Get's delta < minGameTokenAccessTime
    obj,        \* the *GameToken the call works on
    cnt,        \* AccessCount loaded by t.AccessCount++
    last,       \* ghost: outcome of the call that just returned, else Nil
    revoked,    \* ghost: the user's token was deleted or set expired
    revokedAtGet, \* ghost: revoked[usr] when the call's Get took the lock
    incs,       \* ghost: completed t.AccessCount++ per object
    tickPc,     \* Ticker goroutine: "sleep" or "scan" (inside ExpiredKeys)
    swept       \* keys ExpiredKeys has collected so far

C == INSTANCE MemCache WITH Keys <- Users, Values <- TokObjs

vars == <<lst, table, ent, now, tok, pc, usr, arg, elem, quick, obj, cnt,
          last, revoked, revokedAtGet, incs, tickPc, swept>>

Results == {"ok", "not_exist", "kicked", "bad_token", "too_quick"}

\* foreign: the *GameToken the call used was stored for another user;
\* kicked: it was already kicked when the call read it; revoked: the
\* user's token had been revoked when the call's Get took the lock.
Outcome == [op : {"GetToken", "Verify", "KickOut"}, res : Results,
            foreign : BOOLEAN, kicked : BOOLEAN, revoked : BOOLEAN]

TokType == [token : TokStrs \cup {Nil}, count : 0..MaxAccess,
            kicked : BOOLEAN, owner : Users \cup {Nil}]

TypeOK ==
    /\ C!TypeOK
    /\ tok \in [TokObjs -> TokType]
    /\ pc \in [Procs -> {"idle", "get_read", "verify_read", "verify_inc",
                         "kick_read"}]
    /\ usr \in [Procs -> Users \cup {Nil}]
    /\ arg \in [Procs -> TokStrs \cup {Nil}]
    /\ elem \in [Procs -> Elems \cup {Nil}]
    /\ quick \in [Procs -> BOOLEAN]
    /\ obj \in [Procs -> TokObjs \cup {Nil}]
    /\ cnt \in [Procs -> 0..MaxAccess]
    /\ last \in Outcome \cup {Nil}
    /\ revoked \in [Users -> BOOLEAN]
    /\ revokedAtGet \in [Procs -> BOOLEAN]
    /\ incs \in [TokObjs -> 0..MaxAccess]
    /\ tickPc \in {"sleep", "scan"}
    /\ swept \subseteq Users

-----------------------------------------------------------------------------
(* Reachability, standing in for the garbage collector: a new element or  *)
(* a new *GameToken is one that no list, goroutine or held element uses.  *)

HeldElems == {elem[p] : p \in Procs} \ {Nil}

FreeElems == Elems \ (ToSet(lst) \cup HeldElems)

FreeToks == TokObjs \ ({ent[e].value : e \in ToSet(lst) \cup HeldElems}
                        \cup {obj[p] : p \in Procs})

\* What a state shows once garbage is dropped: an element no list or
\* goroutine refers to, or an unreachable *GameToken, is never read again
\* (a new entry or token overwrites every field), so its contents are
\* left out when states are compared.
GarbageFreeView ==
    <<lst, table, now, pc, usr, arg, elem, quick, obj, cnt, last, revoked,
      revokedAtGet, tickPc, swept,
      [e \in Elems |-> IF e \in FreeElems THEN Nil ELSE ent[e]],
      [o \in TokObjs |-> IF o \in FreeToks THEN Nil ELSE <<tok[o], incs[o]>>]>>

Init ==
    /\ C!Init
    /\ tok = [o \in TokObjs |-> [token |-> Nil, count |-> 0,
                                  kicked |-> FALSE, owner |-> Nil]]
    /\ pc = [p \in Procs |-> "idle"]
    /\ usr = [p \in Procs |-> Nil]
    /\ arg = [p \in Procs |-> Nil]
    /\ elem = [p \in Procs |-> Nil]
    /\ quick = [p \in Procs |-> FALSE]
    /\ obj = [p \in Procs |-> Nil]
    /\ cnt = [p \in Procs |-> 0]
    /\ last = Nil
    /\ revoked = [u \in Users |-> FALSE]
    /\ revokedAtGet = [p \in Procs |-> FALSE]
    /\ incs = [o \in TokObjs |-> 0]
    /\ tickPc = "sleep"
    /\ swept = {}

locals == <<usr, arg, elem, quick, obj, cnt, revokedAtGet>>

\* A call that ends: record its outcome and clear the goroutine's locals.
Finish(p, op, res, o) ==
    /\ pc' = [pc EXCEPT ![p] = "idle"]
    /\ last' = [op |-> op, res |-> res,
                 foreign |-> tok[o].owner # usr[p],
                 kicked |-> tok[o].kicked,
                 revoked |-> revokedAtGet[p]]
    /\ usr' = [usr EXCEPT ![p] = Nil]
    /\ arg' = [arg EXCEPT ![p] = Nil]
    /\ elem' = [elem EXCEPT ![p] = Nil]
    /\ quick' = [quick EXCEPT ![p] = FALSE]
    /\ obj' = [obj EXCEPT ![p] = Nil]
    /\ cnt' = [cnt EXCEPT ![p] = 0]
    /\ revokedAtGet' = [revokedAtGet EXCEPT ![p] = FALSE]

-----------------------------------------------------------------------------
(* SetToken(userId, token, ttl): a fresh *GameToken stored by Cache.Set.   *)
(* (The hour == 4 override of ttl depends on the local clock of day and   *)
(* only changes which positive ttl is used.)                              *)
SetToken(p, u, s, ttl) ==
    /\ pc[p] = "idle"
    /\ \E o \in FreeToks :
         /\ tok' = [tok EXCEPT ![o] = [token |-> s, count |-> 0,
                                       kicked |-> FALSE, owner |-> u]]
         /\ incs' = [incs EXCEPT ![o] = 0]
         /\ C!Set(u, o, ttl, FreeElems)
    /\ revoked' = [revoked EXCEPT ![u] = FALSE]
    /\ last' = Nil
    /\ UNCHANGED <<pc, revokedAtGet, tickPc, swept, usr, arg, elem,
                   quick, obj, cnt>>

\* DelToken(userId): Cache.Delete
DelToken(p, u) ==
    /\ pc[p] = "idle"
    /\ \/ C!Delete(u)
       \/ table[u] = Nil /\ UNCHANGED <<lst, table, ent, now>>
    /\ revoked' = [revoked EXCEPT ![u] = TRUE]
    /\ last' = Nil
    /\ UNCHANGED <<tok, pc, incs, tickPc, swept, locals>>

\* SetTokenTTL(userId, ttl): Cache.SetExpiration; SetTokenExpired is ttl 0.
SetTokenTTL(p, u, ttl) ==
    /\ pc[p] = "idle"
    /\ C!SetExpiration(u, ttl)
    /\ revoked' = [revoked EXCEPT ![u] = (ttl = 0)]
    /\ last' = Nil
    /\ UNCHANGED <<tok, pc, incs, tickPc, swept, locals>>

-----------------------------------------------------------------------------
(* The locked half of Cache.Get, shared by GetToken, Verify and KickOut.  *)

\* Get finds nothing live: the call returns at once.
GetMiss(p, u, op) ==
    /\ ~C!GetLive(u)
    /\ pc' = [pc EXCEPT ![p] = "idle"]
    /\ last' = [op |-> op, res |-> "not_exist", foreign |-> FALSE,
                 kicked |-> FALSE, revoked |-> revoked[u]]
    /\ UNCHANGED <<lst, table, ent, now, tok, incs, revoked, tickPc, swept,
                   locals>>

\* Get finds a live element, refreshes its access time when accessed, and
\* unlocks; the value is read in the goroutine's next step.
GetHit(p, u, accessed, next) ==
    /\ C!GetTouch(u, accessed)
    /\ pc' = [pc EXCEPT ![p] = next]
    /\ usr' = [usr EXCEPT ![p] = u]
    /\ elem' = [elem EXCEPT ![p] = table[u]]
    /\ quick' = [quick EXCEPT ![p] =
                    accessed /\ ent[table[u]].accessTime = now]
    /\ revokedAtGet' = [revokedAtGet EXCEPT ![p] = revoked[u]]
    /\ last' = Nil
    /\ UNCHANGED <<tok, incs, revoked, tickPc, swept, obj, cnt>>

-----------------------------------------------------------------------------
(* GetToken(userId)                                                        *)
GetTokenStart(p, u) ==
    /\ pc[p] = "idle"
    /\ \/ GetMiss(p, u, "GetToken")
       \/ GetHit(p, u, FALSE, "get_read") /\ UNCHANGED arg

\* item := e.value after the unlock; a kicked token is refused
GetTokenRead(p) ==
    /\ pc[p] = "get_read"
    /\ LET o == ent[elem[p]].value IN
         Finish(p, "GetToken", IF tok[o].kicked THEN "kicked" ELSE "ok", o)
    /\ UNCHANGED <<lst, table, ent, now, tok, incs, revoked, tickPc, swept>>

-----------------------------------------------------------------------------
(* Verify(userId, token)                                                   *)
\* Model bound: a Verify starts only while no token could pass MaxAccess
\* increments, even if every Verify in progress lands on it.
VerifyRoom ==
    \A o \in TokObjs :
        incs[o] + Cardinality({q \in Procs : pc[q] \in {"verify_read",
                                                        "verify_inc"}})
            < MaxAccess

VerifyStart(p, u, s) ==
    /\ pc[p] = "idle"
    /\ VerifyRoom
    /\ \/ GetMiss(p, u, "Verify")
       \/ /\ GetHit(p, u, TRUE, "verify_read")
          /\ arg' = [arg EXCEPT ![p] = s]

\* item := e.value; a token mismatch returns "bad game_token"; otherwise
\* t.AccessCount++ begins by loading the field
VerifyRead(p) ==
    /\ pc[p] = "verify_read"
    /\ LET o == ent[elem[p]].value IN
       \/ /\ tok[o].token # arg[p]
          /\ Finish(p, "Verify", "bad_token", o)
       \/ /\ tok[o].token = arg[p]
          /\ pc' = [pc EXCEPT ![p] = "verify_inc"]
          /\ obj' = [obj EXCEPT ![p] = o]
          /\ cnt' = [cnt EXCEPT ![p] = tok[o].count]
          /\ elem' = [elem EXCEPT ![p] = Nil]
          /\ last' = Nil
          /\ UNCHANGED <<usr, arg, quick, revokedAtGet>>
    /\ UNCHANGED <<lst, table, ent, now, tok, incs, revoked, tickPc, swept>>

\* t.AccessCount++ stores the loaded value plus one; then
\* AccessCount > 5 with a delta under 60 ms is refused.
VerifyInc(p) ==
    /\ pc[p] = "verify_inc"
    /\ LET o == obj[p]
           n == cnt[p] + 1 IN
       /\ tok' = [tok EXCEPT ![o].count = n]
       /\ incs' = [incs EXCEPT ![o] = @ + 1]
       /\ \E tooQuick \in IF quick[p] THEN BOOLEAN ELSE {FALSE} :
            Finish(p, "Verify",
                   IF n > 5 /\ tooQuick THEN "too_quick" ELSE "ok", o)
    /\ UNCHANGED <<lst, table, ent, now, revoked, tickPc, swept>>

-----------------------------------------------------------------------------
(* KickOut(userId)                                                         *)
KickOutStart(p, u) ==
    /\ pc[p] = "idle"
    /\ \/ GetMiss(p, u, "KickOut")
       \/ GetHit(p, u, FALSE, "kick_read") /\ UNCHANGED arg

\* item := e.value; t.Kicked = true
KickOutRead(p) ==
    /\ pc[p] = "kick_read"
    /\ LET o == ent[elem[p]].value IN
       /\ tok' = [tok EXCEPT ![o].kicked = TRUE]
       /\ Finish(p, "KickOut", "ok", o)
    /\ UNCHANGED <<lst, table, ent, now, incs, revoked, tickPc, swept>>

-----------------------------------------------------------------------------
(* Ticker: ExpiredKeys(expiredDuration), then the callback for each key.  *)
(* ExpiredKeys reads c.list.Back() without the lock on every iteration.   *)

TickerStart ==
    /\ CallbackSet
    /\ tickPc = "sleep"
    /\ tickPc' = "scan"
    /\ swept' = {}
    /\ last' = Nil
    /\ UNCHANGED <<lst, table, ent, now, tok, pc, revoked, incs, locals>>

\* ExpiredKeys' loop test: a tail that is expired at now + duration
TailExpiring == C!Back # Nil /\ C!Expired(C!Back, now + Lookahead)

\* One loop iteration: stop at an empty list or a tail that is not expired
\* at now + duration, otherwise append the tail's key and loop again.
SweepStep ==
    /\ tickPc = "scan"
    /\ \/ /\ ~TailExpiring
          /\ tickPc' = "sleep"
          /\ UNCHANGED swept
       \/ /\ TailExpiring
          /\ swept' = swept \cup {ent[C!Back].key}
          /\ UNCHANGED tickPc
    /\ last' = Nil
    /\ UNCHANGED <<lst, table, ent, now, tok, pc, revoked, incs, locals>>

Tick ==
    /\ C!Tick
    /\ last' = Nil
    /\ UNCHANGED <<tok, pc, revoked, incs, tickPc, swept, locals>>

-----------------------------------------------------------------------------
Next ==
    \/ \E p \in Procs :
         \/ \E u \in Users, s \in TokStrs, ttl \in TTLs : SetToken(p, u, s, ttl)
         \/ \E u \in Users : DelToken(p, u)
         \/ \E u \in Users, ttl \in TTLs : SetTokenTTL(p, u, ttl)
         \/ \E u \in Users : GetTokenStart(p, u)
         \/ GetTokenRead(p)
         \/ \E u \in Users, s \in TokStrs : VerifyStart(p, u, s)
         \/ VerifyRead(p)
         \/ VerifyInc(p)
         \/ \E u \in Users : KickOutStart(p, u)
         \/ KickOutRead(p)
    \/ TickerStart
    \/ SweepStep
    \/ Tick

\* The Go scheduler keeps running a runnable goroutine: the ticker's loop
\* and every call already in progress get to take their next step.
Fairness ==
    /\ WF_vars(SweepStep)
    /\ \A p \in Procs : WF_vars(GetTokenRead(p) \/ VerifyRead(p)
                                \/ VerifyInc(p) \/ KickOutRead(p))

Spec == Init /\ [][Next]_vars /\ Fairness

-----------------------------------------------------------------------------
(* Properties                                                              *)

\* A token removed by DelToken or SetTokenExpired stays unusable: a Verify
\* whose Get ran after the removal (and before a new SetToken or a
\* SetTokenTTL revived it) never succeeds.  Relies on SetExpiration(ttl=0)
\* expiring the entry at once and on Delete unlinking it.
RevokedNeverVerifies ==
    last # Nil /\ last.op = "Verify" /\ last.res = "ok" => ~last.revoked

\* Spec 8, scenario 3: after KickOut(u), a Verify of u fails (BadToken or
\* KickedPlayer).  CTokenModule.Verify never looks at t.Kicked.
KickedNeverVerifies ==
    last # Nil /\ last.op = "Verify" /\ last.res = "ok" => ~last.kicked

\* GetToken(u), Verify(u, _) and KickOut(u) only ever use the token that
\* SetToken stored for u.  Cache.Get reads e.value after the unlock, and
\* replaceOldItem may meanwhile re-key that element to another user.
TokenBelongsToUser ==
    last # Nil => ~last.foreign

\* Every matched Verify counts: AccessCount equals the number of completed
\* t.AccessCount++ on that token, so the "too quick" throttle sees them
\* all.  The increment is an unsynchronised load and store.
AccessCountExact ==
    \A o \in TokObjs : tok[o].count = incs[o]

\* ExpiredKeys returns: once the Ticker starts a sweep, it gets back to
\* sleep.  The loop re-reads c.list.Back() and never advances past it.
SweepTerminates == tickPc = "scan" ~> tickPc = "sleep"


\* The cache under the token API stays a TTL map: its list and index agree
\* (MemCache's IndexConsistent) while SetToken, DelToken, SetTokenTTL, the
\* Gets of GetToken, Verify and KickOut and the Ticker's sweep interleave.
CacheIndexConsistent == C!IndexConsistent

\* ... and it implements ExpiringMap: a user's live token is replaced or
\* removed only by a SetToken, DelToken or SetTokenTTL of that user, or by
\* expiring; SetToken of another user may reuse only an expired tail.
ImplementsExpiringMap == C!ImplementsExpiringMap

=============================================================================
