------------------------------ MODULE AuthNonce ------------------------------
(***************************************************************************)
(* 3rdparty/auth/nonce.go: per-user nonce windows kept in the auth cache.  *)
(* NonceCache.SetNonce is a cache Get, then either Nonce.Set on the *Nonce  *)
(* found or a cache Set of a new *Nonce.  Nothing locks across the two     *)
(* cache calls, and Nonce.Set (scan, then compact and append) runs on the  *)
(* shared *Nonce with no lock at all.  A goroutine in Procs calling        *)
(* SetNonce therefore takes these steps:                                   *)
(*   SetNonceGet   the locked cache Get (accessed = false: no state change)*)
(*   NonceSetScan  Nonce.Set's loop over the window                        *)
(*   NonceSetAppend  Nonce.Set's compaction and append                     *)
(*   Create        the cache Set of &Nonce{[]string{nonce}}                *)
(* A *Nonce is an identity in NonceObjs; its window is nonces[o].          *)
(***************************************************************************)
EXTENDS Integers, SequencesExt

CONSTANTS
    Users,          \* user ids, the cache keys
    NonceStrs,      \* nonce strings
    NonceObjs,      \* identities of *Nonce
    Elems,          \* cache elements
    Procs,          \* goroutines calling SetNonce
    maxNonceSize,   \* nonce.go: 20
    maxNonceTTL,    \* nonce.go: 3600 s
    MaxTime,
    Nil

ASSUME maxNonceSize \in Nat /\ maxNonceSize >= 4

VARIABLES
    lst, table, ent, now,   \* the NonceCache's Cache
    nonces,     \* *Nonce -> its nonces slice
    pc,         \* per goroutine: "idle", "scan", "append", "create"
    usr, arg,   \* SetNonce's userID and nonce
    obj,        \* the *Nonce the Get returned
    last,       \* ghost: the last SetNonce's [res, replay]
    count,      \* ghost: per *Nonce, accepted nonces, reduced (see Bump)
    recent      \* ghost: per *Nonce, the last maxNonceSize accepted nonces

cacheVars == <<lst, table, ent, now>>
vars == <<lst, table, ent, now, nonces, pc, usr, arg, obj, last, count, recent>>

C == INSTANCE AuthCache WITH Keys <- Users, Values <- NonceObjs,
                             TTLs <- {maxNonceTTL}

\* After the first compaction the window length cycles with this period.
Period == maxNonceSize - 3
CountBound == maxNonceSize + Period

TypeOK ==
    /\ C!M!TypeOK
    /\ nonces \in [NonceObjs -> Seq(NonceStrs)]
    /\ \A o \in NonceObjs : Len(nonces[o]) <= maxNonceSize
    /\ pc \in [Procs -> {"idle", "scan", "append", "create"}]
    /\ usr \in [Procs -> Users \cup {Nil}]
    /\ arg \in [Procs -> NonceStrs \cup {Nil}]
    /\ obj \in [Procs -> NonceObjs \cup {Nil}]
    /\ last \in [res : BOOLEAN, replay : BOOLEAN] \cup {Nil}
    /\ count \in [NonceObjs -> 0..CountBound]
    /\ recent \in [NonceObjs -> Seq(NonceStrs)]

\* The window SetNonce would see for u now: that of its live *Nonce.
Window(u) == IF C!GetLive(u) THEN nonces[ent[table[u]].value] ELSE <<>>

\* *Nonce objects nobody refers to: &Nonce{} allocates one of these.
Referenced == {ent[e].value : e \in ToSet(lst)} \cup {obj[p] : p \in Procs}
FreeObjs == NonceObjs \ Referenced
FreeElems == Elems \ ToSet(lst)

\* Ghost bookkeeping of one accepted nonce n on o.
Bump(a) == IF a + 1 <= CountBound THEN a + 1 ELSE a + 1 - Period
Accepted(o, n) ==
    /\ count' = [count EXCEPT ![o] = Bump(@)]
    /\ recent' = [recent EXCEPT ![o] =
                    LET r == Append(@, n)
                    IN IF Len(r) > maxNonceSize THEN Tail(r) ELSE r]

Init ==
    /\ C!Init
    /\ nonces = [o \in NonceObjs |-> <<>>]
    /\ pc = [p \in Procs |-> "idle"]
    /\ usr = [p \in Procs |-> Nil]
    /\ arg = [p \in Procs |-> Nil]
    /\ obj = [p \in Procs |-> Nil]
    /\ last = Nil
    /\ count = [o \in NonceObjs |-> 0]
    /\ recent = [o \in NonceObjs |-> <<>>]

\* SetNonce returns res; replay: n was in u's live window at that moment.
Finish(p, res, u, n) ==
    /\ last' = [res |-> res, replay |-> n \in ToSet(Window(u))]
    /\ pc' = [pc EXCEPT ![p] = "idle"]
    /\ usr' = [usr EXCEPT ![p] = Nil]
    /\ arg' = [arg EXCEPT ![p] = Nil]
    /\ obj' = [obj EXCEPT ![p] = Nil]

-----------------------------------------------------------------------------

\* SetNonce: this.nonces.Get(userID, false); a hit goes on to Nonce.Set,
\* a miss (absent or expired) to the cache Set.
SetNonceGet(p, u, n) ==
    /\ pc[p] = "idle"
    /\ pc' = [pc EXCEPT ![p] = IF C!GetLive(u) THEN "scan" ELSE "create"]
    /\ obj' = [obj EXCEPT ![p] = IF C!GetLive(u) THEN ent[table[u]].value
                                                 ELSE Nil]
    /\ usr' = [usr EXCEPT ![p] = u]
    /\ arg' = [arg EXCEPT ![p] = n]
    /\ last' = Nil
    /\ UNCHANGED <<cacheVars, nonces, count, recent>>

\* Nonce.Set's loop: a nonce already in the window returns false.
NonceSetScan(p) ==
    /\ pc[p] = "scan"
    /\ \/ /\ arg[p] \in ToSet(nonces[obj[p]])
          /\ Finish(p, FALSE, usr[p], arg[p])
       \/ /\ arg[p] \notin ToSet(nonces[obj[p]])
          /\ pc' = [pc EXCEPT ![p] = "append"]
          /\ UNCHANGED <<usr, arg, obj, last>>
    /\ UNCHANGED <<cacheVars, nonces, count, recent>>

\* Mutants: the three kept nonces taken one slot too early; the window
\* compacted only once it has grown past maxNonceSize.
CompactedShifted(ns) ==
    IF Len(ns) >= maxNonceSize
    THEN <<ns[Len(ns) - 3], ns[Len(ns) - 2], ns[Len(ns) - 1]>>
    ELSE ns
CompactedLate(ns) ==
    IF Len(ns) > maxNonceSize
    THEN <<ns[Len(ns) - 2], ns[Len(ns) - 1], ns[Len(ns)]>>
    ELSE ns

\* Nonce.Set after the loop: a window of maxNonceSize is cut to its last
\* three nonces (moved to the front in place), then the nonce is appended.
Compacted(ns) ==
    IF Len(ns) >= maxNonceSize
    THEN <<ns[Len(ns) - 2], ns[Len(ns) - 1], ns[Len(ns)]>>
    ELSE ns

NonceSetAppend(p) ==
    /\ pc[p] = "append"
    /\ nonces' = [nonces EXCEPT ![obj[p]] = Append(Compacted(@), arg[p])]
    /\ Accepted(obj[p], arg[p])
    /\ Finish(p, TRUE, usr[p], arg[p])
    /\ UNCHANGED cacheVars

\* this.nonces.Set(userID, &Nonce{[]string{nonce}}, maxNonceTTL)
Create(p) ==
    /\ pc[p] = "create"
    /\ \E o \in FreeObjs :
          /\ C!Set(usr[p], o, maxNonceTTL, FreeElems)
          /\ nonces' = [nonces EXCEPT ![o] = <<arg[p]>>]
          /\ count' = [count EXCEPT ![o] = 1]
          /\ recent' = [recent EXCEPT ![o] = <<arg[p]>>]
    /\ Finish(p, TRUE, usr[p], arg[p])

Tick ==
    /\ C!Tick
    /\ last' = Nil
    /\ UNCHANGED <<nonces, pc, usr, arg, obj, count, recent>>

Next ==
    \/ \E p \in Procs, u \in Users, n \in NonceStrs : SetNonceGet(p, u, n)
    \/ \E p \in Procs : NonceSetScan(p) \/ NonceSetAppend(p) \/ Create(p)
    \/ Tick

Spec == Init /\ [][Next]_vars

-----------------------------------------------------------------------------
(* Properties                                                              *)

\* The reference definition of the window: after a accepted nonces on one
\* *Nonce, it holds the last a of them up to maxNonceSize; from then on
\* each compaction leaves 3 and the append makes 4, so the length cycles
\* through 4..maxNonceSize.
Retained(a) ==
    IF a <= maxNonceSize THEN a ELSE 4 + ((a - maxNonceSize - 1) % Period)

\* Nonce.Set's in-place compaction and append keep exactly the most recent
\* accepted nonces, in order (spec 3: "retains the 3 most recent when
\* full"; spec 8 scenario 4), whatever the goroutines interleave.
WindowIsRecent ==
    \A o \in NonceObjs :
        LET r == recent[o] IN
        nonces[o] = SubSeq(r, Len(r) - Retained(count[o]) + 1, Len(r))

\* Anti-replay (spec 4.8, 7): SetNonce returns true only for a nonce that
\* is not in the user's retained window at the moment it is accepted.
NoReplayAccepted == last # Nil /\ last.res => ~last.replay

\* Unreferenced *Nonce objects are garbage: their contents are hidden.
GarbageFreeView ==
    <<lst, table, ent, now,
      [o \in NonceObjs |-> IF o \in FreeObjs THEN <<>> ELSE nonces[o]],
      pc, usr, arg, obj, last,
      [o \in NonceObjs |-> IF o \in FreeObjs THEN 0 ELSE count[o]],
      [o \in NonceObjs |-> IF o \in FreeObjs THEN <<>> ELSE recent[o]]>>

=============================================================================
