------------------------------ MODULE BackendMgr ------------------------------
(***************************************************************************)
(* pkg/service/tunnel/backend_mgr.go with backendConnState of              *)
(* backend_session.go: the manager that keeps one BackendSession per       *)
(* server id and dials missing ones.  Its goroutines:                      *)
(*   - callers of TryGetSession (Callers): check, request a dial through   *)
(*     the buffered hosts channel, sleep 100 ms << trys, up to 5 times;   *)
(*   - the one connectHosts goroutine running dialBackend per item;        *)
(*   - per session, the reader goroutine whose exit runs DelSession: two   *)
(*     critical sections, the services map and then the conn states.       *)
(* The clock counts 100 ms ticks; time.Now().Unix() truncates it to whole  *)
(* seconds.  A session and a *backendConnState are identities.             *)
(***************************************************************************)
EXTENDS Integers, Sequences

CONSTANTS
    Ids,            \* server ids
    Hosts,          \* host strings
    HostOf,         \* getOneHost: Ids -> Hosts \cup {NoHost}
    NoHost,         \* ""
    Callers,        \* goroutines calling TryGetSession
    Sess,           \* *BackendSession identities
    StateObjs,      \* *backendConnState identities
    BufCap,         \* cap(buffedHosts)
    MaxTick,        \* bound of the clock, in 100 ms ticks
    RemoteIsHost,   \* sess.conn.RemoteAddr() equals the dialled host string
    None

ASSUME BufCap \in Nat \ {0} /\ MaxTick \in Nat /\ RemoteIsHost \in BOOLEAN

MaxTrys == 5    \* TryGetSession: trys < 5

\* minSecondsForTryConnect, indexed by totalTryNum & 0x07
minSecondsForTryConnect == <<1, 1, 2, 2, 2, 4, 4, 8>>
getMinTryTime(n) == minSecondsForTryConnect[(n % 8) + 1]

\* time.Now().Unix() at tick t (the process starts on a second boundary)
Unix(t) == 1 + t \div 10

VARIABLES
    now,
    services,   \* mgr.services: id -> session
    connStates, \* mgr.connStates: host -> *backendConnState
    tryNum,     \* per state object: totalTryNum & 7 (uint32, a multiple of 8)
    lastTry,    \* per state object: lastTryTime, Unix seconds
    buffed,     \* mgr.buffedHosts: the queued hostItem ids
    dpc, ditem, dstate,     \* the connectHosts goroutine
    cpc, cid, trys, wake,   \* TryGetSession callers
    rpc, sid,   \* per session: its reader, and its id
    lastAt, fails   \* ghosts per host: the last dial attempt since the last
                    \* success (Unix s), and the failed attempts since then

vars == <<now, services, connStates, tryNum, lastTry, buffed, dpc, ditem,
          dstate, cpc, cid, trys, wake, rpc, sid, lastAt, fails>>

TypeOK ==
    /\ now \in 0..MaxTick
    /\ services \in [Ids -> Sess \cup {None}]
    /\ connStates \in [Hosts -> StateObjs \cup {None}]
    /\ tryNum \in [StateObjs -> 0..7]
    /\ lastTry \in [StateObjs -> 0..Unix(MaxTick)]
    /\ buffed \in Seq(Ids) /\ Len(buffed) <= BufCap
    /\ dpc \in {"recv", "check", "try", "dial", "reset"}
    /\ ditem \in Ids \cup {None} /\ dstate \in StateObjs \cup {None}
    /\ cpc \in [Callers -> {"idle", "check", "sleep"}]
    /\ cid \in [Callers -> Ids \cup {None}]
    /\ trys \in [Callers -> 0..MaxTrys]
    /\ wake \in [Callers -> Nat]
    /\ rpc \in [Sess -> {"free", "new", "run", "del", "delstate"}]
    /\ sid \in [Sess -> Ids \cup {None}]
    /\ lastAt \in [Hosts -> 0..Unix(MaxTick) \cup {None}]
    /\ fails \in [Hosts -> Nat]

\* State objects and sessions nothing refers to: new() returns one of these.
FreeObjs == StateObjs \ ({connStates[h] : h \in Hosts} \cup {dstate})
FreeSess == {s \in Sess : rpc[s] = "free"}

\* GetSession: mgr.services[id] under the read lock (None for nil).
GetSession(i) == services[i]

\* The manager as the code would run it once its maps, the buffered hosts
\* channel and the hosts map are made and connectHosts has started.
Init ==
    /\ now = 0
    /\ services = [i \in Ids |-> None]
    /\ connStates = [h \in Hosts |-> None]
    /\ tryNum = [o \in StateObjs |-> 0] /\ lastTry = [o \in StateObjs |-> 0]
    /\ buffed = <<>>
    /\ dpc = "recv" /\ ditem = None /\ dstate = None
    /\ cpc = [c \in Callers |-> "idle"] /\ cid = [c \in Callers |-> None]
    /\ trys = [c \in Callers |-> 0] /\ wake = [c \in Callers |-> 0]
    /\ rpc = [s \in Sess |-> "free"] /\ sid = [s \in Sess |-> None]
    /\ lastAt = [h \in Hosts |-> None] /\ fails = [h \in Hosts |-> 0]

mgrVars == <<services, connStates, tryNum, lastTry>>
dialVars == <<dpc, ditem, dstate>>
callVars == <<cpc, cid, trys, wake>>
ghostVars == <<lastAt, fails>>

-----------------------------------------------------------------------------
(* TryGetSession(id), by caller c.                                         *)

\* A frontend calls TryGetSession(id).
Call(c, i) ==
    /\ cpc[c] = "idle"
    /\ cpc' = [cpc EXCEPT ![c] = "check"] /\ cid' = [cid EXCEPT ![c] = i]
    /\ trys' = [trys EXCEPT ![c] = 0]
    /\ UNCHANGED <<now, mgrVars, buffed, dialVars, wake, rpc, sid, ghostVars>>

\* Mutant: a blocking send that ignores the channel's capacity.
connectHostAgainUnbounded(i) == buffed' = Append(buffed, i)

\* connectHostAgain: select { case mgr.buffedHosts <- item: default: }
connectHostAgain(i) ==
    buffed' = IF Len(buffed) < BufCap THEN Append(buffed, i) ELSE buffed

\* One iteration: GetSession returns a session; or connectSIDAgain finds no
\* host and TryGetSession returns nil; or it requests a dial (when
\* GetSession, read again, is still nil) and sleeps 100 ms << trys.
CallerCheck(c) ==
    /\ cpc[c] = "check"
    /\ LET i == cid[c] IN
       \/ /\ GetSession(i) # None
          /\ cpc' = [cpc EXCEPT ![c] = "idle"]
          /\ UNCHANGED <<buffed, wake>>
       \/ /\ GetSession(i) = None /\ HostOf[i] = NoHost
          /\ cpc' = [cpc EXCEPT ![c] = "idle"]
          /\ UNCHANGED <<buffed, wake>>
       \/ /\ GetSession(i) = None /\ HostOf[i] # NoHost
          /\ connectHostAgain(i)
          /\ cpc' = [cpc EXCEPT ![c] = "sleep"]
          /\ wake' = [wake EXCEPT ![c] = now + 2^trys[c]]
    /\ UNCHANGED <<now, mgrVars, dialVars, cid, trys, rpc, sid, ghostVars>>

\* The sleep ends; after the fifth, TryGetSession returns nil.
CallerWake(c) ==
    /\ cpc[c] = "sleep" /\ now >= wake[c]
    /\ trys' = [trys EXCEPT ![c] = @ + 1]
    /\ cpc' = [cpc EXCEPT ![c] = IF trys[c] + 1 < MaxTrys THEN "check"
                                                           ELSE "idle"]
    /\ UNCHANGED <<now, mgrVars, buffed, dialVars, cid, wake, rpc, sid,
                   ghostVars>>

-----------------------------------------------------------------------------
(* connectHosts' goroutine: item := <-mgr.buffedHosts; dialBackend(item).  *)

Recv ==
    /\ dpc = "recv" /\ buffed # <<>>
    /\ ditem' = Head(buffed) /\ buffed' = Tail(buffed) /\ dpc' = "check"
    /\ UNCHANGED <<now, mgrVars, dstate, callVars, rpc, sid, ghostVars>>

\* Mutant: dialBackend without its GetSession check.
DialCheckNoSession ==
    /\ dpc = "check"
    /\ LET h == HostOf[ditem] IN
       IF connStates[h] # None
       THEN /\ dstate' = connStates[h]
            /\ UNCHANGED <<connStates, tryNum, lastTry>>
       ELSE \E o \in FreeObjs :
               /\ connStates' = [connStates EXCEPT ![h] = o]
               /\ tryNum' = [tryNum EXCEPT ![o] = 0]
               /\ lastTry' = [lastTry EXCEPT ![o] = 0]
               /\ dstate' = o
    /\ dpc' = "try" /\ UNCHANGED ditem
    /\ UNCHANGED <<now, services, buffed, callVars, rpc, sid, ghostVars>>

\* dialBackend: a registered session ends it; otherwise getConnState, and
\* newConnState (a fresh state put in the map) when there is none.
DialCheck ==
    /\ dpc = "check"
    /\ \/ /\ GetSession(ditem) # None
          /\ dpc' = "recv" /\ ditem' = None
          /\ UNCHANGED <<connStates, tryNum, lastTry, dstate>>
       \/ /\ GetSession(ditem) = None
          /\ LET h == HostOf[ditem] IN
             IF connStates[h] # None
             THEN /\ dstate' = connStates[h]
                  /\ UNCHANGED <<connStates, tryNum, lastTry>>
             ELSE \E o \in FreeObjs :
                     /\ connStates' = [connStates EXCEPT ![h] = o]
                     /\ tryNum' = [tryNum EXCEPT ![o] = 0]
                     /\ lastTry' = [lastTry EXCEPT ![o] = 0]
                     /\ dstate' = o
          /\ dpc' = "try" /\ UNCHANGED ditem
    /\ UNCHANGED <<now, services, buffed, callVars, rpc, sid, ghostVars>>

\* connState.tryAgain() on the state read above: enough whole seconds since
\* lastTryTime, then update(nowTS); otherwise dialBackend returns.
TryAgain ==
    /\ dpc = "try"
    /\ LET o == dstate
           h == HostOf[ditem]
       IN \/ /\ Unix(now) - lastTry[o] >= getMinTryTime(tryNum[o])
             /\ tryNum' = [tryNum EXCEPT ![o] = (@ + 1) % 8]
             /\ lastTry' = [lastTry EXCEPT ![o] = Unix(now)]
             /\ lastAt' = [lastAt EXCEPT ![h] = Unix(now)]
             /\ dpc' = "dial"
             /\ UNCHANGED <<ditem, dstate>>
          \/ /\ Unix(now) - lastTry[o] < getMinTryTime(tryNum[o])
             /\ dpc' = "recv" /\ ditem' = None /\ dstate' = None
             /\ UNCHANGED <<tryNum, lastTry, lastAt>>
    /\ UNCHANGED <<now, services, connStates, buffed, callVars, rpc, sid,
                   fails>>

\* NewSession: net.DialTimeout fails, and dialBackend returns.
DialFail ==
    /\ dpc = "dial"
    /\ dpc' = "recv" /\ ditem' = None /\ dstate' = None
    /\ fails' = [fails EXCEPT ![HostOf[ditem]] = @ + 1]
    /\ UNCHANGED <<now, mgrVars, buffed, callVars, rpc, sid, lastAt>>

\* NewSession: the dial succeeds, NewBackendSession and AddSession (id > 0).
DialOk ==
    /\ dpc = "dial"
    /\ \E s \in FreeSess :
          /\ services' = [services EXCEPT ![ditem] = s]
          /\ rpc' = [rpc EXCEPT ![s] = "new"] /\ sid' = [sid EXCEPT ![s] = ditem]
    /\ lastAt' = [lastAt EXCEPT ![HostOf[ditem]] = None]
    /\ fails' = [fails EXCEPT ![HostOf[ditem]] = 0]
    /\ dpc' = "reset"
    /\ UNCHANGED <<now, connStates, tryNum, lastTry, buffed, ditem, dstate,
                   callVars>>

\* connState.reset(), then go handleBackendResponse(sess).
Reset ==
    /\ dpc = "reset"
    /\ tryNum' = [tryNum EXCEPT ![dstate] = 0]
    /\ lastTry' = [lastTry EXCEPT ![dstate] = 0]
    /\ \E s \in Sess : rpc[s] = "new" /\ rpc' = [rpc EXCEPT ![s] = "run"]
    /\ dpc' = "recv" /\ ditem' = None /\ dstate' = None
    /\ UNCHANGED <<now, services, connStates, buffed, callVars, sid, ghostVars>>

-----------------------------------------------------------------------------
(* A session's reader, handleBackendResponse, and its deferred DelSession. *)

\* The link fails and the reader leaves its loop (see Tunnel).
ReaderExit(s) ==
    /\ rpc[s] = "run"
    /\ rpc' = [rpc EXCEPT ![s] = "del"]
    /\ UNCHANGED <<now, mgrVars, buffed, dialVars, callVars, sid, ghostVars>>

\* DelSession, first lock: sess := mgr.services[id]; delete(mgr.services, id).
DelServices(s) ==
    /\ rpc[s] = "del"
    /\ services' = [services EXCEPT ![sid[s]] = None]
    /\ IF services[sid[s]] # None
       THEN rpc' = [rpc EXCEPT ![s] = "delstate"] /\ UNCHANGED sid
       ELSE rpc' = [rpc EXCEPT ![s] = "free"] /\ sid' = [sid EXCEPT ![s] = None]
    /\ UNCHANGED <<now, connStates, tryNum, lastTry, buffed, dialVars,
                   callVars, ghostVars>>

\* BaseConn.RemoteAddr: the peer's address string.  It names the dialled
\* host's entry only when spelt as the host string; NoHost stands for any
\* string that is no key of connStates.
RemoteAddr(s) == IF RemoteIsHost THEN HostOf[sid[s]] ELSE NoHost

\* DelSession, second lock: delConnState(sess.conn.RemoteAddr()).
DelState(s) ==
    /\ rpc[s] = "delstate"
    /\ connStates' = IF RemoteAddr(s) \in Hosts
                     THEN [connStates EXCEPT ![RemoteAddr(s)] = None]
                     ELSE connStates
    /\ rpc' = [rpc EXCEPT ![s] = "free"] /\ sid' = [sid EXCEPT ![s] = None]
    /\ UNCHANGED <<now, services, tryNum, lastTry, buffed, dialVars, callVars,
                   ghostVars>>

\* 100 ms pass.
Tick ==
    /\ now < MaxTick
    /\ now' = now + 1
    /\ UNCHANGED <<mgrVars, buffed, dialVars, callVars, rpc, sid, ghostVars>>

Next ==
    \/ \E c \in Callers, i \in Ids : Call(c, i)
    \/ \E c \in Callers : CallerCheck(c) \/ CallerWake(c)
    \/ Recv \/ DialCheck \/ TryAgain \/ DialFail \/ DialOk \/ Reset
    \/ \E s \in Sess : ReaderExit(s) \/ DelServices(s) \/ DelState(s)
    \/ Tick

Spec == Init /\ [][Next]_vars

-----------------------------------------------------------------------------
(* Properties                                                              *)

\* One session per server id: a session whose reader has not yet run
\* DelSession is the one registered for its id.  dialBackend dials only an
\* id with no session, and DelSession deletes by id whatever is there, so
\* an overwritten session's exit would remove its successor.
OneSessionPerId ==
    \A s \in Sess : rpc[s] \in {"new", "run", "del"} => services[sid[s]] = s

\* Reconnect pacing (spec 4.11, 8 scenario 6): after k failed dials of a
\* host since its last successful one, the next dial comes no sooner than
\* minSecondsForTryConnect[k & 7] Unix seconds after the previous one.
Attempt(h) == dpc = "try" /\ dpc' = "dial" /\ HostOf[ditem] = h
PacingRespected ==
    [][\A h \in Hosts :
         Attempt(h) => \/ lastAt[h] = None
                       \/ Unix(now) - lastAt[h] >= getMinTryTime(fails[h])]_vars

\* Garbage state objects' fields are never read before they are reset.
GarbageFreeView ==
    <<now, services, connStates,
      [o \in StateObjs |-> IF o \in FreeObjs THEN 0 ELSE tryNum[o]],
      [o \in StateObjs |-> IF o \in FreeObjs THEN 0 ELSE lastTry[o]],
      buffed, dpc, ditem, dstate, cpc, cid, trys,
      [c \in Callers |-> IF cpc[c] = "sleep" THEN wake[c] ELSE 0],
      rpc, sid, lastAt, fails>>

====
