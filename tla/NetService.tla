------------------------------ MODULE NetService ------------------------------
(***************************************************************************)
(* One frontend TCP service, from accept to response:                      *)
(*   - NetServer and NetService (pkg/service/zd/server.go): the listener   *)
(*     is a NetListener (3rdparty/service/zd/listener.go), wrapped in a    *)
(*     limitListener of MaxConn permits; stopListeners and waitListeners   *)
(*     are the graceful shutdown;                                          *)
(*   - tcp.Service.Serve (3rdparty/service/tcp/tcp.go): the accept loop,   *)
(*     one handler goroutine per connection;                               *)
(*   - the handler LocalAgentService.Serve (pkg/service/session), which    *)
(*     reads one packet and calls Router.Dispatch (pkg/service/route);     *)
(*     with a timeouter the action runs in a goroutine of its own that    *)
(*     races a timer.                                                      *)
(* Conns are the clients that may dial.  A connection's handler state is   *)
(* cst[c]; its action goroutine is apc[c] with the result channel res[c].  *)
(***************************************************************************)
EXTENDS Integers, FiniteSets

CONSTANTS
    Conns,      \* client connections
    MaxConn,    \* ListenerOption.MaxConn > 0: Start wraps in LimitListener
    ResultCap   \* Dispatch: make(chan IOutProtocol, 1)

ASSUME MaxConn \in Nat \ {0}

\* tcp.go: tempDelay starts at 5 ms, doubles, and is capped at 1 s.
MaxDelay == 1000

VARIABLES
    timeouter,  \* router.timeout # nil (fixed once the router is built)
    readSynced, \* ListenerOption.ReadSynced (fixed)
    srvPc,      \* the goroutine running shutdown: "run", "stopped", "wait", "exit"
    deadline,   \* Stop's SetDeadline(now) has passed: Accept times out
    lClosed,    \* the net.Listener was closed (CloseListener)
    nlClosed,   \* NetListener.closed
    wg,         \* the NetServer's wait group counter
    waiter,     \* waitListeners' goroutine: "none", "wait", "exit"
    exitChan,   \* close(exitChan) has happened
    sem,        \* len(limitListener.sem): permits held
    loopPc,     \* Serve's loop: "acquire", "accept", "add", "exit"
    acquired,   \* Accept's local `acquired`
    held,       \* the conn Listener.Accept returned, before addConn
    tempDelay,  \* Serve's tempDelay, in ms
    tempErrs,   \* ghost: consecutive temporary Accept errors, saturated
    cst,        \* per conn: "out", "queued", "taken", "read", "dispatch",
                \* "select", "close", "release", "done"
    apc,        \* per conn: its action goroutine, "none", "run", "panic"
                \* (Handle will panic on this request), "exit"
    res         \* per conn: values in Dispatch's result channel

vars == <<timeouter, readSynced, srvPc, deadline, lClosed, nlClosed, wg,
          waiter, exitChan, sem, loopPc, acquired, held, tempDelay, tempErrs,
          cst, apc, res>>

Open == {"read", "dispatch", "select", "close"}  \* accepted, not yet closed
Permit == Open \cup {"release"}                   \* owns a permit
SatErrs == 9    \* 5 * 2^8 > MaxDelay: from here on the delay is the cap

\* The reference definition: after k consecutive temporary errors Serve
\* sleeps min(5 * 2^(k-1), 1000) ms.
DelayAfter(k) ==
    IF k = 0 THEN 0
    ELSE IF 5 * 2^(k - 1) > MaxDelay THEN MaxDelay ELSE 5 * 2^(k - 1)
Delays == {DelayAfter(k) : k \in 0..SatErrs}

TypeOK ==
    /\ timeouter \in BOOLEAN /\ readSynced \in BOOLEAN
    /\ srvPc \in {"run", "stopped", "wait", "exit"}
    /\ deadline \in BOOLEAN /\ lClosed \in BOOLEAN /\ nlClosed \in BOOLEAN
    /\ wg \in Nat
    /\ waiter \in {"none", "wait", "exit"} /\ exitChan \in BOOLEAN
    /\ sem \in 0..MaxConn
    /\ loopPc \in {"acquire", "accept", "add", "exit"}
    /\ acquired \in BOOLEAN
    /\ held \in Conns \cup {"none"}
    /\ tempDelay \in Delays /\ tempErrs \in 0..SatErrs
    /\ cst \in [Conns -> {"out", "queued", "taken", "read", "dispatch",
                          "select", "close", "release", "done"}]
    /\ apc \in [Conns -> {"none", "run", "panic", "exit"}]
    /\ res \in [Conns -> 0..1]

\* NewRouter: timeout stays nil unless OptionTimeoutResponse sets it.
RouterTimeouts == BOOLEAN

\* ListenerOption.ReadSynced: false from NewService, any value from
\* NewServiceWithOption; GetListenerOption hands it to the NetListener.
ReadSyncedOptions == BOOLEAN

\* newNetServer, AddService, initListeners and runServices have run: Start
\* wrapped the NetListener in LimitListener and Serve's loop is running.
Init ==
    /\ timeouter \in RouterTimeouts /\ readSynced \in ReadSyncedOptions
    /\ srvPc = "run"
    /\ deadline = FALSE /\ lClosed = FALSE /\ nlClosed = FALSE
    /\ wg = 0 /\ waiter = "none" /\ exitChan = FALSE
    /\ sem = 0 /\ loopPc = "acquire" /\ acquired = FALSE /\ held = "none"
    /\ tempDelay = 0 /\ tempErrs = 0
    /\ cst = [c \in Conns |-> "out"]
    /\ apc = [c \in Conns |-> "none"]
    /\ res = [c \in Conns |-> 0]


\* The NetListener's wait group: addConn is wg.Add(1), delConn wg.Done().
addConn == wg' = wg + 1
delConn == wg' = wg - 1

\* limitListener.release: <-l.sem.
release == sem' = sem - 1

\* NetListener.isClosed: atomic.LoadInt32(&nl.closed) > 0.
isClosed == nlClosed

-----------------------------------------------------------------------------
(* Clients.                                                                *)

\* A client dials; the connection waits in the kernel's accept queue.
Connect(c) ==
    /\ cst[c] = "out"
    /\ cst' = [cst EXCEPT ![c] = "queued"]
    /\ UNCHANGED <<timeouter, readSynced, srvPc, deadline, lClosed, nlClosed,
                   wg, waiter, exitChan, sem, loopPc, acquired, held,
                   tempDelay, tempErrs, apc, res>>

-----------------------------------------------------------------------------
(* tcp.Service.Serve over limitListener.Accept over NetListener.Accept.    *)
(* limitListener.Close is never called (CloseListener closes the inner     *)
(* NetListener), so acquire's `<-l.done` case never fires.                 *)

\* Mutant: a semaphore without a bound.
AcquireUnbounded ==
    /\ loopPc = "acquire"
    /\ sem' = sem + 1 /\ acquired' = TRUE /\ loopPc' = "accept"
    /\ UNCHANGED <<timeouter, readSynced, srvPc, deadline, lClosed, nlClosed,
                   wg, waiter, exitChan, held, tempDelay, tempErrs, cst,
                   apc, res>>

\* acquire: l.sem <- struct{}{} blocks while MaxConn permits are held.
Acquire ==
    /\ loopPc = "acquire"
    /\ sem < MaxConn
    /\ sem' = sem + 1 /\ acquired' = TRUE /\ loopPc' = "accept"
    /\ UNCHANGED <<timeouter, readSynced, srvPc, deadline, lClosed, nlClosed,
                   wg, waiter, exitChan, held, tempDelay, tempErrs, cst,
                   apc, res>>

\* nl.Listener.Accept returns a queued connection (only before the
\* deadline: a passed deadline fails the call first).
AcceptConn(c) ==
    /\ loopPc = "accept" /\ ~deadline /\ ~lClosed
    /\ cst[c] = "queued"
    /\ cst' = [cst EXCEPT ![c] = "taken"]
    /\ held' = c /\ loopPc' = "add"
    /\ UNCHANGED <<timeouter, readSynced, srvPc, deadline, lClosed, nlClosed,
                   wg, waiter, exitChan, sem, acquired, tempDelay, tempErrs,
                   apc, res>>

\* nl.addConn() (wg.Add(1)), the conn is wrapped and returned, tempDelay
\* = 0, and `go ts.connHandler(conn)`.  The permit now goes with the conn.
AddConn ==
    /\ loopPc = "add"
    /\ addConn
    /\ cst' = [cst EXCEPT ![held] = "read"]
    /\ held' = "none" /\ acquired' = FALSE /\ loopPc' = "acquire"
    /\ tempDelay' = 0 /\ tempErrs' = 0
    /\ UNCHANGED <<timeouter, readSynced, srvPc, deadline, lClosed, nlClosed,
                   waiter, exitChan, sem, apc, res>>

\* Mutants: tempDelay never capped; the permit kept on an Accept error.
NextDelayUncapped(d) == IF d = 0 THEN 5 ELSE 2 * d
ReleaseIfAcquiredKept == UNCHANGED sem

\* tempDelay = 5 ms, or doubled, and capped at 1 s.
NextDelay(d) ==
    LET n == IF d = 0 THEN 5 ELSE 2 * d
    IN IF n > MaxDelay THEN MaxDelay ELSE n

\* Accept's error path: `if acquired { l.release() }`.
ReleaseIfAcquired ==
    IF acquired THEN release ELSE UNCHANGED sem

\* Accept fails with the deadline's timeout, a temporary net.Error: the
\* permit is released, Serve sleeps tempDelay and loops.
AcceptTimeout ==
    /\ loopPc = "accept" /\ deadline /\ ~lClosed
    /\ ReleaseIfAcquired
    /\ tempDelay' = NextDelay(tempDelay)
    /\ tempErrs' = IF tempErrs < SatErrs THEN tempErrs + 1 ELSE SatErrs
    /\ acquired' = FALSE /\ loopPc' = "acquire"
    /\ UNCHANGED <<timeouter, readSynced, srvPc, deadline, lClosed, nlClosed,
                   wg, waiter, exitChan, held, cst, apc, res>>

\* Accept on a closed listener fails for good: Serve's loop breaks.
AcceptError ==
    /\ loopPc = "accept" /\ lClosed
    /\ ReleaseIfAcquired
    /\ acquired' = FALSE /\ loopPc' = "exit"
    /\ UNCHANGED <<timeouter, readSynced, srvPc, deadline, lClosed, nlClosed,
                   wg, waiter, exitChan, held, tempDelay, tempErrs, cst,
                   apc, res>>


-----------------------------------------------------------------------------
(* LocalAgentService.Serve for connection c, and Router.Dispatch.          *)

srvVars == <<timeouter, readSynced, srvPc, deadline, lClosed, nlClosed,
             waiter, exitChan>>

\* ReadPacket, IsValid, Decrypt and the cmd check.  A read error does not
\* return, but leaves a nil packet that IsValid rejects; a cmd packet is
\* rejected too.  Once the listener is stopped a readSynced conn reads EOF.
Read(c) ==
    /\ cst[c] = "read"
    /\ \E next \in IF readSynced /\ isClosed THEN {"close"}
                   ELSE {"dispatch", "close"} :
          cst' = [cst EXCEPT ![c] = next]
    /\ UNCHANGED <<srvVars, wg, sem, loopPc, acquired, held, tempDelay,
                   tempErrs, apc, res>>

\* Serve after Dispatch returns: marshal, write (errors only logged), return
\* into the deferred frontendSess.Close.
Respond(c) == cst' = [cst EXCEPT ![c] = "close"]

\* Dispatch: a disabled route or an unknown module returns noneResp; with
\* no timeouter module.Handle runs here (its panic reaches Serve's recover).
\* Either way Serve marshals and writes, or returns.  With a timeouter the
\* action starts in a goroutine and the caller selects.
Dispatch(c) ==
    /\ cst[c] = "dispatch"
    /\ \/ Respond(c) /\ UNCHANGED apc
       \/ /\ timeouter
          /\ \E outcome \in {"run", "panic"} :
                apc' = [apc EXCEPT ![c] = outcome]
          /\ cst' = [cst EXCEPT ![c] = "select"]
    /\ UNCHANGED <<srvVars, wg, sem, loopPc, acquired, held, tempDelay,
                   tempErrs, res>>

\* Mutant: an unbuffered result channel, a rendezvous with the select.
ActionReturnUnbuffered(c) ==
    /\ apc[c] = "run" /\ cst[c] = "select"
    /\ apc' = [apc EXCEPT ![c] = "exit"]
    /\ cst' = [cst EXCEPT ![c] = "close"]
    /\ UNCHANGED <<srvVars, wg, sem, loopPc, acquired, held, tempDelay,
                   tempErrs, res>>

\* The action goroutine: result <- module.Handle(r), into the buffer.
ActionReturn(c) ==
    /\ apc[c] = "run" /\ res[c] < ResultCap
    /\ res' = [res EXCEPT ![c] = @ + 1]
    /\ apc' = [apc EXCEPT ![c] = "exit"]
    /\ UNCHANGED <<srvVars, wg, sem, loopPc, acquired, held, tempDelay,
                   tempErrs, cst>>

\* Handle panics: the deferred recover ends the goroutine, nothing is sent.
ActionPanic(c) ==
    /\ apc[c] = "panic"
    /\ apc' = [apc EXCEPT ![c] = "exit"]
    /\ UNCHANGED <<srvVars, wg, sem, loopPc, acquired, held, tempDelay,
                   tempErrs, cst, res>>

\* case pb := <-result
SelectResult(c) ==
    /\ cst[c] = "select" /\ res[c] > 0
    /\ res' = [res EXCEPT ![c] = @ - 1]
    /\ Respond(c)
    /\ UNCHANGED <<srvVars, wg, sem, loopPc, acquired, held, tempDelay,
                   tempErrs, apc>>

\* Mutant: Dispatch without its timer.
SelectTimeoutNever(c) == FALSE

\* case <-time.After(router.timeout.Timeout()): the canned result.
SelectTimeout(c) ==
    /\ cst[c] = "select"
    /\ Respond(c)
    /\ UNCHANGED <<srvVars, wg, sem, loopPc, acquired, held, tempDelay,
                   tempErrs, apc, res>>

\* Serve's deferred frontendSess.Close: its CAS, then conn.Close, which is
\* limitListenerConn.Close: first NetListenerConn.Close (CAS, close,
\* nl.delConn = wg.Done) ...
CloseConn(c) ==
    /\ cst[c] = "close"
    /\ delConn
    /\ cst' = [cst EXCEPT ![c] = "release"]
    /\ UNCHANGED <<srvVars, sem, loopPc, acquired, held, tempDelay, tempErrs,
                   apc, res>>

\* ... then releaseOnce.Do(l.release): <-l.sem.
Release(c) ==
    /\ cst[c] = "release" /\ sem > 0
    /\ release
    /\ cst' = [cst EXCEPT ![c] = "done"]
    /\ UNCHANGED <<srvVars, wg, loopPc, acquired, held, tempDelay, tempErrs,
                   apc, res>>

-----------------------------------------------------------------------------
(* NetServer shutdown: stopListeners, then waitListeners (exitTimeout > 0: *)
(* setExitTimeout only takes positive values).                             *)

connVars == <<wg, sem, loopPc, acquired, held, tempDelay, tempErrs, cst,
              apc, res>>

\* stopListeners: NetListener.Stop, SetDeadline(now) and closed = 1.
Stop ==
    /\ srvPc = "run"
    /\ deadline' = TRUE /\ nlClosed' = TRUE /\ srvPc' = "stopped"
    /\ UNCHANGED <<timeouter, readSynced, lClosed, waiter, exitChan, connVars>>

\* waitListeners: go func() { wg.Wait(); stopWaitListeners() }, then select.
WaitListeners ==
    /\ srvPc = "stopped"
    /\ srvPc' = "wait" /\ waiter' = "wait"
    /\ UNCHANGED <<timeouter, readSynced, deadline, lClosed, nlClosed,
                   exitChan, connVars>>

\* Mutant: the goroutine does not wait for the group.
WaiterDoneEarly ==
    /\ waiter = "wait"
    /\ exitChan' = TRUE /\ waiter' = "exit"
    /\ UNCHANGED <<timeouter, readSynced, srvPc, deadline, lClosed, nlClosed,
                   connVars>>

\* wg.Wait() returns at zero; exitOnce closes exitChan.
WaiterDone ==
    /\ waiter = "wait" /\ wg = 0
    /\ exitChan' = TRUE /\ waiter' = "exit"
    /\ UNCHANGED <<timeouter, readSynced, srvPc, deadline, lClosed, nlClosed,
                   connVars>>

\* case <-mgr.exitChan, or case <-time.After(mgr.exitTimeout).
WaitExit ==
    /\ srvPc = "wait" /\ exitChan
    /\ srvPc' = "exit"
    /\ UNCHANGED <<timeouter, readSynced, deadline, lClosed, nlClosed, waiter,
                   exitChan, connVars>>

WaitTimeout ==
    /\ srvPc = "wait"
    /\ srvPc' = "exit"
    /\ UNCHANGED <<timeouter, readSynced, deadline, lClosed, nlClosed, waiter,
                   exitChan, connVars>>

\* NetService.CloseListener: NetListener.Close, Listener.Close and closed = 1.
CloseListener ==
    /\ ~lClosed
    /\ lClosed' = TRUE /\ nlClosed' = TRUE
    /\ UNCHANGED <<timeouter, readSynced, srvPc, deadline, waiter, exitChan,
                   connVars>>

-----------------------------------------------------------------------------

Loop == Acquire \/ (\E c \in Conns : AcceptConn(c)) \/ AddConn
            \/ AcceptTimeout \/ AcceptError
Handler(c) ==
    Read(c) \/ Dispatch(c) \/ SelectResult(c) \/ SelectTimeout(c)
        \/ CloseConn(c) \/ Release(c)
Action(c) == ActionReturn(c) \/ ActionPanic(c)

Next ==
    \/ \E c \in Conns : Connect(c) \/ Handler(c) \/ Action(c)
    \/ Loop
    \/ Stop \/ WaitListeners \/ WaiterDone \/ WaitExit \/ WaitTimeout
    \/ CloseListener

\* Every goroutine that can run does (Go's scheduler preempts), and timers
\* fire.  Clients dialling, Stop and CloseListener are calls from outside.
Fairness ==
    /\ WF_vars(Loop)
    /\ \A c \in Conns : WF_vars(Handler(c)) /\ WF_vars(Action(c))
    /\ WF_vars(WaiterDone)
    /\ WF_vars(WaitListeners \/ WaitExit \/ WaitTimeout)

Spec == Init /\ [][Next]_vars /\ Fairness


-----------------------------------------------------------------------------
(* Properties                                                              *)

\* Spec 4.5 and 8: every permit is held by exactly one party, the accept
\* loop between acquire and addConn or a connection until its release, so
\* at most MaxConn connections are open; and the wait group counts exactly
\* the connections accepted and not yet closed.  Accept's error path
\* must give back the permit it took, or each timeout after Stop leaks one.
ConnAccounting ==
    /\ sem = Cardinality({c \in Conns : cst[c] \in Permit})
             + (IF acquired THEN 1 ELSE 0)
    /\ wg = Cardinality({c \in Conns : cst[c] \in Open})

\* Serve's back-off sleeps exactly the reference delay for the number of
\* consecutive temporary Accept errors: 5 ms doubling up to 1 s (spec 4.6).
BackoffMatchesReference == tempDelay = DelayAfter(tempErrs)

\* Graceful shutdown (spec 4.6, 5): once waitListeners' goroutine sees the
\* wait group at zero and closes exitChan, no connection is being served
\* or is about to be.  NetListener.Accept adds to the group only after the
\* kernel's Accept returned.
DrainedOnExit ==
    exitChan => \A c \in Conns : cst[c] \notin Open \cup {"taken"}

\* Every accepted connection is closed and gives its permit back: the
\* handler returns whether the action answers, panics or is late.
HandlersFinish == \A c \in Conns : cst[c] = "read" ~> cst[c] = "done"

\* A late action goroutine still ends: its send into the result channel,
\* which nobody reads after the timeout, never blocks (spec 4.12).
ActionsFinish ==
    \A c \in Conns : apc[c] \in {"run", "panic"} ~> apc[c] = "exit"

\* After Stop every Accept fails with the deadline's temporary timeout and
\* Serve keeps looping through acquire and its back-off; only the closed
\* listener's error breaks the loop.  Once CloseListener has run, Serve's
\* loop ends, even when every permit is held by a connection still being
\* served: each timeout must have given its permit back.
ServeLoopExits == lClosed ~> loopPc = "exit"

\* Serve's deferred frontendSess.Close calls buffer.Free, giving the packet
\* buffer back to the slab pool; the Request that Dispatch handed the action
\* goroutine takes its Data from that buffer (NewRequestFromAgent).  So the
\* close must not happen while that goroutine may still run Handle.
NoFreeUnderAction ==
    [][\A c \in Conns :
          cst[c] = "close" /\ cst'[c] = "release" => apc[c] \notin {"run", "panic"}]_vars

====
