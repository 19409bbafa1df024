------------------------------- MODULE Tunnel -------------------------------
(***************************************************************************)
(* pkg/service/tunnel and pkg/service/session: one inter-server link.     *)
(*                                                                         *)
(* Agent end: a BackendSession B (backend_session.go) whose goroutines are *)
(* the reader handleBackendResponse, the pinger started by Ping, and one   *)
(* forwardToFrontend per response read (tunnel.go); FrontendSessions bound *)
(* to B (frontend_session.go), each driven by its client goroutine.        *)
(* Server end: AgentService.Serve (session.go) on a BackendSession of its  *)
(* own, one handleAgentRequest goroutine per packet read, and CheckPing.   *)
(*                                                                         *)
(* The link is a TCP connection: FIFO, bounded by the socket buffers      *)
(* (LinkCap), closed by either end (aClosed, sClosed) or broken by the     *)
(* network (broken).  Packets are records: a ping, a request carrying the  *)
(* connID of its frontend, a response carrying it back.  `from` is a ghost *)
(* naming the frontend whose request a packet answers.                     *)
(***************************************************************************)
EXTENDS Integers, Sequences, FiniteSets

CONSTANTS
    Fronts,     \* FrontendSession objects
    LinkCap,    \* packets a direction of the link buffers before Write blocks
    Nil

\* NewFrontendSessionID: 100 + atomic.AddUint32(&idCounter, 1); one Bind
\* per frontend, so the counter stays far below its 32-bit wrap.
Ids == 101..(100 + Cardinality(Fronts))

Packet == [kind : {"ping", "req"}, cid : Ids \cup {0}, from : Fronts \cup {Nil}]
Reply == [cid : Ids, from : Fronts]
PingPacket == [kind |-> "ping", cid |-> 0, from |-> Nil]

VARIABLES
    \* agent end: BackendSession B and its goroutines
    frontends,  \* B.frontends: connID -> FrontendSession
    idCounter,  \* B.idCounter
    closed,     \* B.closed, the CAS flag of Close
    sigClose,   \* close(B.sigClose) has happened
    readerPc,   \* handleBackendResponse: "loop", then Close's steps, "exit"
    pingerPc,   \* the Ping goroutine: "run", "exit"
    registered, \* the manager's services[id] holds B
    fwd,        \* forwardToFrontend goroutines: [cid, from, to, pc]
    \* the link
    aClosed, sClosed, broken,
    toServer,   \* packets written by the agent end, not yet read
    toAgent,    \* responses written by the server end, not yet read
    \* server end
    handlers,   \* requests read by Serve whose handleAgentRequest runs
    pinged,     \* a ping was handled since CheckPing's last tick
    checkerPc,  \* CheckPing's goroutine: "run", "exit"
    \* frontends
    fpc,        \* client goroutine of each FrontendSession
    fid,        \* FrontendSession.id (0: unbound)
    fbackend,   \* FrontendSession.backend = B
    fclosed,    \* FrontendSession.closed, the CAS flag of its Close
    fconnClosed,\* its conn was closed (by its Close or by B's closeAll)
    done,       \* close(FrontendSession.done) has happened
    gotFrom,    \* ghost: the frontend whose request the closing response answered
    doubleDone  \* ghost: DoneResponse closed an already closed channel

agentVars == <<frontends, idCounter, closed, sigClose, readerPc, pingerPc,
               registered, fwd>>
linkVars == <<aClosed, sClosed, broken, toServer, toAgent>>
serverVars == <<handlers, pinged, checkerPc>>
frontVars == <<fpc, fid, fbackend, fclosed, fconnClosed, done, gotFrom,
               doubleDone>>
vars == <<agentVars, linkVars, serverVars, frontVars>>

TypeOK ==
    /\ frontends \in [Ids -> Fronts \cup {Nil}]
    /\ idCounter \in 0..Cardinality(Fronts)
    /\ closed \in BOOLEAN /\ sigClose \in BOOLEAN /\ registered \in BOOLEAN
    /\ readerPc \in {"loop", "closeAll", "reset", "conn", "exit"}
    /\ pingerPc \in {"run", "exit"}
    /\ fwd \subseteq [cid : Ids, from : Fronts, to : Fronts \cup {Nil},
                      pc : {"lookup", "deliver"}]
    /\ aClosed \in BOOLEAN /\ sClosed \in BOOLEAN /\ broken \in BOOLEAN
    /\ toServer \in Seq(Packet) /\ Len(toServer) <= LinkCap
    /\ toAgent \in Seq(Reply) /\ Len(toAgent) <= LinkCap
    /\ handlers \subseteq Packet
    /\ pinged \in BOOLEAN
    /\ checkerPc \in {"run", "exit"}
    /\ fpc \in [Fronts -> {"new", "binding", "bound", "wait", "unbind",
                           "close", "end"}]
    /\ fid \in [Fronts -> Ids \cup {0}]
    /\ fbackend \in [Fronts -> BOOLEAN]
    /\ fclosed \in [Fronts -> BOOLEAN] /\ fconnClosed \in [Fronts -> BOOLEAN]
    /\ done \in [Fronts -> BOOLEAN]
    /\ gotFrom \in [Fronts -> Fronts \cup {Nil}]
    /\ doubleDone \in BOOLEAN

\* NewBackendSession on both ends (closed 0, empty frontends, pingTime now),
\* AddSession by the manager, then handleBackendResponse (which starts Ping)
\* and Serve (which starts CheckPing).
\* NewFrontendSession for each client: id 0, no backend, not closed, and
\* a fresh done channel.
InitFront ==
    /\ fpc = [f \in Fronts |-> "new"]
    /\ fid = [f \in Fronts |-> 0]
    /\ fbackend = [f \in Fronts |-> FALSE]
    /\ fclosed = [f \in Fronts |-> FALSE]
    /\ fconnClosed = [f \in Fronts |-> FALSE]
    /\ done = [f \in Fronts |-> FALSE]

Init ==
    /\ frontends = [i \in Ids |-> Nil]
    /\ idCounter = 0
    /\ closed = FALSE /\ sigClose = FALSE /\ registered = TRUE
    /\ readerPc = "loop" /\ pingerPc = "run"
    /\ fwd = {}
    /\ aClosed = FALSE /\ sClosed = FALSE /\ broken = FALSE
    /\ toServer = <<>> /\ toAgent = <<>>
    /\ handlers = {} /\ pinged = TRUE /\ checkerPc = "run"
    /\ InitFront
    /\ gotFrom = [f \in Fronts |-> Nil]
    /\ doubleDone = FALSE

-----------------------------------------------------------------------------
(* BaseConn.Write on either end: net.Conn.Write with a 10 s deadline.      *)
(* It blocks while the buffers are full, and fails once the deadline       *)
(* passes; on a closed or broken connection it fails; after the peer       *)
(* closed, a write may still succeed and its data is lost.                 *)

Open == ~aClosed /\ ~sClosed /\ ~broken

\* Mutant: the write never blocks on full buffers.
SentToServerUnbounded(p) ==
    /\ Open
    /\ toServer' = Append(toServer, p)

SentToServer(p) ==
    /\ Open /\ Len(toServer) < LinkCap
    /\ toServer' = Append(toServer, p)
LostToServer == ~aClosed /\ ~broken /\ sClosed /\ UNCHANGED toServer
WriteToServerFails ==
    /\ aClosed \/ broken \/ sClosed \/ Len(toServer) >= LinkCap
    /\ UNCHANGED toServer

SentToAgent(r) ==
    /\ Open /\ Len(toAgent) < LinkCap
    /\ toAgent' = Append(toAgent, r)
LostToAgent == ~sClosed /\ ~broken /\ aClosed /\ UNCHANGED toAgent
WriteToAgentFails ==
    /\ sClosed \/ broken \/ aClosed \/ Len(toAgent) >= LinkCap
    /\ UNCHANGED toAgent


-----------------------------------------------------------------------------
(* B's frontends table, under B.lock, and the frontend's flags.            *)

GetFrontendSession(id) == frontends[id]
AddFrontendSession(f) == frontends' = [frontends EXCEPT ![fid[f]] = f]
DelFrontendSession(id) == frontends' = [frontends EXCEPT ![id] = Nil]
IsClosed(f) == fclosed[f]
DoneResponse(f) == done' = [done EXCEPT ![f] = TRUE]

\* ReadRequest: a new request buffer filled with the next packet of the
\* stream q (one whole packet; partial reads are not modelled).
ReadRequest(q) == q' = Tail(q)

-----------------------------------------------------------------------------
(* FrontendSession, driven by its client goroutine.  The tunnelled client  *)
(* flow itself (bind, send the request, wait, unbind, close) is not in the *)
(* sources; it is spec 4.13(2).  Each call it makes is the code's.         *)

\* Mutant: the id is taken from the counter without the atomic increment.
BindIdStale(f) ==
    /\ fpc[f] = "new"
    /\ ~fbackend[f]
    /\ fid' = [fid EXCEPT ![f] = 100 + idCounter + 1]
    /\ fbackend' = [fbackend EXCEPT ![f] = TRUE]
    /\ fpc' = [fpc EXCEPT ![f] = "binding"]
    /\ UNCHANGED <<agentVars, linkVars, serverVars, fclosed, fconnClosed,
                   done, gotFrom, doubleDone>>

\* BindBackendSession, up to AddFrontendSession: backend == nil, so
\* id = B.NewFrontendSessionID() and backend = B.
BindId(f) ==
    /\ fpc[f] = "new"
    /\ ~fbackend[f]
    /\ idCounter' = idCounter + 1
    /\ fid' = [fid EXCEPT ![f] = 100 + idCounter + 1]
    /\ fbackend' = [fbackend EXCEPT ![f] = TRUE]
    /\ fpc' = [fpc EXCEPT ![f] = "binding"]
    /\ UNCHANGED <<frontends, closed, sigClose, readerPc, pingerPc, registered,
                   fwd, linkVars, serverVars, fclosed, fconnClosed, done,
                   gotFrom, doubleDone>>

\* B.AddFrontendSession(this): frontends[id] = this under B.lock.  Nothing
\* checks that B is open.
BindAdd(f) ==
    /\ fpc[f] = "binding"
    /\ AddFrontendSession(f)
    /\ fpc' = [fpc EXCEPT ![f] = "bound"]
    /\ UNCHANGED <<idCounter, closed, sigClose, readerPc, pingerPc, registered,
                   fwd, linkVars, serverVars, fid, fbackend, fclosed,
                   fconnClosed, done, gotFrom, doubleDone>>

\* The request, stamped with the frontend's connID, is written on B's
\* conn (B.Write); a failed write leaves the client to time out.
ClientSend(f) ==
    /\ fpc[f] = "bound"
    /\ \/ SentToServer([kind |-> "req", cid |-> fid[f], from |-> f])
       \/ LostToServer
       \/ WriteToServerFails
    /\ fpc' = [fpc EXCEPT ![f] = "wait"]
    /\ UNCHANGED <<agentVars, aClosed, sClosed, broken, toAgent, serverVars,
                   fid, fbackend, fclosed, fconnClosed, done, gotFrom,
                   doubleDone>>

\* WaitResponse: select on <-done ...
WaitDone(f) ==
    /\ fpc[f] = "wait"
    /\ done[f]
    /\ fpc' = [fpc EXCEPT ![f] = "unbind"]
    /\ UNCHANGED <<agentVars, linkVars, serverVars, fid, fbackend, fclosed,
                   fconnClosed, done, gotFrom, doubleDone>>

\* Mutant: WaitResponse without its time.After case.
WaitTimeoutNever(f) == FALSE

\* ... or <-time.After(10 s).
WaitTimeout(f) ==
    /\ fpc[f] = "wait"
    /\ fpc' = [fpc EXCEPT ![f] = "unbind"]
    /\ UNCHANGED <<agentVars, linkVars, serverVars, fid, fbackend, fclosed,
                   fconnClosed, done, gotFrom, doubleDone>>

\* UnBindBackendSession: backend != nil, so B.DelFrontendSession(id)
\* (delete under B.lock, whatever the entry holds), then id, backend = 0, nil.
UnBind(f) ==
    /\ fpc[f] = "unbind"
    /\ fbackend[f]
    /\ DelFrontendSession(fid[f])
    /\ fid' = [fid EXCEPT ![f] = 0]
    /\ fbackend' = [fbackend EXCEPT ![f] = FALSE]
    /\ fpc' = [fpc EXCEPT ![f] = "close"]
    /\ UNCHANGED <<idCounter, closed, sigClose, readerPc, pingerPc, registered,
                   fwd, linkVars, serverVars, fclosed, fconnClosed, done,
                   gotFrom, doubleDone>>

\* FrontendSession.Close: CAS closed 0 -> 1, then conn.Close and buffer.Free.
FrontClose(f) ==
    /\ fpc[f] = "close"
    /\ fclosed' = [fclosed EXCEPT ![f] = TRUE]
    /\ fconnClosed' = [fconnClosed EXCEPT ![f] = TRUE]
    /\ fpc' = [fpc EXCEPT ![f] = "end"]
    /\ UNCHANGED <<agentVars, linkVars, serverVars, fid, fbackend, done,
                   gotFrom, doubleDone>>


-----------------------------------------------------------------------------
(* Agent end.                                                              *)

\* handleBackendResponse: ReadRequest returns a packet; go forwardToFrontend.
ReaderRead ==
    /\ readerPc = "loop"
    /\ toAgent # <<>> /\ ~aClosed /\ ~broken
    /\ ReadRequest(toAgent)
    /\ fwd' = fwd \cup {[cid |-> Head(toAgent).cid, from |-> Head(toAgent).from,
                         to |-> Nil, pc |-> "lookup"]}
    /\ UNCHANGED <<frontends, idCounter, closed, sigClose, readerPc, pingerPc,
                   registered, aClosed, sClosed, broken, toServer, serverVars,
                   frontVars>>

\* Mutant: the loop exits without the deferred Close (as Serve's does).
ReaderErrorNoClose ==
    /\ readerPc = "loop"
    /\ aClosed \/ broken \/ (sClosed /\ toAgent = <<>>)
    /\ registered' = FALSE
    /\ readerPc' = "exit"
    /\ UNCHANGED <<frontends, idCounter, closed, sigClose, pingerPc, fwd,
                   linkVars, serverVars, frontVars>>

\* A read error that is not a timeout (the conn is closed here, broken, or
\* at EOF because the peer closed) breaks the loop.  The deferred calls run:
\* DelSession(id), then Close: CAS closed 0 -> 1 and close(sigClose).
ReaderError ==
    /\ readerPc = "loop"
    /\ aClosed \/ broken \/ (sClosed /\ toAgent = <<>>)
    /\ registered' = FALSE
    /\ closed' = TRUE
    /\ sigClose' = TRUE
    /\ readerPc' = IF closed THEN "exit" ELSE "closeAll"
    /\ UNCHANGED <<frontends, idCounter, pingerPc, fwd, linkVars, serverVars,
                   frontVars>>

\* closeAllFrontendSessions, without B.lock: the conn of every frontend in
\* the map is closed (the sessions' closed flags stay 0) ...
CloseAll ==
    /\ readerPc = "closeAll"
    /\ fconnClosed' = [f \in Fronts |->
                          fconnClosed[f] \/ \E i \in Ids : frontends[i] = f]
    /\ readerPc' = "reset"
    /\ UNCHANGED <<frontends, idCounter, closed, sigClose, pingerPc,
                   registered, fwd, linkVars, serverVars, fpc, fid, fbackend,
                   fclosed, done, gotFrom, doubleDone>>

\* ... and the map is replaced by an empty one.
CloseReset ==
    /\ readerPc = "reset"
    /\ frontends' = [i \in Ids |-> Nil]
    /\ readerPc' = "conn"
    /\ UNCHANGED <<idCounter, closed, sigClose, pingerPc, registered, fwd,
                   linkVars, serverVars, frontVars>>

\* Close ends with this.conn.Close().
CloseConn ==
    /\ readerPc = "conn"
    /\ aClosed' = TRUE
    /\ readerPc' = "exit"
    /\ UNCHANGED <<frontends, idCounter, closed, sigClose, pingerPc,
                   registered, fwd, sClosed, broken, toServer, toAgent,
                   serverVars, frontVars>>

\* Ping's goroutine: a ticker tick writes PingPacket.  select picks either
\* ready case, so a tick may still be taken after sigClose.
PingTick ==
    /\ pingerPc = "run"
    /\ SentToServer(PingPacket) \/ LostToServer
    /\ UNCHANGED <<agentVars, aClosed, sClosed, broken, toAgent, serverVars,
                   frontVars>>

\* A failed ping write closes the conn and ends the goroutine.
PingWriteError ==
    /\ pingerPc = "run"
    /\ WriteToServerFails
    /\ aClosed' = TRUE
    /\ pingerPc' = "exit"
    /\ UNCHANGED <<frontends, idCounter, closed, sigClose, readerPc,
                   registered, fwd, sClosed, broken, toAgent, serverVars,
                   frontVars>>

\* <-sigClose: the ticker is stopped and the goroutine returns.
PingStop ==
    /\ pingerPc = "run"
    /\ sigClose
    /\ pingerPc' = "exit"
    /\ UNCHANGED <<frontends, idCounter, closed, sigClose, readerPc,
                   registered, fwd, linkVars, serverVars, frontVars>>

\* forwardToFrontend: GetFrontendSession(connID) under B.lock's read side;
\* nil, or IsClosed(), returns (the request is freed).
FwdLookup(g) ==
    /\ g.pc = "lookup"
    /\ LET f == GetFrontendSession(g.cid) IN
         fwd' = (fwd \ {g}) \cup
                (IF f # Nil /\ ~IsClosed(f)
                 THEN {[g EXCEPT !.to = f, !.pc = "deliver"]} ELSE {})
    /\ UNCHANGED <<frontends, idCounter, closed, sigClose, readerPc, pingerPc,
                   registered, linkVars, serverVars, frontVars>>

\* SetConnID, Encrypt, frontendSess.Write (its error is only logged), then
\* DoneResponse: close(done).  Closing a closed channel panics; the
\* deferred recover swallows it.
FwdDeliver(g) ==
    /\ g.pc = "deliver"
    /\ fwd' = fwd \ {g}
    /\ DoneResponse(g.to)
    /\ gotFrom' = IF done[g.to] THEN gotFrom
                  ELSE [gotFrom EXCEPT ![g.to] = g.from]
    /\ doubleDone' = (doubleDone \/ done[g.to])
    /\ UNCHANGED <<frontends, idCounter, closed, sigClose, readerPc, pingerPc,
                   registered, linkVars, serverVars, fpc, fid, fbackend,
                   fclosed, fconnClosed>>


-----------------------------------------------------------------------------
(* Server end: AgentService.Serve, handleAgentRequest, CheckPing.          *)

\* UpdatePing: atomic.StoreInt64(&pingTime, now).
UpdatePing == pinged' = TRUE

\* The handleAgentRequest goroutine Serve starts for packet p.  For a cmd
\* packet it is handleAgentCmd, CmdPing: UpdatePing, one store of pingTime,
\* taken in the same step (a later store is a ping that arrived later); a
\* request waits in handlers for its Dispatch.
Handle(p) ==
    IF p.kind = "ping"
    THEN UpdatePing /\ UNCHANGED handlers
    ELSE handlers' = handlers \cup {p} /\ UNCHANGED pinged

\* Serve: ReadRequest returns a packet; go handleAgentRequest.
ServeRead ==
    /\ toServer # <<>> /\ ~sClosed /\ ~broken
    /\ ReadRequest(toServer)
    /\ Handle(Head(toServer))
    /\ UNCHANGED <<agentVars, aClosed, sClosed, broken, toAgent,
                   checkerPc, frontVars>>

\* Serve: a read error only frees the request; the loop has no exit, so
\* its deferred backendSess.Close never runs.
ServeReadError ==
    /\ sClosed \/ broken \/ (aClosed /\ toServer = <<>>)
    /\ UNCHANGED vars


\* handleAgentRequest of a request: router.Dispatch, result.Marshal, then
\* sess.Write of the response stamped with the request's connID.  A marshal
\* error, a failed write or one lost after the peer closed sends nothing.
HandleRequest(p) ==
    /\ p.kind = "req"
    /\ handlers' = handlers \ {p}
    /\ \/ SentToAgent([cid |-> p.cid, from |-> p.from])
       \/ UNCHANGED toAgent
    /\ UNCHANGED <<agentVars, aClosed, sClosed, broken, toServer, pinged,
                   checkerPc, frontVars>>

\* CheckPing's ticker (every minPingTime = 20 s): now - pingTime > 20 holds
\* exactly when no ping was handled since the previous tick.  The server
\* session's sigClose is closed only by Close, which Serve never reaches.
CheckTick ==
    /\ checkerPc = "run"
    /\ pinged
    /\ pinged' = FALSE
    /\ UNCHANGED <<agentVars, linkVars, handlers, checkerPc, frontVars>>

\* Ping timeout: this.conn.Close() (not Close) and the goroutine returns.
CheckTimeout ==
    /\ checkerPc = "run"
    /\ ~pinged
    /\ sClosed' = TRUE
    /\ checkerPc' = "exit"
    /\ UNCHANGED <<agentVars, aClosed, broken, toServer, toAgent, handlers,
                   pinged, frontVars>>

\* The network fails: data in flight is lost, every read and write errs.
NetBreak ==
    /\ ~broken
    /\ broken' = TRUE
    /\ toServer' = <<>> /\ toAgent' = <<>>
    /\ UNCHANGED <<agentVars, aClosed, sClosed, serverVars, frontVars>>

-----------------------------------------------------------------------------

Client(f) ==
    \/ BindId(f) \/ BindAdd(f) \/ ClientSend(f) \/ WaitDone(f)
    \/ WaitTimeout(f) \/ UnBind(f) \/ FrontClose(f)

Agent ==
    \/ ReaderRead \/ ReaderError \/ CloseAll \/ CloseReset \/ CloseConn
    \/ PingTick \/ PingWriteError \/ PingStop
    \/ \E g \in fwd : FwdLookup(g) \/ FwdDeliver(g)

Server ==
    \/ ServeRead \/ ServeReadError
    \/ \E p \in handlers : HandleRequest(p)
    \/ CheckTick \/ CheckTimeout

Next == (\E f \in Fronts : Client(f)) \/ Agent \/ Server \/ NetBreak

\* Every goroutine keeps running (Go's scheduler is preemptive), and timers
\* fire; the network failing is never forced.
Fairness ==
    /\ \A f \in Fronts : WF_vars(Client(f))
    /\ WF_vars(ReaderRead \/ ReaderError \/ CloseAll \/ CloseReset \/ CloseConn)
    /\ WF_vars(PingTick \/ PingWriteError \/ PingStop)
    /\ WF_vars(\E g \in fwd : FwdLookup(g) \/ FwdDeliver(g))
    /\ WF_vars(ServeRead)
    /\ WF_vars(\E p \in handlers : HandleRequest(p))
    /\ WF_vars(CheckTick \/ CheckTimeout)

Spec == Init /\ [][Next]_vars /\ Fairness

-----------------------------------------------------------------------------
(* Properties                                                              *)

\* forwardToFrontend finds the frontend by the connID the server echoed:
\* a frontend's WaitResponse is only ever released by the response to its
\* own request, however binds, unbinds, closes and late responses interleave.
NoMisdelivery == \A f \in Fronts : gotFrom[f] \in {Nil, f}

\* DoneResponse is close(done) with no guard: it must never run twice on one
\* frontend (the second close panics, and the response is lost).
NoDoubleDone == ~doubleDone

\* Every client goroutine returns: WaitResponse's 10 s timer releases a
\* frontend whose response never comes (lost on a broken link, or dropped
\* because B closed), and nothing else blocks it.
ClientsFinish == <>(\A f \in Fronts : fpc[f] = "end")

\* Once the link is closed at either end or broken, B winds down: the
\* reader leaves its loop, DelSession unregisters B, Close runs, and the
\* pinger returns.
BackendWindsDown ==
    (aClosed \/ sClosed \/ broken)
        ~> (readerPc = "exit" /\ pingerPc = "exit" /\ ~registered /\ closed)

====
