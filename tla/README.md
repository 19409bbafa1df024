# TLA+ models of bgo

This directory holds TLA+ models of the concurrent parts of bgo
(`github.com/overtalk/bgo`), the TLC configurations that check them, and
`PROJECT.json`, which records for every model definition the Go lines it
translates, every TLC run, the mutants that show each property can fail, the
findings, and the hazards of the code.

Run a check from this directory:

    tlc -workers 2 -config MC_MemCache.cfg MC_MemCache

## 1. The system and its parts

bgo is a game-server framework. A frontend listener accepts clients. A
frontend session reads one packet and dispatches it through the router.
Either it answers locally, or it forwards the packet over a long-lived
backend session to another server, and the backend's reply loop writes the
answer back to the frontend session named by the packet's connID. The
framework also keeps in-memory caches: a TTL cache behind the game-token
module, and two copies of an LRU cache.

| #   | Component (spec.md) | Source | State it keeps | Operations |
|-----|---------------------|--------|----------------|------------|
| C1  | Slab buffer pool | not in src/ (external package) | free lists | Alloc, Free |
| C2  | Buffered-reader pool | not in src/ | pooled readers | Get, Free |
| C3  | Packet codecs | pkg/net/packet, pkg/packet, pkg/service/zd/packet.go | none (byte slices) | getters and setters, XOR |
| C4  | Packet buffer | 3rdparty/service/zd/packet/buffer.go, pkg/net/packet/packetbuffer.go, pkg/packet/buffer.go | data, maxSize, pool | ReadFrom, alloc, Bytes, Free, Clone |
| C5  | Limit listener | 3rdparty/service/zd/listener.go | semaphore, done channel, conn closed flags | acquire, Accept, release, Close |
| C6  | Net service host | pkg/service/zd/server.go, 3rdparty/service/tcp/tcp.go | services, wait groups, listeners | Start, Serve loop with back-off, stopListeners, waitListeners |
| C7  | LRU cache | 3rdparty/lrucache, internal/lrucache/src | list, table, size, capacity | Get, Peek, Set, SetWithTTL, SetIfAbsent, SetExpired, Delete, Clear, SetCapacity, Keys, Items |
| C7' | TTL cache | pkg/memcache/cache.go, 3rdparty/auth/cache.go | list, table, entry expiry and access time | Get, Set, SetExpiration, Delete, Clear, Size, ExpiredKeys |
| C8  | Token and nonce engine | internal/token/src, 3rdparty/auth/token.go, nonce.go | GameToken objects in the TTL cache; nonce lists | SetToken, GetToken, Verify, KickOut, DelToken, SetTokenTTL, the Ticker sweep; SetNonce, Nonce.Set |
| C9  | Frontend session | pkg/service/tunnel/frontend_session.go | id, backend, closed, done channel | Bind, UnBind, WaitResponse, DoneResponse, Close |
| C10 | Backend session | pkg/service/tunnel/backend_session.go, tunnel.go | closed, sigClose, pingTime, frontends map, idCounter, wait group | Ping and CheckPing loops, reader loop, forwardToFrontend, Close |
| C11 | Backend manager | pkg/service/tunnel/backend_mgr.go | services map, connStates, buffedHosts | TryGetSession, connectHosts, dialBackend, AddSession, DelSession, tryAgain |
| C12 | Router | pkg/service/route | modules, actions, timeouter | Dispatch with a timeout race |
| C13 | Session services | pkg/service/session | per connection | AgentService.Serve, LocalAgentService.Serve |
| C14 | Module host | core/core.go, core/module.go, app/app.go | module list, config path, notify channel | RegisterModule, SetConfigPath, Start (loadConfig, init, loadRelatedModules, preTicker), the per-module Ticker goroutines, Stop (preShut, shut) |

How they interact:
- C6 accepts through C5.
- C13 reads a packet through C4 and dispatches it through C12.
- The tunnel side binds C9 to C10, which C11 dials and keeps.
- C8 lives on C7'. Every cache is guarded by one mutex.
- The core module host runs each module's `Ticker` in its own goroutine. For the token module, that goroutine runs the expiry sweep.

### Hard behaviours, by component

- **C7' and C8, the token cache.**
  - `Cache.Get` releases `c.mu` before it reads `e.value` (cache.go:59-60).
  - `replaceOldItem` may re-key that same element to another user in between (cache.go:154-170).
  - `GameToken.AccessCount++` and `Kicked = true` are unsynchronised (api.go:69, 98).
  - `ExpiredKeys` loops on `c.list.Back()` without the lock and never advances (cache.go:174-194).
  - `SetExpiration(ttl = 0)` stores `now + 0`. Only a positive clock makes that "expired".
  - The auth copy uses `ttl > 0`, so there ttl 0 means "never".
- **C8, the nonce set.** `SetNonce` is a Get followed by a Set, with no lock across the two. `Nonce.Set` is unsynchronised.
- **C7, the LRU cache.**
  - The tail is reused when the cache is full or the tail is expired.
  - `checkCapacity` calls `Back()` on a possibly empty list.
  - The TTL-only copy's `size` accounting is inconsistent (spec 9).
- **C10 and C11, backend session and manager.**
  - `Close` is a CAS.
  - `closeAllFrontendSessions` is unlocked and replaces the map.
  - `NewFrontendSessionID` wraps at 2^32 (comment at backend_session.go:232).
  - Reconnect pacing uses the table `[1,1,2,2,2,4,4,8]`.
  - `DelSession` removes the conn state keyed by `RemoteAddr()`, not by the host that was dialled.
  - `forwardToFrontend` checks `IsClosed` and then writes (a TOCTOU), and `DoneResponse` closes a channel that may already be closed.
- **C12, the router.** An action racing a timer writes into a result channel of capacity 1.
- **C5 and C6, the listeners.** Permits are counted, `Stop` only sets a deadline, and the accept loop backs off on temporary errors.

## 2. Modules

| Module | Models | State (VARIABLES) | Actions |
|--------|--------|-------------------|---------|
| `ExpiringMap` | What a TTL cache promises: key to (value, expiry); an entry whose expiry has passed is gone. This is the abstract specification. | store, now | Put, Remove, Clear, Tick |
| `MemCache` | pkg/memcache/cache.go | lst (c.list), table (c.table), ent (the `*entry` of each element), now | SetUpdate, SetReuseTail, SetAddNew (together `Set`), SetExpiration, Delete, Clear, GetTouch, Tick |
| `LRUSpec` | What a count-bounded LRU promises without expiry: a sequence of (key, value) pairs, most recently used first, cut to the capacity. This is the abstract specification. | items, cap | Touch, Put, Drop, Clear, Resize |
| `LRUCache` | 3rdparty/lrucache (lru_cache.go, item.go) | lst, table, ent, size, capacity, ttl (`lru.ttl`), now, panicked; per Get/Peek caller pc, gkey, gelem; ghost last | Set, SetWithTTL, SetIfAbsent (all through `Store` = replaceOldItem or addNew + `CheckCapacity`), SetExpired, Delete, Clear, SetCapacity, GetLock, PeekLock, GetRead, Tick |
| `LrucacheModule` | internal/lrucache/src: the same code as a core module | LRUCache's, through `L == INSTANCE LRUCache` | Init (defaultCapacity, defaultTTL), SetDefaultTTL, and LRUCache's actions |
| `TokenModule` | internal/token/src over `MemCache` (`C == INSTANCE MemCache`), with goroutines `Procs` and the Ticker goroutine | the cache's variables; tok (the `*GameToken` objects); per-goroutine pc, usr, arg, elem, quick, obj, cnt; ghosts last, revoked, revokedAtGet, incs; tickPc, swept | SetToken, DelToken, SetTokenTTL, GetTokenStart/GetTokenRead, VerifyStart/VerifyRead/VerifyInc, KickOutStart/KickOutRead, TickerStart, SweepStep, Tick |
| `AuthCache` | 3rdparty/auth/cache.go: pkg/memcache's cache with deferred unlocks, through `M == INSTANCE MemCache` | MemCache's | GetTouch, SetUpdate, SetReuseTail, SetAddNew (`Set`), SetExpiration (ttl <= 0: never), Delete, Clear, Tick |
| `AuthNonce` | 3rdparty/auth/nonce.go over `AuthCache` | the cache's variables; nonces (the slice of each `*Nonce`); per goroutine pc, usr, arg, obj; ghosts last, count, recent | SetNonceGet, NonceSetScan, NonceSetAppend, Create, Tick |
| `Tunnel` | pkg/service/tunnel (backend_session.go, frontend_session.go, tunnel.go) and AgentService of pkg/service/session, over one link (BaseConn of pkg/net/conn) | agent end: frontends, idCounter, closed, sigClose, readerPc, pingerPc, registered, fwd (the forwardToFrontend goroutines); link: aClosed, sClosed, broken, toServer, toAgent; server end: handlers, pinged, checkerPc; per frontend fpc, fid, fbackend, fclosed, fconnClosed, done; ghosts gotFrom, doubleDone | BindId, BindAdd, ClientSend, WaitDone, WaitTimeout, UnBind, FrontClose; ReaderRead, ReaderError, CloseAll, CloseReset, CloseConn, PingTick, PingWriteError, PingStop, FwdLookup, FwdDeliver; ServeRead, ServeReadError, HandleRequest, CheckTick, CheckTimeout; NetBreak |
| `NetService` | One frontend TCP service: NetServer/NetService (pkg/service/zd/server.go), NetListener and limitListener (3rdparty/service/zd/listener.go), tcp.Service.Serve (3rdparty/service/tcp/tcp.go), LocalAgentService.Serve (pkg/service/session) and Router.Dispatch (pkg/service/route) | timeouter, readSynced (fixed in Init); srvPc, deadline, lClosed, nlClosed, wg, waiter, exitChan; sem, loopPc, acquired, held, tempDelay, ghost tempErrs; per connection cst, apc, res | Connect; Acquire, AcceptConn, AddConn, AcceptTimeout, AcceptError; Read, Dispatch, ActionReturn, ActionPanic, SelectResult, SelectTimeout, CloseConn, Release; Stop, WaitListeners, WaiterDone, WaitExit, WaitTimeout, CloseListener |
| `ModuleHost` | The lifecycle of core.ModuleManager as `app.Run` drives it (core/core.go, core/module.go, app/app.go), with the hooks of the mysql, redis and pprof modules and a user module | pc (where `app.Run` is), cfg and cfgPos (the config file's module list and the entry being loaded), todo (the modules the current pass has not visited), ok and called (per module, the hooks that succeeded and that were called), serving (pprof's server goroutine), tpc (per module, its Ticker goroutine), sigChan (the notify channel), ghost asked | ShowVersion, SetConfigPath, LoadConfigStep, StartHook, NextPass, SpawnTickers, Receive, PreShutStep, ShutStep, TickerCall, SendSignal, Signal, ServeFail |
| `PacketBuffer` | The agent end of a tunnel link reading length-prefixed frames: handleBackendResponse (tunnel.go) over BaseConn.ReadPacket (pkg/net/conn) and basePacketBuffer.ReadFrom and alloc (3rdparty/service/zd/packet.go) | server end: sent (the bytes written), peerClosed, ghost pkts; the socket: arrived; the reader: pos, rpc, sizeHeader, data, forwarded | Write, PeerClose, Arrive; ReadSizeByte, AllocBody, ReadBodyByte, Forward, ReadTimeout, ReadEOF |
| `BackendMgr` | pkg/service/tunnel/backend_mgr.go with `backendConnState` (backend_session.go) and the deferred `DelSession` of `handleBackendResponse` (tunnel.go) | now (100 ms ticks); services, connStates; per `*backendConnState` tryNum, lastTry; buffed (`buffedHosts`); the dialer's dpc, ditem, dstate; per caller cpc, cid, trys, wake; per session rpc, sid; ghosts lastAt, fails | Call, CallerCheck, CallerWake; Recv, DialCheck, TryAgain, DialFail, DialOk, Reset; ReaderExit, DelServices, DelState; Tick |

### How the models follow the code

**MemCache.**
- Each exported method holds `c.mu` for its whole body, so each is one action.
- `Set` is the disjunction of its three outcomes:
  - `updateInplace` (SetUpdate);
  - `replaceOldItem` reusing an expired tail (SetReuseTail);
  - `addNew` (SetAddNew).

  The guard that separates the last two is `TailReusable`, from cache.go:151-162.
- Elements have identities (`Elems`), because the reused tail is the same element that a goroutine in `Get` may still hold.
- The clock is Unix seconds and starts at 1.
  - `now.Unix()` is never 0 in practice.
  - The model needs a positive clock because `SetExpiration(ttl = 0)` writes `now + 0` into `expireTime`, and there 0 means "never".
- `Size` has no effect on state and is not an action. `ExpiredKeys` is modelled in TokenModule, the only place that calls it.

**TokenModule.** `Cache.Get` is split into two steps: the locked part, and the read of `e.value` after the unlock. So each API that calls it is two steps:

| Call | First step (locked) | Second step (after the unlock) |
|------|---------------------|--------------------------------|
| GetToken | GetTokenStart | GetTokenRead: the `Kicked` check |
| Verify | VerifyStart | VerifyRead: the token comparison and the load of `AccessCount`, then VerifyInc: the store of the load plus one, and the `> 5 && delta < 60 ms` test |
| KickOut | KickOutStart | KickOutRead: `t.Kicked = true` |

- A miss returns in the first step (`GetMiss`).
- `Get`'s `delta` is a `time.Duration` but the clock is in seconds:
  - accesses in different seconds are at least 60 ms apart;
  - in the same second the model lets either answer happen.
- A new element or `*GameToken` is one that nothing refers to (`FreeElems`, `FreeToks`). This is the garbage collector's guarantee.
- The `hour == 4` override in SetToken only picks another positive ttl, and is not modelled.
- The Ticker runs only when `SetExpiredCallback` was called (`CallbackSet`). This is init.go:31-33: otherwise `Ticker` returns `Stop` for good.
- Each iteration of the `ExpiredKeys` loop is one `SweepStep`.
- The callback itself is application code. Its effect is covered by the goroutines `Procs`, which may call any API at any time.

**LRUCache.**
- Every method holds `lru.mu` for its whole body and is one action; `Get` unlocks before `return e.value` (lru_cache.go:71-72), so it is two steps of a goroutine in `Procs`: `GetLock` and `GetRead`. `Peek` is the same (see below).
- `Store` is `if !replaceOldItem { addNew }`: `ReplaceExisting` (key present), `ReplaceTail` (the back element is re-keyed when `TailReplaceable`: the list is non-empty and `!(size < capacity && !expired)`), or `AddNew`, which pushes, counts and runs `checkCapacity`.
- `CheckCapacity` is a RECURSIVE operator: one call per loop iteration, evicting the back element. On an empty list `list.Back()` is nil and the method panics; `panicked` then disables every locked method, since `Unlock` is not deferred and the mutex stays held.
- `entry.expired` is sliding: `ttl > 0 && now - assessTime >= ttl`. Time is in ticks of the clock's resolution, so `SetExpired`'s 1 ns ttl is one tick: the entry is dead from the next tick on.
- `Peek` takes the same two steps as `Get`: `PeekLock` is the locked lookup and expiry test, without the access-time refresh and the move to front, and `GetRead` is the read of `e.value` after the unlock (lru_cache.go:88-89).
- IsExisted, Stats, Keys, Items and RandomItems hold the lock, change nothing and return only what the lock protects. They are not actions.

**LrucacheModule.** api.go repeats lru_cache.go line for line; each of its actions is the `LRUCache` one. Its own parts are `Init` (defaultCapacity, defaultTTL) and `SetDefaultTTL`, which writes `lru.ttl` without the lock: a one-word write, ordered before or after each locked method.

**AuthCache.** Every method of the auth copy defers its unlock, so `Get` reads `e.value` under the lock and is one step. Otherwise it is MemCache's code, with one difference: `SetExpiration` treats `ttl <= 0` as "never" (MemCache: `ttl < 0`).

**AuthNonce.** `SetNonce` is a cache `Get` and then one of two branches, each a separate critical section or no lock at all:
- `SetNonceGet`: the locked `Get(userID, false)`, which changes nothing. A hit remembers the `*Nonce` in `obj` and goes to "scan"; a miss (absent or expired) goes to "create".
- `NonceSetScan`: `Nonce.Set`'s loop. A nonce already in the window returns false.
- `NonceSetAppend`: the in-place compaction (`Compacted`: at `len >= maxNonceSize` the last three move to the front) and the `append`.
- `Create`: the cache `Set` of a new `*Nonce` holding only this nonce.

A `*Nonce` is an identity in `NonceObjs`, and a new one is one that nothing refers to. The ghost `recent` keeps the last accepted nonces of each `*Nonce`, and `count` keeps how many were accepted, reduced modulo the cycle of the window length. `Retained(count)` is the reference definition of the window's length.

**ModuleHost.** `app.Run` parses the flags (`-v` prints the version and exits), sets the config path, calls `Start`, starts the Ticker goroutines, waits on the notify channel and runs the deferred `Stop`. `log.Fatal` and `panic` end the process, so `pc` has three end states, `Gone`.
- `LoadConfigStep` is one entry of `loadConfig`'s loop over the config file's module list: an unregistered name is a fatal error, and otherwise the module's `LoadConfig` runs.
- `init`, `loadRelatedModules` and `preTicker` range over the module map, so the order is Go's random map order: `StartHook(m)` picks any module still in `todo`. An error ends `Start`, which `app.Run` turns into `log.Fatal`. `NextPass` moves to the next entry of `funcMap`.
- `MayFail(m)` says which hooks of a module can return an error: the mysql and redis modules' `LoadConfig` and `PreTicker` (opening and pinging the client), any hook but `Ticker` of a user module, none of the defaults. A mysql or redis module whose `PreTicker` runs without a loaded config dereferences a nil config and panics.
- pprof's `PreTicker` starts the HTTP server goroutine (`serving`); its failure calls `log.Fatal` at any later time (`ServeFail`).
- `TickerCall(m)` is one iteration of a module's Ticker goroutine: `Continue` sleeps and loops, `Stop` returns, and the shutdown flag sends `SIGINT` on the notify channel (`SendSignal`), which has capacity 1 and blocks when full. `Signal` is the OS delivering `SIGINT` or `SIGTERM` to the same channel.
- `Receive` leaves the wait. `Stop` prints an error of `preShut` and goes on to `shut`; the model's `PreShutStep` and `ShutStep` are its two passes, each over the map in random order.

`RegisterModule` runs before `app.Run` and is the constant `Mods`. `DeregisterModule` is called by nothing in the repository and is not an action.

**PacketBuffer.** The stream is a sequence of bytes, and `Frame(p)` is the 2-byte big-endian size followed by the payload. The server end writes whole frames. TCP may deliver any prefix of what was written (`Arrive`, one byte at a time).
- `ReadSizeByte` and `ReadBodyByte` are single bytes taken by ReadFrom's two `io.ReadFull` calls. `AllocBody` is `alloc(2 + size)`: above `maxSize` no buffer is made, and ReadFrom fails with an error that is not a timeout, so the loop breaks.
- `ReadTimeout` is the 10 s read deadline that `ReadPacket` sets, firing while the reader waits for a byte that has not arrived. `io.ReadFull` returns the timeout after it has consumed the bytes that did arrive. The loop frees the request and, since `IsNetTimeout` holds, reads a new one from the current stream position, so the consumed bytes are lost.
- `ReadEOF` is the peer closed with everything read: EOF, or ErrUnexpectedEOF inside a frame, breaks the loop.
- `Forward` is `go forwardToFrontend` with the payload. The ghost `pkts` records the payloads written, so `FramesIntact` can compare.

The payload's own layout (connID, protocol ids) is left out: a frame cut from the wrong bytes is already a wrong packet.

## 3. Properties and runs

| Run | Config | Expect | Properties | What it shows |
|-----|--------|--------|------------|---------------|
| tok_ticker | MC_TokenTicker.cfg | pass | TypeOK, RevokedNeverVerifies, CacheIndexConsistent, ImplementsExpiringMap | With a goroutine interleaving GetToken, Verify and KickOut with every cache-level call, and the Ticker's unlocked sweep running, a token removed by DelToken or SetTokenExpired is never verified afterwards. The cache's list and index never disagree. Every behaviour of the cache underneath, including tail reuse and SetExpiration, is a behaviour of `ExpiringMap`: a live entry never disappears or changes except by an operation on its own key or by expiring. |
| lru_safety | MC_LRUCache.cfg | pass | TypeOK, SizeIsLength, IndexConsistent, WithinCapacity, NoEvictionBelowCapacity | With sliding TTLs, SetExpired, SetCapacity down to 0 and a concurrent Get: `size` always equals the list length, list and index agree, the list never exceeds a non-negative capacity, and no step that keeps the capacity and does not shrink the cache drops a live entry while there is room. |
| lru_refines | MC_LRURefines.cfg | pass | ImplementsLRU | Without expiry (ttls 0, no SetExpired) the list is always the pair sequence of `LRUSpec`: tail reuse and `checkCapacity` evict exactly the least recently used entries (spec 8, scenario 1). |
| nonce_safety | MC_AuthNonce.cfg | pass | TypeOK, WindowIsRecent | With one caller: after any number of accepted nonces, through every in-place compaction, cache expiry and element reuse, each window holds exactly the most recent accepted nonces in order, its length cycling through 4..maxNonceSize (spec 8, scenario 4). |
| tunnel | MC_Tunnel.cfg | pass | TypeOK, NoMisdelivery, ClientsFinish, BackendWindsDown | Two frontends share one link that may close at either end or break, with pings, ping timeouts, late and lost responses. A response only ever releases the frontend whose request it answers, even after that id was unbound. Every client goroutine returns, through its 10 s timer if need be. Once the link fails, B's reader leaves its loop, B is unregistered and closed, and the pinger returns. |
| netsvc | MC_NetService.cfg | pass | TypeOK, ConnAccounting, BackoffMatchesReference, HandlersFinish, ActionsFinish, ServeLoopExits | Two clients against one service with `MaxConn` 1, with a router timeouter or without, readSynced or not, through Stop, waitListeners and CloseListener in any order. The permit count is always the number of connections that hold one plus Accept's own, and the wait group always counts the accepted, unclosed ones. After k temporary Accept errors Serve sleeps `DelayAfter(k)`. Every accepted connection is closed and returns its permit, and every action goroutine ends, even one that answers after the timeout. After Stop the accept loop keeps failing with temporary timeouts and backing off. Once `CloseListener` has run, the loop ends, even when a connection still holds every permit, because each failed Accept gave its permit back. |
| netsvc_drain | MC_NetServiceDrain.cfg | violation | DrainedOnExit | `waitListeners` can declare the server drained with a connection in hand. The kernel `Accept` returns a connection, Stop and waitListeners run, `wg.Wait()` sees 0 and `exitChan` closes, and only then does `addConn` count the connection, which is then served. |
| bmgr | MC_BackendMgr.cfg | pass | TypeOK, OneSessionPerId | One caller of TryGetSession for a server id with a host and one without, the dialer and two sessions' readers, over 3 s of 100 ms ticks. `DelSession`'s `RemoteAddr()` does not name the dialled host here (an address spelt differently from the configured host string). A session whose reader has not yet run `DelSession` is always the one registered for its id. |
| host | MC_ModuleHost.cfg | pass | TypeOK, LifecycleIsPhased, ShutdownLeadsToExit | Four modules (mysql, redis, pprof, a user module) and three config files, one naming an unregistered module, with hook failures, OS signals and pprof's server failing at any time. A hook of a pass is called only once every module completed the previous pass, `Init` only after every configured module loaded its config, and `PreShut`/`Shut` only after a complete `PreTicker` pass. Once a Ticker asks for shutdown, the process ends. |
| bmgr_pacing | MC_BackendMgrPacing.cfg | violation | PacingRespected | With `RemoteAddr()` equal to the host string, a redial can slip in between `DelSession`'s two critical sections. The session's reader deletes the id from `services`, the dialer redials on the old conn state and fails, and `delConnState` then drops the state with that failure. The next `dialBackend` makes a fresh state with `lastTryTime` 0 and dials in the same second. |
| frame_desync | MC_PacketBufferDesync.cfg | violation | FramesIntact | The agent's reader loses the frame boundary. The size header of a frame is read, and the read deadline fires before the payload has arrived. `handleBackendResponse` treats the timeout as harmless and reads a new frame, so it takes the payload's bytes as a size header. From then on every packet is cut from the wrong bytes. The deadline is 10 s, and a slow or congested link can reach it. |
| host_shut | MC_ModuleHostShut.cfg | violation | NoTickerAfterShut | Nothing stops the Ticker goroutines (core.go:95). While the deferred `Stop` runs `PreShut` and `Shut`, a module's `Ticker` can be called after its own `Shut`, against the lifecycle order of spec 5. |

Seven more divergences are stated as properties or recorded as hazards, but no run of the project keeps them. The configurations that show five of them are kept, so each can be reproduced:

- `TokenBelongsToUser` (TokenModule, `MC_TokenForeign.cfg`) fails: GetToken(u1) returns u2's token. `Get` unlocks, SetTokenExpired(u1) expires the entry, SetToken(u2) reuses the expired tail for u2, and the first `Get` then reads u2's value. Verify and KickOut have the same race.
- `NoReplayAccepted` (AuthNonce, `MC_AuthNonceRace.cfg`) fails. Two concurrent SetNonce(u, n) calls both miss in the `Get` and both run the cache `Set`: both return true, so the nonce is accepted twice. The same happens when both pass `Nonce.Set`'s unlocked scan.
- `NoFreeUnderAction` (NetService, `MC_NetServiceFree.cfg`) fails. Dispatch starts the action goroutine, the select takes the timeout branch, and Serve's deferred `frontendSess.Close` frees the packet buffer (frontend_session.go:62) while `Handle` still runs. The request's `Data` is a slice of that buffer (request.go:66), and the slab pool can hand the buffer to another connection. `handleAgentRequest`'s deferred `req.Free()` (session.go:43) does the same on the server end.

- `SweepTerminates` (TokenModule, `MC_TokenSweep.cfg`) fails. Once the list's tail is expired within the lookahead, `ExpiredKeys` re-reads the same tail forever, and the token module's Ticker goroutine never returns (spec 9, open question 3).
- `SetIfAbsentKeepsTTL` (LrucacheModule, `MC_LrucacheTTL.cfg`) fails in three steps: SetWithTTL(k, v, 0), SetDefaultTTL, SetIfAbsent(k, v). SetIfAbsent's comment says an existing value is not set, but on a live entry it overwrites the entry's ttl with the default, so an entry stored never to expire then expires. Both copies of the LRU cache do this.

Three properties are stated in the modules but checked by no passing run, because in the instances where they hold they cannot fail whatever the code does:
- `NoReplayAccepted` (AuthNonce) with a single caller only restates `Nonce.Set`'s scan. The race it is about needs two callers (`MC_AuthNonceRace.cfg` above).
- `NoDoubleDone` (Tunnel) says `DoneResponse` never closes `done` twice. Each short-lived frontend sends one request under a fresh id, and the server answers each request once, so a second response for one connID never arises in the model.
- `PacingRespected` (BackendMgr) checks something only when `RemoteAddr()` names the dialled host, since otherwise no conn state is ever deleted. That case is the `bmgr_pacing` violation run.

In the remaining two, a single call shows each divergence. `KickedNeverVerifies` (TokenModule) fails because `CTokenModule.Verify` never reads `Kicked` (spec 8, scenario 3). `NoPanic` (LRUCache) fails on `SetCapacity(-1)`: `checkCapacity` empties the list and dereferences a nil `Back()` (spec 4.7). Both are listed as hazards in PROJECT.json.

**NetService.** The path of a frontend connection, and the graceful stop:

- **Accept loop.** `tcp.Service.Serve` over `limitListener.Accept` over `NetListener.Accept`: `Acquire` (`l.sem <- struct{}{}`, blocking at `MaxConn`), `AcceptConn` (the kernel Accept), `AddConn` (`addConn`, `tempDelay = 0`, `go connHandler`). The two failures are `AcceptTimeout`, the deadline `Stop` set, a temporary error that releases the permit and sleeps `NextDelay`, and `AcceptError`, the closed listener, which breaks the loop. limitListener's own `Close` is never called, so `acquire`'s `done` case never fires.
- **Handler.** `LocalAgentService.Serve`: `Read` is `ReadPacket` with `NetListenerConn.Read` (EOF when readSynced and the listener is closed) and the validity checks. `Dispatch` either answers at once (route disabled, module unknown, or `Handle` run inline), or, with a timeouter, starts the action goroutine and selects on its result and the timer (`SelectResult`, `SelectTimeout`). `Respond` is the marshal and write, and then the deferred `Close`. That is `CloseConn` (`delConn`, i.e. `wg.Done()`) followed by `Release` (`releaseOnce.Do(release)`).
- **Action goroutine.** Whether `Handle` panics is a property of the request. So `Dispatch` decides it, and the goroutine either sends into the channel of capacity 1 (`ActionReturn`) or recovers and sends nothing (`ActionPanic`).
- **Shutdown.** `Stop` is `stopListeners`. `WaitListeners` starts the goroutine that waits on the group, and `WaiterDone` is that goroutine closing `exitChan`. The caller leaves its select by `WaitExit` or by the exit timer (`WaitTimeout`). `CloseListener` is `NetService.CloseListener`.

`MaxConn > 0` is assumed, so `Start` wraps the listener in `LimitListener`. Only one service is modelled; services share only the wait group. `DelayAfter` is the reference definition of the backoff, and `tempErrs` counts the consecutive temporary errors, saturating at 9 once the delay is at its cap.

**Tunnel.** One agent-to-server link, its two BackendSessions and the frontends tunnelled over it. The actors:

- **Frontend client goroutine.** Each frontend's client goroutine takes `BindBackendSession` in two steps. `BindId` takes the id from the atomic counter and sets `backend`. `BindAdd` is `AddFrontendSession` under `B.lock`. Then comes the request write (`ClientSend`). This flow is spec 4.13(2) and is not in src/. After that come `WaitResponse` (`WaitDone` or the 10 s timer, `WaitTimeout`), `UnBindBackendSession` and `Close`.
- **Agent reader.** `handleBackendResponse` is `readerPc`. `ReaderRead` starts one `forwardToFrontend` per response. A read error that is not a timeout (the conn closed here, broken, or EOF once the peer closed and the stream is drained) is `ReaderError`. That step runs the deferred `DelSession` and `Close`'s CAS and `close(sigClose)`. Close's remaining steps are `CloseAll` (the unlocked loop closing each bound frontend's conn), `CloseReset` (the new empty map) and `CloseConn`.
- **Pinger.** A tick writes a ping. A failing write closes the conn. `sigClose` stops the pinger.
- **forwardToFrontend.** `FwdLookup` is `GetFrontendSession` and the `IsClosed` test. `FwdDeliver` is the write and `DoneResponse`. Each is a step of its own, because the frontend may unbind or close in between.
- **Server end.** `AgentService.Serve` reads a packet (`ServeRead`). A ping's `UpdatePing` is one atomic store, taken in the same step (`Handle`): a later store is the same as a ping that arrived later. A request starts `handleAgentRequest` (`HandleRequest`). Its `Dispatch` and `Marshal` either produce a response, which is written with the request's connID, or nothing. On a read error `Serve` only loops (`ServeReadError`, a step that changes nothing). So its deferred `Close` never runs.
- **CheckPing.** The model has no clock. `now - pingTime > 20` holds at a tick exactly when no ping was handled since the previous tick (`pinged`), since pings are sent every 18 s and checked every 20 s. A timeout closes only the conn.
- **The link.** It is a TCP stream: FIFO in each direction, at most `LinkCap` packets buffered before `Write` blocks, and a blocked write failing at its 10 s deadline. A write after the peer closed may succeed and be lost. `NetBreak` is the network failing, with in-flight data lost.

The package does not build as written: `zeroutil` is not imported, and `zd` has no `BaseConn`. The model reads `IsNetTimeout` as the net timeout test and `BaseConn` as pkg/net/conn's. The deferred `DelSession` calls the never-assigned `defaultBackendSessionMgr`. The model takes it to be the manager that dialled B, and keeps only that manager's entry for B (`registered`).

**BackendMgr.** The manager keeps one `BackendSession` per server id and dials the missing ones. Its actors:

- **Callers.** A goroutine calling `TryGetSession(id)` loops up to five times. `CallerCheck` is one iteration: `GetSession` returns a session, or `connectSIDAgain` finds no host and the call returns nil, or it asks for a dial and sleeps 100 ms << trys. Asking for a dial is `connectHostAgain`, a `select` with `default`, so a full channel drops the request. `CallerWake` ends the sleep.
- **The dialer.** `connectHosts` runs one goroutine. It takes `Recv` (the channel receive) and then `dialBackend` in steps:
  - `DialCheck`: `GetSession`, then `getConnState` and, if there is none, `newConnState`;
  - `TryAgain`: `tryAgain`, with `update` on success;
  - `DialFail` or `DialOk`: `NewSession` with `AddSession`;
  - `Reset`: `reset` and `go handleBackendResponse`.
  Each lock is a step of its own, because the readers' `DelSession` runs in between.
- **Readers.** A session's reader leaves its loop (`ReaderExit`). Its deferred `DelSession` takes two locks: `DelServices` deletes the id from `services`, and `DelState` is `delConnState(sess.conn.RemoteAddr())`. `BaseConn.RemoteAddr` is the peer's address string. Whether that names the dialled host is the constant `RemoteIsHost`.

`time.Now().Unix()` is `Unix(now)`, whole seconds of a clock counting 100 ms ticks. `tryNum` keeps `totalTryNum & 7`, which is all `getMinTryTime` reads. The ghosts `lastAt` and `fails` record, per host, the last attempt and the failures since the last success; `PacingRespected` compares against them.

As written, `NewBackendSessionMgr` returns a manager whose maps, channel and hosts are never made, and nothing assigns `defaultBackendSessionMgr` or starts `connectHosts`. So the first `AddSession` would panic. The model starts from the manager as it would be once these are made. The service ON/OFF flag is a set of atomics that nothing reads, and it is left out.

### Bounds and why they are enough

- **MemCache:**
  - 2 keys, 2 values, 2 elements;
  - ttl in {-1, 0, 1, 2};
  - clock 1..3.

  Two elements for two keys make the list full, so `Set` of an absent key must choose between reusing the tail and adding. The ttls cover "never", "at once" and expiry within the run. The clock lets every one of them expire.

  `MC_MemCache.cfg` checks the cache alone. tok_ticker checks its properties through `C == INSTANCE MemCache`, over a larger state space.
- **TokenModule:**
  - 2 users, 2 token strings (one match, one mismatch), 3 `*GameToken` objects, 2 elements, 1 API goroutine beside the Ticker goroutine;
  - ttl in {-1, 0, 1};
  - clock 1..2.

  Three objects let SetToken allocate a new token while two others are still referenced. `MaxAccess` bounds the number of increments a token may receive:
  - 1 in tok_ticker, so at most one Verify is in progress.
  With 2, two Verifies race on `AccessCount++` and lose an increment (`AccessCountExact`, api.go:69). That is a plain data race, which Go's race detector reports, and it has no run of its own.

  The "too quick" branch needs six increments. No run reaches it: the state space grows with every increment, and the throttle's arithmetic is a single comparison.
- **LRUCache:**
  - 3 keys, 2 values, 4 elements, 1 Get goroutine;
  - initial capacity 2, SetCapacity to 0, 1 or 2 default ttl 1, SetWithTTL ttl 0 or 2, clock 1..3.

  Three keys over a capacity of 2 force tail reuse and eviction; capacity 0 makes addNew evict the entry it just pushed. Four elements cover a full list, the element addNew pushes before checkCapacity, and one held by a Get. lru_refines has no expiry and a single tick, since time changes nothing there. LRUCache also states `GetReturnsOwnValue`. It fails at capacity 1 with the interleaving `MC_TokenForeign.cfg` shows for pkg/memcache: Get(k1) unlocks, Set(k2) re-keys the same element, and Get returns k2's value. Peek and SetIfAbsent read `e.value` after the unlock in the same way.
- **LrucacheModule:** as LRUCache, with defaultCapacity scaled from 10000 to 2 and defaultTTL from 20 minutes to 2 ticks.
- **AuthNonce:**
  - 1 user, 1 cache element, 2 `*Nonce` objects, ttl 2, clock 1..3;
  - nonce_safety: maxNonceSize 5 (20 in the code) and 6 nonce strings, 1 goroutine;
  - `MC_AuthNonceRace.cfg`: maxNonceSize 4, 2 nonce strings, 2 goroutines.

  Six strings are the fewest that let a full window of 5 accept a new nonce, so the compaction happens, and then happens again at length 5 after two more. This exercises both values of the length cycle 4..5. Two objects let a new `*Nonce` be created after the old entry expired, while the old one is still held. With 2 goroutines the state space grows past minutes, so the race configuration checks only the one property it refutes.
- **Tunnel:** 2 frontends, `LinkCap` 2.
  Two frontends are the fewest for a response to reach the wrong one, and ids 101 and 102 cover an id unbound while its response is still in flight. Two buffered packets per direction let both frontends' requests, or a ping and a request, be in flight at once; a full link lets a write block and fail, and lets a response wait in the link while its frontend times out, unbinds and closes. Every action of the model is taken. The run checks liveness, so it uses neither symmetry nor a view.
- **NetService:** 2 clients, `MaxConn` 1, result buffer 1, both values of `timeouter` and `readSynced`.
  Two clients against one permit make `Acquire` block while a connection is served. They also make a queued client wait through `Stop` and `CloseListener`. The backoff state saturates after 9 errors: every `AcceptTimeout` leads back to `Acquire`, so the loop reaches it.
  Three clients with `MaxConn` 2 were checked once against every property of the run. They pass, over 1.4 million distinct states, but the check takes 8.5 minutes, so the run keeps the smaller instance.
- **BackendMgr:** 1 caller, ids i1 (host h1) and i2 (no host), 2 sessions, 2 state objects, `buffedHosts` of capacity 1, clock 0..30 ticks (Unix seconds 1..4).
  One caller already fills the channel, and a second made the run take over ten minutes. Two sessions let a new session for i1 be dialled while the old one's reader is still in `DelSession`. Two state objects let `newConnState` make a fresh state while the dialer still holds the deleted one. Three seconds cover the 1 s and 2 s waits of the first three failures, and the first four sleeps of 100 ms << trys take 1.5 s, so a caller is on its last try within the bound (the fifth sleep, 1.6 s more, would end just after it).
- **ModuleHost:** 4 modules, one of each kind (mysql, redis, pprof, user), 5 names (one unregistered), 3 config lists: `<<mysql, redis, user>>`, `<<user, mysql>>` (redis never loads its config, so its `PreTicker` panics) and `<<mysql, stray>>` (a fatal error midway through the list).
  One module of each kind covers every row of `MayFail`, and the two failing kinds cover a pass cut short with other modules already done. The notify channel has capacity 1, as in app.go, so a second shutdown request blocks.
- **PacketBuffer:** payloads `<<1>>` and `<<0, 1>>`, `MaxSize` 6, 2 frames.
  A 2-byte payload can be cut between its bytes, so a desynchronised reader can take a payload's byte as part of a size header. Two frames are the fewest for the second one to be read from the wrong place. A `MaxSize` of 6 admits both real frames and refuses the large sizes a misread header yields, so `AllocBody`'s failing branch is taken too.
- **Symmetry and the view.**
  - Users, token strings, objects, elements and goroutines are model values, and no property names one. So the safety runs use symmetry.
  - `GarbageFreeView` leaves out the contents of unreachable elements and tokens. No action reads them before overwriting every field.
  - The liveness runs tunnel and netsvc use neither. BackendMgr's view also hides the wake time of a caller that is not sleeping.

### Fairness

`Spec` of TokenModule assumes weak fairness of the Ticker's loop step, and of every step of a call that is already in progress. Go's scheduler preempts goroutines and runs every runnable goroutine (Go 1.14+). No fairness is assumed for starting new calls, for the clock, or for other goroutines. So the sweep's non-termination in `MC_TokenSweep.cfg` does not depend on anyone else acting.

`Spec` of Tunnel assumes weak fairness of each frontend's client goroutine, B's reader (with Close's steps), the pinger, the forwardToFrontend goroutines, Serve's read, the request handlers and CheckPing. These are all goroutines, and their timers (the ticker, `time.After`, the 10 s write deadline) fire. `NetBreak` has no fairness: the network need not fail. `ServeReadError` has none either, since it changes nothing.

`Spec` of NetService assumes weak fairness of the accept loop, of each connection's handler, of each action goroutine, of the wait-group goroutine and of the goroutine in `waitListeners`. The timers (`time.After` in Dispatch and in waitListeners, the sleep of the backoff) fire. Clients dialling, `Stop` and `CloseListener` are calls from outside and have no fairness. The model is not checked for deadlock: an idle server blocks in `Accept`.

`Spec` of ModuleHost assumes weak fairness of the main goroutine (`Main`) and of each module's Ticker goroutine (`Ticking(m)`); a Ticker that asks to continue sleeps and is scheduled again. The OS signal and pprof's server failing are outside events and have no fairness. The run is not checked for deadlock, since the process ends in one of `Gone`.

`Spec` of BackendMgr has no fairness. Its properties are safety properties over a bounded clock, and its runs are not checked for deadlock: the dialer blocks on an empty channel, and the clock stops at its bound.

## 4. Plan

The order follows the importance of the behaviour:

1. `MemCache` with its abstract `ExpiringMap` (done).
2. `TokenModule` over it (done).
3. `AuthCache` and `AuthNonce` (done). `GameTokenCache` is not modelled (see Not modelled).
4. `LRUCache` with its abstract `LRUSpec`, and `LrucacheModule` (done).
5. `Tunnel`: BackendSession, FrontendSession and AgentService over one link (done). Still open: the map fault when `closeAllFrontendSessions` ranges over `frontends` while AddFrontendSession writes it, (LocalAgentService is in `NetService`).
6. `BackendMgr`: TryGetSession, the dial loop, `backendConnState.tryAgain` (spec 8, scenario 6), and `DelSession` removing conn state by `RemoteAddr()` (done).
7. `Router`: Dispatch's timeout race (done, in `NetService`).
8. `LimitListener` and `NetService`: permits and graceful stop (done).
9. `ModuleHost`: the module lifecycle of core, with the Ticker called after `Shut` (done).
10. `PacketBuffer`: length-prefixed framing over a stream with a read deadline (done). Still open: `alloc` reusing a stale buffer (spec 8, scenario 5) needs the slab pool, which is not in src/.

## 5. Not modelled

| Part | Why |
|------|-----|
| Logging (pkg/log, pkg/zaplog) | Pure I/O. |
| XML and config loading (utils/xml, core/config.go) | Pure I/O. |
| mysql, redis, OSS, pprof, gin, jwt wrappers | Thin wrappers over external clients with no state of their own. Only their module hooks, which can fail, are in `ModuleHost`. |
| Packet codecs (pkg/net/packet, pkg/service/zd/packet.go) | Fixed-offset byte access with no concurrency; a unit test reaches any layout mistake with one call. Only the length prefix, which the framing depends on, is in `PacketBuffer` (`Frame`, `SizeOf`). One observation from reading them: `SetDataFlag`/`GetDataFlag` of the basic packet use index 3, while the layout comment places the flag at index 2, and `SetDataLoad` copies the payload over index 3. |
| pkg/packet/buffer.go, pkg/net/packet/packetbuffer.go | Other copies of the packet buffer. The first is used only by its own test. The second is the same ReadFrom as the modelled zd one. |
| pkg/tcp/tcp.go | `TcpServer` is used by nothing in src/. Its accept loop duplicates the modelled one of 3rdparty/service/tcp. |
| `DeregisterModule` | Nothing in the repository calls it. |
| tools/generate-proto, protocol | Generated code and code generators. |
| C1 and C2 pools | Not under src/. |
| `GameTokenCache` (3rdparty/auth/token.go) | Nothing in the repository uses it, and it is the same token-over-TTL-cache pattern that `TokenModule` checks for internal/token. Where it differs, one call shows it: `Size` calls itself forever, and `KickOut` overwrites the token with a `kickout:` string that `GetToken` hides and `Verify` no longer matches. |
| Size, Stats, Keys, Items | Read-only queries, with no effect on state. They are modelled only where a property reads them. |
