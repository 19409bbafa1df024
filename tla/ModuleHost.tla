----------------------------- MODULE ModuleHost -----------------------------
(***************************************************************************)
(* core/core.go, driven by app.Start (app/app.go): the module host.        *)
(* Package init() functions register the modules; app.Start installs the  *)
(* signal channel (capacity 1), parses the core config, runs Start (the    *)
(* LoadConfig, Init, LoadRelatedModules and PreTicker passes, each         *)
(* stopping at the first error, after which log.Fatal exits), starts one   *)
(* Ticker goroutine per module and waits on the channel; the deferred Stop *)
(* then runs the PreShut and Shut passes and main returns.                 *)
(*                                                                         *)
(* moduleList is a Go map: each pass visits the modules in an arbitrary    *)
(* order (\E m \in todo).  The hooks are those of the demo server's        *)
(* modules (server/demo: pprof, mysql, redis) and of user modules written  *)
(* to the IModule contract; Kind says which a module is.                   *)
(***************************************************************************)
EXTENDS Integers, SequencesExt

CONSTANTS
    Mods,       \* registered module names
    Names,      \* names the XML <module name=...> entries may carry
    Kind,       \* [Mods -> {"pprof", "mysql", "redis", "user"}]
    CfgLists    \* cfg.Modules.Module lists the core config may hold

VARIABLES
    pc,         \* main goroutine: "flags", "loadConfig", "init", "related",
                \* "preTicker", "ticker", "wait", "preShut", "shut", or
                \* gone: "exit", "fatal" (log.Fatal) or "panic"
    cfg,        \* this.cfg.Modules.Module, as a sequence of names
    cfgPos,     \* loadConfig's position in cfg
    todo,       \* modules the current pass has not visited yet
    ok,         \* per module: the hooks that returned nil
    called,     \* per module: the hooks called
    serving,    \* modules whose PreTicker started a server goroutine
    tpc,        \* per module: its Ticker goroutine, "none", "call", "send"
                \* (blocked on notifyChan <- SIGINT) or "done"
    sigChan,    \* buffered signals in sigChan, 0..1
    asked       \* ghost: modules whose Ticker has returned Shutdown

vars == <<pc, cfg, cfgPos, todo, ok, called, serving, tpc, sigChan, asked>>

Hooks == {"LoadConfig", "Init", "LoadRelatedModules", "PreTicker", "Ticker",
          "PreShut", "Shut"}
Gone == {"exit", "fatal", "panic"}
Alive == pc \notin Gone

\* The pass each Start function makes, and the function Start calls next.
HookOf == [init |-> "Init", related |-> "LoadRelatedModules",
           preTicker |-> "PreTicker"]
After == [init |-> "related", related |-> "preTicker", preTicker |-> "ticker"]

TypeOK ==
    /\ pc \in {"flags", "loadConfig", "init", "related", "preTicker",
               "ticker", "wait", "preShut", "shut"} \cup Gone
    /\ cfg \in Seq(Names) /\ cfgPos \in Nat
    /\ todo \subseteq Mods /\ serving \subseteq Mods /\ asked \subseteq Mods
    /\ ok \in [Mods -> SUBSET Hooks] /\ called \in [Mods -> SUBSET Hooks]
    /\ tpc \in [Mods -> {"none", "call", "send", "done"}]
    /\ sigChan \in 0..1

-----------------------------------------------------------------------------
(* The modules' hooks                                                      *)

\* core.Module: every hook returns nil, Ticker returns (0, Stop).
DefaultTickerActs == {"Stop"}

\* CMysqlModule: LoadConfig is NewMysqlConn (the XML may not parse),
\* PreTicker is mysqlConn.Connect (sql.Open or Ping may fail).
MysqlMayFail == {"LoadConfig", "PreTicker"}

\* CRedisModule: LoadConfig is NewRedisClient, PreTicker is Connect (no
\* address, or the Ping fails).
RedisMayFail == {"LoadConfig", "PreTicker"}

\* A module whose PreTicker calls Connect on what LoadConfig stored: with
\* no LoadConfig (not listed in the config) that is a nil pointer.
UsesConfig(m) == Kind[m] \in {"mysql", "redis"}

\* CPProf.PreTicker starts ListenAndServe in a goroutine that calls
\* logpkg.Fatal when it returns an error.
Spawns(m) == Kind[m] = "pprof"

\* A user module (IModule): any hook may fail, Ticker returns any action.
UserMayFail == Hooks \ {"Ticker"}
UserTickerActs == {"Continue", "Stop", "Shutdown"}

MayFail(m) == CASE Kind[m] = "mysql" -> MysqlMayFail
                [] Kind[m] = "redis" -> RedisMayFail
                [] Kind[m] = "user"  -> UserMayFail
                [] OTHER             -> {}

TickerActs(m) == IF Kind[m] = "user" THEN UserTickerActs ELSE DefaultTickerActs

\* this.moduleList[name] != nil
FindModule(name) == name \in Mods

Called(m, h) == called' = [called EXCEPT ![m] = @ \cup {h}]
Ok(m, h) == ok' = [ok EXCEPT ![m] = @ \cup {h}]

-----------------------------------------------------------------------------
(* The main goroutine                                                      *)

Init ==
    /\ pc = "flags"
    /\ cfg = <<>> /\ cfgPos = 1
    /\ todo = {}
    /\ ok = [m \in Mods |-> {}] /\ called = [m \in Mods |-> {}]
    /\ serving = {}
    /\ tpc = [m \in Mods |-> "none"]
    /\ sigChan = 0
    /\ asked = {}

\* app.Start with -v: print the version and return.
ShowVersion ==
    /\ pc = "flags"
    /\ pc' = "exit"
    /\ UNCHANGED <<cfg, cfgPos, todo, ok, called, serving, tpc, sigChan, asked>>

\* signal.Notify, SetNotifyChan, then SetConfigPath: ParseXml of the core
\* config, logpkg.Fatal when it fails.
SetConfigPath ==
    /\ pc = "flags"
    /\ \/ \E c \in CfgLists : cfg' = c /\ pc' = "loadConfig"
       \/ pc' = "fatal" /\ UNCHANGED cfg
    /\ UNCHANGED <<cfgPos, todo, ok, called, serving, tpc, sigChan, asked>>

\* loadConfig: for each <module> entry, FindModule (logpkg.Fatal when it is
\* not registered) and LoadConfig (an error ends Start, then log.Fatal).
\* After the last entry Start goes on to init.
LoadConfigStep ==
    /\ pc = "loadConfig"
    /\ \/ /\ cfgPos <= Len(cfg)
          /\ LET m == cfg[cfgPos] IN
             \/ ~FindModule(m) /\ pc' = "fatal"
                /\ UNCHANGED <<cfgPos, todo, ok, called>>
             \/ /\ FindModule(m)
                /\ Called(m, "LoadConfig")
                /\ \/ Ok(m, "LoadConfig") /\ cfgPos' = cfgPos + 1
                      /\ UNCHANGED <<pc, todo>>
                   \/ "LoadConfig" \in MayFail(m) /\ pc' = "fatal"
                      /\ UNCHANGED <<ok, cfgPos, todo>>
       \/ /\ cfgPos > Len(cfg)
          /\ pc' = "init" /\ todo' = Mods
          /\ UNCHANGED <<cfgPos, ok, called>>
    /\ UNCHANGED <<cfg, serving, tpc, sigChan, asked>>

\* Mutant: the pass goes on past a hook that returned an error.
StartHookIgnoringError(m) ==
    /\ pc \in DOMAIN HookOf /\ m \in todo
    /\ LET h == HookOf[pc] IN
       /\ ~(h = "PreTicker" /\ UsesConfig(m) /\ "LoadConfig" \notin ok[m])
       /\ Called(m, h)
       /\ \/ Ok(m, h)
          \/ h \in MayFail(m) /\ UNCHANGED ok
       /\ todo' = todo \ {m}
       /\ serving' = IF h = "PreTicker" /\ Spawns(m) THEN serving \cup {m}
                                                   ELSE serving
       /\ UNCHANGED pc
    /\ UNCHANGED <<cfg, cfgPos, tpc, sigChan, asked>>

\* init, loadRelatedModules, preTicker: call the pass's hook on one module
\* not visited yet.  An error ends Start (log.Fatal).  A PreTicker that
\* dereferences an unset connection panics.
StartHook(m) ==
    /\ pc \in DOMAIN HookOf /\ m \in todo
    /\ LET h == HookOf[pc] IN
       /\ Called(m, h)
       /\ IF h = "PreTicker" /\ UsesConfig(m) /\ "LoadConfig" \notin ok[m]
          THEN pc' = "panic" /\ UNCHANGED <<ok, todo, serving>>
          ELSE \/ /\ Ok(m, h)
                  /\ todo' = todo \ {m}
                  /\ serving' = IF h = "PreTicker" /\ Spawns(m)
                                THEN serving \cup {m} ELSE serving
                  /\ UNCHANGED pc
               \/ h \in MayFail(m) /\ pc' = "fatal"
                  /\ UNCHANGED <<ok, todo, serving>>
    /\ UNCHANGED <<cfg, cfgPos, tpc, sigChan, asked>>

\* Start's funcMap loop: a pass that visited every module returns nil and
\* the next function runs; after preTicker, Start returns nil.
NextPass ==
    /\ pc \in DOMAIN HookOf /\ todo = {}
    /\ pc' = After[pc]
    /\ todo' = IF After[pc] = "ticker" THEN {} ELSE Mods
    /\ UNCHANGED <<cfg, cfgPos, ok, called, serving, tpc, sigChan, asked>>

\* core.Ticker(): one goroutine per module; then main blocks on <-sigChan.
SpawnTickers ==
    /\ pc = "ticker"
    /\ tpc' = [m \in Mods |-> "call"]
    /\ pc' = "wait"
    /\ UNCHANGED <<cfg, cfgPos, todo, ok, called, serving, sigChan, asked>>

\* <-sigChan returns; the deferred Stop starts with preShut.
Receive ==
    /\ pc = "wait" /\ sigChan = 1
    /\ sigChan' = 0
    /\ pc' = "preShut" /\ todo' = Mods
    /\ UNCHANGED <<cfg, cfgPos, ok, called, serving, tpc, asked>>

\* Stop: preShut calls PreShut on each module and returns at the first
\* error; Stop prints it and runs shut all the same, over every module.
PreShutStep(m) ==
    /\ pc = "preShut" /\ m \in todo
    /\ Called(m, "PreShut")
    /\ \/ /\ Ok(m, "PreShut")
          /\ IF todo = {m} THEN pc' = "shut" /\ todo' = Mods
                           ELSE todo' = todo \ {m} /\ UNCHANGED pc
       \/ /\ "PreShut" \in MayFail(m)
          /\ pc' = "shut" /\ todo' = Mods /\ UNCHANGED ok
    /\ UNCHANGED <<cfg, cfgPos, serving, tpc, sigChan, asked>>

\* shut returns at the first error; either way Stop returns nil and main
\* returns from app.Start: the process exits.
ShutStep(m) ==
    /\ pc = "shut" /\ m \in todo
    /\ Called(m, "Shut")
    /\ \/ /\ Ok(m, "Shut")
          /\ IF todo = {m} THEN pc' = "exit" /\ todo' = {}
                           ELSE todo' = todo \ {m} /\ UNCHANGED pc
       \/ /\ "Shut" \in MayFail(m)
          /\ pc' = "exit" /\ todo' = {} /\ UNCHANGED ok
    /\ UNCHANGED <<cfg, cfgPos, serving, tpc, sigChan, asked>>

-----------------------------------------------------------------------------
(* The other goroutines and the environment                                *)

\* Mutant: Shutdown is handled like Stop, the goroutine just returns.
TickerCallShutdownReturns(m) ==
    /\ Alive /\ tpc[m] = "call"
    /\ Called(m, "Ticker")
    /\ \E a \in TickerActs(m) :
          /\ tpc' = [tpc EXCEPT ![m] = IF a = "Continue" THEN "call" ELSE "done"]
          /\ asked' = IF a = "Shutdown" THEN asked \cup {m} ELSE asked
    /\ UNCHANGED <<pc, cfg, cfgPos, todo, ok, serving, sigChan>>

\* A Ticker goroutine's loop: module.Ticker(); Continue sleeps and loops,
\* Stop returns, anything else goes on to notifyChan <- SIGINT.
TickerCall(m) ==
    /\ Alive /\ tpc[m] = "call"
    /\ Called(m, "Ticker")
    /\ \E a \in TickerActs(m) :
          /\ tpc' = [tpc EXCEPT ![m] = CASE a = "Continue" -> "call"
                                         [] a = "Stop"     -> "done"
                                         [] OTHER          -> "send"]
          /\ asked' = IF a = "Shutdown" THEN asked \cup {m} ELSE asked
    /\ UNCHANGED <<pc, cfg, cfgPos, todo, ok, serving, sigChan>>

\* Mutant: the send does not wait for room in the one-slot buffer.
SendSignalNoBlock(m) ==
    /\ Alive /\ tpc[m] = "send"
    /\ sigChan' = sigChan + 1
    /\ tpc' = [tpc EXCEPT ![m] = "call"]
    /\ UNCHANGED <<pc, cfg, cfgPos, todo, ok, called, serving, asked>>

\* notifyChan <- syscall.SIGINT blocks while the buffer is full; after it
\* the loop calls Ticker again (there is no return).
SendSignal(m) ==
    /\ Alive /\ tpc[m] = "send" /\ sigChan = 0
    /\ sigChan' = 1
    /\ tpc' = [tpc EXCEPT ![m] = "call"]
    /\ UNCHANGED <<pc, cfg, cfgPos, todo, ok, called, serving, asked>>

\* SIGINT or SIGTERM from outside, after signal.Notify: the signal package
\* drops it when the buffer is full.
Signal ==
    /\ Alive /\ pc # "flags" /\ sigChan = 0
    /\ sigChan' = 1
    /\ UNCHANGED <<pc, cfg, cfgPos, todo, ok, called, serving, tpc, asked>>

\* The pprof server goroutine: ListenAndServe fails, logpkg.Fatal.
ServeFail(m) ==
    /\ Alive /\ m \in serving
    /\ pc' = "fatal"
    /\ UNCHANGED <<cfg, cfgPos, todo, ok, called, serving, tpc, sigChan, asked>>

Main ==
    \/ ShowVersion \/ SetConfigPath \/ LoadConfigStep \/ NextPass
    \/ SpawnTickers \/ Receive
    \/ \E m \in Mods : StartHook(m) \/ PreShutStep(m) \/ ShutStep(m)

Ticking(m) == TickerCall(m) \/ SendSignal(m)

Next ==
    \/ Main
    \/ \E m \in Mods : Ticking(m) \/ ServeFail(m)
    \/ Signal

\* The Go scheduler runs every runnable goroutine; signals and server
\* failures come from outside and are not assumed.
Fairness == WF_vars(Main) /\ \A m \in Mods : WF_vars(Ticking(m))

Spec == Init /\ [][Next]_vars /\ Fairness

-----------------------------------------------------------------------------
(* Properties                                                              *)

\* The Start passes, then the Ticker goroutines, in Start's order.
Passes == <<"Init", "LoadRelatedModules", "PreTicker", "Ticker">>

\* Start's passes are barriers (spec 5, module host: LoadConfig, Init,
\* LoadRelatedModules, PreTicker, Ticker, PreShut, Shut): no module sees a
\* hook before every module has returned nil from the one before it, Init
\* not before every configured module loaded its config, and Stop's hooks
\* not before the whole of Start succeeded.  Go's random map order and an
\* error part-way through a pass are what could break this.
LifecycleIsPhased ==
    /\ \A m \in Mods : "Init" \in called[m] =>
          \A i \in 1..Len(cfg) : cfg[i] \in Mods /\ "LoadConfig" \in ok[cfg[i]]
    /\ \A m \in Mods, i \in 2..Len(Passes) :
          Passes[i] \in called[m] => \A n \in Mods : Passes[i - 1] \in ok[n]
    /\ \A m \in Mods : {"PreShut", "Shut"} \cap called[m] # {} =>
          \A n \in Mods : "PreTicker" \in ok[n]

\* A module whose Ticker returns Shutdown brings the process down: its
\* goroutine's notifyChan <- SIGINT wakes main's <-sigChan (or finds the
\* buffer already holding a signal main will take), and the deferred Stop
\* runs to the end, whatever the PreShut and Shut hooks return.
ShutdownLeadsToExit == asked # {} ~> pc \in Gone


\* Spec 5's lifecycle ends with PreShut and then Shut: once a module's Shut
\* was called, its Ticker is not called again.  Stop runs PreShut and Shut
\* while the goroutines Ticker started (core.go:94-110) are never told to
\* stop, so a module whose Ticker keeps returning Continue is called after
\* its Shut.
NoTickerAfterShut ==
    [][\A m \in Mods : "Shut" \in called[m] => ~TickerCall(m)]_vars

=============================================================================
