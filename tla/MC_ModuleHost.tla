---------------------------- MODULE MC_ModuleHost ----------------------------
EXTENDS ModuleHost

CONSTANTS pprof, mysql, redis, user, stray

MCMods == {pprof, mysql, redis, user}
MCNames == MCMods \cup {stray}
MCKind == (pprof :> "pprof") @@ (mysql :> "mysql") @@ (redis :> "redis")
          @@ (user :> "user")

\* The demo server's config lists its modules (pprof needs no config);
\* one leaves redis out, one names a module nobody registered.
MCCfgLists == {<<mysql, redis, user>>, <<user, mysql>>, <<mysql, stray>>}
=============================================================================
