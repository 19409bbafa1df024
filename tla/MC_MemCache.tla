---------------------------- MODULE MC_MemCache ----------------------------
(* Model-checking instance of MemCache: two keys, two payloads, as many   *)
(* list elements as keys, ttl arguments covering never / at once / 1 / 2 *)
(* seconds, and a four-second clock so entries set at different times    *)
(* expire in different orders.                                            *)
EXTENDS MemCache

MCTTLs == {-1, 0, 1, 2}
=============================================================================
