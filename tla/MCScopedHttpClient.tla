------------------------- MODULE MCScopedHttpClient -------------------------
(***************************************************************************)
(* ScopedHttpClient for TLC: three coroutines share a client of two        *)
(* requests per second and one permit, a second being four ticks.          *)
(***************************************************************************)
EXTENDS ScopedHttpClient

CONSTANTS c1, c2, c3, inside, outside
=============================================================================
