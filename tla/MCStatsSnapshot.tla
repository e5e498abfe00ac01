--------------------------- MODULE MCStatsSnapshot ---------------------------
(***************************************************************************)
(* StatsSnapshot with a queue of one, which overflows at once.             *)
(***************************************************************************)
EXTENDS StatsSnapshot
=============================================================================
