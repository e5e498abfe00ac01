----------------------------- MODULE MCGrpcClient -----------------------------
(***************************************************************************)
(* GrpcClient with two filter maps, a request channel of two and durations *)
(* of two ticks.                                                           *)
(***************************************************************************)
EXTENDS GrpcClient
=============================================================================
