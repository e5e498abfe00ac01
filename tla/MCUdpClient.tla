----------------------------- MODULE MCUdpClient -----------------------------
(***************************************************************************)
(* UdpClient with a queue of two and more updates than it holds.  A caller *)
(* keeps to next_update or to the Stream when Mixed is FALSE.              *)
(***************************************************************************)
EXTENDS UdpClient
=============================================================================
