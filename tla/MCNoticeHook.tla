----------------------------- MODULE MCNoticeHook -----------------------------
(***************************************************************************)
(* NoticeHook with callbacks to replace and buffers granted and clamped.   *)
(***************************************************************************)
EXTENDS NoticeHook
=============================================================================
