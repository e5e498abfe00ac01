------------------------------ MODULE NoticeHook ------------------------------
(***************************************************************************)
(* src/notice.rs in UdpClient: the callback registered by the owner of the *)
(* client and fired by its receive thread, through a lock for readers and  *)
(* writers; and bind_socket, which fires before there is either.           *)
(*                                                                         *)
(* The callback is the caller's: it may return, panic or never come back.  *)
(* UdpClient is not Sync, so its owner makes one call at a time.           *)
(***************************************************************************)
EXTENDS Naturals

CONSTANTS Callbacks,  \* what the owner may register
          Requested,  \* UdpConfig::recv_buffer_bytes
          RawSizes    \* what SO_RCVBUF may read after the request

ASSUME HookAssumption == /\ Requested \in Nat
                         /\ RawSizes \subseteq Nat

VARIABLES hook,      \* the registered callback
          lock,      \* the lock around it
          owner,     \* which call of the owner is under way, and where it is
          new,       \* the callback it is registering
          thread,    \* where the receive thread is
          picked,    \* the callback the thread has cloned
          buffer,    \* recv_buffer_bytes
          clampTold, \* history: a callback was told of RecvBufferClamped
          current    \* history: what was registered since the last DecodeError

vars == <<hook, lock, owner, new, thread, picked, buffer, clampTold, current>>
ownerVars == <<owner, new, buffer, clampTold>>

NoCallback == "none"
Hooks == Callbacks \cup {NoCallback}

\* close has set the flag.
Closed == owner \in {"joining", "closed"}

Init == /\ hook = NoCallback
        /\ lock = "free"
        /\ owner = "new"
        /\ new = NoCallback
        /\ thread = "unborn"
        /\ picked = NoCallback
        /\ buffer = 0
        /\ clampTold = FALSE
        /\ current = {}

-----------------------------------------------------------------------------
(* UdpClient::bind, with bind_socket.                                      *)

\* The socket cannot be made, sized or bound.
BindFails ==
  /\ owner = "new"
  /\ owner' = "failed"
  /\ UNCHANGED <<hook, lock, new, thread, picked, buffer, clampTold, current>>

\* What Linux reports is twice what it grants; a size that cannot be read is
\* 0.  The notice goes to whoever is registered.
BindSocket(raw) ==
  /\ owner = "new"
  /\ buffer' = raw \div 2
  /\ clampTold' = (buffer' < Requested /\ hook # NoCallback)
  /\ owner' = "bound"
  /\ UNCHANGED <<hook, lock, new, thread, picked, current>>

\* The read timeout or the local address.
SetUpFails ==
  /\ owner = "bound"
  /\ owner' = "failed"
  /\ UNCHANGED <<hook, lock, new, thread, picked, buffer, clampTold, current>>

Spawn ==
  /\ owner = "bound"
  /\ owner' = "idle"
  /\ thread' = "check"
  /\ UNCHANGED <<hook, lock, new, picked, buffer, clampTold, current>>

-----------------------------------------------------------------------------
(* The receive thread: its loop, and NoticeHook::fire.                     *)

Step(from, to) == thread = from /\ thread' = to /\ UNCHANGED <<hook, ownerVars>>

\* Mutant of ThreadCheck: the loop runs for ever.
CheckNot ==
  /\ Step("check", "recv")
  /\ UNCHANGED <<lock, picked, current>>

ThreadCheck ==
  /\ Step("check", IF Closed THEN "done" ELSE "recv")
  /\ UNCHANGED <<lock, picked, current>>

\* Anything but a decode error: a timeout, an update, a frame skipped.
RecvOther ==
  /\ Step("recv", "check")
  /\ UNCHANGED <<lock, picked, current>>

RecvFails ==
  /\ Step("recv", "done")
  /\ UNCHANGED <<lock, picked, current>>

\* push has counted a decode error and calls fire.
DecodeError ==
  /\ Step("recv", "fire")
  /\ current' = {hook}
  /\ UNCHANGED <<lock, picked>>

ReadLock ==
  /\ Step("fire", "read")
  /\ lock = "free"
  /\ lock' = "read"
  /\ UNCHANGED <<picked, current>>

\* Mutants of CloneHook: the thread keeps the first callback it finds; the
\* lock is kept until the callback is back.
CloneOnce ==
  /\ picked' = IF picked = NoCallback THEN hook ELSE picked
  /\ Step("read", IF picked' = NoCallback THEN "check" ELSE "call")
  /\ lock' = "free"
  /\ UNCHANGED current

CloneLocked ==
  /\ picked' = hook
  /\ Step("read", IF hook = NoCallback THEN "check" ELSE "call")
  /\ lock' = IF hook = NoCallback THEN "free" ELSE "read"
  /\ UNCHANGED current

\* The guard is a temporary: the lock is free again before the call.
CloneHook ==
  /\ picked' = hook
  /\ Step("read", IF hook = NoCallback THEN "check" ELSE "call")
  /\ lock' = "free"
  /\ UNCHANGED current

CallbackReturns ==
  /\ Step("call", "check")
  /\ UNCHANGED <<lock, picked, current>>

\* A panic unwinds the thread through its Shutdown guard.
CallbackPanics ==
  /\ Step("call", "done")
  /\ UNCHANGED <<lock, picked, current>>

-----------------------------------------------------------------------------
(* on_notice and close.                                                    *)

OnNotice(f) ==
  /\ owner = "idle"
  /\ owner' = "setting"
  /\ new' = f
  /\ UNCHANGED <<hook, lock, thread, picked, buffer, clampTold, current>>

WriteLock ==
  /\ owner = "setting"
  /\ lock = "free"
  /\ lock' = "write"
  /\ owner' = "writing"
  /\ UNCHANGED <<hook, new, thread, picked, buffer, clampTold, current>>

\* Mutant of Assign: the lock is never given back.
AssignLocked ==
  /\ owner = "writing"
  /\ hook' = new
  /\ current' = current \cup {new}
  /\ owner' = "idle"
  /\ UNCHANGED <<lock, new, thread, picked, buffer, clampTold>>

\* The old callback is dropped with the lock held, unless the thread has it.
Assign ==
  /\ owner = "writing"
  /\ hook' = new
  /\ current' = current \cup {new}
  /\ lock' = "free"
  /\ owner' = "idle"
  /\ UNCHANGED <<new, thread, picked, buffer, clampTold>>

\* close, and drop, which calls it.
Close ==
  /\ owner = "idle"
  /\ owner' = "joining"
  /\ UNCHANGED <<hook, lock, new, thread, picked, buffer, clampTold, current>>

\* Mutant of Join: close only sets the flag.
JoinNot ==
  /\ owner = "joining"
  /\ owner' = "closed"
  /\ UNCHANGED <<hook, lock, new, thread, picked, buffer, clampTold, current>>

Join ==
  /\ owner = "joining"
  /\ thread = "done"
  /\ owner' = "closed"
  /\ UNCHANGED <<hook, lock, new, thread, picked, buffer, clampTold, current>>

-----------------------------------------------------------------------------
ThreadStep == \/ ThreadCheck \/ RecvOther \/ RecvFails \/ DecodeError
              \/ ReadLock \/ CloneHook

CallbackStep == CallbackReturns \/ CallbackPanics

BindStep == \/ BindFails
            \/ \E raw \in RawSizes : BindSocket(raw)
            \/ SetUpFails
            \/ Spawn

CallStep == WriteLock \/ Assign \/ Join

CallerStep == (\E f \in Callbacks : OnNotice(f)) \/ Close

Next == ThreadStep \/ CallbackStep \/ BindStep \/ CallStep \/ CallerStep

Spec == Init /\ [][Next]_vars

\* The thread runs, a writer that waits is let in before readers that come
\* later, and a call under way goes on.  A callback need not come back.
Fairness == WF_vars(ThreadStep) /\ SF_vars(WriteLock) /\ WF_vars(CallStep)

FairSpec == Spec /\ Fairness

-----------------------------------------------------------------------------
\* Type invariant; the lock is held where the two sides say they hold it.
TypeOK ==
  /\ hook \in Hooks
  /\ lock \in {"free", "read", "write"}
  /\ lock = "read" <=> thread = "read"
  /\ lock = "write" <=> owner = "writing"
  /\ owner \in {"new", "bound", "failed", "idle", "setting", "writing",
                "joining", "closed"}
  /\ new \in Hooks
  /\ thread \in {"unborn", "check", "recv", "fire", "read", "call", "done"}
  /\ picked \in Hooks
  /\ buffer \in Nat
  /\ clampTold \in BOOLEAN
  /\ current \subseteq Hooks

\* A decode error goes to a callback that was registered at some time since
\* the error was counted, and to nobody only if none was: once on_notice has
\* returned, the callback it replaced hears at most the error under way
\* (frame.rs:135-138, notice.rs:25-33).
DeliveredToCurrent ==
  [][thread = "read" /\ thread' # "read" => picked' \in current]_vars

\* Nothing runs once close has returned: what the callback uses may go
\* (udp.rs:174-179, 182-186).
NoCallAfterClose == owner = "closed" => thread = "done"

\* on_notice returns, whatever the callback it replaces does: fire calls it
\* without the lock (notice.rs:30-33).
SetReturns == owner = "setting" ~> owner = "idle"

\* close returns, if the callback always comes back or panics: a panic ends
\* the thread and is dropped by join (udp.rs:98-107, 176-178).
CloseReturns ==
  []<>(thread # "call") => (owner = "joining" ~> owner = "closed")

\* A callback is told that the system granted less than it was asked for
\* (errors.md:79-85, which matches the notice in on_notice).
ClampNoticed == hook # NoCallback /\ buffer < Requested => clampTold
=============================================================================
