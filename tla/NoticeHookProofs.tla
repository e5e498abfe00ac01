--------------------------- MODULE NoticeHookProofs ---------------------------
(***************************************************************************)
(* Proofs about NoticeHook, for every set of callbacks, every buffer size  *)
(* asked for and every size the system reports.                            *)
(***************************************************************************)
EXTENDS NoticeHook, TLAPS

\* The callback that the thread is about to clone was registered since the
\* error it fires for; the lock it holds meanwhile keeps it registered.
Heard == thread \in {"fire", "read"} => hook \in current

\* Until bind has returned there is no thread.
Unborn == owner \in {"new", "bound", "failed"} => thread = "unborn"

HookInv == TypeOK /\ Heard /\ Unborn /\ NoCallAfterClose

LEMMA HookInit == Init => HookInv
  <1> SUFFICES ASSUME Init PROVE HookInv
    OBVIOUS
  <1>1. {hook, new, picked} \subseteq Hooks /\ current \subseteq Hooks
    BY DEF Init, Hooks
  <1>2. buffer \in Nat /\ clampTold \in BOOLEAN
    BY DEF Init
  <1> QED
    BY <1>1, <1>2 DEF Init, HookInv, TypeOK, Heard, Unborn, NoCallAfterClose

\* bind runs before there is a thread (udp.rs:38-88).
LEMMA BindKeeps ==
  ASSUME HookInv, BindStep
  PROVE  HookInv'
  <1> USE DEF HookInv, TypeOK, Heard, Unborn, NoCallAfterClose
  <1>1. CASE BindFails \/ SetUpFails
    BY <1>1 DEF BindFails, SetUpFails
  <1>2. CASE Spawn
    BY <1>2 DEF Spawn
  <1>3. ASSUME NEW raw \in RawSizes, BindSocket(raw)
        PROVE  HookInv'
    <2>1. raw \div 2 \in Nat
      BY HookAssumption
    <2>2. buffer' \in Nat /\ clampTold' \in BOOLEAN
      BY <1>3, <2>1 DEF BindSocket
    <2> QED
      BY <1>3, <2>2 DEF BindSocket
  <1> QED
    BY <1>1, <1>2, <1>3 DEF BindStep

\* The receive thread and the callback it runs: the lock is held to clone the
\* callback and for nothing else (notice.rs:30-33).
LEMMA ThreadKeeps ==
  ASSUME HookInv, ThreadStep \/ CallbackStep
  PROVE  HookInv'
  <1> USE DEF HookInv, TypeOK, Heard, Unborn, NoCallAfterClose, Step, ownerVars, Hooks
  <1>1. CASE ThreadCheck \/ RecvOther \/ RecvFails \/ CallbackStep
    BY <1>1 DEF ThreadCheck, RecvOther, RecvFails, CallbackStep, CallbackReturns,
                CallbackPanics
  <1>2. CASE DecodeError
    BY <1>2 DEF DecodeError
  <1>3. CASE ReadLock
    BY <1>3 DEF ReadLock
  <1>4. CASE CloneHook
    BY <1>4 DEF CloneHook
  <1> QED
    BY <1>1, <1>2, <1>3, <1>4 DEF ThreadStep

\* The owner's calls: a callback is replaced with the lock held for writing,
\* so never between a read of it and its clone (notice.rs:25-27).
LEMMA OwnerKeeps ==
  ASSUME HookInv, CallStep \/ CallerStep
  PROVE  HookInv'
  <1> USE DEF HookInv, TypeOK, Heard, Unborn, NoCallAfterClose, Hooks
  <1>1. CASE WriteLock
    BY <1>1 DEF WriteLock
  <1>2. CASE Assign
    BY <1>2 DEF Assign
  <1>3. CASE Join
    BY <1>3 DEF Join
  <1>4. CASE CallerStep
    BY <1>4 DEF CallerStep, OnNotice, Close
  <1> QED
    BY <1>1, <1>2, <1>3, <1>4 DEF CallStep

LEMMA HookNext == HookInv /\ [Next]_vars => HookInv'
  <1>1. ASSUME HookInv, UNCHANGED vars
        PROVE  HookInv'
    BY <1>1 DEF vars, HookInv, TypeOK, Heard, Unborn, NoCallAfterClose
  <1> QED
    BY <1>1, BindKeeps, ThreadKeeps, OwnerKeeps DEF Next

LEMMA HookInvariant == Spec => []HookInv
  BY HookInit, HookNext, PTL DEF Spec

\* The lock excludes a writer while the callback is read, and each side holds
\* it exactly where it says (notice.rs:25-33).
THEOREM TypeCorrect == Spec => []TypeOK
  <1>1. HookInv => TypeOK
    BY DEF HookInv
  <1> QED
    BY <1>1, HookInvariant, PTL

\* No callback runs once close has returned (udp.rs:174-179).
THEOREM QuietAfterClose == Spec => []NoCallAfterClose
  <1>1. HookInv => NoCallAfterClose
    BY DEF HookInv
  <1> QED
    BY <1>1, HookInvariant, PTL

\* A decode error is told to a callback that was registered at some time since
\* it was counted, however on_notice and fire interleave (notice.rs:25-33).
THEOREM ToldToCurrent == Spec => DeliveredToCurrent
  <1>1. HookInv /\ [Next]_vars
          => [thread = "read" /\ thread' # "read" => picked' \in current]_vars
    <2> SUFFICES ASSUME HookInv, Next, thread = "read", thread' # "read"
                 PROVE  picked' \in current
      BY DEF vars
    <2>1. CASE CloneHook
      BY <2>1 DEF CloneHook, HookInv, Heard
    <2>2. CASE ThreadStep /\ ~CloneHook
      BY <2>2 DEF ThreadStep, ThreadCheck, RecvOther, RecvFails, DecodeError,
                  ReadLock, Step
    <2>3. CASE CallbackStep
      BY <2>3 DEF CallbackStep, CallbackReturns, CallbackPanics, Step
    <2>4. CASE BindStep
      <3>1. thread = "unborn" \/ UNCHANGED thread
        BY <2>4 DEF BindStep, BindFails, BindSocket, SetUpFails, Spawn, HookInv, Unborn
      <3> QED
        BY <3>1
    <2>5. CASE CallStep \/ CallerStep
      BY <2>5 DEF CallStep, CallerStep, WriteLock, Assign, Join, OnNotice, Close
    <2> QED
      BY <2>1, <2>2, <2>3, <2>4, <2>5 DEF Next
  <1> QED
    BY <1>1, HookInvariant, PTL DEF Spec, DeliveredToCurrent
=============================================================================
