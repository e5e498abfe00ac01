------------------------------ MODULE UdpClient ------------------------------
(***************************************************************************)
(* src/transport/udp.rs: the receive thread of UdpClient, and the task     *)
(* that consumes its updates through next_update, the Stream or            *)
(* try_next_update, drops the futures it waits on, and closes the client.  *)
(*                                                                         *)
(* The thread and the task run in parallel; a step is one operation on     *)
(* what they share: the ring, the Notify, the closed flag, the counters.   *)
(*                                                                         *)
(* The flag is Relaxed, so the task may load FALSE after it was set, until *)
(* something orders the load after the store: loading TRUE, a poll of the  *)
(* Notify after the last notification, or closing the client itself.       *)
(* Everything else on the shared objects is ordered by their own atomics;  *)
(* in particular notify_one, between a push and the store of the flag,     *)
(* keeps the one before the other.  A thread that loads the flag late is a *)
(* caller that closes late.                                                *)
(***************************************************************************)
EXTENDS Notify

CONSTANTS QueueCapacity, \* UdpConfig::queue_capacity
          MaxUpdates,    \* bound on the updates the thread decodes
          Mixed          \* whether one task uses both next_update and the Stream

ASSUME UdpAssumption == /\ QueueCapacity \in Nat
                        /\ MaxUpdates \in Nat
                        /\ Mixed \in BOOLEAN

VARIABLES ring,    \* the queue between the two; updates are numbered
          notify,  \* the Notify
          closed,  \* the flag
          fresh,   \* whether the task can no longer load an older flag
          stats,   \* the counters of updates decoded and overwritten
          thread,  \* where the receive thread is
          task,    \* where the consuming task is
          api,     \* which function the task calls to wait for an update
          taken,   \* history: the updates returned, in order
          ended    \* history: whether a waiting call has returned None

vars == <<ring, notify, closed, fresh, stats, thread, task, api, taken, ended>>
threadVars == <<stats, thread>>
taskVars == <<task, api, fresh, taken, ended>>

Capacity == IF QueueCapacity > 1 THEN QueueCapacity ELSE 1

\* The futures that wait on the Notify: the one a call of next_update holds,
\* and the one poll_next keeps in `waiting` between polls.
APIs == {"next", "stream"}

Init == /\ ring = <<>>
        /\ notify = NewNotify
        /\ closed = FALSE
        /\ fresh = FALSE
        /\ stats = [messages |-> 0, queue_dropped |-> 0]
        /\ thread = "check"
        /\ task = "idle"
        /\ api \in APIs
        /\ taken = <<>>
        /\ ended = FALSE

-----------------------------------------------------------------------------
(* The receive thread (udp.rs:108-127) and its Shutdown guard.             *)

At(place) == thread = place /\ UNCHANGED taskVars
Goto(place) == thread' = place

\* Mutant of ThreadCheck: the loop runs for ever.
ThreadRunsOn ==
  /\ At("check")
  /\ Goto("recv")
  /\ UNCHANGED <<ring, notify, closed, stats>>

\* while !closed
ThreadCheck ==
  /\ At("check")
  /\ Goto(IF closed THEN "shut" ELSE "recv")
  /\ UNCHANGED <<ring, notify, closed, stats>>

\* A datagram that decodes to an update; push has counted it in messages.
RecvUpdate ==
  /\ At("recv")
  /\ stats.messages < MaxUpdates
  /\ stats' = [stats EXCEPT !.messages = @ + 1]
  /\ Goto("push")
  /\ UNCHANGED <<ring, notify, closed>>

\* A datagram that does not, or the read timeout: WouldBlock or TimedOut.
RecvNothing ==
  /\ At("recv")
  /\ Goto("check")
  /\ UNCHANGED <<ring, notify, closed, stats>>

\* Any other error of the socket ends the loop; so does a panic of the
\* callback that fire runs inside push.
RecvError ==
  /\ At("recv")
  /\ Goto("shut")
  /\ UNCHANGED <<ring, notify, closed, stats>>

\* Mutant of ForcePush: the queue has no bound.
PushUnbounded ==
  /\ At("push")
  /\ ring' = Append(ring, stats.messages)
  /\ Goto("notify")
  /\ UNCHANGED <<notify, closed, stats>>

\* ArrayQueue::force_push: the oldest update makes room.
ForcePush ==
  /\ At("push")
  /\ LET full == Len(ring) = Capacity
     IN  /\ ring' = Append(IF full THEN Tail(ring) ELSE ring, stats.messages)
         /\ Goto(IF full THEN "count" ELSE "notify")
  /\ UNCHANGED <<notify, closed, stats>>

\* Mutant of CountDropped: the overwritten update is not counted.
DropUncounted ==
  /\ At("count")
  /\ Goto("notify")
  /\ UNCHANGED <<ring, notify, closed, stats>>

CountDropped ==
  /\ At("count")
  /\ stats' = [stats EXCEPT !.queue_dropped = @ + 1]
  /\ Goto("notify")
  /\ UNCHANGED <<ring, notify, closed>>

NotifyUpdate ==
  /\ At("notify")
  /\ notify' = NotifyOne(notify)
  /\ Goto("check")
  /\ UNCHANGED <<ring, closed, stats>>

\* Shutdown::drop, however the loop ended.
ShutdownClose ==
  /\ At("shut")
  /\ closed' = TRUE
  /\ Goto("bye")
  /\ UNCHANGED <<ring, notify, stats>>

\* Mutant of ShutdownNotify: the consumer is not woken at the end.
ShutdownSilent ==
  /\ At("bye")
  /\ Goto("done")
  /\ UNCHANGED <<ring, notify, closed, stats>>

ShutdownNotify ==
  /\ At("bye")
  /\ notify' = NotifyOne(notify)
  /\ Goto("done")
  /\ UNCHANGED <<ring, closed, stats>>

ThreadStep == \/ ThreadCheck
              \/ RecvUpdate
              \/ RecvNothing
              \/ RecvError
              \/ ForcePush
              \/ CountDropped
              \/ NotifyUpdate
              \/ ShutdownClose
              \/ ShutdownNotify

-----------------------------------------------------------------------------
(* The consuming task.  Between calls it is idle; the two waiting calls    *)
(* share their first steps: pop, look at closed, pop once more.            *)

In(place) == task = place /\ UNCHANGED <<threadVars, closed>>
Continue(place) == task' = place

Return(update) == /\ taken' = Append(taken, update)
                  /\ UNCHANGED ended
ReturnNone == UNCHANGED taken

\* The caller polls next_update or poll_next for the first time.
Call ==
  /\ In("idle")
  /\ api' \in IF Mixed THEN APIs ELSE {api}
  /\ Continue("pop")
  /\ UNCHANGED <<ring, notify, fresh, taken, ended>>

\* if let Some(update) = self.ring.pop(); poll_next then drops `waiting`.
Pop ==
  /\ In("pop")
  /\ IF ring # <<>>
       THEN /\ ring' = Tail(ring)
            /\ Return(Head(ring))
            /\ Continue(IF api = "stream" THEN "clear" ELSE "idle")
       ELSE /\ Continue("look")
            /\ UNCHANGED <<ring, taken, ended>>
  /\ UNCHANGED <<notify, api, fresh>>

ClearWaiting ==
  /\ In("clear")
  /\ notify' = Dropped(notify, "stream")
  /\ Continue("idle")
  /\ UNCHANGED <<ring, api, fresh, taken, ended>>

\* Mutant of Look: the flag is left for the caller to read.
LookAway ==
  /\ In("look")
  /\ Continue("listen")
  /\ UNCHANGED <<ring, notify, api, fresh, taken, ended>>

\* if self.closed
Look ==
  /\ In("look")
  /\ \E flag \in IF fresh THEN {closed} ELSE {FALSE, closed} :
       /\ fresh' = (fresh \/ flag)
       /\ Continue(IF flag THEN "last" ELSE "listen")
  /\ UNCHANGED <<ring, notify, api, taken, ended>>

\* Polling the future orders the task after the thread's last notification:
\* it changes the state that notification left, or is what it chose.
AfterLast ==
  /\ thread = "done"
  /\ api \in notify.notified => ~notify.permit /\ notify.notified = {api}

\* Mutant of LastPop: the end is announced without looking at the queue again.
EndAtOnce ==
  /\ In("last")
  /\ ReturnNone
  /\ ended' = TRUE
  /\ Continue("idle")
  /\ UNCHANGED <<ring, notify, api, fresh>>

\* return self.ring.pop(): what came between the first pop and the end.
LastPop ==
  /\ In("last")
  /\ IF ring # <<>>
       THEN /\ ring' = Tail(ring)
            /\ Return(Head(ring))
       ELSE /\ ReturnNone
            /\ ended' = TRUE
            /\ UNCHANGED ring
  /\ Continue("idle")
  /\ UNCHANGED <<notify, api, fresh>>

\* The first poll of next_update's own Notified, or the poll of `waiting`,
\* made if there was none: go round again, or wait.
Listen ==
  /\ In("listen")
  /\ notify' = Polled(notify, api)
  /\ fresh' = (fresh \/ AfterLast)
  /\ Continue(IF Ready(notify, api) THEN "pop" ELSE "wait")
  /\ UNCHANGED <<ring, api, taken, ended>>

\* The future waited on has been notified and its task polls it: next_update
\* resumes after the await, poll_next starts from its first line.
Wake ==
  /\ In("wait")
  /\ api \in notify.notified
  /\ notify' = IF api = "next" THEN Polled(notify, "next") ELSE notify
  /\ fresh' = (fresh \/ AfterLast)
  /\ Continue("pop")
  /\ UNCHANGED <<ring, api, taken, ended>>

\* A stream may be polled again for no reason.
SpuriousPoll ==
  /\ In("wait")
  /\ api = "stream"
  /\ Continue("pop")
  /\ UNCHANGED <<ring, notify, api, fresh, taken, ended>>

\* The caller drops the future it waits on (a timeout, a select): the
\* Notified of next_update goes with it, `waiting` stays in the client.
Cancel ==
  /\ In("wait")
  /\ notify' = IF api = "next" THEN Dropped(notify, "next") ELSE notify
  /\ Continue("idle")
  /\ UNCHANGED <<ring, api, fresh, taken, ended>>

TryNextUpdate ==
  /\ In("idle")
  /\ IF ring # <<>>
       THEN ring' = Tail(ring) /\ Return(Head(ring))
       ELSE ReturnNone /\ UNCHANGED <<ring, ended>>
  /\ Continue("idle")
  /\ UNCHANGED <<notify, api, fresh>>

\* close, and drop, which calls it: set the flag, then join the thread.
Close ==
  /\ task = "idle"
  /\ closed' = TRUE
  /\ fresh' = TRUE
  /\ Continue("join")
  /\ UNCHANGED <<ring, notify, threadVars, api, taken, ended>>

Join ==
  /\ In("join")
  /\ thread = "done"
  /\ Continue("idle")
  /\ UNCHANGED <<ring, notify, api, fresh, taken, ended>>

\* The steps the task takes on its own once a call is under way.
CallStep == Pop \/ ClearWaiting \/ Look \/ LastPop \/ Listen \/ Wake \/ Join

\* The steps its caller chooses.
CallerStep == Call \/ SpuriousPoll \/ Cancel \/ TryNextUpdate \/ Close

Next == ThreadStep \/ CallStep \/ CallerStep

Spec == Init /\ [][Next]_vars

\* The thread runs, its reads time out after 50 ms (udp.rs:78), and a task
\* that has been woken is polled.  Nobody has to call, cancel or close.
Fairness == WF_vars(ThreadStep) /\ WF_vars(CallStep)

FairSpec == Spec /\ Fairness

-----------------------------------------------------------------------------
\* Type invariant: the queue never exceeds its capacity, of one at least
\* (udp.rs:81), and the Notify holds a future once at most.
TypeOK ==
  /\ ring \in Seq(1..MaxUpdates) /\ Len(ring) <= Capacity
  /\ NotifyTypeOK(notify, APIs)
  /\ closed \in BOOLEAN
  /\ fresh \in BOOLEAN
  /\ stats \in [messages : 0..MaxUpdates, queue_dropped : 0..MaxUpdates]
  /\ thread \in {"check", "recv", "push", "count", "notify", "shut", "bye", "done"}
  /\ task \in {"idle", "pop", "clear", "look", "last", "listen", "wait", "join"}
  /\ api \in APIs
  /\ taken \in Seq(1..MaxUpdates)
  /\ ended \in BOOLEAN

\* Every update decoded is in one place: returned, counted in queue_dropped
\* (or about to be), queued, or still in the receive thread's hands
\* (udp.rs:121-126; api.md:412-416).
Conservation ==
  stats.messages = Len(taken) + Len(ring) + stats.queue_dropped
                     + (IF thread \in {"push", "count"} THEN 1 ELSE 0)

\* A task that waits and has not been woken has nothing to wake for, unless
\* the thread is on its way to notify (udp.rs:148-160 and 191-213 against
\* 94-127): no interleaving of push, close and registration loses a wakeup.
NoLostWakeup ==
  task = "wait" /\ api \notin notify.notified =>
    /\ ring # <<>> => thread \in {"count", "notify"}
    /\ closed => thread = "bye"

\* The client implements the bounded feed it documents (api.md:95-101).
Feed == INSTANCE BoundedFeed WITH
          queue    <- ring,
          produced <- IF thread = "push" THEN stats.messages - 1
                                         ELSE stats.messages,
          open     <- thread \notin {"bye", "done"}

ImplementsBoundedFeed == Feed!Spec

\* A task that waits while there is something to take, or after the end, does
\* not wait forever: "next_update waits for the next update and returns None
\* once the client is closed and the queue drained" (api.md:98-99).
WaitReturns ==
  (task = "wait" /\ (ring # <<>> \/ closed)) ~> task = "idle"

\* close returns: whatever the thread is doing, it sees the flag and ends
\* (udp.rs:110, 174-179).
CloseReturns == task = "join" ~> task = "idle"
=============================================================================
