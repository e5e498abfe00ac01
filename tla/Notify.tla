------------------------------- MODULE Notify -------------------------------
(***************************************************************************)
(* tokio::sync::Notify as transport/udp.rs uses it: one permit, and the    *)
(* Notified futures that wait for it in the order they were first polled.  *)
(*                                                                         *)
(* A Notify is a record: `permit` is a notification nobody waited for,     *)
(* `queue` the futures waiting, `notified` those notify_one has chosen     *)
(* that have not been polled since.                                        *)
(***************************************************************************)
EXTENDS Naturals, Sequences, SequencesExt

\* The futures that wait are in the queue once, and none of them was chosen.
NotifyTypeOK(n, W) ==
  /\ n \in [permit : BOOLEAN, queue : Seq(W), notified : SUBSET W]
  /\ \A i \in DOMAIN n.queue :
       /\ n.queue[i] \notin n.notified
       /\ \A j \in DOMAIN n.queue : n.queue[i] = n.queue[j] => i = j

NewNotify == [permit |-> FALSE, queue |-> <<>>, notified |-> {}]

Registered(n, w) == w \in n.notified \/ \E i \in DOMAIN n.queue : n.queue[i] = w

\* notify_one: the oldest waiter is chosen, or the permit kept.
NotifyOne(n) ==
  IF n.queue = <<>>
    THEN [permit |-> TRUE, queue |-> <<>>, notified |-> n.notified]
    ELSE [permit   |-> n.permit,
          queue    |-> Tail(n.queue),
          notified |-> n.notified \cup {Head(n.queue)}]

\* Whether polling the future w of n completes it, and n after the poll.
Ready(n, w) == w \in n.notified \/ (n.permit /\ ~Registered(n, w))

Polled(n, w) ==
  [permit   |-> n.permit /\ Registered(n, w),
   queue    |-> IF Ready(n, w) \/ Registered(n, w) THEN n.queue
                                                   ELSE Append(n.queue, w),
   notified |-> n.notified \ {w}]

\* The queue without the future w, which is in it once at most.
Unlinked(queue, w) ==
  IF \E i \in DOMAIN queue : queue[i] = w
    THEN RemoveAt(queue, CHOOSE i \in DOMAIN queue : queue[i] = w)
    ELSE queue

\* Dropping the future w: a notification it was chosen for and has not seen
\* goes to the next one.
Dropped(n, w) ==
  LET gone == [permit   |-> n.permit,
               queue    |-> Unlinked(n.queue, w),
               notified |-> n.notified \ {w}]
  IN  IF w \in n.notified THEN NotifyOne(gone) ELSE gone
=============================================================================
