----------------------------- MODULE BoundedFeed -----------------------------
(***************************************************************************)
(* What UdpClient promises its consumer (docs/api.md:95-101, errors.md     *)
(* lines 68-69): updates come in the order they were decoded, none twice;  *)
(* only a full queue loses any, and then its oldest; the end is announced  *)
(* only once the feed is shut and the queue drained, and nothing follows.  *)
(* Updates are numbered in the order they are decoded.                     *)
(***************************************************************************)
EXTENDS Naturals, Sequences

CONSTANT Capacity

VARIABLES queue,    \* updates kept for the consumer
          produced, \* how many updates have entered the queue
          taken,    \* the updates handed to the consumer, in order
          open,     \* whether more updates may come
          ended     \* whether the consumer has been told of the end

vars == <<queue, produced, taken, open, ended>>

Init == /\ queue = <<>>
        /\ produced = 0
        /\ taken = <<>>
        /\ open = TRUE
        /\ ended = FALSE

Arrive == /\ open
          /\ produced' = produced + 1
          /\ queue' = IF Len(queue) < Capacity
                        THEN Append(queue, produced + 1)
                        ELSE Append(Tail(queue), produced + 1)
          /\ UNCHANGED <<taken, open, ended>>

Take == /\ queue # <<>>
        /\ taken' = Append(taken, Head(queue))
        /\ queue' = Tail(queue)
        /\ UNCHANGED <<produced, open, ended>>

Shut == /\ open
        /\ open' = FALSE
        /\ UNCHANGED <<queue, produced, taken, ended>>

End == /\ ~open
       /\ queue = <<>>
       /\ ended' = TRUE
       /\ UNCHANGED <<queue, produced, taken, open>>

Next == Arrive \/ Take \/ Shut \/ End

Spec == Init /\ [][Next]_vars
=============================================================================
