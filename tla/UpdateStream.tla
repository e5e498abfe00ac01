---------------------------- MODULE UpdateStream ----------------------------
(***************************************************************************)
(* What GrpcClient promises its consumer (docs/api.md:154-158, errors.md   *)
(* lines 23-34): updates while the stream lasts, one terminal error at     *)
(* most, then None for ever; close ends it without an error; once it is    *)
(* over, no connection is attempted any more.                              *)
(***************************************************************************)
CONSTANT StreamError

VARIABLES item,    \* what the last call of next_update returned
          over,    \* whether the stream is over
          dialing  \* whether a connection is being attempted

vars == <<item, over, dialing>>

Init == /\ item = "nothing"
        /\ over = FALSE
        /\ dialing \in BOOLEAN

Deliver == /\ ~over
           /\ item' = "update"
           /\ UNCHANGED <<over, dialing>>

Fail == /\ ~over
        /\ item' \in StreamError
        /\ over' = TRUE
        /\ UNCHANGED dialing

Close == /\ over' = TRUE
         /\ ~dialing
         /\ UNCHANGED <<item, dialing>>

End == /\ over
       /\ item' = "None"
       /\ UNCHANGED <<over, dialing>>

Dial == /\ ~over
        /\ dialing' = TRUE
        /\ UNCHANGED <<item, over>>

Dialed == /\ dialing' = FALSE
          /\ UNCHANGED <<item, over>>

Next == Deliver \/ Fail \/ Close \/ End \/ Dial \/ Dialed

Spec == Init /\ [][Next]_vars
=============================================================================
