------------------------------ MODULE GrpcClient ------------------------------
(***************************************************************************)
(* src/transport/grpc.rs: GrpcClient, from one await to the next.          *)
(*                                                                         *)
(* One task owns the client.  `pc` is where its call is: nowhere, at the   *)
(* top of next_update's loop, or suspended at an await, where the caller   *)
(* may drop the future.  The server and time go on meanwhile.  Time is     *)
(* counted in ticks, each age up to the duration it is compared with.      *)
(***************************************************************************)
EXTENDS Naturals, Sequences

CONSTANTS FilterMaps,  \* valid filter maps
          ChannelCap,  \* requests the channel to the server holds (8)
          ResetAfter,  \* ReconnectPolicy::reset_after
          LossWindow,  \* 10 s between two immediate reconnections
          Initial,     \* ReconnectPolicy::initial
          MaxDelay,    \* ReconnectPolicy::max
          Multiplier,  \* ReconnectPolicy::multiplier
          MaxAttempt,  \* where `attempt` saturates (2^32 - 1)
          MaxCount     \* where the counters stop (2^64 - 1)

ASSUME GrpcAssumption == /\ {ChannelCap, ResetAfter} \subseteq Nat \ {0}
                         /\ {LossWindow, MaxAttempt, MaxCount} \subseteq Nat
                         /\ {Initial, MaxDelay, Multiplier} \subseteq Nat

VARIABLES state,    \* the State of the client, a terminal one as its error
          conn,     \* what State::Connected holds, and its other end
          pc,       \* where the client's call is
          dialing,  \* why try_connect is running, if it is
          stable,   \* next_update's local
          attempt,  \* reconnection rounds, the backoff exponent
          delay,    \* the delay drawn, while the client sleeps
          loss,     \* age of last_data_loss; LossWindow if none or older
          filters,  \* the current filter map
          stats,    \* counters
          item,     \* what next_update returned last
          streamed, \* whether into_stream has consumed the client
          announced,\* history: Reconnecting fired since the last connection
          refused,  \* history: a terminal status answered a reconnection
          unsent,   \* history: the last update_filters was dropped half-way
          calm,     \* history: age of the last immediate reconnection
          rounds    \* history: backoff rounds since a connection lasted

historyVars == <<announced, refused, unsent, calm, rounds>>
callVars == <<pc, dialing, stable>>
userVars == <<filters, stats, item, streamed>>
vars == <<state, conn, callVars, attempt, delay, loss, userVars, historyVars>>

None == "none"
StreamError == {"AuthRefused", "Kicked", "InvalidFilter"}
Status == {"Unauthenticated", "PermissionDenied", "InvalidArgument",
           "DataLoss", "Unavailable"}

\* classify: DataLoss and every other code are not errors of the stream.
Terminal(status) == status \in {"Unauthenticated", "PermissionDenied", "InvalidArgument"}
Classified(status) == CASE status = "Unauthenticated"  -> "AuthRefused"
                        [] status = "PermissionDenied" -> "Kicked"
                        [] status = "InvalidArgument"  -> "InvalidFilter"

UpTo(max, n) == IF n < max THEN n + 1 ELSE max
Count(field) == stats' = [stats EXCEPT ![field] = UpTo(MaxCount, @)]

\* The stream as the server left it, the requests it has not read yet, the
\* last one it has read, and the age of the connection.
NoConn == [link |-> None, channel |-> <<>>, served |-> None, since |-> 0]

\* Mutant of Opened: the filter map is not sent again.
OpenedSilently == [link |-> "open", channel |-> <<>>, served |-> None, since |-> 0]
Opened == [link |-> "open", channel |-> <<filters>>, served |-> None, since |-> 0]

Awaiting == {"sleep", "dial", "subscribe", "message", "sending"}

\* GrpcClient::connect, once its configuration is found valid.
Init == /\ state = "Disconnected"
        /\ conn = NoConn
        /\ pc = "dial"
        /\ dialing = "connect"
        /\ stable = FALSE
        /\ attempt = 0
        /\ delay = 0
        /\ loss = LossWindow
        /\ filters \in FilterMaps
        /\ stats = [messages |-> 0, decode_errors |-> 0, reconnects |-> 0]
        /\ item = "nothing"
        /\ streamed = FALSE
        /\ announced = FALSE
        /\ refused = FALSE
        /\ unsent = FALSE
        /\ calm = LossWindow
        /\ rounds = 0

\* Assigning self.state drops the stream and the sender it held.
Leave(next) == state' = next /\ conn' = NoConn

-----------------------------------------------------------------------------
(* try_connect: `dialing` is whether connect called it, a backoff round, or *)
(* the immediate reconnection after a DATA_LOSS.                           *)

\* Mutant of Dialed: try_connect returns once the server is reached.
DialedIsEnough ==
  /\ pc = "dial"
  /\ pc' = IF dialing = "connect" THEN "subscribe" ELSE "loop"
  /\ UNCHANGED <<state, conn, dialing, stable, attempt, delay, loss, userVars, historyVars>>

Dialed ==
  /\ pc = "dial"
  /\ pc' = "subscribe"
  /\ UNCHANGED <<state, conn, dialing, stable, attempt, delay, loss, userVars, historyVars>>

\* connect returns the error, a backoff round ignores it (grpc.rs:232), the
\* round after a DATA_LOSS disconnects.
ConnectFailed ==
  /\ pc' = IF dialing = "connect" THEN "failed" ELSE "loop"
  /\ dialing' = None
  /\ IF dialing = "loss" THEN Leave("Disconnected") ELSE UNCHANGED <<state, conn>>
  /\ UNCHANGED <<stable, attempt, delay, loss, userVars, announced, unsent, calm, rounds>>

DialFails ==
  /\ pc = "dial"
  /\ ConnectFailed
  /\ UNCHANGED refused

SubscribeFails(status) ==
  /\ pc = "subscribe"
  /\ ConnectFailed
  /\ refused' = (refused \/ (Terminal(status) /\ dialing # "connect"))

\* Counted, and announced by Reconnected, but for the first connection.
Subscribed ==
  /\ pc = "subscribe"
  /\ IF dialing = "connect" THEN UNCHANGED stats ELSE Count("reconnects")
  /\ state' = "Connected"
  /\ conn' = Opened
  /\ pc' = IF dialing = "connect" THEN "idle" ELSE "loop"
  /\ dialing' = None
  /\ announced' = FALSE
  /\ unsent' = FALSE
  /\ UNCHANGED <<stable, attempt, delay, loss, filters, item, streamed, refused, calm, rounds>>

-----------------------------------------------------------------------------
(* next_update, called on the client or polled as the stream it became.    *)

NextUpdate ==
  /\ pc = "idle"
  /\ pc' = "loop"
  /\ UNCHANGED <<state, conn, dialing, stable, attempt, delay, loss, userVars, historyVars>>

Return(it) == item' = it /\ pc' = "idle"

ReturnNone ==
  /\ pc = "loop"
  /\ state = "Finished"
  /\ Return("None")
  /\ UNCHANGED <<state, conn, dialing, stable, attempt, delay, loss, filters, stats,
                 streamed, historyVars>>

\* Mutant of ReturnError: the error stays in the state.
ReturnErrorAgain ==
  /\ pc = "loop"
  /\ state \in StreamError
  /\ Return(state)
  /\ UNCHANGED <<state, conn, dialing, stable, attempt, delay, loss, filters, stats,
                 streamed, historyVars>>

ReturnError ==
  /\ pc = "loop"
  /\ state \in StreamError
  /\ Return(state)
  /\ state' = "Finished"
  /\ UNCHANGED <<conn, dialing, stable, attempt, delay, loss, filters, stats,
                 streamed, historyVars>>

\* The delay of round n is capped * jitter, with jitter in [0, 1).  The code's
\* exponent is an i32, which holds as many rounds as MaxAttempt stands for.
Ceiling(n) == LET exp == Initial * Multiplier ^ (n - 1)
              IN  IF exp < MaxDelay THEN exp ELSE MaxDelay
Delays(n) == {d \in 0..MaxDelay : d = 0 \/ d < Ceiling(n)}

\* backoff_delay, then the notice Reconnecting, then the sleep.
Backoff ==
  /\ pc = "loop"
  /\ state = "Disconnected"
  /\ attempt' = UpTo(MaxAttempt, attempt)
  /\ delay' \in Delays(attempt')
  /\ rounds' = UpTo(MaxAttempt, rounds)
  /\ announced' = TRUE
  /\ pc' = "sleep"
  /\ UNCHANGED <<state, conn, dialing, stable, loss, userVars, refused, unsent, calm>>

Slept ==
  /\ pc = "sleep"
  /\ pc' = "dial"
  /\ dialing' = "backoff"
  /\ delay' = 0
  /\ UNCHANGED <<state, conn, stable, attempt, loss, userVars, historyVars>>

Listen ==
  /\ pc = "loop"
  /\ state = "Connected"
  /\ stable' = (conn.since >= ResetAfter)
  /\ pc' = "message"
  /\ UNCHANGED <<state, conn, dialing, attempt, delay, loss, userVars, historyVars>>

\* stream.message() has an answer; `stable` goes out of scope.
Answered(link) ==
  /\ pc = "message"
  /\ conn.link \in link
  /\ stable' = FALSE

\* Mutant of GotResponse: any response resets the backoff.
GotResponseResets(decodable) ==
  /\ Answered({"open", "ended"} \cup Status)
  /\ attempt' = 0
  /\ IF decodable THEN Count("messages") /\ Return("update")
                  ELSE Count("decode_errors") /\ pc' = "loop" /\ UNCHANGED item
  /\ UNCHANGED <<state, conn, dialing, delay, loss, filters, streamed, historyVars>>

\* A response: to_update returns its transaction, or counts one that has none
\* and the loop goes on.  Responses sent before the end are still read.
GotResponse(decodable) ==
  /\ Answered({"open", "ended"} \cup Status)
  /\ attempt' = IF stable THEN 0 ELSE attempt
  /\ IF decodable THEN Count("messages") /\ Return("update")
                  ELSE Count("decode_errors") /\ pc' = "loop" /\ UNCHANGED item
  /\ UNCHANGED <<state, conn, dialing, delay, loss, filters, streamed, historyVars>>

\* The end of the stream, or what is left of it after an error.
GotEnd ==
  /\ Answered({"ended", "exhausted"})
  /\ Leave("Disconnected")
  /\ pc' = "loop"
  /\ UNCHANGED <<dialing, attempt, delay, loss, userVars, historyVars>>

\* Mutant of GotTerminal: the client sleeps before it reports the error.
GotTerminalSleeps ==
  /\ Answered({status \in Status : Terminal(status)})
  /\ Leave(Classified(conn.link))
  /\ pc' = "sleep"
  /\ UNCHANGED <<dialing, attempt, delay, loss, userVars, historyVars>>

GotTerminal ==
  /\ Answered({status \in Status : Terminal(status)})
  /\ Leave(Classified(conn.link))
  /\ pc' = "loop"
  /\ UNCHANGED <<dialing, attempt, delay, loss, userVars, historyVars>>

GotRecoverable ==
  /\ Answered({"Unavailable"})
  /\ Leave("Disconnected")
  /\ pc' = "loop"
  /\ UNCHANGED <<dialing, attempt, delay, loss, userVars, historyVars>>

\* Mutant of GotDataLoss: the time of the first DATA_LOSS is kept.
GotDataLossForgets ==
  /\ Answered({"DataLoss"})
  /\ loss' = IF loss < LossWindow THEN 0 ELSE loss
  /\ IF loss < LossWindow
       THEN /\ Leave("Disconnected")
            /\ pc' = "loop"
            /\ UNCHANGED <<dialing, calm>>
       ELSE /\ conn' = [conn EXCEPT !.link = "exhausted"]
            /\ pc' = "dial"
            /\ dialing' = "loss"
            /\ calm' = 0
            /\ UNCHANGED state
  /\ UNCHANGED <<attempt, delay, userVars, announced, refused, unsent, rounds>>

\* DATA_LOSS: reconnect at once, the old stream still in place, unless the
\* last one is less than LossWindow ago.
GotDataLoss ==
  /\ Answered({"DataLoss"})
  /\ loss' = 0
  /\ IF loss < LossWindow
       THEN /\ Leave("Disconnected")
            /\ pc' = "loop"
            /\ UNCHANGED <<dialing, calm>>
       ELSE /\ conn' = [conn EXCEPT !.link = "exhausted"]
            /\ pc' = "dial"
            /\ dialing' = "loss"
            /\ calm' = 0
            /\ UNCHANGED state
  /\ UNCHANGED <<attempt, delay, userVars, announced, refused, unsent, rounds>>

-----------------------------------------------------------------------------
(* The other calls, and the caller dropping a future.                      *)

\* update_filters, with a map that validates, up to its await if it has one.
UpdateFilters(map) ==
  /\ pc = "idle"
  /\ ~streamed
  /\ filters' = map
  /\ pc' = IF state = "Connected" THEN "sending" ELSE "idle"
  /\ UNCHANGED <<state, conn, dialing, stable, attempt, delay, loss, stats, item,
                 streamed, historyVars>>

\* Mutant of Sent: the request is pushed without waiting for room.
SentAtOnce ==
  /\ pc = "sending"
  /\ pc' = "idle"
  /\ unsent' = FALSE
  /\ conn' = [conn EXCEPT !.channel = Append(@, filters)]
  /\ UNCHANGED <<state, dialing, stable, attempt, delay, loss, userVars, announced,
                 refused, calm, rounds>>

\* The channel takes the request, or its receiver went with the stream.
Sent ==
  /\ pc = "sending"
  /\ pc' = "idle"
  /\ unsent' = FALSE
  /\ \/ /\ Len(conn.channel) < ChannelCap
        /\ conn' = [conn EXCEPT !.channel = Append(@, filters)]
     \/ /\ conn.link # "open"
        /\ UNCHANGED conn
  /\ UNCHANGED <<state, dialing, stable, attempt, delay, loss, userVars, announced,
                 refused, calm, rounds>>

\* The future of connect holds the client; a stream keeps its future when the
\* one that polls it is dropped.
Cancel ==
  /\ pc \in Awaiting
  /\ ~streamed
  /\ pc' = IF dialing = "connect" THEN "failed" ELSE "idle"
  /\ dialing' = None
  /\ stable' = FALSE
  /\ delay' = 0
  /\ unsent' = (unsent \/ pc = "sending")
  /\ UNCHANGED <<state, conn, attempt, loss, userVars, announced, refused, calm, rounds>>

Close ==
  /\ pc = "idle"
  /\ ~streamed
  /\ Leave("Finished")
  /\ UNCHANGED <<callVars, attempt, delay, loss, userVars, historyVars>>

IntoStream ==
  /\ pc = "idle"
  /\ streamed' = TRUE
  /\ UNCHANGED <<state, conn, callVars, attempt, delay, loss, filters, stats, item, historyVars>>

-----------------------------------------------------------------------------
(* The server and time.                                                    *)

ServerReads ==
  /\ conn.link = "open"
  /\ conn.channel # <<>>
  /\ conn' = [link    |-> conn.link,
              channel |-> Tail(conn.channel),
              served  |-> Head(conn.channel),
              since   |-> conn.since]
  /\ UNCHANGED <<state, callVars, attempt, delay, loss, userVars, historyVars>>

\* The stream ends, with a status or without.
ServerEnds(how) ==
  /\ conn.link = "open"
  /\ conn' = [conn EXCEPT !.link = how]
  /\ UNCHANGED <<state, callVars, attempt, delay, loss, userVars, historyVars>>

Tick ==
  /\ conn' = IF state = "Connected"
               THEN [conn EXCEPT !.since = UpTo(ResetAfter, @)] ELSE conn
  /\ loss' = UpTo(LossWindow, loss)
  /\ calm' = UpTo(LossWindow, calm)
  /\ rounds' = IF state = "Connected" /\ conn'.since = ResetAfter THEN 0 ELSE rounds
  /\ UNCHANGED <<state, callVars, attempt, delay, userVars, announced, refused, unsent>>

-----------------------------------------------------------------------------
\* What the task does by itself while it is polled.
LoopStep == ReturnNone \/ ReturnError \/ Backoff \/ Slept \/ Listen

ConnectStep == \/ Dialed
               \/ DialFails
               \/ \E status \in Status : SubscribeFails(status)
               \/ Subscribed

AnswerStep == \/ \E decodable \in BOOLEAN : GotResponse(decodable)
              \/ GotEnd
              \/ GotTerminal
              \/ GotRecoverable
              \/ GotDataLoss

CallerStep == \/ NextUpdate
              \/ \E map \in FilterMaps : UpdateFilters(map)
              \/ Cancel
              \/ Close
              \/ IntoStream

ServerStep == ServerReads \/ \E how \in Status \cup {"ended"} : ServerEnds(how)

Next == LoopStep \/ ConnectStep \/ AnswerStep \/ Sent \/ CallerStep \/ ServerStep \/ Tick

Spec == Init /\ [][Next]_vars

\* A task that can go on is polled, also by a stream that has failed, which
\* answers at once; the server is reached again and again, and accepts one of the
\* subscriptions.  It need not send, read or end.
Fairness == /\ WF_vars(LoopStep)
            /\ WF_vars(conn.link = "exhausted" /\ GotEnd)
            /\ SF_vars(Dialed)
            /\ SF_vars(Subscribed)

FairSpec == Spec /\ Fairness

-----------------------------------------------------------------------------
\* Type invariant.
TypeOK ==
  /\ state \in {"Disconnected", "Connected", "Finished"} \cup StreamError
  /\ conn \in [link    : {None, "open", "ended", "exhausted"} \cup Status,
               channel : Seq(FilterMaps),
               served  : FilterMaps \cup {None},
               since   : 0..ResetAfter]
  /\ Len(conn.channel) <= ChannelCap
  /\ pc \in {"idle", "loop", "failed"} \cup Awaiting
  /\ dialing \in {None, "connect", "backoff", "loss"}
  /\ stable \in BOOLEAN
  /\ attempt \in 0..MaxAttempt
  /\ delay \in 0..MaxDelay /\ (delay # 0 => pc = "sleep")
  /\ loss \in 0..LossWindow
  /\ filters \in FilterMaps
  /\ stats \in [messages : 0..MaxCount, decode_errors : 0..MaxCount,
                reconnects : 0..MaxCount]
  /\ item \in {"nothing", "update", "None"} \cup StreamError
  /\ streamed \in BOOLEAN
  /\ announced \in BOOLEAN
  /\ refused \in BOOLEAN
  /\ unsent \in BOOLEAN
  /\ calm \in 0..LossWindow
  /\ rounds \in 0..MaxAttempt

\* The server of a live connection has been sent the current filter map last,
\* whatever updates, reconnections and dropped futures came before (errors.md
\* line 38, api.md:156), unless update_filters itself was dropped unfinished.
CurrentFilters ==
  conn.link = "open" /\ pc # "sending" /\ ~unsent =>
    filters = IF conn.channel = <<>> THEN conn.served
                                     ELSE conn.channel[Len(conn.channel)]

\* A terminal error is never left behind by a dropped future or hidden by a
\* later call: nothing awaits between its arrival and its return
\* (grpc.rs:220-224, 250-252).
ErrorNotLost == state \in StreamError => pc = "loop"

\* What ends a stream for its consumer: an error, or None.
Ends == StreamError \cup {"None"}

\* A consumer that has been returned an error, or None, is returned None by
\* every later call, the very next one included, and no later call awaits
\* anything: no connection is dialed or listened to (api.md:154-158,
\* grpc.rs:219-224).
EndIsFinal ==
  [][(item \in Ends) =>
       /\ item' = IF pc = "loop" /\ pc' = "idle" THEN "None" ELSE item
       /\ pc' \notin Awaiting]_vars

\* The backoff exponent counts every round since a connection last stayed up
\* for reset_after: a server that accepts and drops, or sends a little before
\* it drops, does not restart the delays (errors.md:43-45, grpc.rs:235-240).
BackoffKept == rounds <= attempt

\* DATA_LOSS makes the client reconnect without backoff at most once in the
\* window, over any number of connections in between (grpc.rs:253-265).
ImmediateReconnectsSpaced ==
  [][pc = "message" /\ pc' = "dial" => calm >= LossWindow]_vars

\* The client implements the stream it documents.
Stream == INSTANCE UpdateStream WITH
            over    <- state = "Finished",
            dialing <- pc \in {"dial", "subscribe"}

ImplementsUpdateStream == Stream!Spec

\* A call of next_update that finds the client disconnected, or connected to
\* what is left of a stream whose reconnection was cancelled, gets a new stream, as
\* long as the caller waits (errors.md:38-41, grpc.rs:225-233, 246-248, 261).
Recovers ==
  (pc = "loop" /\ (state = "Disconnected" \/ conn.link = "exhausted"))
    ~> (conn.link = "open" \/ pc = "idle")

\* "Reconnection delays grow exponentially, with jitter, from `initial` up to
\* `max`" (errors.md:43).
DelayFromInitial == pc = "sleep" => delay >= Initial

\* Each attempt to reconnect emits Reconnecting (errors.md:64).
AttemptAnnounced == dialing \in {"backoff", "loss"} => announced

\* A terminal status ends the attempts: "kicked by operator - do not
\* reconnect in a loop" (error.rs:7), "the token is missing, invalid, or not
\* valid for this stream" is terminal (errors.md:23-28).
RefusalIsTerminal ==
  [][refused => ~(pc = "dial" /\ pc' = "subscribe")]_vars
=============================================================================
