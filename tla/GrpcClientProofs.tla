--------------------------- MODULE GrpcClientProofs ---------------------------
(***************************************************************************)
(* Proofs about GrpcClient, for every set of filter maps, every room in the *)
(* channel, every policy and every bound: the types, what the server holds, *)
(* the backoff, the errors, and the stream that the client implements.     *)
(***************************************************************************)
EXTENDS GrpcClient, SequenceTheorems, TLAPS

-----------------------------------------------------------------------------
\* Where the call is and what the state says of it.  A client connects exactly
\* in the two awaits of try_connect, for the reason it notes; it listens and
\* sends only on a connection, sleeps only without one.
CallOK ==
  /\ dialing # None <=> pc \in {"dial", "subscribe"}
  /\ dialing \in {"connect", "backoff"} => state = "Disconnected"
  /\ dialing = "loss" => state = "Connected"
  /\ pc \in {"message", "sending"} => state = "Connected"
  /\ pc = "sleep" => state = "Disconnected"
  /\ state \in StreamError => pc = "loop"

\* A stream is held in the state Connected and in no other.
ConnOK == state # "Connected" => conn = NoConn

\* No backoff round has come since the connection has lasted for ResetAfter,
\* nor while next_update remembers that it had.
StableOK ==
  /\ stable => pc = "message" /\ rounds = 0
  /\ conn.since = ResetAfter => rounds = 0
  /\ rounds <= attempt

\* The client's memory of the last DATA_LOSS is never older than the last
\* reconnection it made at once.
LossOK == loss <= calm

ClientInv == TypeOK /\ CallOK /\ ConnOK /\ CurrentFilters /\ StableOK /\ LossOK

\* Counting up to a bound stays within it.
LEMMA UpToType ==
  ASSUME NEW max \in Nat, NEW n \in 0..max
  PROVE  UpTo(max, n) \in 0..max /\ n <= UpTo(max, n) /\ UpTo(max, n) <= n + 1
  BY DEF UpTo

LEMMA ConstantsType ==
  /\ ChannelCap \in Nat /\ ChannelCap > 0 /\ ResetAfter \in Nat /\ ResetAfter > 0
  /\ LossWindow \in Nat /\ MaxAttempt \in Nat /\ MaxCount \in Nat
  /\ Initial \in Nat /\ MaxDelay \in Nat /\ Multiplier \in Nat
  BY GrpcAssumption

\* A counter counts up to the bound.
LEMMA CountType ==
  ASSUME TypeOK, NEW f \in {"messages", "decode_errors", "reconnects"}, Count(f)
  PROVE  stats' \in [messages : 0..MaxCount, decode_errors : 0..MaxCount,
                     reconnects : 0..MaxCount]
  <1>1. stats[f] \in 0..MaxCount
    BY DEF TypeOK
  <1>2. UpTo(MaxCount, stats[f]) \in 0..MaxCount
    BY <1>1, UpToType, ConstantsType
  <1> QED
    BY <1>2 DEF TypeOK, Count

\* The connection's part of the type invariant.
ConnTypeOK(c) ==
  /\ c \in [link    : {None, "open", "ended", "exhausted"} \cup Status,
            channel : Seq(FilterMaps),
            served  : FilterMaps \cup {None},
            since   : 0..ResetAfter]
  /\ Len(c.channel) <= ChannelCap

\* The connection keeps its type whatever happens to it: the client drops it or
\* opens it, sends or marks it, the server reads or ends it, time passes.
LEMMA ConnNext ==
  ASSUME TypeOK, [Next]_vars
  PROVE  ConnTypeOK(conn')
  <1> USE ConstantsType DEF ConnTypeOK
  <1>1. ConnTypeOK(conn) /\ filters \in FilterMaps
    BY DEF TypeOK
  <1>2. CASE UNCHANGED conn
    BY <1>1, <1>2
  <1>3. CASE conn' = NoConn
    <2>1. <<>> \in Seq(FilterMaps) /\ Len(<<>>) = 0
      OBVIOUS
    <2> QED
      BY <1>3, <2>1 DEF NoConn
  <1>4. CASE Subscribed
    <2>1. <<filters>> \in Seq(FilterMaps) /\ Len(<<filters>>) = 1
      BY <1>1
    <2>2. conn' = Opened
      BY <1>4 DEF Subscribed
    <2> QED
      BY <2>1, <2>2 DEF Opened
  <1>5. ASSUME NEW how \in Status \cup {"ended", "exhausted"},
               conn' = [conn EXCEPT !.link = how]
        PROVE  ConnTypeOK(conn')
    BY <1>1, <1>5
  <1>6. CASE Sent
    <2>1. ASSUME Len(conn.channel) < ChannelCap,
                 conn' = [conn EXCEPT !.channel = Append(conn.channel, filters)]
          PROVE  ConnTypeOK(conn')
      <3>1. /\ Append(conn.channel, filters) \in Seq(FilterMaps)
            /\ Len(Append(conn.channel, filters)) <= ChannelCap
        BY <1>1, <2>1
      <3> QED
        BY <1>1, <2>1, <3>1
    <2> QED
      BY <1>2, <1>6, <2>1 DEF Sent
  <1>7. CASE ServerReads
    <2>1. /\ Tail(conn.channel) \in Seq(FilterMaps)
          /\ Len(Tail(conn.channel)) <= ChannelCap
          /\ Head(conn.channel) \in FilterMaps
      BY <1>1, <1>7 DEF ServerReads
    <2> QED
      BY <1>1, <1>7, <2>1 DEF ServerReads
  <1>8. CASE Tick
    <2>1. UpTo(ResetAfter, conn.since) \in 0..ResetAfter
      BY <1>1, UpToType
    <2>2. conn' = conn \/ conn' = [conn EXCEPT !.since = UpTo(ResetAfter, conn.since)]
      BY <1>8 DEF Tick
    <2> QED
      BY <1>1, <2>1, <2>2
  <1> HIDE DEF ConnTypeOK
  <1>9. CASE LoopStep
    BY <1>2, <1>9 DEF LoopStep, ReturnNone, ReturnError, Backoff, Slept, Listen
  <1>10. CASE ConnectStep
    BY <1>2, <1>3, <1>4, <1>10
    DEF ConnectStep, Dialed, DialFails, SubscribeFails, ConnectFailed, Leave
  <1>11. CASE AnswerStep
    BY <1>2, <1>3, <1>5, <1>11
    DEF AnswerStep, GotResponse, GotEnd, GotTerminal, GotRecoverable,
        GotDataLoss, Leave
  <1>12. CASE CallerStep
    BY <1>2, <1>3, <1>12
    DEF CallerStep, NextUpdate, UpdateFilters, Cancel, Close, IntoStream, Leave
  <1>13. CASE ServerStep
    BY <1>5, <1>7, <1>13 DEF ServerStep, ServerEnds
  <1>14. CASE UNCHANGED vars
    BY <1>2, <1>14 DEF vars
  <1> QED
    BY <1>6, <1>8, <1>9, <1>10, <1>11, <1>12, <1>13, <1>14 DEF Next

\* The counters and the flags keep theirs.
LEMMA StatsNext ==
  ASSUME TypeOK, [Next]_vars
  PROVE  stats' \in [messages : 0..MaxCount, decode_errors : 0..MaxCount,
                     reconnects : 0..MaxCount]
  <1> USE DEF userVars
  <1>1. stats \in [messages : 0..MaxCount, decode_errors : 0..MaxCount,
                   reconnects : 0..MaxCount]
    BY DEF TypeOK
  <1>2. CASE LoopStep
    BY <1>1, <1>2 DEF LoopStep, ReturnNone, ReturnError, Backoff, Slept, Listen
  <1>3. CASE ConnectStep
    BY <1>1, <1>3, CountType
    DEF ConnectStep, Dialed, DialFails, SubscribeFails, ConnectFailed, Subscribed
  <1>4. CASE AnswerStep
    BY <1>1, <1>4, CountType
    DEF AnswerStep, GotResponse, GotEnd, GotTerminal, GotRecoverable, GotDataLoss
  <1>5. CASE Sent \/ CallerStep
    BY <1>1, <1>5
    DEF Sent, CallerStep, NextUpdate, UpdateFilters, Cancel, Close, IntoStream
  <1>6. CASE ServerStep \/ Tick
    BY <1>1, <1>6 DEF ServerStep, ServerReads, ServerEnds, Tick
  <1>7. CASE UNCHANGED vars
    BY <1>1, <1>7 DEF vars
  <1> QED
    BY <1>2, <1>3, <1>4, <1>5, <1>6, <1>7 DEF Next

LEMMA FlagsNext ==
  ASSUME TypeOK, [Next]_vars
  PROVE  /\ stable' \in BOOLEAN /\ streamed' \in BOOLEAN /\ announced' \in BOOLEAN
         /\ refused' \in BOOLEAN /\ unsent' \in BOOLEAN
  <1> USE DEF userVars, callVars, historyVars
  <1>1. /\ stable \in BOOLEAN /\ streamed \in BOOLEAN /\ announced \in BOOLEAN
        /\ refused \in BOOLEAN /\ unsent \in BOOLEAN
    BY DEF TypeOK
  <1>2. CASE LoopStep
    <2>1. CASE Listen
      <3>1. stable' \in BOOLEAN
        BY <2>1 DEF Listen
      <3> QED
        BY <1>1, <2>1, <3>1 DEF Listen
    <2>2. CASE ReturnNone \/ ReturnError \/ Backoff \/ Slept
      BY <1>1, <2>2 DEF ReturnNone, ReturnError, Backoff, Slept
    <2> QED
      BY <1>2, <2>1, <2>2 DEF LoopStep
  <1>3. CASE ConnectStep
    BY <1>1, <1>3
    DEF ConnectStep, Dialed, DialFails, SubscribeFails, ConnectFailed, Subscribed
  <1>4. CASE AnswerStep
    BY <1>1, <1>4
    DEF AnswerStep, GotResponse, GotEnd, GotTerminal, GotRecoverable, GotDataLoss,
        Answered
  <1>5. CASE Sent \/ CallerStep
    BY <1>1, <1>5
    DEF Sent, CallerStep, NextUpdate, UpdateFilters, Cancel, Close, IntoStream
  <1>6. CASE ServerStep \/ Tick
    BY <1>1, <1>6 DEF ServerStep, ServerReads, ServerEnds, Tick
  <1>7. CASE UNCHANGED vars
    BY <1>1, <1>7 DEF vars
  <1> QED
    BY <1>2, <1>3, <1>4, <1>5, <1>6, <1>7 DEF Next

\* And so do the ages and the numbers that are counted up to a bound.
LEMMA NumbersNext ==
  ASSUME TypeOK, [Next]_vars
  PROVE  /\ attempt' \in 0..MaxAttempt /\ rounds' \in 0..MaxAttempt
         /\ loss' \in 0..LossWindow /\ calm' \in 0..LossWindow
         /\ delay' \in 0..MaxDelay /\ (delay' # 0 => pc' = "sleep")
  <1> USE ConstantsType DEF historyVars, callVars
  <1>1. /\ attempt \in 0..MaxAttempt /\ rounds \in 0..MaxAttempt
        /\ loss \in 0..LossWindow /\ calm \in 0..LossWindow
        /\ delay \in 0..MaxDelay /\ (delay # 0 => pc = "sleep")
    BY DEF TypeOK
  <1>2. CASE LoopStep
    <2>1. CASE Backoff
      <3>1. /\ attempt' = UpTo(MaxAttempt, attempt) /\ rounds' = UpTo(MaxAttempt, rounds)
            /\ delay' \in 0..MaxDelay
            /\ pc' = "sleep" /\ UNCHANGED <<loss, calm>>
        BY <2>1 DEF Backoff, Delays
      <3> QED
        BY <1>1, <3>1, UpToType
    <2>2. CASE ReturnNone \/ ReturnError \/ Slept \/ Listen
      BY <1>1, <2>2 DEF ReturnNone, ReturnError, Slept, Listen, Return
    <2> QED
      BY <1>2, <2>1, <2>2 DEF LoopStep
  <1>3. CASE ConnectStep
    BY <1>1, <1>3
    DEF ConnectStep, Dialed, DialFails, SubscribeFails, ConnectFailed, Subscribed
  <1>4. CASE AnswerStep
    BY <1>1, <1>4
    DEF AnswerStep, GotResponse, GotEnd, GotTerminal, GotRecoverable, GotDataLoss,
        Answered, Return
  <1>5. CASE Sent \/ CallerStep
    BY <1>1, <1>5
    DEF Sent, CallerStep, NextUpdate, UpdateFilters, Cancel, Close, IntoStream
  <1>6. CASE ServerStep
    BY <1>1, <1>6 DEF ServerStep, ServerReads, ServerEnds
  <1>7. CASE Tick
    BY <1>1, <1>7, UpToType DEF Tick
  <1>8. CASE UNCHANGED vars
    BY <1>1, <1>8 DEF vars
  <1> QED
    BY <1>2, <1>3, <1>4, <1>5, <1>6, <1>7, <1>8 DEF Next

\* The state, the place of the call and what it returned stay in their ranges.
LEMMA PlacesNext ==
  ASSUME TypeOK, [Next]_vars
  PROVE  /\ state' \in {"Disconnected", "Connected", "Finished"} \cup StreamError
         /\ pc' \in {"idle", "loop", "failed"} \cup Awaiting
         /\ dialing' \in {None, "connect", "backoff", "loss"}
         /\ filters' \in FilterMaps
         /\ item' \in {"nothing", "update", "None"} \cup StreamError
  <1> USE DEF userVars, callVars, Leave, Awaiting
  <1>1. /\ state \in {"Disconnected", "Connected", "Finished"} \cup StreamError
        /\ pc \in {"idle", "loop", "failed"} \cup Awaiting
        /\ dialing \in {None, "connect", "backoff", "loss"}
        /\ filters \in FilterMaps
        /\ item \in {"nothing", "update", "None"} \cup StreamError
    BY DEF TypeOK
  <1>2. CASE LoopStep
    BY <1>1, <1>2 DEF LoopStep, ReturnNone, ReturnError, Backoff, Slept, Listen, Return
  <1>3. CASE ConnectStep
    BY <1>1, <1>3
    DEF ConnectStep, Dialed, DialFails, SubscribeFails, ConnectFailed, Subscribed
  <1>4. CASE GotTerminal
    BY <1>1, <1>4 DEF GotTerminal, Answered, Terminal, Classified, StreamError
  <1>5. CASE AnswerStep /\ ~GotTerminal
    BY <1>1, <1>5
    DEF AnswerStep, GotResponse, GotEnd, GotRecoverable, GotDataLoss, Return
  <1>6. CASE Sent \/ CallerStep
    BY <1>1, <1>6
    DEF Sent, CallerStep, NextUpdate, UpdateFilters, Cancel, Close, IntoStream
  <1>7. CASE ServerStep \/ Tick
    BY <1>1, <1>7 DEF ServerStep, ServerReads, ServerEnds, Tick
  <1>8. CASE UNCHANGED vars
    BY <1>1, <1>8 DEF vars
  <1> QED
    BY <1>2, <1>3, <1>4, <1>5, <1>6, <1>7, <1>8 DEF Next

LEMMA TypeNext == TypeOK /\ [Next]_vars => TypeOK'
  BY ConnNext, StatsNext, FlagsNext, NumbersNext, PlacesNext DEF TypeOK, ConnTypeOK

-----------------------------------------------------------------------------
(* The rest of the invariant, part by part.                                *)

\* The place of the call, its reason to connect and the state agree after
\* every step.
LEMMA CallNext ==
  ASSUME TypeOK, CallOK, [Next]_vars
  PROVE  CallOK'
  <1> USE DEF CallOK, callVars, userVars, Leave, StreamError, None
  <1>1. CASE LoopStep
    BY <1>1 DEF LoopStep, ReturnNone, ReturnError, Backoff, Slept, Listen, Return
  <1>2. CASE ConnectStep
    BY <1>2 DEF ConnectStep, Dialed, DialFails, SubscribeFails, ConnectFailed,
                Subscribed
  <1>3. CASE AnswerStep
    BY <1>3 DEF AnswerStep, GotResponse, GotEnd, GotTerminal, GotRecoverable,
                GotDataLoss, Answered, Return
  <1>4. CASE Sent \/ CallerStep
    BY <1>4 DEF Sent, CallerStep, NextUpdate, UpdateFilters, Cancel, Close,
                IntoStream, Awaiting
  <1>5. CASE ServerStep \/ Tick
    BY <1>5 DEF ServerStep, ServerReads, ServerEnds, Tick
  <1>6. CASE UNCHANGED vars
    BY <1>6 DEF vars
  <1> QED
    BY <1>1, <1>2, <1>3, <1>4, <1>5, <1>6 DEF Next

\* Every assignment of another state drops the stream.
LEMMA HeldNext ==
  ASSUME TypeOK, CallOK, ConnOK, [Next]_vars
  PROVE  ConnOK'
  <1> USE DEF CallOK, ConnOK, callVars, userVars, Leave
  <1>1. CASE LoopStep
    BY <1>1 DEF LoopStep, ReturnNone, ReturnError, Backoff, Slept, Listen, StreamError
  <1>2. CASE ConnectStep
    BY <1>2 DEF ConnectStep, Dialed, DialFails, SubscribeFails, ConnectFailed,
                Subscribed
  <1>3. CASE AnswerStep
    BY <1>3 DEF AnswerStep, GotResponse, GotEnd, GotTerminal, GotRecoverable,
                GotDataLoss, Answered
  <1>4. CASE Sent \/ CallerStep
    BY <1>4 DEF Sent, CallerStep, NextUpdate, UpdateFilters, Cancel, Close,
                IntoStream
  <1>5. CASE ServerStep \/ Tick
    BY <1>5 DEF ServerStep, ServerReads, ServerEnds, Tick, NoConn, None
  <1>6. CASE UNCHANGED vars
    BY <1>6 DEF vars
  <1> QED
    BY <1>1, <1>2, <1>3, <1>4, <1>5, <1>6 DEF Next

\* Taking the first element of a queue leaves its last one.
LEMMA LastOfTail ==
  ASSUME NEW S, NEW s \in Seq(S), s # <<>>
  PROVE  IF Tail(s) = <<>> THEN Head(s) = s[Len(s)]
                           ELSE Tail(s)[Len(Tail(s))] = s[Len(s)]
  <1>1. /\ Len(s) \in Nat \ {0} /\ Len(Tail(s)) = Len(s) - 1
        /\ Tail(s) = <<>> <=> Len(Tail(s)) = 0
    BY EmptySeq, HeadTailProperties
  <1>2. Head(s) = s[1]
    OBVIOUS
  <1>3. CASE Len(s) = 1
    <2>1. Tail(s) = <<>>
      BY <1>1, <1>3
    <2> QED
      BY <1>2, <1>3, <2>1
  <1>4. CASE Len(s) # 1
    <2>1. Tail(s) # <<>>
      BY <1>1, <1>4
    <2>2. Len(s) - 1 \in 1..Len(Tail(s))
      BY <1>1, <1>4
    <2>3. Tail(s)[Len(s) - 1] = s[Len(s)]
      BY <1>1, <2>2
    <2> QED
      BY <1>1, <2>1, <2>3
  <1> QED
    BY <1>3, <1>4

\* The filter map the server has been sent last.
LastSent(c) == IF c.channel = <<>> THEN c.served ELSE c.channel[Len(c.channel)]

\* A map that changes is sent, by update_filters or by the next subscription;
\* reading it on the other side does not change which was last
\* (grpc.rs:184-187, 314-323).
LEMMA FiltersNext ==
  ASSUME TypeOK, CallOK, ConnOK, CurrentFilters, [Next]_vars
  PROVE  CurrentFilters'
  <1> USE DEF CallOK, ConnOK, callVars, userVars, historyVars, Leave
  <1>1. CurrentFilters <=>
          (conn.link = "open" /\ pc # "sending" /\ ~unsent => filters = LastSent(conn))
    BY DEF CurrentFilters, LastSent
  <1>2. CurrentFilters' <=>
          (conn'.link = "open" /\ pc' # "sending" /\ ~unsent'
             => filters' = LastSent(conn'))
    BY DEF CurrentFilters, LastSent
  <1>3. conn.channel \in Seq(FilterMaps) /\ filters \in FilterMaps
    BY DEF TypeOK
  <1>4. conn \in [link    : {None, "open", "ended", "exhausted"} \cup Status,
                   channel : Seq(FilterMaps),
                   served  : FilterMaps \cup {None},
                   since   : 0..ResetAfter]
    BY DEF TypeOK
  <1>5. CASE conn'.link # "open"
    BY <1>2, <1>5
  <1>6. ASSUME UNCHANGED <<conn, filters, unsent>>, pc # "sending"
        PROVE  CurrentFilters'
    BY <1>1, <1>2, <1>6
  <1>7. CASE Subscribed
    <2>1. conn' = Opened /\ filters' = filters
      BY <1>7 DEF Subscribed
    <2>2. LastSent(Opened) = filters
      BY DEF LastSent, Opened
    <2> QED
      BY <1>2, <2>1, <2>2
  <1>8. CASE Sent
    <2>1. CASE conn.link # "open"
      <3>1. conn'.link = conn.link
        BY <1>4, <1>8 DEF Sent
      <3> QED
        BY <1>5, <2>1, <3>1
    <2>2. CASE conn' = [conn EXCEPT !.channel = Append(conn.channel, filters)]
      <3> DEFINE sent == Append(conn.channel, filters)
      <3>1. sent # <<>> /\ sent[Len(sent)] = filters
        BY <1>3
      <3>2. conn'.channel = sent
        BY <1>4, <2>2
      <3>3. LastSent(conn') = filters
        BY <3>1, <3>2 DEF LastSent
      <3> QED
        BY <1>2, <1>8, <3>3 DEF Sent
    <2> QED
      BY <1>8, <2>1, <2>2 DEF Sent
  <1>9. CASE ServerReads
    <2>1. /\ conn.channel # <<>> /\ conn'.channel = Tail(conn.channel)
          /\ conn'.served = Head(conn.channel) /\ conn'.link = conn.link
          /\ UNCHANGED <<pc, filters, unsent>>
      BY <1>9 DEF ServerReads
    <2> QED
      BY <1>1, <1>2, <1>3, <2>1, LastOfTail DEF LastSent
  <1>10. CASE Tick
    <2>1. LastSent(conn') = LastSent(conn) /\ conn'.link = conn.link
      <3>1. conn'.channel = conn.channel /\ conn'.served = conn.served
        BY <1>4, <1>10 DEF Tick
      <3>2. conn'.link = conn.link
        BY <1>4, <1>10 DEF Tick
      <3> QED
        BY <3>1, <3>2 DEF LastSent
    <2> QED
      BY <1>1, <1>2, <1>10, <2>1 DEF Tick
  <1>11. CASE Cancel
    BY <1>1, <1>2, <1>11 DEF Cancel
  <1>12. CASE \E map \in FilterMaps : UpdateFilters(map)
    BY <1>2, <1>5, <1>12 DEF UpdateFilters, NoConn, None
  <1>13. CASE LoopStep
    BY <1>6, <1>13
    DEF LoopStep, ReturnNone, ReturnError, Backoff, Slept, Listen, Return
  <1>14. CASE ConnectStep /\ ~Subscribed
    BY <1>5, <1>6, <1>14
    DEF ConnectStep, Dialed, DialFails, SubscribeFails, ConnectFailed, NoConn, None
  <1>15. CASE AnswerStep
    <2>1. CASE GotDataLoss
      <3>1. conn'.link # "open"
        BY <1>4, <2>1 DEF GotDataLoss, NoConn, None
      <3> QED
        BY <1>5, <3>1
    <2>2. CASE \E decodable \in BOOLEAN : GotResponse(decodable)
      BY <1>6, <2>2 DEF GotResponse, Answered
    <2>3. CASE GotEnd \/ GotTerminal \/ GotRecoverable
      BY <1>5, <2>3 DEF GotEnd, GotTerminal, GotRecoverable, NoConn, None
    <2> QED
      BY <1>15, <2>1, <2>2, <2>3 DEF AnswerStep
  <1>16. CASE NextUpdate \/ Close \/ IntoStream
    BY <1>5, <1>6, <1>16 DEF NextUpdate, Close, IntoStream, NoConn, None
  <1>17. CASE \E how \in Status \cup {"ended"} : ServerEnds(how)
    <2>1. PICK how \in Status \cup {"ended"} : conn' = [conn EXCEPT !.link = how]
      BY <1>17 DEF ServerEnds
    <2>2. conn'.link = how /\ how # "open"
      BY <1>4, <2>1 DEF Status
    <2> QED
      BY <1>5, <2>2
  <1>18. CASE UNCHANGED vars
    BY <1>1, <1>2, <1>18 DEF vars
  <1> QED
    BY <1>7, <1>8, <1>9, <1>10, <1>11, <1>12, <1>13, <1>14, <1>15, <1>16, <1>17, <1>18
    DEF Next, CallerStep, ServerStep

\* Backoff rounds are forgotten in the exponent only after they have been
\* forgotten in fact: when the connection has lasted (grpc.rs:200, 235-240).
LEMMA StableNext ==
  ASSUME TypeOK, CallOK, ConnOK, StableOK, [Next]_vars
  PROVE  StableOK'
  <1> USE ConstantsType DEF CallOK, ConnOK, StableOK, callVars, historyVars, Leave
  <1>1. /\ conn.since \in 0..ResetAfter
        /\ conn \in [link    : {None, "open", "ended", "exhausted"} \cup Status,
                     channel : Seq(FilterMaps),
                     served  : FilterMaps \cup {None},
                     since   : 0..ResetAfter]
        /\ attempt \in 0..MaxAttempt /\ rounds \in 0..MaxAttempt
    BY DEF TypeOK
  <1>2. NoConn.since # ResetAfter /\ Opened.since # ResetAfter
    BY DEF NoConn, Opened
  <1>3. CASE LoopStep
    <2>1. CASE Backoff
      <3>1. /\ conn = NoConn /\ ~stable /\ UNCHANGED <<conn, stable>>
            /\ attempt' = UpTo(MaxAttempt, attempt)
            /\ rounds' = UpTo(MaxAttempt, rounds)
        BY <2>1 DEF Backoff
      <3> QED
        BY <1>1, <1>2, <3>1 DEF UpTo
    <2>2. CASE Listen
      <3>1. stable' = (conn.since >= ResetAfter)
        BY <2>2 DEF Listen
      <3>2. stable' => conn.since >= ResetAfter
        BY <3>1, Zenon
      <3>3. pc' = "message" /\ UNCHANGED <<conn, rounds, attempt>>
        BY <2>2 DEF Listen
      <3> QED
        BY <1>1, <3>2, <3>3
    <2>3. CASE ReturnNone \/ ReturnError \/ Slept
      BY <1>1, <2>3 DEF ReturnNone, ReturnError, Slept
    <2> QED
      BY <1>3, <2>1, <2>2, <2>3 DEF LoopStep
  <1>4. CASE ConnectStep
    BY <1>1, <1>2, <1>4
    DEF ConnectStep, Dialed, DialFails, SubscribeFails, ConnectFailed, Subscribed
  <1>5. CASE GotDataLoss
    <2>1. conn'.since = conn.since \/ conn' = NoConn
      BY <1>1, <1>5 DEF GotDataLoss
    <2> QED
      BY <1>1, <1>2, <1>5, <2>1 DEF GotDataLoss, Answered
  <1>6. CASE \E decodable \in BOOLEAN : GotResponse(decodable)
    BY <1>1, <1>6 DEF GotResponse, Answered
  <1>7. CASE GotEnd \/ GotTerminal \/ GotRecoverable
    BY <1>1, <1>2, <1>7 DEF GotEnd, GotTerminal, GotRecoverable, Answered
  <1>8. CASE Sent
    <2>1. conn'.since = conn.since
      BY <1>1, <1>8 DEF Sent
    <2> QED
      BY <1>8, <2>1 DEF Sent
  <1>9. CASE CallerStep
    BY <1>1, <1>2, <1>9
    DEF CallerStep, NextUpdate, UpdateFilters, Cancel, Close, IntoStream
  <1>10. CASE ServerStep
    <2>1. conn'.since = conn.since
      BY <1>1, <1>10 DEF ServerStep, ServerReads, ServerEnds
    <2> QED
      BY <1>10, <2>1 DEF ServerStep, ServerReads, ServerEnds
  <1>11. CASE Tick
    <2>1. CASE state = "Connected"
      <3>1. /\ stable' = stable /\ attempt' = attempt /\ pc' = pc
            /\ rounds' = IF conn'.since = ResetAfter THEN 0 ELSE rounds
        BY <1>11, <2>1 DEF Tick
      <3> QED
        BY <1>1, <3>1
    <2>2. CASE state # "Connected"
      BY <1>1, <1>2, <1>11, <2>2 DEF Tick
    <2> QED
      BY <2>1, <2>2
  <1>12. CASE UNCHANGED vars
    BY <1>12 DEF vars
  <1> QED
    BY <1>3, <1>4, <1>5, <1>6, <1>7, <1>8, <1>9, <1>10, <1>11, <1>12
    DEF Next, AnswerStep

\* The two ages grow together, and go back to nothing together or the memory
\* of the client alone.
LEMMA LossNext ==
  ASSUME TypeOK, LossOK, [Next]_vars
  PROVE  LossOK'
  <1> USE ConstantsType DEF LossOK, historyVars
  <1>1. loss \in 0..LossWindow /\ calm \in 0..LossWindow
    BY DEF TypeOK
  <1>2. CASE GotDataLoss
    BY <1>1, <1>2 DEF GotDataLoss
  <1>3. CASE Tick
    BY <1>1, <1>3 DEF Tick, UpTo
  <1>4. ASSUME UNCHANGED <<loss, calm>>
        PROVE  LossOK'
    BY <1>4
  <1>5. CASE LoopStep
    BY <1>4, <1>5 DEF LoopStep, ReturnNone, ReturnError, Backoff, Slept, Listen
  <1>6. CASE ConnectStep
    BY <1>4, <1>6
    DEF ConnectStep, Dialed, DialFails, SubscribeFails, ConnectFailed, Subscribed
  <1>7. CASE AnswerStep /\ ~GotDataLoss
    BY <1>4, <1>7 DEF AnswerStep, GotResponse, GotEnd, GotTerminal, GotRecoverable
  <1>8. CASE Sent \/ CallerStep
    BY <1>4, <1>8
    DEF Sent, CallerStep, NextUpdate, UpdateFilters, Cancel, Close, IntoStream
  <1>9. CASE ServerStep
    BY <1>4, <1>9 DEF ServerStep, ServerReads, ServerEnds
  <1>10. CASE UNCHANGED vars
    BY <1>4, <1>10 DEF vars
  <1> QED
    BY <1>2, <1>3, <1>5, <1>6, <1>7, <1>8, <1>9, <1>10 DEF Next

LEMMA ClientInit == Init => ClientInv
  <1> SUFFICES ASSUME Init PROVE ClientInv
    OBVIOUS
  <1>1. /\ conn = NoConn
        /\ stats = [messages |-> 0, decode_errors |-> 0, reconnects |-> 0]
    BY DEF Init
  <1>2. /\ state = "Disconnected" /\ pc = "dial" /\ dialing = "connect"
        /\ stable = FALSE /\ attempt = 0 /\ delay = 0 /\ loss = LossWindow
        /\ filters \in FilterMaps /\ item = "nothing"
        /\ streamed = FALSE /\ announced = FALSE /\ refused = FALSE
        /\ unsent = FALSE /\ calm = LossWindow /\ rounds = 0
    BY DEF Init
  <1>3. ConnTypeOK(conn)
    <2>1. <<>> \in Seq(FilterMaps) /\ Len(<<>>) = 0
      OBVIOUS
    <2> QED
      BY <1>1, <2>1, ConstantsType DEF NoConn, ConnTypeOK
  <1>4. stats \in [messages : 0..MaxCount, decode_errors : 0..MaxCount,
                   reconnects : 0..MaxCount]
    BY <1>1, ConstantsType
  <1>5. TypeOK
    <2>1. /\ attempt \in 0..MaxAttempt /\ rounds \in 0..MaxAttempt
          /\ loss \in 0..LossWindow /\ calm \in 0..LossWindow
          /\ delay \in 0..MaxDelay /\ (delay # 0 => pc = "sleep")
      BY <1>2, ConstantsType
    <2>2. /\ stable \in BOOLEAN /\ streamed \in BOOLEAN /\ announced \in BOOLEAN
          /\ refused \in BOOLEAN /\ unsent \in BOOLEAN
      BY <1>2
    <2>3. /\ state \in {"Disconnected", "Connected", "Finished"} \cup StreamError
          /\ pc \in {"idle", "loop", "failed"} \cup Awaiting
          /\ dialing \in {None, "connect", "backoff", "loss"}
          /\ filters \in FilterMaps
          /\ item \in {"nothing", "update", "None"} \cup StreamError
      BY <1>2 DEF Awaiting
    <2> QED
      BY <1>3, <1>4, <2>1, <2>2, <2>3 DEF TypeOK, ConnTypeOK
  <1>6. conn.since # ResetAfter /\ conn.link # "open"
    BY <1>1, ConstantsType DEF NoConn, None
  <1>7. CallOK /\ ConnOK /\ LossOK
    BY <1>1, <1>2, ConstantsType DEF CallOK, ConnOK, LossOK, StreamError, None
  <1>8. StableOK /\ CurrentFilters
    BY <1>2, <1>6, ConstantsType DEF StableOK, CurrentFilters
  <1> QED
    BY <1>5, <1>7, <1>8 DEF ClientInv

LEMMA ClientNext == ClientInv /\ [Next]_vars => ClientInv'
  BY TypeNext, CallNext, HeldNext, FiltersNext, StableNext, LossNext DEF ClientInv

LEMMA ClientInvariant == Spec => []ClientInv
  BY ClientInit, ClientNext, PTL DEF Spec

-----------------------------------------------------------------------------
\* The counters and the exponent saturate, the channel stays within its room
\* (grpc.rs:184, 206), for every value of the constants.
THEOREM TypeCorrect == Spec => []TypeOK
  <1>1. ClientInv => TypeOK
    BY DEF ClientInv
  <1> QED
    BY <1>1, ClientInvariant, PTL

\* The server of a live connection has been sent the current filter map last
\* (grpc.rs:184-187, 314-323), however many maps there are and however the
\* calls, the reconnections and the drops of futures interleave.
THEOREM FiltersCurrent == Spec => []CurrentFilters
  <1>1. ClientInv => CurrentFilters
    BY DEF ClientInv
  <1> QED
    BY <1>1, ClientInvariant, PTL

\* No await lies between the arrival of a terminal error and its return
\* (grpc.rs:220-224, 250-252).
THEOREM ErrorReturned == Spec => []ErrorNotLost
  <1>1. ClientInv => ErrorNotLost
    BY DEF ClientInv, CallOK, ErrorNotLost
  <1> QED
    BY <1>1, ClientInvariant, PTL

\* The backoff exponent counts every round since a connection lasted
\* (grpc.rs:200, 235-240).
THEOREM BackoffNotRestarted == Spec => []BackoffKept
  <1>1. ClientInv => BackoffKept
    BY DEF ClientInv, StableOK, BackoffKept
  <1> QED
    BY <1>1, ClientInvariant, PTL

\* At most one reconnection without backoff in the window (grpc.rs:253-265):
\* the client lets one through when its memory of the last DATA_LOSS is as old
\* as the window, and the last such reconnection is no younger.
THEOREM ReconnectsSpaced == Spec => ImmediateReconnectsSpaced
  <1>1. ClientInv /\ [Next]_vars
          => [pc = "message" /\ pc' = "dial" => calm >= LossWindow]_vars
    <2> SUFFICES ASSUME ClientInv, Next, pc = "message", pc' = "dial"
                 PROVE  calm >= LossWindow
      BY DEF vars
    <2>1. loss \in 0..LossWindow /\ calm \in 0..LossWindow /\ LossWindow \in Nat
      BY ConstantsType DEF ClientInv, TypeOK
    <2>2. CASE GotDataLoss
      BY <2>1, <2>2 DEF GotDataLoss, ClientInv, LossOK
    <2>3. CASE LoopStep \/ ConnectStep
      BY <2>3 DEF LoopStep, ReturnNone, ReturnError, Backoff, Slept, Listen,
                  ConnectStep, Dialed, DialFails, SubscribeFails, Subscribed
    <2>4. CASE AnswerStep /\ ~GotDataLoss
      BY <2>4 DEF AnswerStep, GotResponse, GotEnd, GotTerminal, GotRecoverable, Return
    <2>5. CASE Sent \/ CallerStep
      BY <2>5 DEF Sent, CallerStep, NextUpdate, UpdateFilters, Cancel, Close,
                  IntoStream
    <2>6. CASE ServerStep \/ Tick
      BY <2>6 DEF ServerStep, ServerReads, ServerEnds, Tick, callVars
    <2> QED
      BY <2>2, <2>3, <2>4, <2>5, <2>6 DEF Next
  <1> QED
    BY <1>1, ClientInvariant, PTL DEF Spec, ImmediateReconnectsSpaced

-----------------------------------------------------------------------------
(* The stream.  What implements it is the state alone: once it is Finished *)
(* no call connects, and an error is returned before anything else.        *)

LEMMA StreamInit == Init => Stream!Init
  BY DEF Init, Stream!Init

\* A step of the client returns an update, the error or the end, closes, starts
\* or ends an attempt to connect, or is none of the consumer's concern.
LEMMA StreamNext ==
  ASSUME ClientInv, [Next]_vars
  PROVE  [Stream!Next]_Stream!vars
  <1> USE DEF ClientInv, CallOK, callVars, userVars, Leave, None
  <1>1. ASSUME UNCHANGED item, state' = "Finished" <=> state = "Finished",
               pc' \in {"dial", "subscribe"} <=> pc \in {"dial", "subscribe"}
        PROVE  UNCHANGED Stream!vars
    BY <1>1 DEF Stream!vars
  <1>2. ASSUME UNCHANGED item, state # "Finished", state' # "Finished",
               pc' \notin {"dial", "subscribe"}
        PROVE  Stream!Next
    BY <1>2 DEF Stream!Next, Stream!Dialed
  <1>3. ASSUME UNCHANGED item, state # "Finished", state' # "Finished",
               pc' \in {"dial", "subscribe"}
        PROVE  Stream!Next
    BY <1>3 DEF Stream!Next, Stream!Dial
  <1>4. pc \in {"dial", "subscribe"} => state # "Finished"
    BY DEF TypeOK
  <1>5. CASE ReturnNone
    <2>1. Stream!End
      BY <1>5 DEF ReturnNone, Return, Stream!End
    <2> QED
      BY <2>1 DEF Stream!Next
  <1>6. CASE ReturnError
    <2>1. Stream!Fail
      BY <1>6 DEF ReturnError, Return, Stream!Fail, StreamError
    <2> QED
      BY <2>1 DEF Stream!Next
  <1>7. CASE Backoff \/ Listen \/ Slept
    BY <1>1, <1>3, <1>7 DEF Backoff, Listen, Slept
  <1>8. CASE ConnectStep
    BY <1>1, <1>2, <1>8, <1>4
    DEF ConnectStep, Dialed, DialFails, SubscribeFails, ConnectFailed, Subscribed
  <1>9. ASSUME NEW decodable \in BOOLEAN, GotResponse(decodable)
        PROVE  [Stream!Next]_Stream!vars
    <2>1. CASE decodable
      <3>1. Stream!Deliver
        BY <1>9, <2>1 DEF GotResponse, Answered, Return, Stream!Deliver
      <3> QED
        BY <3>1 DEF Stream!Next
    <2>2. CASE ~decodable
      BY <1>1, <1>9, <2>2 DEF GotResponse, Answered
    <2> QED
      BY <2>1, <2>2
  <1>10. CASE GotTerminal
    BY <1>1, <1>10 DEF GotTerminal, Answered, Terminal, Classified
  <1>11. CASE GotEnd \/ GotRecoverable
    BY <1>1, <1>11 DEF GotEnd, GotRecoverable, Answered
  <1>12. CASE GotDataLoss
    BY <1>1, <1>3, <1>12 DEF GotDataLoss, Answered
  <1>13. CASE Sent \/ NextUpdate \/ IntoStream
               \/ (\E map \in FilterMaps : UpdateFilters(map))
    BY <1>1, <1>13 DEF Sent, NextUpdate, IntoStream, UpdateFilters
  <1>14. CASE Cancel
    BY <1>1, <1>2, <1>14, <1>4 DEF Cancel
  <1>15. CASE Close
    <2>1. Stream!Close
      BY <1>15 DEF Close, Stream!Close
    <2> QED
      BY <2>1 DEF Stream!Next
  <1>16. CASE ServerStep \/ Tick
    BY <1>1, <1>16 DEF ServerStep, ServerReads, ServerEnds, Tick
  <1>17. CASE UNCHANGED vars
    BY <1>1, <1>17 DEF vars
  <1> QED
    BY <1>5, <1>6, <1>7, <1>8, <1>9, <1>10, <1>11, <1>12, <1>13, <1>14, <1>15,
       <1>16, <1>17
    DEF Next, LoopStep, AnswerStep, CallerStep

\* The client implements the stream it documents: updates, one terminal error
\* at most and then None for ever; close ends it without an error; no
\* connection is attempted once it is over (api.md:154-158, errors.md:23-34;
\* grpc.rs:216-274).
THEOREM StreamImplemented == Spec => ImplementsUpdateStream
  BY StreamInit, StreamNext, ClientInvariant, PTL
  DEF Spec, ImplementsUpdateStream, Stream!Spec

-----------------------------------------------------------------------------
(* What a consumer sees of the end.                                        *)

\* The client is Finished once an error or None has been returned.
EndsWhenOver == item \in Ends => state = "Finished"

\* A Finished client whose consumer has seen the end leaves that state by no
\* step, awaits nothing, and returns nothing but None.
LEMMA EndsNext ==
  ASSUME ClientInv, EndsWhenOver, [Next]_vars, item \in Ends
  PROVE  /\ state' = "Finished"
         /\ pc' \notin Awaiting
         /\ item' = IF pc = "loop" /\ pc' = "idle" THEN "None" ELSE item
  <1> USE DEF callVars, userVars, Leave
  <1>1. /\ state = "Finished"
        /\ pc \in {"idle", "loop", "failed"}
        /\ state \notin StreamError
    <2>1. state = "Finished"
      BY DEF EndsWhenOver
    <2> QED
      BY <2>1 DEF ClientInv, CallOK, TypeOK, Awaiting, StreamError, None
  <1> USE <1>1 DEF Awaiting
  <1>2. CASE ReturnNone
    BY <1>2 DEF ReturnNone, Return
  <1>3. ~(ReturnError \/ Backoff \/ Slept \/ Listen)
    BY DEF ReturnError, Backoff, Slept, Listen
  <1>4. ~(ConnectStep \/ AnswerStep \/ Sent \/ Cancel)
    BY DEF ConnectStep, Dialed, DialFails, SubscribeFails, Subscribed, AnswerStep,
           GotResponse, GotEnd, GotTerminal, GotRecoverable, GotDataLoss, Answered,
           Sent, Cancel
  <1>5. CASE NextUpdate \/ Close \/ IntoStream
               \/ (\E map \in FilterMaps : UpdateFilters(map))
    BY <1>5 DEF NextUpdate, Close, IntoStream, UpdateFilters
  <1>6. CASE ServerStep \/ Tick
    BY <1>6 DEF ServerStep, ServerReads, ServerEnds, Tick
  <1>7. CASE UNCHANGED vars
    BY <1>7 DEF vars
  <1> QED
    BY <1>2, <1>3, <1>4, <1>5, <1>6, <1>7 DEF Next, LoopStep, CallerStep

\* An error is returned by the step that leaves the client Finished, and None
\* by a Finished one; nothing else a call returns is an end.
LEMMA EndsReached ==
  ASSUME [Next]_vars, item \notin Ends
  PROVE  EndsWhenOver'
  <1> USE DEF EndsWhenOver, callVars, userVars, Ends, StreamError
  <1>1. CASE LoopStep
    BY <1>1 DEF LoopStep, ReturnNone, ReturnError, Backoff, Slept, Listen, Return
  <1>2. CASE ConnectStep
    BY <1>2 DEF ConnectStep, Dialed, DialFails, SubscribeFails, ConnectFailed,
                Subscribed
  <1>3. CASE AnswerStep
    BY <1>3 DEF AnswerStep, GotResponse, GotEnd, GotTerminal, GotRecoverable,
                GotDataLoss, Return
  <1>4. CASE Sent \/ CallerStep
    BY <1>4 DEF Sent, CallerStep, NextUpdate, UpdateFilters, Cancel, Close,
                IntoStream
  <1>5. CASE ServerStep \/ Tick
    BY <1>5 DEF ServerStep, ServerReads, ServerEnds, Tick
  <1>6. CASE UNCHANGED vars
    BY <1>6 DEF vars
  <1> QED
    BY <1>1, <1>2, <1>3, <1>4, <1>5, <1>6 DEF Next

\* A consumer sees one error at most, and nothing but None from then on, for
\* every policy, whatever it calls (api.md:154-158, grpc.rs:219-224).
THEOREM OneErrorThenNone == Spec => EndIsFinal
  <1>1. Init => EndsWhenOver
    BY DEF Init, EndsWhenOver, Ends, StreamError
  <1>2. ClientInv /\ EndsWhenOver /\ [Next]_vars => EndsWhenOver'
    BY EndsNext, EndsReached DEF EndsWhenOver
  <1>3. ClientInv /\ EndsWhenOver /\ [Next]_vars
          => [(item \in Ends) =>
                /\ item' = IF pc = "loop" /\ pc' = "idle" THEN "None" ELSE item
                /\ pc' \notin Awaiting]_vars
    BY EndsNext
  <1> QED
    BY <1>1, <1>2, <1>3, ClientInvariant, PTL DEF Spec, EndIsFinal
=============================================================================
