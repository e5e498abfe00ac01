--------------------------- MODULE UdpClientProofs ---------------------------
(***************************************************************************)
(* Proofs about UdpClient, for every capacity of the queue and every       *)
(* number of updates: the types, the conservation of updates, the feed it  *)
(* implements, and that no wakeup is lost.                                 *)
(***************************************************************************)
EXTENDS UdpClient, TLAPS

-----------------------------------------------------------------------------
(* The Notify alone.                                                       *)

\* notify_one keeps a Notify in order, whoever waits.
LEMMA NotifyOneType ==
  ASSUME NEW W, NEW n, NotifyTypeOK(n, W)
  PROVE  NotifyTypeOK(NotifyOne(n), W)
  <1> DEFINE q == n.queue
  <1>1. q \in Seq(W)
    BY DEF NotifyTypeOK
  <1>2. CASE q = <<>>
    BY <1>2 DEF NotifyTypeOK, NotifyOne
  <1>3. CASE q # <<>>
    <2>1. /\ Tail(q) \in Seq(W)
          /\ Head(q) \in W /\ Head(q) = q[1]
          /\ 1 \in DOMAIN q
          /\ \A i \in DOMAIN Tail(q) : i + 1 \in DOMAIN q /\ Tail(q)[i] = q[i + 1]
          /\ \A i \in DOMAIN Tail(q) : i \in Nat /\ i > 0
      BY <1>1, <1>3
    <2> DEFINE r == [permit   |-> n.permit,
                     queue    |-> Tail(q),
                     notified |-> n.notified \cup {Head(q)}]
    <2>2. NotifyOne(n) = r
      BY <1>3 DEF NotifyOne
    <2>3. r \in [permit : BOOLEAN, queue : Seq(W), notified : SUBSET W]
      BY <2>1 DEF NotifyTypeOK
    <2>4. ASSUME NEW i \in DOMAIN Tail(q)
          PROVE  /\ Tail(q)[i] \notin n.notified \cup {Head(q)}
                 /\ \A j \in DOMAIN Tail(q) : Tail(q)[i] = Tail(q)[j] => i = j
      BY <2>1 DEF NotifyTypeOK
    <2> QED
      BY <2>2, <2>3, <2>4 DEF NotifyTypeOK
  <1> QED
    BY <1>2, <1>3

\* So does the poll of a future.
LEMMA PolledType ==
  ASSUME NEW W, NEW w \in W, NEW n, NotifyTypeOK(n, W)
  PROVE  NotifyTypeOK(Polled(n, w), W)
  <1> DEFINE q == n.queue
             r == IF Ready(n, w) \/ Registered(n, w) THEN q ELSE Append(q, w)
  <1>1. q \in Seq(W) /\ n.notified \in SUBSET W /\ n.permit \in BOOLEAN
    BY DEF NotifyTypeOK
  <1>2. Append(q, w) \in Seq(W) /\ r \in Seq(W)
    BY <1>1
  <1>3. /\ Polled(n, w).queue = r
        /\ Polled(n, w).notified = n.notified \ {w}
        /\ Polled(n, w) \in [permit : BOOLEAN, queue : Seq(W), notified : SUBSET W]
    BY <1>1, <1>2 DEF Polled
  <1>4. ASSUME NEW i \in DOMAIN r
        PROVE  /\ r[i] \notin n.notified \ {w}
               /\ \A j \in DOMAIN r : r[i] = r[j] => i = j
    <2>1. CASE Ready(n, w) \/ Registered(n, w)
      BY <2>1 DEF NotifyTypeOK
    <2>2. CASE ~(Ready(n, w) \/ Registered(n, w))
      <3>1. /\ r = Append(q, w)
            /\ DOMAIN q = 1..Len(q) /\ Len(q) \in Nat
            /\ DOMAIN r = 1..(Len(q) + 1)
            /\ \A j \in DOMAIN r : r[j] = IF j = Len(q) + 1 THEN w ELSE q[j]
        BY <1>1, <2>2
      <3>2. \A j \in DOMAIN q : q[j] # w
        BY <2>2 DEF Registered
      <3> QED
        BY <3>1, <3>2 DEF NotifyTypeOK
    <2> QED
      BY <2>1, <2>2
  <1> QED
    BY <1>3, <1>4 DEF NotifyTypeOK

\* Unlinking a future leaves the others in their order.
LEMMA UnlinkedType ==
  ASSUME NEW W, NEW q \in Seq(W), NEW w,
         \A i, j \in DOMAIN q : q[i] = q[j] => i = j
  PROVE  /\ Unlinked(q, w) \in Seq(W)
         /\ \A i \in DOMAIN Unlinked(q, w) :
              /\ \E k \in DOMAIN q : Unlinked(q, w)[i] = q[k]
              /\ Unlinked(q, w)[i] # w
              /\ \A j \in DOMAIN Unlinked(q, w) :
                   Unlinked(q, w)[i] = Unlinked(q, w)[j] => i = j
  <1>1. CASE ~\E i \in DOMAIN q : q[i] = w
    BY <1>1 DEF Unlinked
  <1>2. CASE \E i \in DOMAIN q : q[i] = w
    <2> DEFINE k == CHOOSE i \in DOMAIN q : q[i] = w
    <2>1. k \in DOMAIN q /\ q[k] = w
      BY <1>2
    <2> HIDE DEF k
    <2>2. k \in 1..Len(q) /\ Len(q) \in Nat
      BY <2>1
    <2> DEFINE before == SubSeq(q, 1, k - 1)
               after == SubSeq(q, k + 1, Len(q))
               r == before \o after
    <2>3. Unlinked(q, w) = r
      BY <1>2 DEF Unlinked, RemoveAt, k
    <2>4. /\ before \in Seq(W) /\ Len(before) = k - 1
          /\ after \in Seq(W) /\ Len(after) = Len(q) - k
          /\ \A i \in 1..(k - 1) : before[i] = q[i]
          /\ \A i \in 1..(Len(q) - k) : after[i] = q[k + i]
      BY <2>2
    <2> HIDE DEF before, after
    <2>5. r \in Seq(W) /\ Len(r) = Len(q) - 1 /\ DOMAIN r = 1..(Len(q) - 1)
      <3>1. r \in Seq(W) /\ Len(r) = Len(before) + Len(after)
        BY <2>4, SMTT(30)
      <3> QED
        BY <2>2, <2>4, <3>1
    <2>6. ASSUME NEW i \in 1..(Len(q) - 1)
          PROVE  r[i] = IF i < k THEN q[i] ELSE q[i + 1]
      BY <2>2, <2>4
    <2> HIDE DEF r
    <2> DEFINE p(i) == IF i < k THEN i ELSE i + 1
    <2>7. ASSUME NEW i \in DOMAIN r
          PROVE  /\ p(i) \in DOMAIN q /\ p(i) # k /\ r[i] = q[p(i)]
                 /\ \A j \in DOMAIN r : p(i) = p(j) => i = j
      BY <2>2, <2>5, <2>6
    <2> HIDE DEF p
    <2>8. ASSUME NEW i \in DOMAIN r
          PROVE  /\ \E m \in DOMAIN q : r[i] = q[m]
                 /\ r[i] # w
                 /\ \A j \in DOMAIN r : r[i] = r[j] => i = j
      BY <2>1, <2>7
    <2> QED
      BY <2>3, <2>5, <2>8
  <1> QED
    BY <1>1, <1>2

\* And so does dropping a future, which hands on what it was given.
LEMMA DroppedType ==
  ASSUME NEW W, NEW w \in W, NEW n, NotifyTypeOK(n, W)
  PROVE  NotifyTypeOK(Dropped(n, w), W)
  <1> DEFINE gone == [permit   |-> n.permit,
                      queue    |-> Unlinked(n.queue, w),
                      notified |-> n.notified \ {w}]
  <1>1. NotifyTypeOK(gone, W)
    BY UnlinkedType DEF NotifyTypeOK
  <1> QED
    BY <1>1, NotifyOneType DEF Dropped

-----------------------------------------------------------------------------
(* Types and conservation.  The two go together: that the counters stay in *)
(* their bounds follows from what they count.                              *)

\* The two are inductive together: that the counters and the numbers of the
\* updates stay in their bounds follows from what is conserved.
Counts == TypeOK /\ Conservation

LEMMA CapacityType == Capacity \in Nat /\ Capacity > 0
  BY UdpAssumption DEF Capacity

LEMMA CountsInit == Init => Counts
  <1> SUFFICES ASSUME Init PROVE Counts
    OBVIOUS
  <1>1. NotifyTypeOK(NewNotify, APIs)
    BY DEF NewNotify, NotifyTypeOK
  <1>2. /\ ring = <<>> /\ taken = <<>>
        /\ stats = [messages |-> 0, queue_dropped |-> 0]
        /\ notify = NewNotify /\ thread = "check"
    BY DEF Init
  <1>3. /\ ring \in Seq(1..MaxUpdates) /\ Len(ring) <= Capacity
        /\ taken \in Seq(1..MaxUpdates)
    BY <1>2, CapacityType
  <1>4. stats \in [messages : 0..MaxUpdates, queue_dropped : 0..MaxUpdates]
    BY <1>2, UdpAssumption
  <1>5. TypeOK
    BY <1>1, <1>2, <1>3, <1>4 DEF Init, TypeOK
  <1>6. Conservation
    BY <1>2 DEF Conservation
  <1> QED
    BY <1>5, <1>6 DEF Counts

\* The first element of a queue leaves it.
LEMMA TailType ==
  ASSUME NEW S, NEW s \in Seq(S), s # <<>>
  PROVE  /\ Head(s) \in S /\ Tail(s) \in Seq(S)
         /\ Len(Tail(s)) = Len(s) - 1 /\ Len(s) \in Nat \ {0}
  OBVIOUS

\* An element joins a queue.
LEMMA AppendType ==
  ASSUME NEW S, NEW s \in Seq(S), NEW e \in S
  PROVE  Append(s, e) \in Seq(S) /\ Len(Append(s, e)) = Len(s) + 1
  OBVIOUS

\* Every step of the receive thread keeps types and conservation
\* (udp.rs:93-128).
LEMMA ThreadCounts ==
  ASSUME Counts, ThreadStep
  PROVE  Counts'
  <1> USE DEF Counts
  <1>1. /\ stats \in [messages : 0..MaxUpdates, queue_dropped : 0..MaxUpdates]
        /\ ring \in Seq(1..MaxUpdates) /\ Len(ring) <= Capacity
        /\ taken \in Seq(1..MaxUpdates)
        /\ Len(ring) \in Nat /\ Len(taken) \in Nat
        /\ MaxUpdates \in Nat /\ Capacity \in Nat /\ Capacity > 0
    BY UdpAssumption, CapacityType DEF TypeOK
  <1>2. CASE ThreadCheck \/ RecvNothing \/ RecvError \/ ShutdownClose
    BY <1>2 DEF ThreadCheck, RecvNothing, RecvError, ShutdownClose, At, Goto,
                taskVars, TypeOK, Conservation
  <1>3. CASE RecvUpdate
    <2>1. /\ stats'.messages = stats.messages + 1
          /\ stats'.queue_dropped = stats.queue_dropped
          /\ stats.messages < MaxUpdates
      BY <1>1, <1>3 DEF RecvUpdate
    <2>2. stats.messages + 1 \in 0..MaxUpdates
      BY <1>1, <2>1
    <2>3. stats' \in [messages : 0..MaxUpdates, queue_dropped : 0..MaxUpdates]
      BY <1>1, <1>3, <2>2 DEF RecvUpdate
    <2> QED
      BY <1>1, <1>3, <2>1, <2>3
      DEF RecvUpdate, At, Goto, taskVars, TypeOK, Conservation
  <1>4. CASE ForcePush
    <2>1. stats.messages \in 1..MaxUpdates
      BY <1>1, <1>4 DEF ForcePush, At, Conservation
    <2>2. CASE Len(ring) = Capacity
      <3>1. /\ ring' = Append(Tail(ring), stats.messages) /\ thread' = "count"
            /\ ring # <<>>
        BY <1>1, <1>4, <2>2 DEF ForcePush, Goto
      <3>2. ring' \in Seq(1..MaxUpdates) /\ Len(ring') = Len(ring)
        BY <1>1, <2>1, <3>1, TailType, AppendType
      <3> QED
        BY <1>1, <1>4, <3>1, <3>2 DEF ForcePush, At, taskVars, TypeOK, Conservation
    <2>3. CASE Len(ring) # Capacity
      <3>1. ring' = Append(ring, stats.messages) /\ thread' = "notify"
        BY <1>4, <2>3 DEF ForcePush, Goto
      <3>2. ring' \in Seq(1..MaxUpdates) /\ Len(ring') = Len(ring) + 1
        BY <1>1, <2>1, <3>1, AppendType
      <3> QED
        BY <1>1, <1>4, <2>3, <3>1, <3>2 DEF ForcePush, At, taskVars, TypeOK, Conservation
    <2> QED
      BY <2>2, <2>3
  <1>5. CASE CountDropped
    <2>1. /\ stats'.messages = stats.messages
          /\ stats'.queue_dropped = stats.queue_dropped + 1
          /\ stats.queue_dropped < MaxUpdates
      BY <1>1, <1>5 DEF CountDropped, At, Conservation
    <2>2. stats' \in [messages : 0..MaxUpdates, queue_dropped : 0..MaxUpdates]
      BY <1>1, <1>5, <2>1 DEF CountDropped
    <2> QED
      BY <1>1, <1>5, <2>1, <2>2
      DEF CountDropped, At, Goto, taskVars, TypeOK, Conservation
  <1>6. CASE NotifyUpdate \/ ShutdownNotify
    <2>1. NotifyTypeOK(notify', APIs)
      BY <1>6, NotifyOneType DEF NotifyUpdate, ShutdownNotify, TypeOK
    <2> QED
      BY <1>6, <2>1 DEF NotifyUpdate, ShutdownNotify, At, Goto, taskVars,
                        TypeOK, Conservation
  <1> QED
    BY <1>2, <1>3, <1>4, <1>5, <1>6 DEF ThreadStep

\* Every step of the consumer does: what leaves the queue is returned
\* (udp.rs:148-186, 191-212).
LEMMA TaskCounts ==
  ASSUME Counts, CallStep \/ CallerStep
  PROVE  Counts'
  <1> USE DEF Counts
  <1>1. /\ ring \in Seq(1..MaxUpdates) /\ Len(ring) <= Capacity
        /\ taken \in Seq(1..MaxUpdates)
        /\ stats \in [messages : 0..MaxUpdates, queue_dropped : 0..MaxUpdates]
        /\ Len(ring) \in Nat /\ Len(taken) \in Nat
        /\ MaxUpdates \in Nat /\ Capacity \in Nat
    BY UdpAssumption, CapacityType DEF TypeOK
  <1> DEFINE Popped == /\ ring # <<>>
                       /\ ring' = Tail(ring)
                       /\ taken' = Append(taken, Head(ring))
  <1>2. ASSUME Popped
        PROVE  /\ ring' \in Seq(1..MaxUpdates) /\ taken' \in Seq(1..MaxUpdates)
               /\ Len(ring') = Len(ring) - 1 /\ Len(taken') = Len(taken) + 1
    BY <1>1, <1>2, TailType, AppendType
  <1>3. ASSUME Popped \/ UNCHANGED <<ring, taken>>,
               NotifyTypeOK(notify', APIs), UNCHANGED <<stats, thread>>,
               closed' \in BOOLEAN, fresh' \in BOOLEAN, ended' \in BOOLEAN,
               api' \in APIs,
               task' \in {"idle", "pop", "clear", "look", "last", "listen",
                          "wait", "join"}
        PROVE  Counts'
    <2>1. CASE Popped
      BY <1>1, <1>2, <1>3, <2>1 DEF TypeOK, Conservation
    <2>2. CASE UNCHANGED <<ring, taken>>
      BY <1>1, <1>3, <2>2 DEF TypeOK, Conservation
    <2> QED
      BY <1>3, <2>1, <2>2
  <1> HIDE DEF Popped
  <1>4. /\ NotifyTypeOK(notify, APIs) /\ api \in APIs /\ "stream" \in APIs
        /\ closed \in BOOLEAN /\ fresh \in BOOLEAN /\ ended \in BOOLEAN
    BY DEF TypeOK, APIs
  <1>5. /\ NotifyTypeOK(Polled(notify, api), APIs)
        /\ NotifyTypeOK(Dropped(notify, api), APIs)
        /\ NotifyTypeOK(Dropped(notify, "stream"), APIs)
    BY <1>4, PolledType, DroppedType
  <1> USE DEF In, Continue, threadVars, Return, ReturnNone
  <1>6. CASE Pop
    BY <1>3, <1>4, <1>6 DEF Pop, Popped
  <1>7. CASE ClearWaiting
    BY <1>3, <1>4, <1>5, <1>7 DEF ClearWaiting
  <1>8. CASE Look
    BY <1>3, <1>4, <1>8 DEF Look
  <1>9. CASE LastPop
    BY <1>3, <1>4, <1>9 DEF LastPop, Popped
  <1>10. CASE Listen
    BY <1>3, <1>4, <1>5, <1>10 DEF Listen, AfterLast
  <1>11. CASE Wake
    BY <1>3, <1>4, <1>5, <1>11 DEF Wake, AfterLast
  <1>12. CASE Join
    BY <1>3, <1>4, <1>12 DEF Join
  <1>13. CASE Call
    BY <1>3, <1>4, <1>13 DEF Call
  <1>14. CASE SpuriousPoll
    BY <1>3, <1>4, <1>14 DEF SpuriousPoll
  <1>15. CASE Cancel
    BY <1>3, <1>4, <1>5, <1>15 DEF Cancel
  <1>16. CASE TryNextUpdate
    BY <1>3, <1>4, <1>16 DEF TryNextUpdate, Popped
  <1>17. CASE Close
    BY <1>3, <1>4, <1>17 DEF Close
  <1> QED
    BY <1>6, <1>7, <1>8, <1>9, <1>10, <1>11, <1>12, <1>13, <1>14, <1>15, <1>16,
       <1>17
    DEF CallStep, CallerStep

LEMMA CountsNext == Counts /\ [Next]_vars => Counts'
  <1>1. ASSUME Counts, UNCHANGED vars
        PROVE  Counts'
    BY <1>1 DEF vars, Counts, TypeOK, Conservation
  <1> QED
    BY <1>1, ThreadCounts, TaskCounts DEF Next

LEMMA CountsInvariant == Spec => []Counts
  BY CountsInit, CountsNext, PTL DEF Spec

\* The queue stays within its capacity and the Notify in order, for every
\* capacity (udp.rs:81, 122).
THEOREM TypeCorrect == Spec => []TypeOK
  <1>1. Counts => TypeOK
    BY DEF Counts
  <1> QED
    BY <1>1, CountsInvariant, PTL

\* No update is lost but to a full queue, and then it is counted
\* (udp.rs:121-126, 148-164).
THEOREM UpdatesConserved == Spec => []Conservation
  <1>1. Counts => Conservation
    BY DEF Counts
  <1> QED
    BY <1>1, CountsInvariant, PTL

-----------------------------------------------------------------------------
(* The feed.  A step of the client is a step of BoundedFeed or none; what   *)
(* it takes is that nobody sees the flag before the feed is shut.          *)

\* The flag is set by a thread that pushes no more, or by a close that has
\* still to join it; the consumer looks at the queue for the last time only
\* after it has seen the flag.
FlagOK ==
  /\ closed => thread \in {"bye", "done"} \/ task = "join"
  /\ task = "last" => closed

FeedInv == Counts /\ FlagOK

LEMMA FeedInvInit == Init => FeedInv
  BY CountsInit DEF Init, FeedInv, FlagOK

LEMMA FeedInvNext == FeedInv /\ [Next]_vars => FeedInv'
  <1> SUFFICES ASSUME FeedInv, [Next]_vars
               PROVE  FlagOK'
    BY CountsNext DEF FeedInv
  <1> USE DEF FeedInv, FlagOK
  <1>1. CASE ThreadStep
    BY <1>1 DEF ThreadStep, ThreadCheck, RecvUpdate, RecvNothing, RecvError,
         ForcePush, CountDropped, NotifyUpdate, ShutdownClose, ShutdownNotify,
         At, Goto, taskVars
  <1>2. CASE CallStep
    <2> USE DEF In, Continue, threadVars
    <2>1. CASE Look
      <3>1. closed \in BOOLEAN
        BY DEF Counts, TypeOK
      <3>2. task' = "listen" \/ (task' = "last" /\ closed)
        <4>1. PICK flag \in IF fresh THEN {closed} ELSE {FALSE, closed} :
                task' = IF flag THEN "last" ELSE "listen"
          BY <2>1, Zenon DEF Look
        <4> QED
          BY <3>1, <4>1
      <3>3. closed' = closed /\ thread' = thread /\ task # "join"
        BY <2>1 DEF Look
      <3> QED
        BY <3>2, <3>3
    <2>2. CASE Pop \/ ClearWaiting \/ LastPop \/ Listen \/ Wake \/ Join
      BY <2>2 DEF Pop, ClearWaiting, LastPop, Listen, Wake, Join
    <2> QED
      BY <1>2, <2>1, <2>2 DEF CallStep
  <1>3. CASE CallerStep
    BY <1>3 DEF CallerStep, Call, SpuriousPoll, Cancel, TryNextUpdate, Close,
         In, Continue, threadVars
  <1>4. CASE UNCHANGED vars
    BY <1>4 DEF vars
  <1> QED
    BY <1>1, <1>2, <1>3, <1>4 DEF Next

LEMMA FeedInvInvariant == Spec => []FeedInv
  BY FeedInvInit, FeedInvNext, PTL DEF Spec

\* The initial states are those of the feed.
LEMMA FeedInit == Init => Feed!Init
  BY DEF Init, Feed!Init

\* A step of the thread lets an update in, shuts the feed, or is none.
LEMMA ThreadImplements ==
  ASSUME FeedInv, ThreadStep
  PROVE  [Feed!Next]_Feed!vars
  <1> USE DEF FeedInv, Counts
  <1>1. /\ ring \in Seq(1..MaxUpdates) /\ Len(ring) <= Capacity
        /\ Len(ring) \in Nat /\ Capacity \in Nat /\ stats.messages \in Nat
    BY UdpAssumption, CapacityType DEF TypeOK
  <1>2. CASE ThreadCheck \/ RecvNothing \/ RecvError \/ CountDropped
               \/ NotifyUpdate \/ ShutdownNotify
    <2>1. stats'.messages = stats.messages
      BY <1>2 DEF ThreadCheck, RecvNothing, RecvError, CountDropped,
                  NotifyUpdate, ShutdownNotify, TypeOK
    <2>2. /\ thread # "push" /\ thread' # "push"
          /\ thread' \in {"bye", "done"} <=> thread \in {"bye", "done"}
          /\ UNCHANGED <<ring, taken, ended>>
      BY <1>2 DEF ThreadCheck, RecvNothing, RecvError, CountDropped,
                  NotifyUpdate, ShutdownNotify, At, Goto, taskVars
    <2> QED
      BY <2>1, <2>2 DEF Feed!vars
  <1>3. CASE RecvUpdate
    <2>1. stats'.messages - 1 = stats.messages
      BY <1>1, <1>3 DEF RecvUpdate, TypeOK
    <2> QED
      BY <1>3, <2>1 DEF RecvUpdate, At, Goto, taskVars, Feed!vars
  <1>4. CASE ForcePush
    <2>1. Feed!Arrive
      BY <1>1, <1>4 DEF ForcePush, At, Goto, taskVars, Feed!Arrive
    <2> QED
      BY <2>1 DEF Feed!Next
  <1>5. CASE ShutdownClose
    <2>1. Feed!Shut
      BY <1>5 DEF ShutdownClose, At, Goto, taskVars, Feed!Shut
    <2> QED
      BY <2>1 DEF Feed!Next
  <1> QED
    BY <1>2, <1>3, <1>4, <1>5 DEF ThreadStep

\* A step of the consumer takes an update, is told of the end, or is none.
LEMMA TaskImplements ==
  ASSUME FeedInv, CallStep \/ CallerStep
  PROVE  [Feed!Next]_Feed!vars
  <1> USE DEF In, Continue, threadVars, Return, ReturnNone
  <1>1. ASSUME ring # <<>>, ring' = Tail(ring), taken' = Append(taken, Head(ring)),
               UNCHANGED <<stats, thread, ended>>
        PROVE  Feed!Next
    BY <1>1 DEF Feed!Next, Feed!Take
  <1>2. ASSUME UNCHANGED <<ring, taken, stats, thread, ended>>
        PROVE  UNCHANGED Feed!vars
    BY <1>2 DEF Feed!vars
  <1>3. CASE Pop
    BY <1>1, <1>2, <1>3 DEF Pop
  <1>4. CASE LastPop
    <2>1. CASE ring # <<>>
      BY <1>1, <1>4, <2>1 DEF LastPop
    <2>2. CASE ring = <<>>
      <3>1. thread \in {"bye", "done"}
        BY <1>4 DEF LastPop, FeedInv, FlagOK
      <3>2. Feed!End
        BY <1>4, <2>2, <3>1 DEF LastPop, Feed!End
      <3> QED
        BY <3>2 DEF Feed!Next
    <2> QED
      BY <2>1, <2>2
  <1>5. CASE TryNextUpdate
    BY <1>1, <1>2, <1>5 DEF TryNextUpdate
  <1>6. CASE ClearWaiting \/ Look \/ Listen \/ Wake \/ Join \/ Call
               \/ SpuriousPoll \/ Cancel \/ Close
    BY <1>2, <1>6 DEF ClearWaiting, Look, Listen, Wake, Join, Call,
                      SpuriousPoll, Cancel, Close
  <1> QED
    BY <1>3, <1>4, <1>5, <1>6 DEF CallStep, CallerStep

\* The client implements the feed it documents, for every capacity, however
\* its caller mixes the two waiting calls: updates come in order, none twice,
\* only a full queue loses any, its oldest, and the end is the end
\* (udp.rs:110-126, 148-213; api.md:95-101).
THEOREM FeedImplemented == Spec => ImplementsBoundedFeed
  <1>1. FeedInv /\ [Next]_vars => [Feed!Next]_Feed!vars
    <2>1. UNCHANGED vars => UNCHANGED Feed!vars
      BY DEF vars, Feed!vars
    <2> QED
      BY <2>1, ThreadImplements, TaskImplements DEF Next
  <1> QED
    BY <1>1, FeedInit, FeedInvInvariant, PTL
    DEF Spec, ImplementsBoundedFeed, Feed!Spec

\* How many updates have entered the queue.
Produced == IF thread = "push" THEN stats.messages - 1 ELSE stats.messages

\* The queue q holds the newest of n updates, without a gap.
Newest(q, n) == \A i \in DOMAIN q : q[i] = n - Len(q) + i

\* The updates s came in their order, each once, and none after the update n.
Ascending(s, n) ==
  \A i \in DOMAIN s : s[i] <= n /\ \A j \in DOMAIN s : i < j => s[i] < s[j]

\* The queue holds the newest updates; those returned are older than it and in
\* order; after the end there is nothing in it and nothing to come.
InOrder ==
  /\ Newest(ring, Produced)
  /\ Ascending(taken, Produced - Len(ring))
  /\ ended => ring = <<>> /\ thread \in {"bye", "done"}

LEMMA WiderSeq ==
  ASSUME NEW S, NEW T, NEW s \in Seq(S), S \subseteq T
  PROVE  s \in Seq(T) /\ Len(s) \in Nat
  OBVIOUS

LEMMA NewestAppend ==
  ASSUME NEW S, NEW q \in Seq(S), NEW n \in Int, n + 1 \in S, Newest(q, n)
  PROVE  Newest(Append(q, n + 1), n + 1)
  <1> DEFINE r == Append(q, n + 1)
  <1>1. /\ Len(q) \in Nat /\ DOMAIN q = 1..Len(q) /\ Len(r) = Len(q) + 1
        /\ DOMAIN r = 1..(Len(q) + 1)
        /\ \A i \in 1..Len(q) : r[i] = q[i]
        /\ r[Len(q) + 1] = n + 1
    OBVIOUS
  <1> HIDE DEF r
  <1>2. ASSUME NEW i \in DOMAIN r PROVE r[i] = (n + 1) - Len(r) + i
    <2>1. CASE i = Len(q) + 1
      BY <1>1, <2>1
    <2>2. CASE i \in 1..Len(q)
      BY <1>1, <2>2 DEF Newest
    <2> QED
      BY <1>1, <2>1, <2>2
  <1> QED
    BY <1>2 DEF Newest, r

LEMMA NewestTail ==
  ASSUME NEW S, NEW q \in Seq(S), q # <<>>, NEW n \in Int, Newest(q, n)
  PROVE  /\ Head(q) = n - Len(q) + 1
         /\ Newest(Tail(q), n)
  <1> DEFINE r == Tail(q)
  <1>1. /\ Len(q) \in Nat /\ DOMAIN q = 1..Len(q) /\ 1 \in DOMAIN q /\ Head(q) = q[1]
        /\ Len(r) = Len(q) - 1 /\ DOMAIN r = 1..(Len(q) - 1)
        /\ \A i \in 1..(Len(q) - 1) : r[i] = q[i + 1] /\ i + 1 \in DOMAIN q
    OBVIOUS
  <1> HIDE DEF r
  <1>2. ASSUME NEW i \in DOMAIN r PROVE r[i] = n - Len(r) + i
    <2>1. i \in Nat /\ r[i] = q[i + 1] /\ i + 1 \in DOMAIN q
      BY <1>1
    <2>2. q[i + 1] = n - Len(q) + (i + 1)
      BY <2>1 DEF Newest
    <2> QED
      BY <1>1, <2>1, <2>2
  <1>3. Head(q) = n - Len(q) + 1
    BY <1>1 DEF Newest
  <1> QED
    BY <1>2, <1>3 DEF Newest, r

LEMMA AscendingAppend ==
  ASSUME NEW s \in Seq(Int), NEW n \in Int, NEW e \in Int, Ascending(s, n), n < e
  PROVE  Ascending(Append(s, e), e)
  <1> DEFINE r == Append(s, e)
  <1>1. /\ Len(s) \in Nat /\ DOMAIN s = 1..Len(s) /\ DOMAIN r = 1..(Len(s) + 1)
        /\ \A i \in 1..Len(s) : r[i] = s[i] /\ s[i] \in Int
        /\ r[Len(s) + 1] = e
    OBVIOUS
  <1> HIDE DEF r
  <1>2. ASSUME NEW i \in DOMAIN r PROVE r[i] <= e
    BY <1>1 DEF Ascending
  <1>3. ASSUME NEW i \in DOMAIN r, NEW j \in DOMAIN r, i < j PROVE r[i] < r[j]
    <2>1. i \in 1..Len(s) /\ (j \in 1..Len(s) \/ j = Len(s) + 1)
      BY <1>1, <1>3
    <2> QED
      BY <1>1, <1>3, <2>1 DEF Ascending
  <1> QED
    BY <1>2, <1>3 DEF Ascending, r

LEMMA AscendingWiden ==
  ASSUME NEW s \in Seq(Int), NEW n \in Int, NEW m \in Int, Ascending(s, n), n <= m
  PROVE  Ascending(s, m)
  <1>1. \A i \in DOMAIN s : s[i] \in Int
    OBVIOUS
  <1> QED
    BY <1>1 DEF Ascending

\* A feed keeps its order, whatever implements it.
LEMMA FeedInOrder ==
  ASSUME FeedInv, FeedInv', InOrder, [Feed!Next]_Feed!vars
  PROVE  InOrder'
  <1> DEFINE n == Produced
             open == thread \notin {"bye", "done"}
  <1>1. /\ ring \in Seq(Int) /\ taken \in Seq(Int) /\ n \in Int /\ n' \in Int
        /\ Len(ring) \in Nat /\ Capacity \in Nat /\ Capacity > 0
    <2>1. stats.messages \in Nat /\ stats'.messages \in Nat
      BY UdpAssumption DEF FeedInv, Counts, TypeOK
    <2>2. ring \in Seq(1..MaxUpdates) /\ taken \in Seq(1..MaxUpdates)
      BY DEF FeedInv, Counts, TypeOK
    <2>3. ring \in Seq(Int) /\ taken \in Seq(Int) /\ Len(ring) \in Nat
      BY <2>2, WiderSeq, 1..MaxUpdates \subseteq Int
    <2>4. n \in Int /\ n' \in Int
      BY <2>1 DEF Produced
    <2> QED
      BY <2>3, <2>4, CapacityType
  <1>2. Newest(ring, n) /\ Ascending(taken, n - Len(ring)) /\ (ended => ring = <<>> /\ ~open)
    BY DEF InOrder
  <1>3. SUFFICES /\ Newest(ring', n') /\ Ascending(taken', n' - Len(ring'))
                 /\ ended' => ring' = <<>> /\ ~open'
    BY DEF InOrder
  <1>4. CASE Feed!Arrive
    <2>1. /\ open /\ open' = open /\ n' = n + 1
          /\ taken' = taken /\ ended' = ended
          /\ ring' = IF Len(ring) < Capacity THEN Append(ring, n + 1)
                                             ELSE Append(Tail(ring), n + 1)
      BY <1>4 DEF Feed!Arrive, Produced
    <2> HIDE DEF n, open
    <2>2. n + 1 \in Int
      BY <1>1, <2>1
    <2>3. CASE Len(ring) < Capacity
      <3>1. ring' = Append(ring, n + 1)
        BY <2>1, <2>3
      <3>2. Newest(ring', n + 1) /\ Len(ring') = Len(ring) + 1
        BY <1>1, <1>2, <2>2, <3>1, NewestAppend, AppendType
      <3>3. n' - Len(ring') = n - Len(ring)
        BY <1>1, <2>1, <3>2
      <3> QED
        BY <1>2, <2>1, <3>2, <3>3
    <2>4. CASE ~(Len(ring) < Capacity)
      <3>1. ring' = Append(Tail(ring), n + 1) /\ ring # <<>>
        BY <1>1, <2>1, <2>4
      <3> DEFINE rest == Tail(ring)
      <3>2. rest \in Seq(Int) /\ Len(rest) = Len(ring) - 1 /\ Newest(rest, n)
        BY <1>1, <1>2, <3>1, NewestTail, TailType
      <3>3. ring' = Append(rest, n + 1)
        BY <3>1
      <3> HIDE DEF rest
      <3>4. Newest(ring', n + 1) /\ Len(ring') = Len(rest) + 1
        BY <1>1, <2>2, <3>2, <3>3, NewestAppend, AppendType
      <3>5. /\ n - Len(ring) \in Int /\ n' - Len(ring') \in Int
            /\ n - Len(ring) <= n' - Len(ring')
        BY <1>1, <2>1, <3>2, <3>4
      <3>6. Ascending(taken, n' - Len(ring'))
        BY <1>1, <1>2, <3>5, AscendingWiden
      <3> QED
        BY <1>2, <2>1, <2>2, <3>4, <3>6
    <2> QED
      BY <2>3, <2>4
  <1>5. CASE Feed!Take
    <2>1. /\ open' = open /\ n' = n /\ ended' = ended
          /\ ring # <<>> /\ ring' = Tail(ring)
          /\ taken' = Append(taken, Head(ring))
      BY <1>5 DEF Feed!Take, Produced
    <2> HIDE DEF n, open
    <2>2. /\ Head(ring) \in Int /\ Head(ring) = n - Len(ring) + 1
          /\ Newest(ring', n) /\ Len(ring') = Len(ring) - 1
      BY <1>1, <1>2, <2>1, NewestTail, TailType
    <2>3. Ascending(taken', Head(ring))
      <3>1. n - Len(ring) \in Int /\ n - Len(ring) < Head(ring)
        BY <1>1, <2>2
      <3> QED
        BY <1>1, <1>2, <2>1, <2>2, <3>1, AscendingAppend
    <2>4. Head(ring) = n' - Len(ring')
      BY <1>1, <2>1, <2>2
    <2> QED
      BY <1>2, <2>1, <2>2, <2>3, <2>4
  <1>6. CASE Feed!Shut
    <2>1. open /\ UNCHANGED <<n, ended, ring, taken>>
      BY <1>6 DEF Feed!Shut, Produced
    <2> QED
      BY <1>2, <2>1
  <1>7. CASE Feed!End
    <2>1. ~open /\ ring = <<>> /\ UNCHANGED <<open, n, ring, taken>>
      BY <1>7 DEF Feed!End, Produced
    <2> QED
      BY <1>2, <2>1
  <1>8. CASE UNCHANGED Feed!vars
    <2>1. UNCHANGED <<open, n, ended, ring, taken>>
      BY <1>8 DEF Feed!vars, Produced
    <2> QED
      BY <1>2, <2>1
  <1> QED
    BY <1>4, <1>5, <1>6, <1>7, <1>8 DEF Feed!Next

\* What the caller has of it, for every capacity: updates in the order they
\* were decoded, none twice, and none lost but the oldest of a full queue
\* (api.md:95-101).
THEOREM UpdatesInOrder == Spec => []InOrder
  <1>1. Init => InOrder
    BY DEF Init, InOrder, Newest, Ascending, Produced
  <1>2. FeedInv /\ FeedInv' /\ InOrder /\ [Feed!Next]_Feed!vars => InOrder'
    BY FeedInOrder
  <1>3. Spec => [][Feed!Next]_Feed!vars
    BY FeedImplemented, PTL DEF ImplementsBoundedFeed, Feed!Spec
  <1> QED
    BY <1>1, <1>2, <1>3, FeedInvInvariant, PTL DEF Spec

-----------------------------------------------------------------------------
(* Wakeups, for a caller that keeps to one of the two waiting calls.  What *)
(* NoLostWakeup says of a task that waits has to be said of one that is     *)
(* about to: since its last look at the queue and at the flag, whatever    *)
(* came has left a notification, or its notification is still to come.     *)

\* The one future w of the Notify n waits, or was chosen, or neither; a permit
\* is kept only when it does not wait.
Single(n, w) ==
  /\ n \in [permit : BOOLEAN, queue : {<<>>, <<w>>}, notified : {{}, {w}}]
  /\ n.queue = <<w>> => ~n.permit /\ w \notin n.notified

\* A notification is kept for the next poll of w.
Kept(n, w) == n.permit \/ w \in n.notified

\* A notification is never lost on a single future.
LEMMA SingleNotifyOne ==
  ASSUME NEW n, NEW w, Single(n, w)
  PROVE  /\ Single(NotifyOne(n), w)
         /\ Kept(NotifyOne(n), w)
         /\ w \in n.notified \/ n.queue = <<w>> => w \in NotifyOne(n).notified
  <1>1. <<w>> # <<>> /\ Head(<<w>>) = w /\ Tail(<<w>>) = <<>>
    OBVIOUS
  <1>2. CASE n.queue = <<>>
    BY <1>1, <1>2 DEF Single, Kept, NotifyOne
  <1>3. CASE n.queue = <<w>>
    BY <1>1, <1>3 DEF Single, Kept, NotifyOne
  <1> QED
    BY <1>2, <1>3 DEF Single

\* A poll that does not complete leaves the future waiting, and had nothing to
\* be given.
LEMMA SinglePolled ==
  ASSUME NEW n, NEW w, Single(n, w)
  PROVE  /\ Single(Polled(n, w), w)
         /\ ~Ready(n, w) => /\ Polled(n, w).queue = <<w>>
                            /\ ~Kept(n, w)
         /\ w \in n.notified /\ n.permit => Kept(Polled(n, w), w)
  <1>1. /\ <<w>> # <<>> /\ Append(<<>>, w) = <<w>>
        /\ DOMAIN <<w>> = {1} /\ <<w>>[1] = w
        /\ DOMAIN <<>> = {}
    OBVIOUS
  <1>2. Registered(n, w) <=> w \in n.notified \/ n.queue = <<w>>
    BY <1>1 DEF Single, Registered
  <1> QED
    BY <1>1, <1>2 DEF Single, Kept, Polled, Ready

\* Dropping the future hands back what it was given.
LEMMA SingleDropped ==
  ASSUME NEW n, NEW w, Single(n, w)
  PROVE  /\ Single(Dropped(n, w), w)
         /\ Kept(n, w) => Kept(Dropped(n, w), w)
  <1> DEFINE gone == [permit   |-> n.permit,
                      queue    |-> <<>>,
                      notified |-> n.notified \ {w}]
  <1>1. Unlinked(n.queue, w) = <<>>
    <2>1. CASE n.queue = <<>>
      BY <2>1 DEF Unlinked
    <2>2. CASE n.queue = <<w>>
      <3>1. /\ <<w>> \in Seq({w}) /\ Len(<<w>>) = 1
            /\ DOMAIN <<w>> = {1} /\ <<w>>[1] = w
        OBVIOUS
      <3>2. (CHOOSE i \in DOMAIN <<w>> : <<w>>[i] = w) = 1
        BY <3>1
      <3>3. Unlinked(<<w>>, w) = SubSeq(<<w>>, 1, 0) \o SubSeq(<<w>>, 2, 1)
        BY <3>1, <3>2 DEF Unlinked, RemoveAt
      <3>4. SubSeq(<<w>>, 1, 0) = <<>> /\ SubSeq(<<w>>, 2, 1) = <<>>
        BY <3>1
      <3> QED
        BY <2>2, <3>3, <3>4
    <2> QED
      BY <2>1, <2>2 DEF Single
  <1>2. /\ Single(gone, w)
        /\ Dropped(n, w) = IF w \in n.notified THEN NotifyOne(gone) ELSE gone
    BY <1>1 DEF Single, Dropped
  <1>3. w \notin n.notified => (Kept(n, w) => Kept(gone, w))
    BY DEF Kept
  <1> HIDE DEF gone
  <1> QED
    BY <1>2, <1>3, SingleNotifyOne

\* The consumer's future is the only one there is; it waits as its task does.
OneFuture ==
  /\ Single(notify, api)
  /\ task = "wait" => api \in notify.notified \/ notify.queue = <<api>>
  /\ task = "clear" => api = "stream"

\* What came since the last look at the queue, or at the flag, has left a
\* notification or is still to be notified of; the last notification is kept
\* until it has made the flag visible.
NotForgotten ==
  /\ task \in {"look", "listen", "wait"} /\ ring # <<>>
       => Kept(notify, api) \/ thread \in {"count", "notify"}
  /\ task \in {"listen", "wait"} /\ closed => Kept(notify, api) \/ thread = "bye"
  /\ thread = "done" => Kept(notify, api) \/ fresh

WakeInv == FeedInv /\ OneFuture /\ NotForgotten

LEMMA WakeInit == Init => WakeInv
  BY FeedInvInit
  DEF Init, WakeInv, OneFuture, NotForgotten, Single, NewNotify

\* What the thread puts in the queue or in the flag, it notifies of
\* (udp.rs:100-101, 122-125).
LEMMA ThreadWakes ==
  ASSUME WakeInv, ThreadStep
  PROVE  OneFuture' /\ NotForgotten'
  <1> USE DEF WakeInv, OneFuture, NotForgotten, At, Goto, taskVars
  <1>1. CASE ThreadCheck \/ RecvUpdate \/ RecvNothing \/ RecvError
    BY <1>1 DEF ThreadCheck, RecvUpdate, RecvNothing, RecvError
  <1>2. CASE ForcePush
    BY <1>2 DEF ForcePush
  <1>3. CASE CountDropped
    BY <1>3 DEF CountDropped
  <1>4. CASE NotifyUpdate \/ ShutdownNotify
    <2>1. /\ notify' = NotifyOne(notify)
          /\ UNCHANGED <<ring, closed, task, api, fresh>>
      BY <1>4 DEF NotifyUpdate, ShutdownNotify
    <2>2. /\ Single(notify', api)
          /\ Kept(notify', api)
          /\ api \in notify.notified \/ notify.queue = <<api>>
               => api \in notify'.notified
      BY <2>1, SingleNotifyOne
    <2> QED
      BY <2>1, <2>2
  <1>5. CASE ShutdownClose
    BY <1>5 DEF ShutdownClose
  <1> QED
    BY <1>1, <1>2, <1>3, <1>4, <1>5 DEF ThreadStep

\* The consumer waits only after it has looked, and a notification it does not
\* act upon stays (udp.rs:148-160, 191-213).
LEMMA TaskWakes ==
  ASSUME WakeInv, ~Mixed, CallStep \/ CallerStep
  PROVE  OneFuture' /\ NotForgotten'
  <1> USE DEF WakeInv, OneFuture, NotForgotten, In, Continue, threadVars
  <1>1. CASE Pop
    BY <1>1 DEF Pop, Return
  <1>2. CASE ClearWaiting
    <2>1. api = "stream"
      BY <1>2 DEF ClearWaiting
    <2> QED
      BY <1>2, <2>1, SingleDropped DEF ClearWaiting
  <1>3. CASE Look
    <2>1. closed \in BOOLEAN /\ fresh \in BOOLEAN
      BY DEF FeedInv, Counts, TypeOK
    <2>2. PICK flag \in IF fresh THEN {closed} ELSE {FALSE, closed} :
            /\ fresh' = (fresh \/ flag)
            /\ task' = IF flag THEN "last" ELSE "listen"
      BY <1>3, Zenon DEF Look
    <2>3. /\ task = "look"
          /\ UNCHANGED <<ring, notify, api, thread, closed>>
      BY <1>3 DEF Look
    <2>4. fresh => fresh'
      BY <2>1, <2>2
    <2>5. task' = "last" \/ (task' = "listen" /\ (closed => ~fresh))
      BY <2>1, <2>2
    <2>6. closed => thread \in {"bye", "done"}
      BY <2>3 DEF FeedInv, FlagOK
    <2> QED
      BY <2>3, <2>4, <2>5, <2>6
  <1>4. CASE LastPop
    BY <1>4 DEF LastPop, Return
  <1>5. CASE Listen
    <2>1. /\ UNCHANGED <<ring, api, thread, closed>>
          /\ fresh' = (fresh \/ AfterLast)
      BY <1>5 DEF Listen
    <2>2. thread = "done" => Kept(Polled(notify, api), api) \/ fresh'
      <3>1. ASSUME thread = "done", ~fresh, ~AfterLast
            PROVE  api \in notify.notified /\ notify.permit
        BY <3>1 DEF AfterLast, Single
      <3> QED
        BY <2>1, <3>1, SinglePolled
    <2>3. /\ notify' = Polled(notify, api)
          /\ task' = IF Ready(notify, api) THEN "pop" ELSE "wait"
          /\ task = "listen"
      BY <1>5 DEF Listen
    <2> QED
      BY <2>1, <2>2, <2>3, SinglePolled
  <1>6. CASE Wake
    <2>1. /\ UNCHANGED <<ring, api, thread, closed>>
          /\ fresh' = (fresh \/ AfterLast)
      BY <1>6 DEF Wake
    <2>2. thread = "done" => Kept(Polled(notify, api), api) \/ fresh'
      <3>1. ASSUME thread = "done", ~fresh, ~AfterLast
            PROVE  api \in notify.notified /\ notify.permit
        BY <3>1 DEF AfterLast, Single
      <3> QED
        BY <2>1, <3>1, SinglePolled
    <2>3. /\ notify' = IF api = "next" THEN Polled(notify, api) ELSE notify
          /\ task' = "pop" /\ api \in notify.notified
      BY <1>6 DEF Wake
    <2>4. Single(notify', api) /\ (thread = "done" => Kept(notify', api) \/ fresh')
      BY <2>2, <2>3, SinglePolled DEF Kept
    <2> QED
      BY <2>1, <2>3, <2>4
  <1>7. CASE Join
    BY <1>7 DEF Join
  <1>8. CASE Call
    BY <1>8 DEF Call
  <1>9. CASE SpuriousPoll
    BY <1>9 DEF SpuriousPoll
  <1>10. CASE Cancel
    BY <1>10, SingleDropped DEF Cancel
  <1>11. CASE TryNextUpdate
    BY <1>11 DEF TryNextUpdate, Return
  <1>12. CASE Close
    BY <1>12 DEF Close
  <1> QED
    BY <1>1, <1>2, <1>3, <1>4, <1>5, <1>6, <1>7, <1>8, <1>9, <1>10, <1>11, <1>12
    DEF CallStep, CallerStep

LEMMA WakeNext == ASSUME ~Mixed PROVE WakeInv /\ [Next]_vars => WakeInv'
  <1>1. ASSUME WakeInv, UNCHANGED vars
        PROVE  OneFuture' /\ NotForgotten'
    BY <1>1 DEF vars, WakeInv, OneFuture, NotForgotten
  <1> QED
    BY <1>1, FeedInvNext, ThreadWakes, TaskWakes DEF WakeInv, Next

\* No interleaving of a push, the end of the thread and the registration of a
\* waiter loses a wakeup, for a caller that keeps to next_update or to the
\* Stream (udp.rs:94-127 against 148-160 and 191-213).  The hypothesis is
\* needed: a caller that mixes the two has two futures in the Notify, and the
\* one notification of a push may go to the one it no longer polls.
THEOREM NoWakeupLost == ASSUME ~Mixed PROVE Spec => []NoLostWakeup
  <1>1. WakeInv => NoLostWakeup
    BY DEF WakeInv, OneFuture, NotForgotten, NoLostWakeup, Single, Kept
  <1>2. Spec => []WakeInv
    BY WakeInit, WakeNext, PTL DEF Spec
  <1> QED
    BY <1>1, <1>2, PTL
=============================================================================
