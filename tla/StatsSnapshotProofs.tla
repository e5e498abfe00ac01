------------------------- MODULE StatsSnapshotProofs -------------------------
(***************************************************************************)
(* Proofs about StatsSnapshot, for every capacity and any number of        *)
(* datagrams.                                                              *)
(***************************************************************************)
EXTENDS StatsSnapshot, TLAPS

\* What the counters say of each other, whatever the thread is in the middle
\* of: a message is returned, queued, counted as overwritten or in its hands,
\* a datagram has one outcome at most, and the slot follows the messages.
Tally ==
  /\ count["messages"] = takes + Len(ring) + count["queue_dropped"]
                           + (IF thread \in {"slot", "push", "drop"} THEN 1 ELSE 0)
  /\ count["messages"] + count["decode_errors"] + count["skipped_msg_type"]
       + (IF thread = "outcome" THEN 1 ELSE 0) <= count["datagrams"]
  /\ count["messages"] = count["last_slot"] + (IF thread = "slot" THEN 1 ELSE 0)

\* The update n is covered by the counters c: counted, with its slot stored and
\* its datagram received.
Covers(c, n) == n <= c["datagrams"] /\ n <= c["messages"] /\ n <= c["last_slot"]

\* A queued update publishes counters that cover it, and no later ones.
Published ==
  \A i \in DOMAIN ring :
    /\ Covers(ring[i].published, ring[i].update)
    /\ \A c \in Counters : ring[i].published[c] <= count[c]

\* What the owner may load covers the updates it has; after close it is all
\* there is.
Loaded ==
  /\ Covers(seen, newest)
  /\ owner = "closed" => thread = "done" /\ \A c \in Counters : seen[c] = count[c]

SnapshotInv == TypeOK /\ Tally /\ Published /\ Loaded

-----------------------------------------------------------------------------
(* Maxima and minima.                                                      *)

LEMMA MaxOfTwo ==
  ASSUME NEW a \in Int, NEW b \in Int
  PROVE  Max({a, b}) = IF a >= b THEN a ELSE b
  <1>1. \E x \in {a, b} : \A y \in {a, b} : x >= y
    OBVIOUS
  <1>2. /\ Max({a, b}) \in {a, b}
        /\ \A y \in {a, b} : Max({a, b}) >= y
    BY <1>1 DEF Max
  <1> QED
    BY <1>2

LEMMA MinOfThree ==
  ASSUME NEW a \in Int, NEW b \in Int, NEW c \in Int
  PROVE  Min({a, b, c}) \in {a, b, c}
  <1>1. \E x \in {a, b, c} : \A y \in {a, b, c} : x <= y
    OBVIOUS
  <1> QED
    BY <1>1 DEF Min

\* What is known of two sets of counters together covers what either covered.
LEMMA NewerType ==
  ASSUME NEW a \in [Counters -> Nat], NEW b \in [Counters -> Nat]
  PROVE  /\ Newer(a, b) \in [Counters -> Nat]
         /\ \A c \in Counters : Newer(a, b)[c] = IF a[c] >= b[c] THEN a[c] ELSE b[c]
  <1>1. ASSUME NEW c \in Counters
        PROVE  Max({a[c], b[c]}) = IF a[c] >= b[c] THEN a[c] ELSE b[c]
    BY MaxOfTwo
  <1> QED
    BY <1>1 DEF Newer

-----------------------------------------------------------------------------
LEMMA NumbersType ==
  ASSUME TypeOK
  PROVE  /\ MaxDatagrams \in Nat /\ Capacity \in Nat /\ Capacity > 0
         /\ count \in [Counters -> 0..MaxDatagrams]
         /\ seen \in [Counters -> 0..MaxDatagrams]
         /\ \A c \in Counters : count[c] \in Nat /\ seen[c] \in Nat /\ seen[c] <= count[c]
         /\ Len(ring) \in Nat /\ takes \in Nat /\ newest \in Nat
  BY SnapshotAssumption DEF TypeOK

\* The entries of the queue.
Entries == [update : 1..MaxDatagrams, published : [Counters -> 0..MaxDatagrams]]

LEMMA RingType ==
  ASSUME TypeOK
  PROVE  /\ ring \in Seq(Entries)
         /\ \A i \in DOMAIN ring :
              /\ ring[i] \in Entries
              /\ ring[i].update \in Nat
              /\ ring[i].published \in [Counters -> Nat]
              /\ \A c \in Counters : ring[i].published[c] \in Nat
  <1>1. ring \in Seq(Entries)
    BY DEF TypeOK, Entries
  <1>2. ASSUME NEW i \in DOMAIN ring
        PROVE  ring[i] \in Entries
    BY <1>1
  <1>3. ASSUME NEW e \in Entries
        PROVE  /\ e.update \in Nat /\ e.published \in [Counters -> Nat]
               /\ \A c \in Counters : e.published[c] \in Nat
    BY NumbersType DEF Entries
  <1> QED
    BY <1>1, <1>2, <1>3

\* A full queue loses its first entry, and every entry it keeps it had.
LEMMA KeptType ==
  ASSUME NEW S, NEW s \in Seq(S), NEW max \in Nat \ {0}
  PROVE  LET kept == IF Len(s) = max THEN Tail(s) ELSE s
         IN  /\ kept \in Seq(S)
             /\ Len(kept) = IF Len(s) = max THEN Len(s) - 1 ELSE Len(s)
             /\ \A i \in DOMAIN kept : \E j \in DOMAIN s : kept[i] = s[j]
  <1>1. CASE Len(s) = max
    <2>1. /\ s # <<>> /\ Tail(s) \in Seq(S) /\ Len(Tail(s)) = Len(s) - 1
          /\ \A i \in DOMAIN Tail(s) : i + 1 \in DOMAIN s /\ Tail(s)[i] = s[i + 1]
      BY <1>1
    <2> QED
      BY <1>1, <2>1
  <1>2. CASE Len(s) # max
    BY <1>2
  <1> QED
    BY <1>1, <1>2

\* A queue that an entry joins holds it and what it held.
LEMMA JoinedType ==
  ASSUME NEW S, NEW s \in Seq(S), NEW e \in S
  PROVE  /\ Append(s, e) \in Seq(S) /\ Len(Append(s, e)) = Len(s) + 1
         /\ \A i \in DOMAIN Append(s, e) :
              Append(s, e)[i] = e \/ (i \in DOMAIN s /\ Append(s, e)[i] = s[i])
  <1>1. /\ Append(s, e) \in Seq(S) /\ Len(Append(s, e)) = Len(s) + 1
        /\ DOMAIN Append(s, e) = 1..(Len(s) + 1) /\ DOMAIN s = 1..Len(s)
        /\ Len(s) \in Nat
    OBVIOUS
  <1>2. ASSUME NEW i \in 1..(Len(s) + 1)
        PROVE  Append(s, e)[i] = IF i = Len(s) + 1 THEN e ELSE s[i]
    BY <1>1
  <1> QED
    BY <1>1, <1>2

LEMMA SnapshotInit == Init => SnapshotInv
  <1> SUFFICES ASSUME Init PROVE SnapshotInv
    OBVIOUS
  <1>1. /\ thread = "recv" /\ count = Zero /\ ring = <<>> /\ owner = "open"
        /\ seen = Zero /\ newest = 0 /\ takes = 0
    BY DEF Init
  <1>2. Zero \in [Counters -> 0..MaxDatagrams] /\ \A c \in Counters : Zero[c] = 0
    BY SnapshotAssumption DEF Zero
  <1>3. TypeOK
    BY <1>1, <1>2, SnapshotAssumption DEF TypeOK
  <1>4. Tally /\ Loaded
    BY <1>1, <1>2 DEF Tally, Loaded, Covers, Counters
  <1>5. Published
    BY <1>1 DEF Published
  <1> QED
    BY <1>3, <1>4, <1>5 DEF SnapshotInv

\* A bump counts up one counter, and leaves the others where they were.
LEMMA BumpType ==
  ASSUME SnapshotInv, NEW from, NEW to, NEW counter \in Counters,
         Bump(from, counter, to), count[counter] < MaxDatagrams
  PROVE  /\ count' \in [Counters -> 0..MaxDatagrams]
         /\ \A c \in Counters :
              /\ count'[c] = IF c = counter THEN count[c] + 1 ELSE count[c]
              /\ count[c] <= count'[c]
  BY NumbersType DEF SnapshotInv, Bump

\* Counters that go up leave what was published of them, and what was loaded,
\* in the past.
LEMMA CountersGrow ==
  ASSUME SnapshotInv, UNCHANGED <<ring, ownerVars>>, owner # "closed",
         count' \in [Counters -> 0..MaxDatagrams],
         \A c \in Counters : count[c] <= count'[c],
         thread' \in {"recv", "outcome", "slot", "push", "drop", "done"}
  PROVE  TypeOK' /\ Published' /\ Loaded'
  <1> USE NumbersType DEF SnapshotInv, ownerVars
  <1>1. \A c \in Counters : count'[c] \in Nat
    OBVIOUS
  <1>2. TypeOK'
    BY <1>1 DEF TypeOK
  <1>3. Published'
    <2>1. ASSUME NEW i \in DOMAIN ring, NEW c \in Counters
          PROVE  ring[i].published[c] <= count'[c]
      <3>1. ring[i].published[c] \in Nat
        BY RingType
      <3> QED
        BY <1>1, <3>1 DEF Published
    <2> QED
      BY <2>1 DEF Published
  <1>4. Loaded'
    BY DEF Loaded
  <1> QED
    BY <1>2, <1>3, <1>4

\* A snapshot is within what the owner may load.
LEMMA SnapshotsType ==
  ASSUME TypeOK, NEW s \in Snapshots
  PROVE  /\ s \in [Counters -> 0..MaxDatagrams]
         /\ \A c \in Counters : seen[c] <= s[c] /\ s[c] <= count[c]
  <1>1. PICK d \in seen["datagrams"] .. count["datagrams"],
             m \in seen["messages"] .. count["messages"],
             l \in seen["last_slot"] .. count["last_slot"],
             e \in seen["decode_errors"] .. count["decode_errors"],
             k \in seen["skipped_msg_type"] .. count["skipped_msg_type"],
             q \in seen["queue_dropped"] .. count["queue_dropped"] :
          s = [datagrams |-> d, messages |-> m, last_slot |-> l, decode_errors |-> e,
               skipped_msg_type |-> k, queue_dropped |-> q]
    BY DEF Snapshots
  <1>2. /\ s["datagrams"] = d /\ s["messages"] = m /\ s["last_slot"] = l
        /\ s["decode_errors"] = e /\ s["skipped_msg_type"] = k /\ s["queue_dropped"] = q
        /\ DOMAIN s = Counters /\ s = [c \in Counters |-> s[c]]
    BY <1>1 DEF Counters
  <1>3. ASSUME NEW c \in Counters
        PROVE  s[c] \in seen[c] .. count[c]
    BY <1>1, <1>2 DEF Counters
  <1>4. ASSUME NEW c \in Counters
        PROVE  seen[c] <= s[c] /\ s[c] <= count[c] /\ s[c] \in 0..MaxDatagrams
    <2>1. seen[c] \in Nat /\ count[c] \in 0..MaxDatagrams /\ MaxDatagrams \in Nat
      BY NumbersType
    <2> QED
      BY <1>3, <2>1
  <1> QED
    BY <1>2, <1>4

\* Every bump, and the store of the slot, keeps the tally; a push hands over
\* counters that cover its update (frame.rs:130, 135-157, 201-204 before
\* udp.rs:122).
LEMMA ThreadSnapshot ==
  ASSUME SnapshotInv, ThreadStep
  PROVE  SnapshotInv'
  <1>1. TypeOK /\ Tally /\ Published /\ Loaded
    BY DEF SnapshotInv
  <1>2. {"datagrams", "messages", "last_slot", "decode_errors",
         "skipped_msg_type", "queue_dropped"} = Counters
    BY DEF Counters
  <1>3. /\ count["datagrams"] \in Nat /\ count["messages"] \in Nat
        /\ count["last_slot"] \in Nat /\ count["decode_errors"] \in Nat
        /\ count["skipped_msg_type"] \in Nat /\ count["queue_dropped"] \in Nat
        /\ count["datagrams"] <= MaxDatagrams
    BY <1>1, <1>2, NumbersType
  <1>4. /\ count \in [Counters -> 0..MaxDatagrams] /\ MaxDatagrams \in Nat
        /\ Len(ring) \in Nat /\ takes \in Nat
    BY <1>1, NumbersType
  <1>5. owner # "closed" /\ UNCHANGED ownerVars
    BY <1>1 DEF ThreadStep, Recv, Reject, SkipType, Hold, CountMessage, StoreSlot,
           ForcePush, CountDropped, End, Bump, Loaded
  <1>6. UNCHANGED <<takes, newest, owner, seen>>
    BY <1>5 DEF ownerVars
  <1>7. CASE Recv
    <2>1. Bump("recv", "datagrams", "outcome") /\ count["datagrams"] < MaxDatagrams
      BY <1>7 DEF Recv
    <2>2. /\ count' \in [Counters -> 0..MaxDatagrams]
          /\ \A c \in Counters :
               /\ count'[c] = IF c = "datagrams" THEN count[c] + 1 ELSE count[c]
               /\ count[c] <= count'[c]
      BY <1>2, <2>1, BumpType
    <2>3. thread = "recv" /\ thread' = "outcome" /\ ring' = ring
      BY <2>1 DEF Bump
    <2>4. TypeOK' /\ Published' /\ Loaded'
      BY <1>5, <2>2, <2>3, CountersGrow
    <2>5. Tally'
      <3>1. /\ count'["datagrams"] = count["datagrams"] + 1
            /\ count'["last_slot"] = count["last_slot"]
            /\ count'["messages"] = count["messages"]
            /\ count'["decode_errors"] = count["decode_errors"]
            /\ count'["skipped_msg_type"] = count["skipped_msg_type"]
            /\ count'["queue_dropped"] = count["queue_dropped"]
        BY <1>2, <2>2
      <3> QED
        BY <1>1, <1>6, <1>3, <1>4, <2>3, <3>1, SMTT(30) DEF Tally
    <2> QED
      BY <2>4, <2>5 DEF SnapshotInv
  <1>8. CASE Hold \/ End
    <2>1. count' = count /\ ring' = ring /\ thread' \in {"recv", "done"}
      BY <1>8 DEF Hold, End
    <2>2. TypeOK' /\ Published' /\ Loaded'
      BY <1>5, <1>4, <1>3, <2>1, CountersGrow, NumbersType, <1>1
    <2>3. Tally'
      <3>1. \/ thread = "outcome" /\ thread' = "recv"
            \/ thread = "recv" /\ thread' = "done"
        BY <1>8 DEF Hold, End
      <3>2. CASE thread = "outcome" /\ thread' = "recv"
        BY <1>1, <1>6, <1>3, <1>4, <2>1, <3>2, SMTT(30) DEF Tally
      <3>3. CASE thread = "recv" /\ thread' = "done"
        BY <1>1, <1>6, <1>3, <1>4, <2>1, <3>3 DEF Tally
      <3> QED
        BY <3>1, <3>2, <3>3
    <2> QED
      BY <2>2, <2>3 DEF SnapshotInv
  <1>9. CASE StoreSlot
    <2>1. /\ thread = "slot" /\ thread' = "push" /\ ring' = ring
          /\ count' = [count EXCEPT !["last_slot"] = count["messages"]]
      BY <1>9 DEF StoreSlot
    <2>2. /\ count' \in [Counters -> 0..MaxDatagrams]
          /\ \A c \in Counters :
               count'[c] = IF c = "last_slot" THEN count["messages"] ELSE count[c]
      BY <1>2, <1>3, <1>4, <2>1, <1>1, NumbersType
    <2>3. count["last_slot"] <= count["messages"]
      BY <1>1, <1>3, <2>1 DEF Tally
    <2>4. TypeOK' /\ Published' /\ Loaded'
      BY <1>1, <1>2, <1>5, <1>4, <2>1, <2>2, <2>3, CountersGrow, NumbersType
    <2>5. Tally'
      <3>1. /\ count'["last_slot"] = count["messages"]
            /\ count'["datagrams"] = count["datagrams"]
            /\ count'["messages"] = count["messages"]
            /\ count'["decode_errors"] = count["decode_errors"]
            /\ count'["skipped_msg_type"] = count["skipped_msg_type"]
            /\ count'["queue_dropped"] = count["queue_dropped"]
        BY <1>2, <2>2
      <3> QED
        BY <1>1, <1>6, <1>3, <1>4, <2>1, <3>1 DEF Tally
    <2> QED
      BY <2>4, <2>5 DEF SnapshotInv
  <1>10. CASE ForcePush
    <2> DEFINE kept == IF Len(ring) = Capacity THEN Tail(ring) ELSE ring
    <2>1. /\ ring' = Append(kept, Entry) /\ thread = "push"
          /\ thread' = IF Len(ring) = Capacity THEN "drop" ELSE "recv"
          /\ count' = count
      BY <1>10 DEF ForcePush
    <2>2. /\ kept \in Seq(Entries)
          /\ Len(kept) = IF Len(ring) = Capacity THEN Len(ring) - 1 ELSE Len(ring)
          /\ \A i \in DOMAIN kept : \E j \in DOMAIN ring : kept[i] = ring[j]
      BY <1>1, <1>4, RingType, KeptType, NumbersType
    <2> HIDE DEF kept
    <2>3. /\ Entry \in Entries
          /\ Covers(Entry.published, Entry.update)
          /\ Entry.published = count
      <3>1. /\ Entry.update = count["messages"] /\ Entry.published = count
            /\ Entry = [update |-> count["messages"], published |-> count]
        BY DEF Entry
      <3>2. /\ count["messages"] >= 1 /\ count["messages"] = count["last_slot"]
            /\ count["messages"] <= count["datagrams"]
        <4>1. count["messages"] >= 1
          BY <1>1, <1>3, <1>4, <2>1 DEF Tally
        <4>2. count["messages"] = count["last_slot"]
          BY <1>1, <1>3, <1>4, <2>1 DEF Tally
        <4>3. count["messages"] <= count["datagrams"]
          BY <1>1, <1>3, <1>4, <2>1 DEF Tally
        <4> QED
          BY <4>1, <4>2, <4>3
      <3>3. count["messages"] \in 1..MaxDatagrams
        BY <1>3, <1>4, <3>2
      <3>4. Entry \in Entries
        BY <1>4, <3>1, <3>3 DEF Entries
      <3>5. Covers(Entry.published, Entry.update)
        BY <1>3, <3>1, <3>2 DEF Covers
      <3> QED
        BY <3>1, <3>4, <3>5
    <2>4. /\ ring' \in Seq(Entries) /\ Len(ring') = Len(kept) + 1
          /\ \A i \in DOMAIN ring' :
               ring'[i] = Entry \/ \E j \in DOMAIN ring : ring'[i] = ring[j]
      BY <2>1, <2>2, <2>3, JoinedType
    <2>5. Len(ring') <= Capacity
      BY <1>1, <1>4, <2>2, <2>4, NumbersType DEF TypeOK
    <2>6. TypeOK'
      BY <1>1, <1>6, <2>1, <2>4, <2>5 DEF TypeOK, Entries
    <2>7. Published'
      BY <1>1, <1>4, <2>1, <2>3, <2>4 DEF Published
    <2>8. Tally'
      <3>1. CASE Len(ring) = Capacity
        BY <1>1, <1>6, <1>3, <1>4, <2>1, <2>2, <2>4, <3>1 DEF Tally
      <3>2. CASE Len(ring) # Capacity
        BY <1>1, <1>6, <1>3, <1>4, <2>1, <2>2, <2>4, <3>2 DEF Tally
      <3> QED
        BY <3>1, <3>2
    <2>9. Loaded'
      BY <1>1, <1>5, <1>6, <2>1 DEF Loaded
    <2> QED
      BY <2>6, <2>7, <2>8, <2>9 DEF SnapshotInv
  <1>11. ASSUME NEW counter \in Counters, NEW from,
               NEW to \in {"recv", "slot"}, Bump(from, counter, to),
               count[counter] < MaxDatagrams,
               (\A c \in Counters :
                  count'[c] = IF c = counter THEN count[c] + 1 ELSE count[c]) => Tally'
        PROVE  SnapshotInv'
    <2>1. thread' = to
      BY <1>11 DEF Bump
    <2>2. /\ count' \in [Counters -> 0..MaxDatagrams]
          /\ \A c \in Counters :
               /\ count'[c] = IF c = counter THEN count[c] + 1 ELSE count[c]
               /\ count[c] <= count'[c]
      BY <1>11, BumpType
    <2>3. UNCHANGED <<ring, ownerVars>>
      BY <1>11 DEF Bump
    <2>4. TypeOK' /\ Published' /\ Loaded'
      BY <1>5, <2>1, <2>2, <2>3, CountersGrow
    <2> QED
      BY <1>11, <2>2, <2>4 DEF SnapshotInv
  <1>12. CASE Reject
    <2>1. Bump("outcome", "decode_errors", "recv") /\ thread = "outcome" /\ thread' = "recv" /\ ring' = ring
      BY <1>12 DEF Reject, Bump
    <2>2. count["decode_errors"] < MaxDatagrams
      BY <1>1, <1>3, <1>4, <2>1, SMTT(30) DEF Tally
    <2>3. ASSUME \A c \in Counters :
                   count'[c] = IF c = "decode_errors" THEN count[c] + 1 ELSE count[c]
          PROVE  Tally'
      <3>1. /\ count'["datagrams"] = count["datagrams"]
            /\ count'["messages"] = count["messages"]
            /\ count'["last_slot"] = count["last_slot"]
            /\ count'["decode_errors"] = count["decode_errors"] + 1
            /\ count'["skipped_msg_type"] = count["skipped_msg_type"]
            /\ count'["queue_dropped"] = count["queue_dropped"]
        BY <1>2, <2>3
      <3> QED
        BY <1>1, <1>6, <1>3, <1>4, <2>1, <3>1 DEF Tally
    <2> QED
      BY <1>2, <1>11, <2>1, <2>2, <2>3
  <1>13. CASE SkipType
    <2>1. Bump("outcome", "skipped_msg_type", "recv") /\ thread = "outcome" /\ thread' = "recv" /\ ring' = ring
      BY <1>13 DEF SkipType, Bump
    <2>2. count["skipped_msg_type"] < MaxDatagrams
      BY <1>1, <1>3, <1>4, <2>1, SMTT(30) DEF Tally
    <2>3. ASSUME \A c \in Counters :
                   count'[c] = IF c = "skipped_msg_type" THEN count[c] + 1 ELSE count[c]
          PROVE  Tally'
      <3>1. /\ count'["datagrams"] = count["datagrams"]
            /\ count'["messages"] = count["messages"]
            /\ count'["last_slot"] = count["last_slot"]
            /\ count'["decode_errors"] = count["decode_errors"]
            /\ count'["skipped_msg_type"] = count["skipped_msg_type"] + 1
            /\ count'["queue_dropped"] = count["queue_dropped"]
        BY <1>2, <2>3
      <3> QED
        BY <1>1, <1>6, <1>3, <1>4, <2>1, <3>1, SMTT(30) DEF Tally
    <2> QED
      BY <1>2, <1>11, <2>1, <2>2, <2>3
  <1>14. CASE CountMessage
    <2>1. Bump("outcome", "messages", "slot") /\ thread = "outcome" /\ thread' = "slot" /\ ring' = ring
      BY <1>14 DEF CountMessage, Bump
    <2>2. count["messages"] < MaxDatagrams
      BY <1>1, <1>3, <1>4, <2>1, SMTT(30) DEF Tally
    <2>3. ASSUME \A c \in Counters :
                   count'[c] = IF c = "messages" THEN count[c] + 1 ELSE count[c]
          PROVE  Tally'
      <3>1. /\ count'["datagrams"] = count["datagrams"]
            /\ count'["messages"] = count["messages"] + 1
            /\ count'["last_slot"] = count["last_slot"]
            /\ count'["decode_errors"] = count["decode_errors"]
            /\ count'["skipped_msg_type"] = count["skipped_msg_type"]
            /\ count'["queue_dropped"] = count["queue_dropped"]
        BY <1>2, <2>3
      <3> QED
        BY <1>1, <1>6, <1>3, <1>4, <2>1, <3>1, SMTT(30) DEF Tally
    <2> QED
      BY <1>2, <1>11, <2>1, <2>2, <2>3
  <1>15. CASE CountDropped
    <2>1. Bump("drop", "queue_dropped", "recv") /\ thread = "drop" /\ thread' = "recv" /\ ring' = ring
      BY <1>15 DEF CountDropped, Bump
    <2>2. count["queue_dropped"] < MaxDatagrams
      BY <1>1, <1>3, <1>4, <2>1, SMTT(30) DEF Tally
    <2>3. ASSUME \A c \in Counters :
                   count'[c] = IF c = "queue_dropped" THEN count[c] + 1 ELSE count[c]
          PROVE  Tally'
      <3>1. /\ count'["datagrams"] = count["datagrams"]
            /\ count'["messages"] = count["messages"]
            /\ count'["last_slot"] = count["last_slot"]
            /\ count'["decode_errors"] = count["decode_errors"]
            /\ count'["skipped_msg_type"] = count["skipped_msg_type"]
            /\ count'["queue_dropped"] = count["queue_dropped"] + 1
        BY <1>2, <2>3
      <3> QED
        BY <1>1, <1>6, <1>3, <1>4, <2>1, <3>1 DEF Tally
    <2> QED
      BY <1>2, <1>11, <2>1, <2>2, <2>3
  <1> QED
    BY <1>7, <1>8, <1>9, <1>10, <1>12, <1>13, <1>14, <1>15 DEF ThreadStep

\* The owner learns from an update what its push published, from a snapshot
\* what it loaded, and from the end of the thread everything.
LEMMA OwnerSnapshot ==
  ASSUME SnapshotInv, Take \/ Snapshot \/ Close \/ Join
  PROVE  SnapshotInv'
  <1>1. TypeOK /\ Tally /\ Published /\ Loaded
    BY DEF SnapshotInv
  <1>2. {"datagrams", "messages", "last_slot", "decode_errors",
         "skipped_msg_type", "queue_dropped"} = Counters
    BY DEF Counters
  <1>3. /\ count["datagrams"] \in Nat /\ count["messages"] \in Nat
        /\ count["last_slot"] \in Nat /\ count["decode_errors"] \in Nat
        /\ count["skipped_msg_type"] \in Nat /\ count["queue_dropped"] \in Nat
        /\ count["datagrams"] <= MaxDatagrams
    BY <1>1, <1>2, NumbersType
  <1>4. /\ seen \in [Counters -> Nat] /\ seen \in [Counters -> 0..MaxDatagrams]
        /\ count \in [Counters -> 0..MaxDatagrams] /\ MaxDatagrams \in Nat
        /\ Len(ring) \in Nat /\ takes \in Nat /\ newest \in Nat
        /\ \A c \in Counters : count[c] \in Nat /\ seen[c] \in Nat /\ seen[c] <= count[c]
    BY <1>1, NumbersType
  <1>5. takes + Len(ring) <= count["messages"] /\ count["messages"] <= count["datagrams"]
    <2>1. takes + Len(ring) <= count["messages"]
      <3>1. CASE thread \in {"slot", "push", "drop"}
        BY <1>1, <1>3, <1>4, <3>1 DEF Tally
      <3>2. CASE thread \notin {"slot", "push", "drop"}
        BY <1>1, <1>3, <1>4, <3>2 DEF Tally
      <3> QED
        BY <3>1, <3>2
    <2>2. count["messages"] <= count["datagrams"]
      <3>1. CASE thread = "outcome"
        BY <1>1, <1>3, <3>1 DEF Tally
      <3>2. CASE thread # "outcome"
        BY <1>1, <1>3, <3>2 DEF Tally
      <3> QED
        BY <3>1, <3>2
    <2> QED
      BY <2>1, <2>2
  <1>6. CASE Take
    <2>1. /\ ring # <<>> /\ ring' = Tail(ring)
          /\ seen' = Newer(seen, Head(ring).published)
          /\ newest' = Head(ring).update /\ takes' = takes + 1
          /\ UNCHANGED <<thread, count, owner>>
      BY <1>6 DEF Take
    <2>2. /\ Head(ring) = ring[1] /\ 1 \in DOMAIN ring /\ Len(ring) >= 1
          /\ Tail(ring) \in Seq(Entries) /\ Len(Tail(ring)) = Len(ring) - 1
          /\ \A i \in DOMAIN Tail(ring) : i + 1 \in DOMAIN ring /\ Tail(ring)[i] = ring[i + 1]
      BY <1>1, <2>1, RingType
    <2> DEFINE got == Head(ring)
    <2>3. /\ got \in Entries /\ got.update \in Nat
          /\ got.published \in [Counters -> Nat]
          /\ Covers(got.published, got.update)
          /\ \A c \in Counters : got.published[c] <= count[c]
      BY <1>1, <2>2, RingType DEF Published
    <2> HIDE DEF got
    <2>4. /\ seen' \in [Counters -> Nat]
          /\ \A c \in Counters :
               seen'[c] = IF seen[c] >= got.published[c] THEN seen[c] ELSE got.published[c]
      <3>1. seen' = Newer(seen, got.published)
        BY <2>1 DEF got
      <3> QED
        BY <1>4, <2>3, <3>1, NewerType, SMTT(30)
    <2>5. ASSUME NEW c \in Counters
          PROVE  /\ seen'[c] \in 0..MaxDatagrams /\ seen'[c] <= count[c]
                 /\ got.published[c] <= seen'[c] /\ seen[c] <= seen'[c]
      BY <1>4, <2>3, <2>4
    <2>6. seen' \in [Counters -> 0..MaxDatagrams]
      BY <2>4, <2>5
    <2>7. TypeOK'
      <3>1. takes + 1 \in 0..MaxDatagrams
        <4>1. /\ Len(ring) >= 1 /\ Len(ring) \in Nat /\ takes \in Nat
              /\ MaxDatagrams \in Nat
          BY <1>4, <2>2
        <4> QED
          BY <1>3, <1>5, <4>1
      <3>2. newest' \in 0..MaxDatagrams
        BY <1>4, <2>1, <2>3 DEF got, Entries
      <3>3. ring' \in Seq(Entries) /\ Len(ring') <= Capacity
        BY <1>1, <1>4, <2>1, <2>2, NumbersType DEF TypeOK
      <3> QED
        BY <1>1, <2>1, <2>5, <2>6, <3>1, <3>2, <3>3 DEF TypeOK, Entries
    <2>8. Tally'
      <3>1. UNCHANGED <<thread, count>> /\ takes' + Len(ring') = takes + Len(ring)
        BY <1>4, <2>1, <2>2
      <3> QED
        BY <1>1, <1>3, <1>4, <2>1, <2>2, <3>1 DEF Tally
    <2>9. Published'
      BY <1>1, <2>1, <2>2 DEF Published
    <2>10. Loaded'
      <3>1. Covers(seen', newest')
        <4>1. /\ "datagrams" \in Counters /\ "messages" \in Counters
              /\ "last_slot" \in Counters
          BY DEF Counters
        <4>2. newest' = got.update
          BY <2>1 DEF got
        <4>3. ASSUME NEW c \in Counters, got.update <= got.published[c]
              PROVE  got.update <= seen'[c]
          BY <2>3, <2>4, <2>5, <4>3
        <4> QED
          BY <2>3, <4>1, <4>2, <4>3 DEF Covers
      <3>2. ASSUME NEW c \in Counters, seen[c] = count[c]
            PROVE  seen'[c] = count[c]
        BY <1>4, <2>5, <3>2
      <3> QED
        BY <1>1, <2>1, <3>1, <3>2 DEF Loaded
    <2> QED
      BY <2>7, <2>8, <2>9, <2>10 DEF SnapshotInv
  <1>7. CASE Snapshot
    <2>1. seen' \in Snapshots /\ UNCHANGED <<thread, count, ring, owner, newest, takes>>
      BY <1>7 DEF Snapshot
    <2>2. /\ seen' \in [Counters -> 0..MaxDatagrams]
          /\ \A c \in Counters : seen[c] <= seen'[c] /\ seen'[c] <= count[c]
      BY <1>1, <2>1, SnapshotsType
    <2>3. TypeOK'
      BY <1>1, <2>1, <2>2 DEF TypeOK
    <2>4. Covers(seen', newest)
      BY <1>1, <1>2, <1>4, <2>2, SMTT(30) DEF Loaded, Covers
    <2>5. Loaded'
      BY <1>1, <1>4, <2>1, <2>2, <2>4 DEF Loaded
    <2>6. Tally' /\ Published'
      BY <1>1, <2>1 DEF Tally, Published
    <2> QED
      BY <2>3, <2>5, <2>6 DEF SnapshotInv
  <1>8. CASE Close
    BY <1>1, <1>8 DEF SnapshotInv, Close, TypeOK, Tally, Published, Loaded
  <1>9. CASE Join
    <2>1. Covers(count, newest)
      BY <1>1, <1>2, <1>4 DEF Loaded, Covers
    <2> QED
      BY <1>1, <1>9, <1>4, <2>1 DEF SnapshotInv, Join, TypeOK, Tally, Published, Loaded
  <1> QED
    BY <1>6, <1>7, <1>8, <1>9

LEMMA SnapshotNext == SnapshotInv /\ [Next]_vars => SnapshotInv'
  <1>1. ASSUME SnapshotInv, UNCHANGED vars
        PROVE  SnapshotInv'
    BY <1>1 DEF vars, SnapshotInv, TypeOK, Tally, Published, Loaded
  <1> QED
    BY <1>1, ThreadSnapshot, OwnerSnapshot DEF Next

LEMMA SnapshotInvariant == Spec => []SnapshotInv
  BY SnapshotInit, SnapshotNext, PTL DEF Spec

-----------------------------------------------------------------------------
\* The queue stays within its capacity, and no load is from the future.
THEOREM TypeCorrect == Spec => []TypeOK
  <1>1. SnapshotInv => TypeOK
    BY DEF SnapshotInv
  <1> QED
    BY <1>1, SnapshotInvariant, PTL

\* A snapshot covers the updates its caller already has, for every capacity:
\* the queue alone orders the counters, and that is enough (frame.rs:130,
\* 201-204 before udp.rs:122).
THEOREM TakenCovered == Spec => []CoversTaken
  <1>1. SnapshotInv => CoversTaken
    <2> SUFFICES ASSUME SnapshotInv, NEW s \in Snapshots
                 PROVE  newest <= Min({s.datagrams, s.messages, s.last_slot})
      BY DEF CoversTaken
    <2>1. /\ TypeOK /\ newest \in Nat
          /\ \A c \in Counters : seen[c] \in Nat /\ s[c] \in Nat /\ seen[c] <= s[c]
      BY SnapshotsType, NumbersType DEF SnapshotInv
    <2>2. /\ "datagrams" \in Counters /\ "messages" \in Counters
          /\ "last_slot" \in Counters
      BY DEF Counters
    <2>3. /\ newest <= s.datagrams /\ newest <= s.messages /\ newest <= s.last_slot
          /\ s.datagrams \in Int /\ s.messages \in Int /\ s.last_slot \in Int
      BY <2>1, <2>2 DEF SnapshotInv, Loaded, Covers
    <2> QED
      BY <2>3, MinOfThree
  <1> QED
    BY <1>1, SnapshotInvariant, PTL

\* Once close has returned a snapshot is exact and its counters agree, for
\* every capacity and any number of datagrams (udp.rs:174-179; api.md:404-419).
THEOREM ExactOnceClosed == Spec => []ExactAfterClose
  <1>1. SnapshotInv => ExactAfterClose
    <2> SUFFICES ASSUME SnapshotInv, owner = "closed", NEW s \in Snapshots
                 PROVE  /\ s.messages = takes + Len(ring) + s.queue_dropped
                        /\ s.last_slot = s.messages
                        /\ s.messages + s.decode_errors + s.skipped_msg_type
                             <= s.datagrams
      BY DEF ExactAfterClose
    <2>1. ASSUME NEW c \in Counters
          PROVE  s[c] = count[c] /\ count[c] \in Nat
      BY SnapshotsType, NumbersType DEF SnapshotInv, Loaded
    <2>2. /\ s.datagrams = count["datagrams"] /\ s.messages = count["messages"]
          /\ s.last_slot = count["last_slot"]
          /\ s.decode_errors = count["decode_errors"]
          /\ s.skipped_msg_type = count["skipped_msg_type"]
          /\ s.queue_dropped = count["queue_dropped"]
          /\ count["datagrams"] \in Nat /\ count["messages"] \in Nat
          /\ count["last_slot"] \in Nat /\ count["decode_errors"] \in Nat
          /\ count["skipped_msg_type"] \in Nat /\ count["queue_dropped"] \in Nat
      BY <2>1 DEF Counters
    <2>3. thread = "done" /\ Tally /\ Len(ring) \in Nat /\ takes \in Nat
      BY NumbersType DEF SnapshotInv, Loaded
    <2> QED
      BY <2>2, <2>3 DEF Tally
  <1> QED
    BY <1>1, SnapshotInvariant, PTL
=============================================================================
