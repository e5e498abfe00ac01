------------------------ MODULE FragmentedFeedProofs ------------------------
(***************************************************************************)
(* Proofs about FragmentedFeed, for every set of transactions, every way   *)
(* of splitting them, every bound and every sequence-number width.         *)
(***************************************************************************)
EXTENDS FragmentedFeed, TLAPS

-----------------------------------------------------------------------------
(* The inductive invariant: what the server has put on the wire, and what  *)
(* the reassembler holds of it.                                            *)

\* Every datagram on the wire carries its place as its sequence number; one
\* of a transaction carries the fragment its index names.
WireOK ==
  /\ Len(wire) <= MaxSent
  /\ \A k \in 1..Len(wire) :
       /\ wire[k].d.faults = {}
       /\ wire[k].d.seq = SeqAt(k)
       /\ Carries(k) =>
            /\ wire[k].tx \in Tx
            /\ wire[k].d.frag_count = Count(wire[k].tx)
            /\ wire[k].d.frag_index < wire[k].d.frag_count
            /\ wire[k].d.payload
                 = Fragment(wire[k].tx, wire[k].d.frag_index)

\* A fragment with only events between it and a fragment sent before it is the
\* next one of the same transaction, or the first of another.
Succeeds(j, k) == /\ wire[k].tx = wire[j].tx
                  /\ wire[k].d.frag_index = wire[j].d.frag_index + 1

FragmentsInOrder ==
  \A k \in 1..Len(wire) :
    Carries(k) /\ wire[k].d.frag_index > 0 =>
      /\ k > 1
      /\ \A j \in 1..Len(wire) :
           Carries(j) /\ NextFragment(j, k) => Succeeds(j, k)

SendingOK ==
  sending.next > 0 =>
    /\ sending.tx \in Tx
    /\ sending.next < Count(sending.tx)
    /\ Len(wire) > 0
    /\ \A j \in 1..Len(wire) :
         Carries(j) /\ NextFragment(j, Len(wire) + 1) =>
           /\ wire[j].tx = sending.tx
           /\ sending.next = wire[j].d.frag_index + 1

\* A run is the first fragments of one transaction; it takes as many places
\* on the wire as it has fragments, unless an event parts it.
RunTx == wire[run.base].tx

RunOK ==
  run.len > 0 =>
    /\ run.base \in 1..Len(wire)
    /\ run.last \in run.base..Len(wire)
    /\ run.len <= Count(RunTx)
    /\ Carries(run.last)
    /\ wire[run.last].tx = RunTx
    /\ wire[run.last].d.frag_index = run.len - 1

\* The reassembler is active exactly during an unfinished run that nothing
\* parts, and holds it.
ReasmOK ==
  /\ reasm.active <=> (run.len > 0 /\ ~Parted /\ run.len < Count(RunTx))
  /\ reasm.active =>
       /\ reasm.frag_count = Count(RunTx)
       /\ reasm.expect_index = run.len
       /\ reasm.last_seq = SeqAt(run.last)
       /\ reasm.buf = SubSeq(Message[RunTx], 1, Cuts[RunTx][run.len])

LatestOK == latest <= Len(wire)

-----------------------------------------------------------------------------
(* The decoder alone.                                                      *)

\* A slice of a sequence is a sequence of its elements.
LEMMA SliceType ==
  ASSUME NEW S, NEW s \in Seq(S), NEW a \in Nat, NEW b \in Nat, b <= Len(s)
  PROVE  /\ SubSeq(s, a + 1, b) \in Seq(S)
         /\ a <= b => Len(SubSeq(s, a + 1, b)) = b - a
         /\ \A i \in 1..(b - a) : SubSeq(s, a + 1, b)[i] = s[a + i]
  OBVIOUS

\* Two slices that meet make the slice of both.
LEMMA SlicesMeet ==
  ASSUME NEW S, NEW s \in Seq(S), NEW a \in Nat, NEW b \in Nat,
         a <= b, b <= Len(s)
  PROVE  SubSeq(s, 1, a) \o SubSeq(s, a + 1, b) = SubSeq(s, 1, b)
  OBVIOUS

\* The decoding of any payload is a result push may return (complete,
\* frame.rs:192-214), with a slot of 8 bytes when it is an update.
LEMMA OutcomeType ==
  ASSUME NEW p \in Seq(Byte)
  PROVE  IF Len(p) < SlotBytes
           THEN Outcome(p) \in [kind : {"Error"}, code : FrameError]
           ELSE /\ Outcome(p) = Update(p)
                /\ Update(p) \in [kind : {"Update"}, slot : Slot, tx : Seq(Byte)]
  <1>1. CASE Len(p) < SlotBytes
    BY <1>1 DEF Outcome, Error, FrameError
  <1>2. CASE ~(Len(p) < SlotBytes)
    <2>1. SlotBytes \in Nat /\ SlotBytes <= Len(p)
      BY <1>2, DecoderAssumption
    <2>2. SubSeq(p, 1, SlotBytes) \in Slot
      <3>1. /\ DOMAIN SubSeq(p, 1, SlotBytes) = 1..SlotBytes
            /\ \A i \in 1..SlotBytes : SubSeq(p, 1, SlotBytes)[i] \in Byte
        BY <2>1
      <3>2. SubSeq(p, 1, SlotBytes)
              = [i \in 1..SlotBytes |-> SubSeq(p, 1, SlotBytes)[i]]
        BY <2>1
      <3> QED
        BY <3>1, <3>2 DEF Slot
    <2>3. SubSeq(p, SlotBytes + 1, Len(p)) \in Seq(Byte)
      BY <2>1, SliceType
    <2> QED
      BY <1>2, <2>2, <2>3 DEF Outcome, Update
  <1> QED
    BY <1>1, <1>2

\* Counting one datagram, and one outcome of it, keeps the counters typed.
Counters(L) == [datagrams : Nat, bytes : Nat, decode_errors : Nat,
                skipped_msg_type : Nat, messages : Nat, last_slot : L]

\* The counters push leaves after a datagram are of their types (bump!,
\* stats.rs).
LEMMA CountType ==
  ASSUME DecoderTypeOK, NEW d \in Datagram,
         NEW e \in Nat, NEW s \in Nat, NEW u \in Nat,
         NEW slot \in Slot \cup {<<>>}
  PROVE  Counted(d, e, s, u, slot) \in Counters(Slot \cup {<<>>})
  <1>1. Size(d) \in Nat
    BY DEF Size, Datagram, FRAME_HEADER_LEN
  <1>2. stats \in Counters(Slot \cup {<<>>})
    BY DEF DecoderTypeOK, Counters
  <1> QED
    BY <1>1, <1>2, SMTT(30) DEF Counters, Counted

\* Every push keeps the decoder's types.
LEMMA PushType ==
  ASSUME DecoderTypeOK, NEW d \in Datagram, Push(d)
  PROVE  DecoderTypeOK'
  <1> DEFINE L == Slot \cup {<<>>}
  <1> USE DecoderAssumption
  <1>1. stats.last_slot \in L
    BY DEF DecoderTypeOK
  <1>2. /\ Rejected(d) \in Counters(L)
        /\ OtherType(d) \in Counters(L)
        /\ Held(d) \in Counters(L)
    BY <1>1, CountType DEF Rejected, OtherType, Held
  <1>3. ASSUME NEW p \in Seq(Byte), Complete(d, p)
        PROVE  /\ stats' \in Counters(L)
               /\ \/ ret' \in [kind : {"Error"}, code : FrameError]
                  \/ ret' \in [kind : {"Update"}, slot : Slot, tx : Seq(Byte)]
    <2>1. CASE Len(p) < SlotBytes
      BY <1>2, <1>3, <2>1, OutcomeType DEF Complete
    <2>2. CASE ~(Len(p) < SlotBytes)
      <3>1. Update(p) \in [kind : {"Update"}, slot : Slot, tx : Seq(Byte)]
        BY <2>2, OutcomeType
      <3>2. Decoded(d, p) \in Counters(L)
        BY <3>1, CountType DEF Decoded
      <3> QED
        BY <1>3, <2>2, <3>1, <3>2, OutcomeType DEF Complete
    <2> QED
      BY <2>1, <2>2
  <1>4. ASSUME NEW code \in FrameError, Reject(d, code)
        PROVE  /\ stats' \in Counters(L)
               /\ ret' \in [kind : {"Error"}, code : FrameError]
    BY <1>2, <1>4 DEF Reject, Error
  <1>5. ASSUME Absorb(d)
        PROVE  stats' \in Counters(L) /\ ret' = Skipped
    BY <1>2, <1>5 DEF Absorb
  <1> DEFINE R == [buf : Seq(Byte), frag_count : 0..U8Max,
                   expect_index : 0..U8Max, last_seq : 0..SeqMax,
                   active : BOOLEAN]
  <1>6. reasm \in R /\ EmptyReasm \in R
    BY DEF DecoderTypeOK, EmptyReasm
  <1>7. SUFFICES /\ reasm' \in R
                 /\ stats' \in Counters(L)
                 /\ \/ ret' = Skipped
                    \/ ret' \in [kind : {"Error"}, code : FrameError]
                    \/ ret' \in [kind : {"Update"}, slot : Slot, tx : Seq(Byte)]
    BY DEF DecoderTypeOK, Counters, Skipped
  <1> HIDE DEF L
  <1>8. /\ d.payload \in Seq(Byte)
        /\ d.frag_count \in 0..U8Max
        /\ d.seq \in 0..SeqMax
    BY DEF Datagram
  <1>9. CASE PushMalformed(d)
    <2>1. HeaderError(d) \in FrameError
      BY DEF HeaderError, FrameError
    <2> QED
      BY <1>4, <1>6, <1>9, <2>1 DEF PushMalformed
  <1>10. CASE PushOtherType(d)
    BY <1>2, <1>6, <1>10 DEF PushOtherType
  <1>11. CASE PushWhole(d)
    BY <1>3, <1>6, <1>8, <1>11 DEF PushWhole
  <1>12. CASE PushBadIndex(d)
    BY <1>4, <1>6, <1>12 DEF PushBadIndex, FrameError
  <1>13. CASE PushFirst(d)
    BY <1>5, <1>8, <1>13 DEF PushFirst
  <1>14. CASE PushMismatch(d)
    BY <1>4, <1>6, <1>14 DEF PushMismatch, FrameError
  <1>15. CASE PushMiddle(d)
    <2>1. reasm.buf \o d.payload \in Seq(Byte)
      BY <1>6, <1>8
    <2>2. WrappingInc(reasm.expect_index, U8Max) \in 0..U8Max
      BY <1>6 DEF WrappingInc
    <2> QED
      BY <1>5, <1>6, <1>8, <1>15, <2>1, <2>2 DEF PushMiddle
  <1>16. CASE PushLast(d)
    <2>1. reasm.buf \o d.payload \in Seq(Byte)
      BY <1>6, <1>8
    <2> QED
      BY <1>3, <1>6, <1>16, <2>1 DEF PushLast
  <1> QED
    BY <1>9, <1>10, <1>11, <1>12, <1>13, <1>14, <1>15, <1>16 DEF Push

\* A push counts its datagram and at most one outcome of it; the fragments it
\* gives up or completes free the place they held (frame.rs:129-214).
LEMMA PushCounts ==
  ASSUME DecoderTypeOK, CountedOnce, NEW d \in Datagram, Push(d)
  PROVE  CountedOnce'
  <1> DEFINE x == reasm.expect_index
             out == stats.messages + stats.decode_errors
                      + stats.skipped_msg_type
  <1>1. /\ stats.messages \in Nat /\ stats.decode_errors \in Nat
        /\ stats.skipped_msg_type \in Nat /\ stats.datagrams \in Nat
        /\ x \in 0..U8Max /\ U8Max \in Nat
        /\ d.frag_index \in 0..U8Max /\ d.frag_count \in 0..U8Max
    BY DecoderAssumption DEF DecoderTypeOK, Datagram
  <1>2. out + x <= stats.datagrams /\ (reasm.active <=> x > 0)
    BY DEF CountedOnce
  <1>3. ASSUME NEW e \in {0, 1}, NEW s \in {0, 1}, NEW u \in {0, 1}, NEW l,
               e + s + u <= 1, stats' = Counted(d, e, s, u, l),
               reasm' = reasm \/ reasm' = EmptyReasm
        PROVE  CountedOnce'
    <2>1. /\ stats'.messages + stats'.decode_errors + stats'.skipped_msg_type
               = out + e + s + u
          /\ stats'.datagrams = stats.datagrams + 1
      BY <1>1, <1>3 DEF Counted
    <2>2. /\ reasm'.expect_index \in 0..x
          /\ reasm'.active <=> reasm'.expect_index > 0
      BY <1>1, <1>2, <1>3 DEF EmptyReasm
    <2> QED
      BY <1>1, <1>2, <1>3, <2>1, <2>2 DEF CountedOnce
  <1>4. ASSUME NEW p \in Seq(Byte), Complete(d, p), reasm' = EmptyReasm
        PROVE  CountedOnce'
    BY <1>3, <1>4 DEF Complete, Rejected, Decoded
  <1>5. ASSUME NEW n \in Nat, stats' = Held(d), n > 0, n <= x + 1,
               reasm'.expect_index = n, reasm'.active
        PROVE  CountedOnce'
    <2>1. /\ stats'.messages + stats'.decode_errors + stats'.skipped_msg_type
               = out
          /\ stats'.datagrams = stats.datagrams + 1
      BY <1>1, <1>5 DEF Held, Counted
    <2> QED
      BY <1>1, <1>2, <1>5, <2>1 DEF CountedOnce
  <1>6. d.payload \in Seq(Byte) /\ reasm.buf \o d.payload \in Seq(Byte)
    BY DEF DecoderTypeOK, Datagram
  <1>7. CASE PushMalformed(d) \/ PushBadIndex(d)
    BY <1>3, <1>7 DEF PushMalformed, PushBadIndex, Reject, Rejected
  <1>8. CASE PushOtherType(d)
    BY <1>3, <1>8 DEF PushOtherType, OtherType
  <1>9. CASE PushWhole(d)
    BY <1>4, <1>6, <1>9 DEF PushWhole
  <1>10. CASE PushFirst(d)
    BY <1>1, <1>5, <1>10 DEF PushFirst, Absorb
  <1>11. CASE PushMismatch(d)
    BY <1>3, <1>11 DEF PushMismatch, Reject, Rejected
  <1>12. CASE PushMiddle(d)
    <2>1. x < U8Max
      BY <1>1, <1>12 DEF PushMiddle, IsFragment, Continues
    <2>2. reasm'.expect_index = x + 1 /\ reasm'.active
      BY <1>1, <1>12, <2>1 DEF PushMiddle, WrappingInc
    <2>3. x + 1 \in Nat /\ x + 1 > 0 /\ x + 1 <= x + 1
      BY <1>1
    <2> QED
      BY <1>5, <1>12, <2>2, <2>3 DEF PushMiddle, Absorb
  <1>13. CASE PushLast(d)
    BY <1>4, <1>6, <1>13 DEF PushLast
  <1> QED
    BY <1>7, <1>8, <1>9, <1>10, <1>11, <1>12, <1>13 DEF Push

-----------------------------------------------------------------------------
(* The server.                                                             *)

\* The i-th fragment of a transaction is a slice of its message, and the
\* fragments before it and itself are the slice up to where it ends.
LEMMA FragmentJoins ==
  ASSUME NEW t \in Tx, NEW i \in Nat, i < Count(t)
  PROVE  /\ Fragment(t, i) \in Seq(Byte)
         /\ i = 0 => Fragment(t, i) = SubSeq(Message[t], 1, Cuts[t][1])
         /\ i > 0 => SubSeq(Message[t], 1, Cuts[t][i]) \o Fragment(t, i)
                       = SubSeq(Message[t], 1, Cuts[t][i + 1])
  <1> DEFINE m == Message[t]
             n == Len(Cuts[t])
  <1>1. /\ m \in Seq(Byte)
        /\ n \in Nat /\ n > 0
        /\ i < n
        /\ \A j \in 1..n : Cuts[t][j] \in Nat
        /\ Cuts[t][n] = Len(m)
        /\ \A j, k \in 1..n : j <= k => Cuts[t][j] <= Cuts[t][k]
    BY FeedAssumption, DecoderAssumption DEF Count
  <1>2. Cuts[t][i + 1] \in Nat /\ Cuts[t][i + 1] <= Len(m)
    BY <1>1
  <1>3. /\ Start(t, i) \in Nat
        /\ Start(t, i) <= Cuts[t][i + 1]
        /\ Start(t, i + 1) = Cuts[t][i + 1]
    BY <1>1 DEF Start
  <1>4. Fragment(t, i) = SubSeq(m, Start(t, i) + 1, Cuts[t][i + 1])
    BY <1>3 DEF Fragment
  <1> HIDE DEF m, n
  <1>5. Fragment(t, i) \in Seq(Byte)
    BY <1>1, <1>2, <1>3, <1>4, SliceType
  <1>6. i = 0 => Fragment(t, i) = SubSeq(m, 1, Cuts[t][1])
    BY <1>4 DEF Start
  <1>7. i > 0 => SubSeq(m, 1, Cuts[t][i]) \o Fragment(t, i)
                   = SubSeq(m, 1, Cuts[t][i + 1])
    <2>1. i > 0 => Start(t, i) = Cuts[t][i]
      BY DEF Start
    <2>2. SubSeq(m, 1, Start(t, i)) \o SubSeq(m, Start(t, i) + 1, Cuts[t][i + 1])
            = SubSeq(m, 1, Cuts[t][i + 1])
      BY <1>1, <1>2, <1>3, SlicesMeet
    <2> QED
      BY <1>4, <2>1, <2>2
  <1> QED
    BY <1>5, <1>6, <1>7 DEF m

\* All the fragments of a transaction make its message.
LEMMA FragmentsMakeMessage ==
  ASSUME NEW t \in Tx
  PROVE  /\ Count(t) \in 1..U8Max
         /\ SubSeq(Message[t], 1, Cuts[t][Count(t)]) = Message[t]
  BY FeedAssumption, DecoderAssumption DEF Count

\* Sequence numbers stay in range, no two datagrams share one, and the next
\* one is the wrapping successor.
LEMMA SeqAtType ==
  ASSUME first \in 0..SeqMax, NEW k \in 1..(SeqMax + 1)
  PROVE  SeqAt(k) \in 0..SeqMax
  BY DecoderAssumption DEF SeqAt

\* Among the datagrams sent, the next sequence number is that of the next
\* datagram only: what push compares (frame.rs:171) finds a neighbour.
LEMMA SeqAtSuccessor ==
  ASSUME first \in 0..SeqMax,
         NEW j \in 1..(SeqMax + 1), NEW k \in 2..(SeqMax + 1)
  PROVE  SeqAt(k) = WrappingInc(SeqAt(j), SeqMax) <=> k = j + 1
  BY DecoderAssumption DEF SeqAt, WrappingInc

\* The server's steps keep what is on the wire in order.
ServerInv == /\ TypeOK
             /\ WireOK
             /\ FragmentsInOrder
             /\ SendingOK

\* Appending a datagram keeps those before it.
LEMMA WireGrows ==
  ASSUME NEW S, NEW w \in Seq(S), NEW e \in S
  PROVE  /\ Append(w, e) \in Seq(S)
         /\ Len(Append(w, e)) = Len(w) + 1
         /\ \A k \in 1..Len(w) : Append(w, e)[k] = w[k]
         /\ Append(w, e)[Len(w) + 1] = e
  OBVIOUS

\* A datagram with the next sequence number that follows on from the last one
\* keeps the wire in order.
LEMMA AppendKeepsWire ==
  ASSUME TypeOK, WireOK, FragmentsInOrder, Len(wire) < MaxSent,
         NEW e \in [tx : Tx \cup {None}, d : Datagram],
         wire' = Append(wire, e), first' = first,
         e.d.faults = {}, e.d.seq = SeqAt(Len(wire) + 1),
         e.d.msg_type = MSG_TRANSACTION =>
           /\ e.tx \in Tx
           /\ e.d.frag_count = Count(e.tx)
           /\ e.d.frag_index < e.d.frag_count
           /\ e.d.payload = Fragment(e.tx, e.d.frag_index)
           /\ e.d.frag_index > 0 =>
                /\ Len(wire) > 0
                /\ \A j \in 1..Len(wire) :
                     Carries(j) /\ NextFragment(j, Len(wire) + 1) =>
                       /\ e.tx = wire[j].tx
                       /\ e.d.frag_index = wire[j].d.frag_index + 1
  PROVE  /\ wire' \in Seq([tx : Tx \cup {None}, d : Datagram])
         /\ WireOK'
         /\ FragmentsInOrder'
  <1> DEFINE n == Len(wire)
  <1>1. n \in Nat /\ n < MaxSent /\ MaxSent \in Nat
    BY FeedAssumption, DecoderAssumption DEF TypeOK
  <1>2. /\ wire' \in Seq([tx : Tx \cup {None}, d : Datagram])
        /\ Len(wire') = n + 1
        /\ \A k \in 1..n : wire'[k] = wire[k]
        /\ wire'[n + 1] = e
    BY WireGrows DEF TypeOK
  <1>3. \A k \in 1..(n + 1) : SeqAt(k)' = SeqAt(k)
    BY DEF SeqAt
  <1>4. WireOK'
    <2>1. ASSUME NEW k \in 1..Len(wire')
          PROVE  /\ wire'[k].d.faults = {}
                 /\ wire'[k].d.seq = SeqAt(k)
                 /\ wire'[k].d.msg_type = MSG_TRANSACTION =>
                      /\ wire'[k].tx \in Tx
                      /\ wire'[k].d.frag_count = Count(wire'[k].tx)
                      /\ wire'[k].d.frag_index < wire'[k].d.frag_count
                      /\ wire'[k].d.payload
                           = Fragment(wire'[k].tx, wire'[k].d.frag_index)
      <3>1. CASE k = n + 1
        BY <1>2, <3>1
      <3>2. CASE k \in 1..n
        BY <1>2, <3>2 DEF WireOK, Carries
      <3> QED
        BY <1>1, <1>2, <3>1, <3>2
    <2> QED
      BY <1>1, <1>2, <1>3, <2>1 DEF WireOK, Carries
  <1>5. FragmentsInOrder'
    <2>1. \A i \in 1..n : Carries(i)' <=> Carries(i)
      BY <1>2 DEF Carries
    <2>2. ASSUME NEW j \in 1..(n + 1), NEW k \in 1..(n + 1),
                 NextFragment(j, k)'
          PROVE  j \in 1..n /\ NextFragment(j, k)
      <3>1. /\ j < k /\ j \in 1..n
            /\ \A i \in (j + 1)..(k - 1) : i \in 1..n /\ ~Carries(i)'
        BY <1>1, <2>2 DEF NextFragment
      <3> QED
        BY <2>1, <3>1 DEF NextFragment
    <2>3. ASSUME NEW k \in 1..(n + 1), Carries(k)', wire'[k].d.frag_index > 0
          PROVE  /\ k > 1
                 /\ \A j \in 1..(n + 1) :
                      Carries(j)' /\ NextFragment(j, k)' => Succeeds(j, k)'
      <3>1. CASE k = n + 1
        <4>1. wire'[k] = e /\ e.d.msg_type = MSG_TRANSACTION
          BY <1>2, <2>3, <3>1 DEF Carries
        <4>2. n > 0 /\ e.d.frag_index > 0
          BY <2>3, <4>1
        <4>3. ASSUME NEW j \in 1..(n + 1), Carries(j)', NextFragment(j, k)'
              PROVE  Succeeds(j, k)'
          <5>1. j \in 1..n /\ NextFragment(j, n + 1) /\ Carries(j)
            BY <2>1, <2>2, <3>1, <4>3
          <5>2. /\ e.tx = wire[j].tx
                /\ e.d.frag_index = wire[j].d.frag_index + 1
            BY <4>1, <4>2, <5>1
          <5> QED
            BY <1>2, <4>1, <5>1, <5>2 DEF Succeeds
        <4> QED
          BY <1>1, <3>1, <4>2, <4>3
      <3>2. CASE k \in 1..n
        <4>1. wire'[k] = wire[k] /\ Carries(k) /\ wire[k].d.frag_index > 0
          BY <1>2, <2>1, <2>3, <3>2
        <4>2. ASSUME NEW j \in 1..(n + 1), Carries(j)', NextFragment(j, k)'
              PROVE  Succeeds(j, k)'
          <5>1. j \in 1..n /\ NextFragment(j, k) /\ Carries(j)
            BY <2>1, <2>2, <3>2, <4>2
          <5>2. Succeeds(j, k)
            BY <3>2, <4>1, <5>1 DEF FragmentsInOrder
          <5> QED
            BY <1>2, <4>1, <5>1, <5>2 DEF Succeeds
        <4> QED
          BY <3>2, <4>1, <4>2 DEF FragmentsInOrder
      <3> QED
        BY <1>1, <3>1, <3>2
    <2> QED
      BY <1>2, <2>3 DEF FragmentsInOrder
  <1> QED
    BY <1>2, <1>4, <1>5

\* The next datagram has a sequence number of the header's width.
LEMMA NextSeqType ==
  ASSUME TypeOK, Len(wire) < MaxSent
  PROVE  SeqAt(Len(wire) + 1) \in 0..SeqMax
  <1>1. Len(wire) \in Nat /\ MaxSent \in 0..(SeqMax + 1)
    BY FeedAssumption DEF TypeOK
  <1>2. Len(wire) + 1 \in 1..(SeqMax + 1)
    BY <1>1, DecoderAssumption
  <1> QED
    BY <1>2, SeqAtType DEF TypeOK

\* Sending a fragment keeps the fragments on the wire in order.
LEMMA SendTransactionKeepsServer ==
  ASSUME ServerInv, NEW t \in Tx, SendTransaction(t)
  PROVE  ServerInv'
  <1> DEFINE i == sending.next
             d == Frame(MSG_TRANSACTION, i, Count(t), Fragment(t, i))
             e == [tx |-> t, d |-> d]
             n == Len(wire)
  <1> USE DEF ServerInv
  <1>1. /\ wire' = Append(wire, e)
        /\ sending' = IF i + 1 = Count(t) THEN [tx |-> None, next |-> 0]
                                          ELSE [tx |-> t, next |-> i + 1]
        /\ n < MaxSent
        /\ i = 0 \/ sending.tx = t
        /\ UNCHANGED <<reasm, stats, ret, run, latest, first>>
    BY DEF SendTransaction, decoderVars
  <1>2. /\ Count(t) \in 1..U8Max
        /\ i \in Nat
        /\ i < Count(t)
        /\ Fragment(t, i) \in Seq(Byte)
    <2>1. Count(t) \in 1..U8Max /\ i \in Nat
      BY FragmentsMakeMessage DEF TypeOK
    <2>2. i < Count(t)
      BY <1>1, <2>1 DEF SendingOK
    <2> QED
      BY <2>1, <2>2, FragmentJoins
  <1>3. /\ d.faults = {}
        /\ d.msg_type = MSG_TRANSACTION
        /\ d.frag_index = i
        /\ d.frag_count = Count(t)
        /\ d.payload = Fragment(t, i)
        /\ d.seq = SeqAt(n + 1)
    BY DEF Frame
  <1>4. e \in [tx : Tx \cup {None}, d : Datagram]
    <2>1. d \in Datagram
      BY <1>1, <1>2, NextSeqType, DecoderAssumption
      DEF Frame, Datagram, MSG_TRANSACTION
    <2> QED
      BY <2>1
  <1>5. /\ wire' \in Seq([tx : Tx \cup {None}, d : Datagram])
        /\ WireOK'
        /\ FragmentsInOrder'
    <2>1. e.tx = t /\ e.d = d
      OBVIOUS
    <2>2. i > 0 =>
            /\ n > 0
            /\ \A j \in 1..n :
                 Carries(j) /\ NextFragment(j, n + 1) =>
                   /\ t = wire[j].tx
                   /\ i = wire[j].d.frag_index + 1
      BY <1>1, <1>2 DEF SendingOK
    <2> HIDE DEF d, e
    <2> QED
      BY <1>1, <1>2, <1>3, <1>4, <2>1, <2>2, AppendKeepsWire
  <1>6. TypeOK'
    <2>1. DecoderTypeOK'
      BY <1>1 DEF TypeOK, DecoderTypeOK
    <2>2. sending' \in [tx : Tx \cup {None}, next : 0..U8Max]
      <3>1. i + 1 # Count(t) => i + 1 \in 0..U8Max
        BY <1>2, DecoderAssumption
      <3> QED
        BY <1>1, <3>1, DecoderAssumption
    <2> QED
      BY <1>1, <1>5, <2>1, <2>2 DEF TypeOK
  <1>7. SendingOK'
    <2> SUFFICES ASSUME NEW m \in Nat, m = n
                 PROVE  SendingOK'
      BY DEF TypeOK
    <2>1. m \in Nat /\ Len(wire') = m + 1 /\ wire'[m + 1] = e
      BY <1>1, <1>4, WireGrows DEF TypeOK
    <2>2. wire'[m + 1].tx = t /\ wire'[m + 1].d = d /\ Carries(m + 1)'
      BY <1>3, <2>1 DEF Carries
    <2>3. ASSUME NEW j \in 1..(m + 1), NextFragment(j, m + 2)'
          PROVE  j = m + 1
      <3>1. j # m + 1 => m + 1 \in (j + 1)..((m + 2) - 1)
        BY <2>1
      <3> QED
        BY <2>2, <2>3, <3>1 DEF NextFragment
    <2>4. ASSUME sending'.next > 0
          PROVE  /\ sending'.tx = t
                 /\ sending'.next = i + 1
                 /\ i + 1 < Count(t)
      <3>1. i + 1 # Count(t)
        BY <1>1, <2>4
      <3> QED
        BY <1>1, <1>2, <3>1
    <2>5. ASSUME sending'.next > 0, NEW j \in 1..(m + 1),
                 NextFragment(j, m + 2)'
          PROVE  /\ wire'[j].tx = sending'.tx
                 /\ sending'.next = wire'[j].d.frag_index + 1
      <3>1. j = m + 1 /\ sending'.tx = t /\ sending'.next = i + 1
        BY <2>3, <2>4, <2>5
      <3> HIDE DEF d
      <3> QED
        BY <1>3, <2>2, <3>1
    <2>6. Len(wire') + 1 = m + 2
      BY <2>1
    <2> HIDE DEF d, e, i, n
    <2> QED
      BY <2>1, <2>4, <2>5, <2>6 DEF SendingOK
  <1> QED
    BY <1>5, <1>6, <1>7

\* Sending an event between fragments keeps them in order.
LEMMA SendEventKeepsServer ==
  ASSUME ServerInv, SendEvent
  PROVE  ServerInv'
  <1> DEFINE d == Frame(MSG_EVENT, 0, 1, <<>>)
             e == [tx |-> None, d |-> d]
             n == Len(wire)
  <1> USE DEF ServerInv
  <1>1. /\ wire' = Append(wire, e)
        /\ n < MaxSent
        /\ UNCHANGED <<reasm, stats, ret, run, latest, first, sending>>
    BY DEF SendEvent, decoderVars
  <1>2. /\ d.faults = {}
        /\ d.msg_type # MSG_TRANSACTION
        /\ d.seq = SeqAt(n + 1)
    BY DEF Frame, MSG_EVENT, MSG_TRANSACTION
  <1>3. e \in [tx : Tx \cup {None}, d : Datagram]
    <2>1. d \in Datagram
      BY <1>1, NextSeqType, DecoderAssumption DEF Frame, Datagram, MSG_EVENT
    <2> QED
      BY <2>1
  <1>4. /\ wire' \in Seq([tx : Tx \cup {None}, d : Datagram])
        /\ WireOK'
        /\ FragmentsInOrder'
    BY <1>1, <1>2, <1>3, AppendKeepsWire
  <1>5. TypeOK'
    <2>1. DecoderTypeOK'
      BY <1>1 DEF TypeOK, DecoderTypeOK
    <2> QED
      BY <1>1, <1>4, <2>1 DEF TypeOK
  <1>6. SendingOK'
    <2> SUFFICES ASSUME NEW m \in Nat, m = n
                 PROVE  SendingOK'
      BY DEF TypeOK
    <2>1. /\ m \in Nat /\ Len(wire') = m + 1 /\ wire'[m + 1] = e
          /\ \A j \in 1..m : wire'[j] = wire[j]
      BY <1>1, <1>3, WireGrows DEF TypeOK
    <2>2. ~Carries(m + 1)' /\ \A j \in 1..m : Carries(j)' <=> Carries(j)
      BY <1>2, <2>1 DEF Carries
    <2>3. ASSUME NEW j \in 1..(m + 1), Carries(j)', NextFragment(j, m + 2)'
          PROVE  j \in 1..m /\ Carries(j) /\ NextFragment(j, m + 1)
      <3>1. j \in 1..m
        BY <2>1, <2>2, <2>3
      <3>2. \A i \in (j + 1)..m : ~Carries(i)' /\ i \in 1..m
        BY <2>1, <2>3, <3>1 DEF NextFragment
      <3> QED
        BY <2>1, <2>2, <2>3, <3>1, <3>2 DEF NextFragment
    <2>4. Len(wire') + 1 = m + 2
      BY <2>1
    <2>5. ASSUME sending.next > 0, NEW j \in 1..(m + 1), Carries(j)',
                 NextFragment(j, m + 2)'
          PROVE  /\ wire'[j].tx = sending.tx
                 /\ sending.next = wire'[j].d.frag_index + 1
      BY <2>1, <2>3, <2>5 DEF SendingOK
    <2> HIDE DEF d, e, n
    <2>6. sending.next > 0 => sending.tx \in Tx /\ sending.next < Count(sending.tx)
      BY DEF SendingOK
    <2> QED
      BY <1>1, <2>1, <2>4, <2>5, <2>6 DEF SendingOK
  <1> QED
    BY <1>4, <1>5, <1>6

-----------------------------------------------------------------------------
(* The run and the reassembler, while the server sends.                    *)

FeedInv == /\ RunOK
           /\ ReasmOK
           /\ LatestOK
           /\ ExactReassembly

\* Sending changes nothing of what has been received: those datagrams stay
\* where they are on the wire.
LEMMA SendKeepsFeed ==
  ASSUME TypeOK, FeedInv, first' = first,
         UNCHANGED <<reasm, ret, run, latest>>,
         NEW e \in [tx : Tx \cup {None}, d : Datagram],
         wire' = Append(wire, e)
  PROVE  FeedInv'
  <1> USE DEF FeedInv
  <1>1. /\ Len(wire') = Len(wire) + 1
        /\ Len(wire) \in Nat
        /\ \A k \in 1..Len(wire) : wire'[k] = wire[k]
        /\ run.len \in Nat /\ run.base \in Nat /\ run.last \in Nat
        /\ latest \in Nat
    BY WireGrows DEF TypeOK
  <1>2. run.len > 0 =>
          /\ RunTx' = RunTx
          /\ wire'[run.last] = wire[run.last]
          /\ Parted' <=> Parted
    <2>1. run.len > 0 => \A k \in run.base..run.last :
                           k \in 1..Len(wire) /\ wire'[k] = wire[k]
      BY <1>1 DEF RunOK
    <2> QED
      BY <1>1, <2>1 DEF RunOK, RunTx, Parted, Carries
  <1>3. RunOK'
    BY <1>1, <1>2 DEF RunOK, Carries
  <1>4. ReasmOK'
    BY <1>1, <1>2 DEF ReasmOK, SeqAt
  <1>5. LatestOK'
    BY <1>1 DEF LatestOK
  <1>6. RunComplete' = RunComplete
    BY <1>1, <1>2 DEF RunComplete, RunTx
  <1>7. ExactReassembly'
    <2>1. SUFFICES ASSUME latest > 0, Carries(latest)'
                   PROVE  (IF RunComplete /\ ~Parted
                             THEN ret = Outcome(Message[RunTx])
                             ELSE /\ ret.kind # "Update"
                                  /\ run.len > 0 /\ Parted =>
                                       ret = Error("BadFragment"))'
      BY DEF ExactReassembly, RunTx
    <2>2. Carries(latest)
      BY <1>1, <2>1 DEF LatestOK, Carries
    <2>3. IF RunComplete /\ ~Parted
            THEN ret = Outcome(Message[RunTx])
            ELSE /\ ret.kind # "Update"
                 /\ run.len > 0 /\ Parted => ret = Error("BadFragment")
      BY <2>1, <2>2 DEF ExactReassembly, RunTx
    <2>4. CASE run.len > 0
      <3>1. RunTx' = RunTx /\ (Parted' <=> Parted)
        BY <1>2, <2>4
      <3> QED
        BY <1>6, <2>3, <3>1 DEF Outcome, Update, Error
    <2>5. CASE ~(run.len > 0)
      <3>1. ~RunComplete
        BY <2>5 DEF RunComplete
      <3> QED
        BY <1>6, <2>3, <2>5, <3>1
    <2> QED
      BY <2>4, <2>5
  <1> QED
    BY <1>3, <1>4, <1>5, <1>7

-----------------------------------------------------------------------------
(* The run and the reassembler, when a datagram is received.               *)

\* A later fragment on the wire continues what the reassembler holds exactly
\* when it is the datagram sent directly after a run that nothing parts
\* (frame.rs:170-173).
LEMMA ContinuesIsNextOfRun ==
  ASSUME ServerInv, RunOK, ReasmOK, NEW k \in 1..Len(wire),
         Carries(k), wire[k].d.frag_index > 0
  PROVE  /\ Continues(wire[k].d)
              <=> (run.len > 0 /\ ~Parted /\ k = run.last + 1)
         /\ Continues(wire[k].d) => reasm.active
         /\ run.len > 0 /\ NextFragment(run.last, k) =>
              /\ wire[k].tx = RunTx
              /\ wire[k].d.frag_index = run.len
  <1> DEFINE d == wire[k].d
  <1> USE DEF ServerInv
  <1>1. /\ Len(wire) \in Nat /\ Len(wire) <= SeqMax + 1
        /\ run.len \in Nat /\ run.base \in Nat /\ run.last \in Nat
        /\ k \in 2..(SeqMax + 1)
    <2>1. /\ Len(wire) \in Nat
          /\ run.len \in Nat /\ run.base \in Nat /\ run.last \in Nat
      BY DEF TypeOK
    <2>2. Len(wire) <= MaxSent /\ MaxSent \in 0..(SeqMax + 1) /\ SeqMax \in Nat
      BY FeedAssumption, DecoderAssumption DEF WireOK
    <2>3. k > 1
      BY DEF FragmentsInOrder
    <2> QED
      BY <2>1, <2>2, <2>3
  <1>2. /\ d.seq = SeqAt(k)
        /\ wire[k].tx \in Tx
        /\ d.frag_count = Count(wire[k].tx)
        /\ d.frag_index < d.frag_count
    BY DEF WireOK
  <1>3. run.len > 0 => run.last \in 1..Len(wire) /\ run.last \in 1..(SeqMax + 1)
    BY <1>1, DecoderAssumption DEF RunOK
  <1>4. ASSUME run.len > 0, NextFragment(run.last, k)
        PROVE  wire[k].tx = RunTx /\ d.frag_index = run.len
    <2>1. Succeeds(run.last, k)
      BY <1>3, <1>4 DEF FragmentsInOrder, RunOK
    <2>2. wire[k].tx = RunTx /\ d.frag_index = (run.len - 1) + 1
      BY <1>4, <2>1 DEF Succeeds, RunOK
    <2> QED
      BY <1>1, <2>2
  <1>5. ASSUME Continues(d)
        PROVE  run.len > 0 /\ ~Parted /\ k = run.last + 1 /\ reasm.active
    <2>1. /\ reasm.active /\ run.len > 0 /\ ~Parted
          /\ SeqAt(k) = WrappingInc(SeqAt(run.last), SeqMax)
      BY <1>2, <1>5 DEF Continues, ReasmOK
    <2> QED
      BY <1>1, <1>3, <2>1, SeqAtSuccessor DEF TypeOK
  <1>6. ASSUME run.len > 0, ~Parted, k = run.last + 1
        PROVE  Continues(d)
    <2>1. NextFragment(run.last, k)
      BY <1>1, <1>6 DEF NextFragment
    <2>2. wire[k].tx = RunTx /\ d.frag_index = run.len
      BY <1>4, <1>6, <2>1
    <2>3. reasm.active
      BY <1>2, <1>6, <2>2 DEF ReasmOK
    <2>4. /\ reasm.frag_count = d.frag_count
          /\ reasm.expect_index = d.frag_index
          /\ reasm.last_seq = SeqAt(run.last)
      BY <1>2, <2>2, <2>3 DEF ReasmOK
    <2>5. d.seq = WrappingInc(reasm.last_seq, SeqMax)
      BY <1>1, <1>2, <1>3, <1>6, <2>4, SeqAtSuccessor DEF TypeOK
    <2> QED
      BY <2>3, <2>4, <2>5 DEF Continues
  <1> QED
    BY <1>4, <1>5, <1>6

\* What is on the wire is a datagram with the transaction it carries.
LEMMA WireElement ==
  ASSUME TypeOK, NEW k \in 1..Len(wire)
  PROVE  wire[k].d \in Datagram
  <1> DEFINE S == [tx : Tx \cup {None}, d : Datagram]
  <1>1. ASSUME NEW T, NEW w \in Seq(T), NEW j \in 1..Len(w)
        PROVE  w[j] \in T
    BY <1>1
  <1>2. wire \in Seq(S)
    BY DEF TypeOK
  <1>3. wire[k] \in S
    BY <1>1, <1>2
  <1> QED
    BY <1>3

\* What push does with a datagram of the server's.
LEMMA PushOfWire ==
  ASSUME ServerInv, NEW k \in 1..Len(wire), Push(wire[k].d)
  PROVE  IF ~Carries(k) THEN PushOtherType(wire[k].d)
         ELSE IF Count(wire[k].tx) = 1 THEN PushWhole(wire[k].d)
         ELSE IF wire[k].d.frag_index = 0 THEN PushFirst(wire[k].d)
         ELSE IF ~Continues(wire[k].d) THEN PushMismatch(wire[k].d)
         ELSE IF wire[k].d.frag_index + 1 = Count(wire[k].tx)
                THEN PushLast(wire[k].d)
                ELSE PushMiddle(wire[k].d)
  <1> DEFINE d == wire[k].d
  <1>1. d.faults = {}
    BY DEF ServerInv, WireOK
  <1>2. Carries(k) => /\ d.frag_count = Count(wire[k].tx)
                      /\ d.frag_index < d.frag_count
    BY DEF ServerInv, WireOK
  <1>3. d.frag_index \in Nat /\ d.frag_count \in Nat
    BY WireElement, DecoderAssumption DEF ServerInv, Datagram
  <1>4. Carries(k) <=> d.msg_type = MSG_TRANSACTION
    BY DEF Carries
  <1> HIDE DEF d
  <1>5. \/ PushMalformed(d) \/ PushOtherType(d) \/ PushWhole(d)
        \/ PushBadIndex(d) \/ PushFirst(d) \/ PushMismatch(d)
        \/ PushMiddle(d) \/ PushLast(d)
    BY DEF Push, d
  <1>6. ~PushMalformed(d)
    BY <1>1 DEF PushMalformed
  <1>7. ~PushBadIndex(d)
    BY <1>2, <1>3, <1>4 DEF PushBadIndex, Transaction
  <1>8. PushOtherType(d) => ~Carries(k)
    BY <1>4 DEF PushOtherType
  <1>9. PushWhole(d) => Carries(k) /\ Count(wire[k].tx) = 1
    BY <1>2, <1>4 DEF PushWhole, Transaction
  <1>10. PushFirst(d) => /\ Carries(k)
                         /\ Count(wire[k].tx) # 1
                         /\ d.frag_index = 0
    BY <1>2, <1>4 DEF PushFirst, IsFragment, Transaction
  <1>11. PushMismatch(d) => /\ Carries(k)
                            /\ Count(wire[k].tx) # 1
                            /\ d.frag_index # 0
                            /\ ~Continues(d)
    BY <1>2, <1>4 DEF PushMismatch, IsFragment, Transaction
  <1>12. PushMiddle(d) => /\ Carries(k)
                          /\ Count(wire[k].tx) # 1
                          /\ d.frag_index # 0
                          /\ Continues(d)
                          /\ d.frag_index + 1 # Count(wire[k].tx)
    BY <1>2, <1>4 DEF PushMiddle, IsFragment, Transaction
  <1>13. PushLast(d) => /\ Carries(k)
                        /\ Count(wire[k].tx) # 1
                        /\ d.frag_index # 0
                        /\ Continues(d)
                        /\ d.frag_index + 1 = Count(wire[k].tx)
    BY <1>2, <1>4 DEF PushLast, IsFragment, Transaction
  <1> QED
    BY <1>5, <1>6, <1>7, <1>8, <1>9, <1>10, <1>11, <1>12, <1>13 DEF d

\* Being received changes nothing of what was sent, and push keeps types.
LEMMA ReceiveKeepsServer ==
  ASSUME ServerInv, NEW d \in Datagram, Push(d), UNCHANGED serverVars,
         run' \in [base : Nat, len : Nat, last : Nat], latest' \in Nat
  PROVE  ServerInv'
  <1> USE DEF ServerInv, serverVars
  <1>1. DecoderTypeOK'
    BY PushType DEF TypeOK
  <1>2. TypeOK'
    BY <1>1 DEF TypeOK
  <1>3. WireOK' /\ FragmentsInOrder' /\ SendingOK'
    BY DEF WireOK, FragmentsInOrder, SendingOK, Succeeds, NextFragment, Carries,
       SeqAt
  <1> QED
    BY <1>2, <1>3

\* Whatever datagram of the server's arrives, the reassembler holds the run
\* it leaves, and push returns a transaction when it completes one.
LEMMA ReceiveKeepsFeed ==
  ASSUME ServerInv, FeedInv, NEW k \in 1..Len(wire), Receive(k)
  PROVE  FeedInv'
  <1> DEFINE d == wire[k].d
             t == wire[k].tx
  <1> USE DEF FeedInv
  <1>1. /\ Push(d)
        /\ run' = IF Carries(k) THEN RunAfter(k) ELSE run
        /\ latest' = k
        /\ wire' = wire /\ first' = first
    BY DEF Receive, serverVars
  <1>2. /\ Len(wire) \in Nat
        /\ run.len \in Nat /\ run.base \in Nat /\ run.last \in Nat
    BY DEF ServerInv, TypeOK
  <1>3. /\ \A j : Carries(j)' <=> Carries(j)
        /\ \A j : SeqAt(j)' = SeqAt(j)
        /\ RunTx' = wire[run'.base].tx
        /\ RunComplete' <=> run'.len > 0 /\ run'.len = Count(wire[run'.base].tx)
        /\ Parted' <=> \E i \in run'.base..run'.last : ~Carries(i)
    BY <1>1 DEF Carries, SeqAt, RunTx, RunComplete, Parted
  <1>4. LatestOK'
    BY <1>1, <1>2 DEF LatestOK
  <1>5. Carries(k) => /\ t \in Tx
                      /\ d.seq = SeqAt(k)
                      /\ d.frag_count = Count(t)
                      /\ d.frag_index < Count(t)
                      /\ d.payload = Fragment(t, d.frag_index)
                      /\ Count(t) \in 1..U8Max
                      /\ d.frag_index \in Nat
    BY WireElement, DecoderAssumption, FragmentsMakeMessage, SMTT(30)
    DEF ServerInv, WireOK, Datagram
  <1>6. SUFFICES /\ RunOK'
                 /\ ReasmOK'
                 /\ ExactReassembly'
    BY <1>4
  <1>7. CASE ~Carries(k)
    <2>1. run' = run /\ reasm' = reasm
      BY <1>1, <1>7, PushOfWire DEF PushOtherType
    <2> QED
      BY <1>1, <1>3, <1>7, <2>1 DEF RunOK, ReasmOK, ExactReassembly, RunTx, Parted
  <1>8. CASE Carries(k) /\ d.frag_index = 0
    <2>1. run' = [base |-> k, len |-> 1, last |-> k]
      BY <1>1, <1>8 DEF RunAfter
    <2>2. run'.base = k /\ run'.len = 1 /\ run'.last = k /\ RunTx' = t
      BY <1>3, <2>1
    <2>3. ~Parted'
      BY <1>2, <1>3, <1>8, <2>2
    <2>4. RunOK'
      BY <1>1, <1>2, <1>3, <1>5, <1>8, <2>2 DEF RunOK
    <2>5. d.payload = SubSeq(Message[t], 1, Cuts[t][1])
      BY <1>5, <1>8, FragmentJoins
    <2>6. CASE Count(t) = 1
      <3>1. ~reasm'.active /\ ret' = Outcome(d.payload)
        BY <1>1, <1>8, <2>6, PushOfWire DEF PushWhole, Complete, EmptyReasm
      <3>2. d.payload = Message[t]
        BY <1>5, <1>8, <2>5, <2>6, FragmentsMakeMessage
      <3>3. ReasmOK'
        BY <2>2, <2>6, <3>1 DEF ReasmOK
      <3>4. ret' = Outcome(Message[t]) /\ RunComplete'
        BY <1>3, <2>2, <2>6, <3>1, <3>2
      <3> QED
        BY <1>1, <2>2, <2>4, <2>3, <3>3, <3>4
        DEF ExactReassembly, RunTx, Outcome, Update, Error
    <2>7. CASE Count(t) # 1
      <3>1. /\ reasm' = [buf          |-> d.payload,
                         frag_count   |-> d.frag_count,
                         expect_index |-> 1,
                         last_seq     |-> d.seq,
                         active       |-> TRUE]
            /\ ret' = Skipped
        BY <1>1, <1>8, <2>7, PushOfWire DEF PushFirst, Absorb
      <3>2. ReasmOK'
        <4>1. Count(t) > 1
          BY <1>2, <1>5, <1>8, <2>7, DecoderAssumption
        <4>2. SUFFICES /\ run'.len > 0 /\ run'.len < Count(t)
                       /\ reasm'.frag_count = Count(t)
                       /\ reasm'.expect_index = run'.len
                       /\ reasm'.last_seq = SeqAt(run'.last)
                       /\ reasm'.buf = SubSeq(Message[t], 1, Cuts[t][run'.len])
          BY <1>3, <2>2, <2>3, <3>1 DEF ReasmOK
        <4>3. reasm'.last_seq = SeqAt(run'.last)
          BY <1>5, <1>8, <2>2, <3>1, <4>1
        <4>4. reasm'.frag_count = Count(t)
          BY <1>5, <1>8, <3>1
        <4>5. reasm'.expect_index = run'.len
          BY <2>2, <3>1
        <4>6. reasm'.buf = SubSeq(Message[t], 1, Cuts[t][run'.len])
          BY <2>2, <2>5, <3>1
        <4> QED
          BY <2>2, <4>1, <4>3, <4>4, <4>5, <4>6
      <3>3. ~RunComplete' /\ ret'.kind # "Update"
        BY <1>3, <2>2, <2>7, <3>1 DEF Skipped
      <3> QED
        BY <2>4, <2>3, <3>2, <3>3 DEF ExactReassembly
    <2> QED
      BY <2>6, <2>7
  <1>9. CASE Carries(k) /\ d.frag_index > 0 /\ ~Continues(d)
    <2>1. Parted \/ ~(run.len > 0 /\ k = run.last + 1)
      BY <1>9, ContinuesIsNextOfRun
    <2>2. Count(t) # 1
      BY <1>5, <1>9
    <2>3. ~reasm'.active /\ ret' = Error("BadFragment")
      BY <1>1, <1>9, <2>2, PushOfWire DEF PushMismatch, Reject, EmptyReasm
    <2>4. CASE run.len > 0 /\ NextFragment(run.last, k)
      <3>1. run' = [base |-> run.base, len |-> run.len + 1, last |-> k]
        BY <1>1, <1>9, <2>4 DEF RunAfter
      <3>2. /\ run'.base = run.base /\ run'.len = run.len + 1 /\ run'.last = k
            /\ RunTx' = RunTx
        BY <1>3, <3>1 DEF ServerInv, TypeOK, RunTx
      <3>3. run.last < k /\ run.base <= run.last
        BY <2>4 DEF NextFragment, RunOK
      <3>4. Parted'
        <4>1. CASE Parted
          <5>1. PICK i \in run.base..run.last : ~Carries(i)
            BY <4>1 DEF Parted
          <5>2. i \in run.base..k
            BY <1>2, <3>3
          <5> QED
            BY <1>3, <3>2, <5>1, <5>2
        <4>2. CASE k # run.last + 1
          <5>1. /\ run.last + 1 \in (run.last + 1)..(k - 1)
                /\ run.last + 1 \in run.base..k
            BY <1>2, <3>3, <4>2
          <5>2. ~Carries(run.last + 1)
            BY <2>4, <5>1 DEF NextFragment
          <5> QED
            BY <1>3, <3>2, <5>1, <5>2
        <4> QED
          BY <2>1, <2>4, <4>1, <4>2
      <3>5. t = RunTx /\ d.frag_index = run.len
        BY <1>9, <2>4, ContinuesIsNextOfRun
      <3>6. RunOK'
        <4>1. /\ run.base \in 1..Len(wire)
              /\ k \in run.base..Len(wire)
              /\ run.len + 1 <= Count(RunTx)
              /\ run.len = (run.len + 1) - 1
          BY <1>2, <1>5, <1>9, <2>4, <3>3, <3>5, DecoderAssumption DEF RunOK
        <4> QED
          BY <1>1, <1>3, <1>9, <3>2, <3>5, <4>1 DEF RunOK
      <3> QED
        BY <2>3, <3>4, <3>6 DEF ReasmOK, ExactReassembly, Error
    <2>5. CASE ~(run.len > 0 /\ NextFragment(run.last, k))
      <3>1. run'.len = 0
        BY <1>1, <1>9, <2>5 DEF RunAfter
      <3> QED
        BY <1>3, <2>3, <3>1 DEF RunOK, ReasmOK, ExactReassembly, Error
    <2> QED
      BY <2>4, <2>5
  <1>10. CASE Carries(k) /\ d.frag_index > 0 /\ Continues(d)
    <2>1. /\ run.len > 0
          /\ ~Parted
          /\ k = run.last + 1
          /\ NextFragment(run.last, k)
          /\ t = RunTx
          /\ d.frag_index = run.len
          /\ reasm.active
      <3>1. run.len > 0 /\ ~Parted /\ k = run.last + 1 /\ reasm.active
        BY <1>10, ContinuesIsNextOfRun
      <3>2. NextFragment(run.last, k)
        BY <1>2, <3>1 DEF NextFragment
      <3> QED
        BY <1>10, <3>1, <3>2, ContinuesIsNextOfRun
    <2>2. run' = [base |-> run.base, len |-> run.len + 1, last |-> k]
      BY <1>1, <1>10, <2>1 DEF RunAfter
    <2>3. /\ run'.base = run.base /\ run'.len = run.len + 1 /\ run'.last = k
          /\ RunTx' = t
      BY <1>3, <2>1, <2>2 DEF ServerInv, TypeOK, RunTx
    <2>4. RunOK'
      <3>1. /\ run.base \in 1..Len(wire)
            /\ k \in run.base..Len(wire)
            /\ run.len + 1 <= Count(t)
            /\ run.len = (run.len + 1) - 1
        BY <1>2, <1>5, <1>10, <2>1, DecoderAssumption DEF RunOK
      <3> QED
        BY <1>1, <1>3, <1>10, <2>1, <2>3, <3>1 DEF RunOK
    <2>5. ~Parted'
      <3>1. \A i \in run.base..k : i = k \/ i \in run.base..run.last
        BY <1>2, <2>1
      <3> QED
        BY <1>3, <1>10, <2>1, <2>3, <3>1 DEF Parted
    <2>6. reasm.buf \o d.payload = SubSeq(Message[t], 1, Cuts[t][run.len + 1])
      <3>1. reasm.buf = SubSeq(Message[t], 1, Cuts[t][run.len])
        BY <2>1 DEF ReasmOK
      <3>2. /\ d.payload = Fragment(t, run.len)
            /\ run.len < Count(t)
            /\ t \in Tx
        BY <1>5, <1>10, <2>1
      <3> HIDE DEF d, t
      <3> QED
        BY <1>2, <2>1, <3>1, <3>2, FragmentJoins, ZenonT(60)
    <2>7. IF run.len + 1 = Count(t) THEN PushLast(d) ELSE PushMiddle(d)
      <3>1. Count(t) # 1 /\ d.frag_index # 0
        BY <1>5, <1>10
      <3> QED
        BY <1>1, <1>10, <2>1, <3>1, PushOfWire
    <2>8. SUFFICES ASSUME TRUE
                   PROVE  ReasmOK' /\ ExactReassembly'
      BY <2>4
    <2>9. CASE run.len + 1 = Count(t)
      <3>1. ~reasm'.active /\ ret' = Outcome(reasm.buf \o d.payload)
        BY <2>7, <2>9 DEF PushLast, Complete, EmptyReasm
      <3>2. reasm.buf \o d.payload = Message[t]
        BY <1>5, <1>10, <2>6, <2>9, FragmentsMakeMessage
      <3>3. ReasmOK'
        <4>1. ~(run'.len < Count(RunTx'))
          BY <1>5, <1>10, <2>3, <2>9, DecoderAssumption
        <4> QED
          BY <3>1, <4>1 DEF ReasmOK
      <3>4. ret' = Outcome(Message[RunTx'])
        BY <2>3, <3>1, <3>2
      <3>5. RunComplete'
        BY <1>2, <1>3, <2>1, <2>3, <2>9 DEF RunTx
      <3> QED
        BY <2>5, <3>3, <3>4, <3>5 DEF ExactReassembly, RunTx, Outcome, Update, Error
    <2>10. CASE run.len + 1 # Count(t)
      <3>1. /\ reasm' = [buf          |-> reasm.buf \o d.payload,
                         frag_count   |-> reasm.frag_count,
                         expect_index |-> WrappingInc(reasm.expect_index, U8Max),
                         last_seq     |-> d.seq,
                         active       |-> TRUE]
            /\ ret' = Skipped
        BY <2>7, <2>10 DEF PushMiddle, Absorb
      <3>2. run.len + 1 < Count(t)
        BY <1>2, <1>5, <1>10, <2>1, <2>10, DecoderAssumption
      <3>3. WrappingInc(reasm.expect_index, U8Max) = run.len + 1
        BY <1>2, <1>5, <1>10, <2>1, <3>2, DecoderAssumption
        DEF ReasmOK, WrappingInc
      <3>4. ReasmOK'
        <4>1. SUFFICES /\ run'.len > 0 /\ run'.len < Count(t)
                       /\ reasm'.frag_count = Count(t)
                       /\ reasm'.expect_index = run'.len
                       /\ reasm'.last_seq = SeqAt(run'.last)
                       /\ reasm'.buf = SubSeq(Message[t], 1, Cuts[t][run'.len])
          BY <1>3, <2>3, <2>5, <3>1 DEF ReasmOK
        <4>2. reasm'.frag_count = Count(t)
          BY <2>1, <3>1 DEF ReasmOK
        <4>3. reasm'.last_seq = SeqAt(run'.last)
          BY <1>5, <1>10, <2>3, <3>1, <3>2
        <4>4. reasm'.buf = SubSeq(Message[t], 1, Cuts[t][run'.len])
          BY <2>3, <2>6, <3>1
        <4>5. reasm'.expect_index = run'.len
          BY <2>3, <3>1, <3>3
        <4>6. run'.len > 0 /\ run'.len < Count(t)
          BY <1>2, <2>3, <3>2
        <4> QED
          BY <4>2, <4>3, <4>4, <4>5, <4>6
      <3>5. ~RunComplete' /\ ret'.kind # "Update"
        BY <1>3, <2>3, <2>10, <3>1 DEF Skipped, RunTx
      <3> QED
        BY <2>5, <3>4, <3>5 DEF ExactReassembly
    <2> QED
      BY <2>9, <2>10
  <1> QED
    BY <1>5, <1>7, <1>8, <1>9, <1>10

\* A datagram of another origin leaves the run and the reassembler alone.
LEMMA ForeignKeepsFeed ==
  ASSUME ServerInv, FeedInv, NEW d \in Foreign, ReceiveForeign(d)
  PROVE  FeedInv'
  <1> USE DEF FeedInv
  <1>1. /\ Push(d)
        /\ UNCHANGED <<wire, first, run>>
        /\ latest' = 0
    BY DEF ReceiveForeign, serverVars
  <1>2. /\ d \in Datagram
        /\ Transaction(d) => d.frag_count # 1 /\ d.frag_index >= d.frag_count
    BY FeedAssumption
  <1>3. d.frag_index \in Nat /\ d.frag_count \in Nat
    BY <1>2, DecoderAssumption DEF Datagram
  <1>4. ~PushWhole(d)
    BY <1>2 DEF PushWhole
  <1>5. ~IsFragment(d)
    BY <1>2, <1>3 DEF IsFragment
  <1>6. reasm' = reasm
    BY <1>1, <1>4, <1>5 DEF Push, PushMalformed, PushOtherType, PushBadIndex,
       PushFirst, PushMismatch, PushMiddle, PushLast
  <1>7. RunOK' /\ ReasmOK'
    BY <1>1, <1>6 DEF RunOK, ReasmOK, RunTx, Parted, Carries, SeqAt
  <1>8. LatestOK' /\ ExactReassembly'
    BY <1>1 DEF LatestOK, ExactReassembly, ServerInv, TypeOK
  <1> QED
    BY <1>7, <1>8

\* What is appended to the wire has the type of what is on it.
LEMMA AppendedTyped ==
  ASSUME TypeOK, TypeOK', NEW e, wire' = Append(wire, e)
  PROVE  e \in [tx : Tx \cup {None}, d : Datagram]
  <1> DEFINE S == [tx : Tx \cup {None}, d : Datagram]
  <1>1. wire \in Seq(S) /\ wire' \in Seq(S)
    BY DEF TypeOK
  <1>2. ASSUME NEW T, NEW w \in Seq(T), Append(w, e) \in Seq(T)
        PROVE  e \in T
    <2>1. Append(w, e)[Len(w) + 1] = e /\ Len(w) + 1 \in 1..Len(Append(w, e))
      OBVIOUS
    <2> QED
      BY <1>2, <2>1
  <1> QED
    BY <1>1, <1>2

-----------------------------------------------------------------------------
(* The specification.                                                      *)

Inv == ServerInv /\ FeedInv

\* A fresh decoder and a server that has sent nothing satisfy the invariant.
LEMMA InitInv == Init => Inv
  <1> SUFFICES ASSUME Init PROVE Inv
    OBVIOUS
  <1> USE DEF Init
  <1>1. DecoderTypeOK
    BY DecoderAssumption
    DEF DecoderInit, DecoderTypeOK, EmptyReasm, ZeroStats, Skipped
  <1>2. TypeOK
    BY <1>1, DecoderAssumption DEF TypeOK
  <1>3. WireOK /\ FragmentsInOrder /\ SendingOK
    BY FeedAssumption, DecoderAssumption DEF WireOK, FragmentsInOrder, SendingOK
  <1>4. RunOK /\ ReasmOK /\ LatestOK /\ ExactReassembly
    BY DEF RunOK, ReasmOK, LatestOK, ExactReassembly, DecoderInit, EmptyReasm
  <1> QED
    BY <1>2, <1>3, <1>4 DEF Inv, ServerInv, FeedInv

\* Every step of the server and of the decoder keeps the invariant.
LEMMA NextInv == Inv /\ [Next]_vars => Inv'
  <1> SUFFICES ASSUME Inv, [Next]_vars PROVE Inv'
    OBVIOUS
  <1> USE DEF Inv
  <1>1. ASSUME NEW t \in Tx, SendTransaction(t)
        PROVE  Inv'
    <2>1. ServerInv'
      BY <1>1, SendTransactionKeepsServer
    <2> DEFINE e == [tx |-> t,
                     d  |-> Frame(MSG_TRANSACTION, sending.next, Count(t),
                                  Fragment(t, sending.next))]
    <2>2. /\ wire' = Append(wire, e)
          /\ UNCHANGED <<first, reasm, ret, run, latest>>
      BY <1>1 DEF SendTransaction, decoderVars
    <2>3. FeedInv'
      BY <2>1, <2>2, AppendedTyped, SendKeepsFeed DEF ServerInv
    <2> QED
      BY <2>1, <2>3
  <1>2. ASSUME SendEvent
        PROVE  Inv'
    <2>1. ServerInv'
      BY <1>2, SendEventKeepsServer
    <2>2. /\ wire' = Append(wire, [tx |-> None,
                                   d  |-> Frame(MSG_EVENT, 0, 1, <<>>)])
          /\ UNCHANGED <<first, reasm, ret, run, latest>>
      BY <1>2 DEF SendEvent, decoderVars
    <2>3. FeedInv'
      BY <2>1, <2>2, AppendedTyped, SendKeepsFeed DEF ServerInv
    <2> QED
      BY <2>1, <2>3
  <1>3. ASSUME NEW k \in 1..Len(wire), Receive(k)
        PROVE  Inv'
    <2>1. FeedInv'
      BY <1>3, ReceiveKeepsFeed
    <2>2. ServerInv'
      <3>1. Len(wire) \in Nat /\ wire[k].d \in Datagram
        BY WireElement DEF ServerInv, TypeOK
      <3>2. run' \in [base : Nat, len : Nat, last : Nat] /\ latest' \in Nat
        <4>1. run \in [base : Nat, len : Nat, last : Nat] /\ k \in Nat
          BY <3>1 DEF ServerInv, TypeOK
        <4>2. \/ run' = run
              \/ run' = [base |-> k, len |-> 1, last |-> k]
              \/ run' = [base |-> run.base, len |-> run.len + 1, last |-> k]
              \/ run' = [base |-> 0, len |-> 0, last |-> 0]
          BY <1>3 DEF Receive, RunAfter
        <4>3. latest' \in Nat
          BY <1>3, <4>1 DEF Receive
        <4>4. /\ [base |-> k, len |-> 1, last |-> k]
                    \in [base : Nat, len : Nat, last : Nat]
              /\ [base |-> 0, len |-> 0, last |-> 0]
                    \in [base : Nat, len : Nat, last : Nat]
              /\ [base |-> run.base, len |-> run.len + 1, last |-> k]
                    \in [base : Nat, len : Nat, last : Nat]
          BY <4>1
        <4> QED
          BY <4>1, <4>2, <4>3, <4>4, Zenon
      <3> QED
        BY <1>3, <3>1, <3>2, ReceiveKeepsServer DEF Receive
    <2> QED
      BY <2>1, <2>2
  <1>4. ASSUME NEW d \in Foreign, ReceiveForeign(d)
        PROVE  Inv'
    <2>1. FeedInv'
      BY <1>4, ForeignKeepsFeed
    <2>2. ServerInv'
      BY <1>4, FeedAssumption, ReceiveKeepsServer
      DEF ReceiveForeign, ServerInv, TypeOK, serverVars
    <2> QED
      BY <2>1, <2>2
  <1>5. CASE UNCHANGED vars
    <2>1. /\ UNCHANGED <<reasm, stats, ret, first, wire, sending, run, latest>>
          /\ \A j : Carries(j)' <=> Carries(j)
          /\ \A j : SeqAt(j)' = SeqAt(j)
      BY <1>5 DEF vars, decoderVars, serverVars, Carries, SeqAt
    <2>2. ServerInv'
      <3>1. TypeOK'
        BY <2>1 DEF ServerInv, TypeOK, DecoderTypeOK
      <3>2. WireOK'
        BY <2>1 DEF ServerInv, WireOK
      <3>3. \A j, k : (NextFragment(j, k)' <=> NextFragment(j, k))
                      /\ (Succeeds(j, k)' <=> Succeeds(j, k))
        BY <2>1 DEF NextFragment, Succeeds
      <3>4. FragmentsInOrder' /\ SendingOK'
        BY <2>1, <3>3 DEF ServerInv, FragmentsInOrder, SendingOK
      <3> QED
        BY <3>1, <3>2, <3>4 DEF ServerInv
    <2>3. (RunTx' = RunTx) /\ (Parted' <=> Parted)
          /\ (RunComplete' <=> RunComplete)
      BY <2>1 DEF RunTx, Parted, RunComplete
    <2>4. FeedInv'
      BY <2>1, <2>3 DEF FeedInv, RunOK, ReasmOK, LatestOK, ExactReassembly,
         RunTx
    <2> QED
      BY <2>2, <2>4
  <1> QED
    BY <1>1, <1>2, <1>3, <1>4, <1>5 DEF Next

\* The decoder's and the feed's state keep their types in every behaviour:
\* no u8 or u64 field of the reassembler leaves its range (frame.rs:77-94).
THEOREM TypeCorrect == Spec => []TypeOK
  <1>1. Inv => TypeOK
    BY DEF Inv, ServerInv
  <1> QED
    BY <1>1, InitInv, NextInv, PTL DEF Spec

\* Whatever the network loses, repeats or reorders, and whatever else it
\* brings, push returns a transaction, with that transaction's own bytes,
\* when its fragments came in order and were sent back to back; never
\* otherwise, and with an error when an event sent between two of them parted
\* them (push, frame.rs:129-190).
THEOREM Reassembly == Spec => []ExactReassembly
  <1>1. Inv => ExactReassembly
    BY DEF Inv, FeedInv
  <1> QED
    BY <1>1, InitInv, NextInv, PTL DEF Spec

\* A datagram has one outcome at most in the counters, and the fragments held
\* have none yet: the counters add up, however datagrams arrive
\* (api.md:409-415).
THEOREM Counting == Spec => []CountedOnce
  <1> DEFINE I == Inv /\ CountedOnce
  <1>1. Init => I
    BY InitInv DEF Init, DecoderInit, ZeroStats, EmptyReasm, CountedOnce
  <1>2. I /\ [Next]_vars => I'
    <2> SUFFICES ASSUME Inv, CountedOnce, [Next]_vars PROVE CountedOnce'
      BY NextInv
    <2>1. DecoderTypeOK
      BY DEF Inv, ServerInv, TypeOK
    <2>2. CASE \E t \in Tx : SendTransaction(t)
      BY <2>2 DEF SendTransaction, decoderVars, CountedOnce
    <2>3. CASE SendEvent
      BY <2>3 DEF SendEvent, decoderVars, CountedOnce
    <2>4. ASSUME NEW k \in 1..Len(wire), Receive(k)
          PROVE  CountedOnce'
      <3>1. wire[k].d \in Datagram
        BY WireElement DEF Inv, ServerInv
      <3> QED
        BY <2>1, <2>4, <3>1, PushCounts DEF Receive
    <2>5. ASSUME NEW d \in Foreign, ReceiveForeign(d)
          PROVE  CountedOnce'
      BY <2>1, <2>5, FeedAssumption, PushCounts DEF ReceiveForeign
    <2>6. CASE UNCHANGED vars
      BY <2>6 DEF vars, decoderVars, CountedOnce
    <2> QED
      BY <2>2, <2>3, <2>4, <2>5, <2>6 DEF Next
  <1>3. I => CountedOnce
    OBVIOUS
  <1> HIDE DEF I
  <1> QED
    BY <1>1, <1>2, <1>3, PTL DEF Spec

\* A message under way is given up only for the first datagram of another
\* one, or with an error that is counted (frame.rs:149-179).
THEOREM GivingUp == Spec => GivenUpForAReason
  <1> DEFINE Reason ==
        \/ ret'.kind = "Update"
        \/ /\ stats'.decode_errors > stats.decode_errors
           /\ latest' > 0
           /\ wire[latest'].d.frag_index > 0
        \/ /\ latest' > 0
           /\ Carries(latest')
           /\ wire[latest'].d.frag_count = 1
  <1>1. Inv /\ [Next]_vars => [reasm.active /\ ~reasm'.active => Reason]_vars
    <2> SUFFICES ASSUME Inv, Next, reasm.active, ~reasm'.active PROVE Reason
      BY DEF vars, decoderVars
    <2>1. stats.decode_errors \in Nat
      BY DEF Inv, ServerInv, TypeOK, DecoderTypeOK
    <2>2. ASSUME NEW d \in Datagram, Push(d)
          PROVE  \/ PushWhole(d)
                 \/ PushMismatch(d)
                 \/ PushLast(d)
      <3>1. ~PushMalformed(d) /\ ~PushOtherType(d) /\ ~PushBadIndex(d)
        BY DEF PushMalformed, PushOtherType, PushBadIndex
      <3>2. ~PushFirst(d)
        BY DEF PushFirst
      <3>3. ASSUME PushMiddle(d)
            PROVE  FALSE
        <4>1. PICK b, n, x, q : reasm' = [buf          |-> b,
                                          frag_count   |-> n,
                                          expect_index |-> x,
                                          last_seq     |-> q,
                                          active       |-> TRUE]
          BY <3>3, Zenon DEF PushMiddle
        <4> QED
          BY <4>1
      <3> QED
        BY <2>2, <3>1, <3>2, <3>3 DEF Push
    <2>3. CASE \E t \in Tx : SendTransaction(t)
      BY <2>3 DEF SendTransaction, decoderVars
    <2>4. CASE SendEvent
      BY <2>4 DEF SendEvent, decoderVars
    <2>5. ASSUME NEW k \in 1..Len(wire), Receive(k)
          PROVE  Reason
      <3> DEFINE d == wire[k].d
      <3>1. /\ d \in Datagram /\ latest' = k /\ k > 0
            /\ d.frag_index \in Nat
        BY <2>5, WireElement, DecoderAssumption
        DEF Receive, Datagram, Inv, ServerInv
      <3>2. stats' = Rejected(d) => stats'.decode_errors > stats.decode_errors
        BY <2>1 DEF Rejected, Counted
      <3>3. CASE PushWhole(d)
        BY <3>1, <3>3 DEF PushWhole, Transaction, Carries
      <3>4. CASE PushMismatch(d)
        BY <3>1, <3>2, <3>4 DEF PushMismatch, Reject
      <3>5. CASE PushLast(d)
        <4>1. d.frag_index > 0
          BY <3>1, <3>5 DEF PushLast
        <4>2. CASE Len(reasm.buf \o d.payload) < SlotBytes
          BY <3>1, <3>2, <3>5, <4>1, <4>2 DEF PushLast, Complete
        <4>3. CASE ~(Len(reasm.buf \o d.payload) < SlotBytes)
          <5>1. ret' = Update(reasm.buf \o d.payload)
            BY <3>5, <4>3 DEF PushLast, Complete, Outcome
          <5> QED
            BY <5>1 DEF Update
        <4> QED
          BY <4>2, <4>3
      <3> QED
        BY <2>2, <2>5, <3>1, <3>3, <3>4, <3>5 DEF Receive
    <2>6. ASSUME NEW d \in Foreign, ReceiveForeign(d)
          PROVE  FALSE
      <3>1. /\ d \in Datagram
            /\ Transaction(d) => d.frag_count # 1 /\ d.frag_index >= d.frag_count
        BY FeedAssumption
      <3>2. d.frag_index \in Nat /\ d.frag_count \in Nat
        BY <3>1, DecoderAssumption DEF Datagram
      <3>3. ~PushWhole(d) /\ ~IsFragment(d)
        BY <3>1, <3>2 DEF PushWhole, IsFragment
      <3> QED
        BY <2>2, <2>6, <3>1, <3>3 DEF ReceiveForeign, PushMismatch, PushLast
    <2> QED
      BY <2>3, <2>4, <2>5, <2>6 DEF Next
  <1>2. Spec => []Inv
    BY InitInv, NextInv, PTL DEF Spec
  <1> QED
    BY <1>1, <1>2, PTL DEF Spec, GivenUpForAReason
=============================================================================
