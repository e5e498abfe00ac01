--------------------------- MODULE FragmentedFeed ---------------------------
(***************************************************************************)
(* The decoder of StreamDecoder fed over UDP by the stream's server.       *)
(*                                                                         *)
(* The server numbers its datagrams one by one, whatever their type, and   *)
(* sends the fragments of a transaction in order, one transaction after    *)
(* the other, events anywhere in between.  The network delivers a sent     *)
(* datagram any number of times, at any time after it was sent: loss,      *)
(* duplication and reordering need no action of their own.  Datagrams of   *)
(* other origins reach the open port too.                                  *)
(***************************************************************************)
EXTENDS StreamDecoder

CONSTANTS Tx,         \* the transactions the server has to send
          Message,    \* the bytes of each: its slot, then the transaction
          Cuts,       \* where each fragment of a message ends in it
          Foreign,    \* datagrams of other origins
          MaxSent,    \* bound on the datagrams the server sends
          MaxPushes   \* bound on the datagrams the decoder is fed

ASSUME FeedAssumption ==
  /\ Message \in [Tx -> Seq(Byte)]
  /\ Cuts \in [Tx -> Seq(Nat)]
  /\ \A t \in Tx :
       /\ Len(Cuts[t]) \in 1..U8Max
       /\ Cuts[t][Len(Cuts[t])] = Len(Message[t])
       /\ \A i, j \in 1..Len(Cuts[t]) : i <= j => Cuts[t][i] <= Cuts[t][j]
  /\ Foreign \subseteq Datagram
  /\ \A d \in Foreign : Transaction(d) => /\ d.frag_count # 1
                                          /\ d.frag_index >= d.frag_count
  /\ MaxSent \in 0..(SeqMax + 1)   \* no sequence number is used twice
  /\ MaxPushes \in Nat

VARIABLES first,   \* sequence number of the first datagram
          wire,    \* every datagram sent, with the transaction it carries
          sending, \* the transaction being sent and its next fragment
          run,     \* history: the fragments received in order since a first
          latest   \* history: place on the wire of the last datagram pushed

serverVars == <<first, wire, sending>>
vars == <<decoderVars, serverVars, run, latest>>

None == "none"

\* Sequence number of the k-th datagram sent.
SeqAt(k) == IF first + k - 1 <= SeqMax THEN first + k - 1
                                       ELSE first + k - 1 - (SeqMax + 1)

Frame(type, index, count, payload) ==
  [faults     |-> {},
   msg_type   |-> type,
   frag_index |-> index,
   frag_count |-> count,
   seq        |-> SeqAt(Len(wire) + 1),
   payload    |-> payload]

Init == /\ DecoderInit
        /\ first \in 0..SeqMax
        /\ wire = <<>>
        /\ sending = [tx |-> None, next |-> 0]
        /\ run = [base |-> 0, len |-> 0, last |-> 0]
        /\ latest = 0

-----------------------------------------------------------------------------
Count(t) == Len(Cuts[t])

\* Where fragment i of t starts, and the fragment itself (i counts from 0).
Start(t, i) == IF i = 0 THEN 0 ELSE Cuts[t][i]
Fragment(t, i) == SubSeq(Message[t], Start(t, i) + 1, Start(t, i + 1))

SendTransaction(t) ==
  /\ Len(wire) < MaxSent
  /\ sending.next = 0 \/ sending.tx = t
  /\ LET i == sending.next
         n == Count(t)
     IN  /\ wire' = Append(wire,
              [tx |-> t,
               d  |-> Frame(MSG_TRANSACTION, i, n, Fragment(t, i))])
         /\ sending' = IF i + 1 = n THEN [tx |-> None, next |-> 0]
                                    ELSE [tx |-> t, next |-> i + 1]
  /\ UNCHANGED <<decoderVars, first, run, latest>>

SendEvent ==
  /\ Len(wire) < MaxSent
  /\ wire' = Append(wire, [tx |-> None, d |-> Frame(MSG_EVENT, 0, 1, <<>>)])
  /\ UNCHANGED <<decoderVars, first, sending, run, latest>>

\* Whether the k-th datagram sent is (a fragment of) a transaction.
Carries(k) == wire[k].d.msg_type = MSG_TRANSACTION

\* The fragment sent next after the j-th datagram is the k-th: there are only
\* events between the two.
NextFragment(j, k) == j < k /\ \A i \in (j + 1)..(k - 1) : ~Carries(i)

\* What receiving the k-th datagram does to the run of fragments in order:
\* its places on the wire, from base to last, and how many they are.
RunAfter(k) ==
  IF wire[k].d.frag_index = 0 THEN [base |-> k, len |-> 1, last |-> k]
  ELSE IF run.len > 0 /\ NextFragment(run.last, k)
       THEN [base |-> run.base, len |-> run.len + 1, last |-> k]
       ELSE [base |-> 0, len |-> 0, last |-> 0]

RunComplete == run.len > 0 /\ run.len = Count(wire[run.base].tx)

\* The server sent an event between two of the run's fragments.
Parted == \E i \in run.base..run.last : ~Carries(i)

Receive(k) ==
  /\ stats.datagrams < MaxPushes
  /\ Push(wire[k].d)
  /\ run' = IF Carries(k) THEN RunAfter(k) ELSE run
  /\ latest' = k
  /\ UNCHANGED serverVars

ReceiveForeign(d) ==
  /\ stats.datagrams < MaxPushes
  /\ Push(d)
  /\ latest' = 0
  /\ UNCHANGED <<serverVars, run>>

Next == \/ \E t \in Tx : SendTransaction(t)
        \/ SendEvent
        \/ \E k \in 1..Len(wire) : Receive(k)
        \/ \E d \in Foreign : ReceiveForeign(d)

Spec == Init /\ [][Next]_vars

-----------------------------------------------------------------------------
\* Type invariant of the feed: the decoder's, and the server's state.
TypeOK ==
  /\ DecoderTypeOK
  /\ first \in 0..SeqMax
  /\ wire \in Seq([tx : Tx \cup {None}, d : Datagram])
  /\ sending \in [tx : Tx \cup {None}, next : 0..U8Max]
  /\ run \in [base : Nat, len : Nat, last : Nat]
  /\ latest \in Nat

\* Exact reassembly (push, frame.rs:147-189): whatever the network lost,
\* repeated or reordered before, push returns the decoding of a transaction
\* when the fragments received since its first are all its fragments in
\* sending order, whatever other datagrams arrived among them, and the server
\* sent them back to back; it never returns an update otherwise.  An event
\* sent between two fragments took a sequence number (api.md:323), so the
\* fragment after it is refused though all are received in order
\* (frame.rs:173), and so is every later one.
ExactReassembly ==
  latest > 0 /\ Carries(latest) =>
    IF RunComplete /\ ~Parted
      THEN ret = Outcome(Message[wire[run.base].tx])
      ELSE /\ ret.kind # "Update"
           /\ run.len > 0 /\ Parted => ret = Error("BadFragment")

\* Every datagram has one outcome at most in the counters (api.md:409-415),
\* and the fragments held for a message under way have none yet.
CountedOnce ==
  /\ stats.messages + stats.decode_errors + stats.skipped_msg_type
       + reasm.expect_index <= stats.datagrams
  /\ reasm.active <=> reasm.expect_index > 0

\* A message under way is given up only for the first datagram of another
\* one or with an error that is counted: never for an event or a datagram
\* rejected by its own header, and never silently for a sequence gap
\* (frame.rs:149-179).
GivenUpForAReason ==
  [][reasm.active /\ ~reasm'.active =>
       \/ ret'.kind = "Update"
       \/ /\ stats'.decode_errors > stats.decode_errors
          /\ latest' > 0
          /\ wire[latest'].d.frag_index > 0
       \/ /\ latest' > 0
          /\ Carries(latest')
          /\ wire[latest'].d.frag_count = 1]_vars
=============================================================================
