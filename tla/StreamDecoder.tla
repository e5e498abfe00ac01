--------------------------- MODULE StreamDecoder ---------------------------
(***************************************************************************)
(* The UDP frame decoder of src/codec/frame.rs: StreamDecoder::push with   *)
(* its Reassembler, on one datagram at a time.                             *)
(*                                                                         *)
(* A datagram is a record of its decoded header fields and its payload;    *)
(* `faults` holds what is wrong with the header bytes.                     *)
(***************************************************************************)
EXTENDS Naturals, Sequences

CONSTANTS Byte,       \* what a payload is made of
          SeqMax,     \* largest header sequence number (2^64 - 1 in the code)
          U8Max,      \* largest u8, bounds frag_index and frag_count (255)
          SlotBytes   \* bytes of the slot that leads a message (8)

ASSUME DecoderAssumption ==
  /\ SeqMax \in Nat \ {0}
  /\ U8Max \in Nat \ {0}
  /\ SlotBytes \in Nat

VARIABLES reasm,  \* the Reassembler
          stats,  \* the counters push maintains
          ret     \* what the last push returned

decoderVars == <<reasm, stats, ret>>

FRAME_HEADER_LEN == 16
MSG_EVENT == 1
MSG_TRANSACTION == 2

Datagram ==
  [faults     : SUBSET {"TooShort", "BadMagic", "UnsupportedVersion"},
   msg_type   : Nat,
   frag_index : 0..U8Max,
   frag_count : 0..U8Max,
   seq        : 0..SeqMax,
   payload    : Seq(Byte)]

FrameError ==
  {"TooShort", "BadMagic", "UnsupportedVersion", "Truncated", "BadFragment"}

Skipped == [kind |-> "Skipped"]
Error(code) == [kind |-> "Error", code |-> code]
\* Mutant of Update: the slot read one byte short.
UpdateShortSlot(payload) ==
  [kind |-> "Update",
   slot |-> SubSeq(payload, 1, SlotBytes - 1),
   tx   |-> SubSeq(payload, SlotBytes + 1, Len(payload))]
Update(payload) ==
  [kind |-> "Update",
   slot |-> SubSeq(payload, 1, SlotBytes),
   tx   |-> SubSeq(payload, SlotBytes + 1, Len(payload))]

\* parse_header reports the first of the faults, in the order it looks.
HeaderError(d) ==
  CASE "TooShort" \in d.faults -> "TooShort"
    [] "TooShort" \notin d.faults /\ "BadMagic" \in d.faults -> "BadMagic"
    [] OTHER -> "UnsupportedVersion"

\* Bytes of the datagram; all of them are payload when the header is cut.
Size(d) == IF "TooShort" \in d.faults
             THEN Len(d.payload)
             ELSE FRAME_HEADER_LEN + Len(d.payload)

\* u64::wrapping_add(1), and the u8 increment of an optimised build.
WrappingInc(n, max) == IF n = max THEN 0 ELSE n + 1

EmptyReasm == [buf          |-> <<>>,
               frag_count   |-> 0,
               expect_index |-> 0,
               last_seq     |-> 0,
               active       |-> FALSE]

ZeroStats == [datagrams        |-> 0,
              bytes            |-> 0,
              decode_errors    |-> 0,
              skipped_msg_type |-> 0,
              messages         |-> 0,
              last_slot        |-> <<>>]

\* The counters after datagram d: push counts the datagram and its bytes
\* first, then one of the outcomes below (bump! is a relaxed fetch_add).
Counted(d, errors, skips, updates, slot) ==
  [datagrams        |-> stats.datagrams + 1,
   bytes            |-> stats.bytes + Size(d),
   decode_errors    |-> stats.decode_errors + errors,
   skipped_msg_type |-> stats.skipped_msg_type + skips,
   messages         |-> stats.messages + updates,
   last_slot        |-> slot]

Rejected(d) == Counted(d, 1, 0, 0, stats.last_slot)
OtherType(d) == Counted(d, 0, 1, 0, stats.last_slot)
Held(d) == Counted(d, 0, 0, 0, stats.last_slot)
Decoded(d, payload) == Counted(d, 0, 0, 1, Update(payload).slot)

DecoderInit == /\ reasm = EmptyReasm
               /\ stats = ZeroStats
               /\ ret = Skipped

-----------------------------------------------------------------------------
Reject(d, code) ==
  /\ stats' = Rejected(d)
  /\ ret' = Error(code)

Absorb(d) ==
  /\ stats' = Held(d)
  /\ ret' = Skipped

\* What the payload of a complete message decodes to.
Outcome(payload) == IF Len(payload) < SlotBytes THEN Error("Truncated")
                                                ELSE Update(payload)

\* StreamDecoder::complete.
Complete(d, payload) ==
  /\ ret' = Outcome(payload)
  /\ stats' = IF Len(payload) < SlotBytes THEN Rejected(d)
                                          ELSE Decoded(d, payload)

-----------------------------------------------------------------------------
\* The branches of StreamDecoder::push, in the order of its returns.
Transaction(d) == d.faults = {} /\ d.msg_type = MSG_TRANSACTION

IsFragment(d) == /\ Transaction(d)
                 /\ d.frag_count # 1
                 /\ d.frag_index < d.frag_count

\* Mutant of Continues: the sequence number is not compared.
ContinuesAnySeq(d) == /\ reasm.active
                      /\ reasm.frag_count = d.frag_count
                      /\ d.frag_index = reasm.expect_index

Continues(d) == /\ reasm.active
                /\ reasm.frag_count = d.frag_count
                /\ d.frag_index = reasm.expect_index
                /\ d.seq = WrappingInc(reasm.last_seq, SeqMax)

PushMalformed(d) ==
  /\ d.faults # {}
  /\ Reject(d, HeaderError(d))
  /\ UNCHANGED reasm

\* Mutant of PushOtherType: an event between two fragments resets.
PushOtherTypeResets(d) ==
  /\ d.faults = {}
  /\ d.msg_type # MSG_TRANSACTION
  /\ stats' = OtherType(d)
  /\ ret' = Skipped
  /\ reasm' = EmptyReasm

PushOtherType(d) ==
  /\ d.faults = {}
  /\ d.msg_type # MSG_TRANSACTION
  /\ stats' = OtherType(d)
  /\ ret' = Skipped
  /\ UNCHANGED reasm

PushWhole(d) ==
  /\ Transaction(d)
  /\ d.frag_count = 1
  /\ reasm' = EmptyReasm
  /\ Complete(d, d.payload)

PushBadIndex(d) ==
  /\ Transaction(d)
  /\ d.frag_count # 1
  /\ d.frag_count = 0 \/ d.frag_index >= d.frag_count
  /\ Reject(d, "BadFragment")
  /\ UNCHANGED reasm

PushFirst(d) ==
  /\ IsFragment(d)
  /\ d.frag_index = 0
  /\ reasm' = [buf          |-> d.payload,
               frag_count   |-> d.frag_count,
               expect_index |-> 1,
               last_seq     |-> d.seq,
               active       |-> TRUE]
  /\ Absorb(d)

PushMismatch(d) ==
  /\ IsFragment(d)
  /\ d.frag_index # 0
  /\ ~Continues(d)
  /\ reasm' = EmptyReasm
  /\ Reject(d, "BadFragment")

PushMiddle(d) ==
  /\ IsFragment(d)
  /\ d.frag_index # 0
  /\ Continues(d)
  /\ d.frag_index + 1 # d.frag_count
  /\ reasm' = [buf          |-> reasm.buf \o d.payload,
               frag_count   |-> reasm.frag_count,
               expect_index |-> WrappingInc(reasm.expect_index, U8Max),
               last_seq     |-> d.seq,
               active       |-> TRUE]
  /\ Absorb(d)

\* Mutant of PushLast: a complete message is not cleared away.
PushLastKeeps(d) ==
  /\ IsFragment(d)
  /\ d.frag_index # 0
  /\ Continues(d)
  /\ d.frag_index + 1 = d.frag_count
  /\ reasm' = [reasm EXCEPT !.buf = @ \o d.payload, !.expect_index = @ + 1]
  /\ Complete(d, reasm.buf \o d.payload)

PushLast(d) ==
  /\ IsFragment(d)
  /\ d.frag_index # 0
  /\ Continues(d)
  /\ d.frag_index + 1 = d.frag_count
  /\ reasm' = EmptyReasm
  /\ Complete(d, reasm.buf \o d.payload)

Push(d) == \/ PushMalformed(d)
           \/ PushOtherType(d)
           \/ PushWhole(d)
           \/ PushBadIndex(d)
           \/ PushFirst(d)
           \/ PushMismatch(d)
           \/ PushMiddle(d)
           \/ PushLast(d)

-----------------------------------------------------------------------------
Slot == [1..SlotBytes -> Byte]

\* Type invariant: the reassembler, the counters and the result of the last
\* push; u8 and u64 fields in range, slots of 8 bytes.
DecoderTypeOK ==
  /\ reasm \in [buf : Seq(Byte), frag_count : 0..U8Max,
                expect_index : 0..U8Max, last_seq : 0..SeqMax,
                active : BOOLEAN]
  /\ stats \in [datagrams : Nat, bytes : Nat, decode_errors : Nat,
                skipped_msg_type : Nat, messages : Nat,
                last_slot : Slot \cup {<<>>}]
  /\ \/ ret = Skipped
     \/ ret \in [kind : {"Error"}, code : FrameError]
     \/ ret \in [kind : {"Update"}, slot : Slot, tx : Seq(Byte)]
=============================================================================
