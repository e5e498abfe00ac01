----------------------------- MODULE WireFormat -----------------------------
(***************************************************************************)
(* Transactions as Solana serializes them, and what TransactionUpdate      *)
(* reads of each, whole or cut short: recv keeps the first 1472 bytes of a *)
(* datagram (udp.rs:109), and an update is made of whatever is in it.      *)
(*                                                                         *)
(* A transaction is a record of its signatures and its message; a message  *)
(* has the fields of CompiledMessage, and `config`, what follows the keys  *)
(* in the v1 layout: which configuration values are present.               *)
(***************************************************************************)
EXTENDS TransactionUpdate

CONSTANTS Transactions,  \* the transactions sent
          Provided       \* signatures that may come along, by transaction

Keys == [1..KeyLen -> 0..255]
Short == {bytes \in ByteSeq : Len(bytes) \div 256 < 256}  \* counted by a u16

\* Fields and lengths that the layouts have room for.  The mask of a v1 message
\* has two bits for a value of eight bytes, then a bit for each one of four.
IsMessage(m) ==
  /\ m.version \in {<<>>} \cup {<<v>> : v \in 0..127}
  /\ m.header \in [1..3 -> 0..255]
  /\ m.token \in Keys
  /\ m.keys \in Seq(Keys)
  /\ m.instrs \in Seq([program : [1..1 -> 0..255], accounts : Short, data : Short])
  /\ m.lookups \in Seq([table : Keys, writable : Short, readonly : Short])
  /\ \A n \in {Len(m.keys), Len(m.instrs), Len(m.lookups)} : n \div 256 < 256
  /\ m.version \in {<<>>, <<1>>} => m.lookups = <<>>
  /\ m.version = <<1>> =>
       /\ Len(m.keys) < 256 /\ Len(m.instrs) < 256
       /\ \A i \in DOMAIN m.instrs : Len(m.instrs[i].accounts) < 256
       /\ m.config.values \in ByteSeq
       /\ \E fee \in 0..3, a, b, c \in {0, 1} :
            /\ m.config.mask = fee + 4 * a + 8 * b + 16 * c
            /\ Len(m.config.values) = (IF fee = 3 THEN 8 ELSE 0) + 4 * (a + b + c)

\* A message counts its signatures in the first byte of its header, which must
\* not read as a version where the layout has none.  129 signatures before a
\* message are left out: they would be counted by a byte that says v1.
ASSUME FormatAssumption ==
  \A t \in Transactions :
    /\ IsMessage(t.message)
    /\ t.sigs \in Seq([1..SigLen -> 0..255]) /\ Len(t.sigs) \in 1..255
    /\ t.message.header[1] = Len(t.sigs)
    /\ t.message.version = <<>> => Len(t.sigs) < 128
    /\ t.message.version # <<1>> => Len(t.sigs) # 129

\* What the server sends along as signatures is those of the transaction, or
\* nothing, or has one among it that is not as long as a signature.
ASSUME ProvidedAssumption ==
  \A t \in Transactions : \A p \in Provided[t] :
    \/ p \in {<<>>, t.sigs}
    \/ \E i \in DOMAIN p : Len(p[i]) # SigLen

VARIABLES tx,       \* the transaction
          arrived,  \* how many of its bytes have come
          provided  \* the signatures that came with it (gRPC)

vars == <<tx, arrived, provided>>

Concat(seqs) == FlattenSeq(seqs)
All(seq, Encode(_)) == Concat([i \in DOMAIN seq |-> Encode(seq[i])])

EncodeShortvec(n) ==
  IF n < 128 THEN <<n>>
  ELSE IF n < 128 * 128 THEN <<128 + (n % 128), n \div 128>>
  ELSE <<128 + (n % 128), 128 + ((n \div 128) % 128), n \div (128 * 128)>>

EncodeCounted(bytes) == EncodeShortvec(Len(bytes)) \o bytes
EncodeVector(seq, Encode(_)) == EncodeShortvec(Len(seq)) \o All(seq, Encode)

EncodeInstruction(in) ==
  in.program \o EncodeCounted(in.accounts) \o EncodeCounted(in.data)

EncodeLookup(lk) == lk.table \o EncodeCounted(lk.writable) \o EncodeCounted(lk.readonly)

EncodeLegacy(m) ==
  m.header \o EncodeVector(m.keys, LAMBDA key : key) \o m.token
    \o EncodeVector(m.instrs, EncodeInstruction)

EncodeV1(m) ==
  <<V1>> \o m.header \o <<m.config.mask, 0, 0, 0>> \o m.token
    \o <<Len(m.instrs), Len(m.keys)>> \o Concat(m.keys) \o m.config.values
    \o All(m.instrs, LAMBDA in : in.program \o <<Len(in.accounts),
                                  Len(in.data) % 256, Len(in.data) \div 256>>)
    \o All(m.instrs, LAMBDA in : in.accounts \o in.data)

EncodeMessage(m) ==
  CASE m.version = <<>> -> EncodeLegacy(m)
    [] m.version = <<1>> -> EncodeV1(m)
    [] OTHER -> <<128 + m.version[1]>> \o EncodeLegacy(m) \o EncodeVector(m.lookups, EncodeLookup)

EncodeTransaction(t) ==
  IF t.message.version = <<1>> THEN EncodeMessage(t.message) \o Concat(t.sigs)
                           ELSE EncodeVector(t.sigs, LAMBDA sig : sig)
                                  \o EncodeMessage(t.message)

Wire == EncodeTransaction(tx)
Bytes == SubSeq(Wire, 1, arrived)

Init == /\ tx \in Transactions
        /\ provided \in Provided[tx]
        /\ arrived = 0

Next == /\ arrived < Len(Wire)
        /\ arrived' = arrived + 1
        /\ UNCHANGED <<tx, provided>>

Spec == Init /\ [][Next]_vars

-----------------------------------------------------------------------------
Expected(m) == [ok |-> TRUE, version |-> m.version, header |-> m.header,
                keys |-> m.keys, token |-> m.token, instrs |-> m.instrs,
                lookups |-> m.lookups]

\* parse returns the message of every transaction, of each layout, field by
\* field (message.rs:69-219, README.md:123-143).
ParsesWhole == arrived = Len(Wire) => Parse(Bytes) = Expected(tx.message)

\* parse returns an error for a transaction cut anywhere, never a message
\* with something missing.
RefusesCut == arrived < Len(Wire) => ~Parse(Bytes).ok

\* signatures returns every signature in wire order, whether the server sent
\* them along, left them out or sent some that are malformed (update.rs:124-138),
\* and signature the first (README.md:119-120).  signature reads no count: it
\* takes 128 signatures or more before a message for fewer (update.rs:113).
SignaturesWhole ==
  arrived = Len(Wire) =>
    /\ Signatures(provided, Bytes) = tx.sigs
    /\ tx.message.version = <<1>> \/ Len(tx.sigs) < 128 =>
         Signature(Bytes) = tx.sigs[1]

\* The two shortvec decoders and the two offsets agree: where parse finds a
\* message, cut or whole, what signatures returns when none came along is all
\* that precedes it, behind its own count, or, in the v1 layout, all that
\* follows it (update.rs:33-69, message.rs:47-63 and 206-219).
PartsFit ==
  MessageBytes(Bytes).ok =>
    LET message == MessageBytes(Bytes).val
        sigs    == Signatures(<<>>, Bytes)
    IN  Bytes = IF tx.message.version = <<1>>
                  THEN message \o Concat(sigs)
                  ELSE EncodeVector(sigs, LAMBDA sig : sig) \o message
=============================================================================
