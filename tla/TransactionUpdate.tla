-------------------------- MODULE TransactionUpdate --------------------------
(***************************************************************************)
(* What src/update.rs and src/message.rs read in the bytes of a            *)
(* transaction: its signatures and its message, of the legacy, the         *)
(* versioned and the v1 layout.                                            *)
(*                                                                         *)
(* Bytes are 0..255.  A reader starts where another left off: it is given  *)
(* the place reached and gives back the next place and what it read, or    *)
(* Failed, which every later reader passes on.                             *)
(***************************************************************************)
EXTENDS Integers, Sequences, SequencesExt

CONSTANTS SigLen,  \* bytes of a signature (64)
          KeyLen   \* bytes of an account address or lifetime token (32)

ASSUME WireAssumption == {SigLen, KeyLen} \subseteq Nat \ {0}

V1 == 129  \* 0x81

ByteSeq == Seq(0..255)

Failed == [ok |-> FALSE, at |-> 0, val |-> <<>>]
Reached(place, val) == [ok |-> TRUE, at |-> place, val |-> val]

StartsV1(buf) == buf # <<>> /\ buf[1] = V1

-----------------------------------------------------------------------------
(* Readers of message.rs.                                                  *)

Take(buf, c, len) ==
  IF c.ok /\ c.at + len <= Len(buf)
    THEN Reached(c.at + len, SubSeq(buf, c.at + 1, c.at + len))
    ELSE Failed

\* The number in the low seven bits of `size` bytes, four at most, the lowest
\* first.
Groups(buf, at, size) ==
  LET group(i) == IF i <= size THEN buf[at + i] % 128 ELSE 0
  IN  group(1) + 128 * (group(2) + 128 * (group(3) + 128 * group(4)))

\* How many bytes a number takes: up to the first without its high bit.
Sizes(buf, at, max) ==
  {size \in 1..max : /\ at + size <= Len(buf)
                     /\ buf[at + size] < 128
                     /\ \A i \in 1..(size - 1) : buf[at + i] >= 128}

\* shortvec: four bytes at most.
Shortvec(buf, c) ==
  IF c.ok /\ Sizes(buf, c.at, 4) # {}
    THEN LET size == CHOOSE s \in Sizes(buf, c.at, 4) : TRUE
         IN  Reached(c.at + size, Groups(buf, c.at, size))
    ELSE Failed

\* Mutant of Counted: what there is of the bytes announced will do.
CountedWhatIsThere(buf, c) ==
  LET n == Shortvec(buf, c)
  IN  IF n.ok THEN Take(buf, n, Min({n.val, Len(buf) - n.at})) ELSE Failed

Counted(buf, c) == LET n == Shortvec(buf, c) IN
                   IF n.ok THEN Take(buf, n, n.val) ELSE Failed

\* A loop of n rounds that collects what Item reads and stops when it fails,
\* and one of as many as a shortvec says (message.rs:140-146, 151-166, 174-187).
Repeat(n, c, Item(_, _)) ==
  LET read[k \in 0..n] ==
        IF k = 0 THEN [c EXCEPT !.val = <<>>]
        ELSE LET d == read[k - 1]
                 e == Item(d, k)
             IN  IF d.ok /\ e.ok THEN Reached(e.at, Append(d.val, e.val)) ELSE Failed
  IN  read[n]

Vector(buf, c, Item(_, _)) == LET n == Shortvec(buf, c) IN
                              IF n.ok THEN Repeat(n.val, n, Item) ELSE Failed

Key(buf, c) == Take(buf, c, KeyLen)

Instruction(buf, c) ==
  LET program  == Take(buf, c, 1)
      accounts == Counted(buf, program)
      data     == Counted(buf, accounts)
  IN  [data EXCEPT !.val = [program |-> program.val, accounts |-> accounts.val,
                            data |-> data.val]]

Lookup(buf, c) ==
  LET table    == Key(buf, c)
      writable == Counted(buf, table)
      readonly == Counted(buf, writable)
  IN  [readonly EXCEPT !.val = [table |-> table.val, writable |-> writable.val,
                                readonly |-> readonly.val]]

\* The version is an Option: <<>> or a sequence of one.
Message(last, version, header, keys, token, instrs, lookups) ==
  IF last.ok THEN [ok |-> TRUE, version |-> version, header |-> header.val,
                   keys |-> keys.val, token |-> token.val,
                   instrs |-> instrs.val, lookups |-> lookups]
             ELSE [ok |-> FALSE]

-----------------------------------------------------------------------------
(* decode_v1: fixed-width counts, the instructions' headers before their   *)
(* contents, the sizes of the configuration values in a mask.              *)

\* Mutant of ConfigSize: either bit of the priority fee is enough.
ConfigSizeEither(mask) ==
  (IF (mask % 4) # 0 THEN 8 ELSE 0)
    + 4 * (((mask \div 4) % 2) + ((mask \div 8) % 2) + ((mask \div 16) % 2))

\* By the low byte of the mask, which holds every bit that is looked at.
ConfigSize(mask) ==
  (IF (mask % 4) = 3 THEN 8 ELSE 0)
    + 4 * (((mask \div 4) % 2) + ((mask \div 8) % 2) + ((mask \div 16) % 2))

\* The contents of the instruction with header h.
Contents(buf, c, h) ==
  LET accounts == Take(buf, c, h[2])
      data     == Take(buf, accounts, h[3] + 256 * h[4])
  IN  [data EXCEPT !.val = [program |-> <<h[1]>>, accounts |-> accounts.val,
                            data |-> data.val]]

DecodeV1(buf) ==
  LET header  == Take(buf, Reached(1, <<>>), 3)
      mask    == Take(buf, header, 4)
      token   == Take(buf, mask, KeyLen)
      counts  == Take(buf, token, 2)
      keys    == Repeat(counts.val[2], counts, LAMBDA c, i : Key(buf, c))
      config  == Take(buf, keys, ConfigSize(mask.val[1]))
      heads   == Take(buf, config, 4 * counts.val[1])
      instrs  == Repeat(counts.val[1], heads, LAMBDA c, i :
                          Contents(buf, c, SubSeq(heads.val, 4 * i - 3, 4 * i)))
  IN  IF counts.ok THEN Message(instrs, <<1>>, header, keys, token, instrs, <<>>)
                   ELSE [ok |-> FALSE]

\* decode_message.
Versioned(buf) == buf # <<>> /\ buf[1] >= 128

DecodeLegacy(buf) ==
  LET start   == IF Versioned(buf) THEN 1 ELSE 0
      header  == Take(buf, Reached(start, <<>>), 3)
      keys    == Vector(buf, header, LAMBDA c, i : Key(buf, c))
      token   == Key(buf, keys)
      instrs  == Vector(buf, token, LAMBDA c, i : Instruction(buf, c))
      lookups == Vector(buf, instrs, LAMBDA c, i : Lookup(buf, c))
  IN  IF Versioned(buf)
        THEN Message(lookups, <<buf[1] - 128>>, header, keys, token, instrs, lookups.val)
        ELSE Message(instrs, <<>>, header, keys, token, instrs, <<>>)

DecodeMessage(buf) == IF StartsV1(buf) THEN DecodeV1(buf) ELSE DecodeLegacy(buf)

\* message_bytes: a v1 transaction ends with its signatures, the others start
\* with theirs.
MessageBytes(tx) ==
  IF StartsV1(tx)
    THEN IF Len(tx) >= 2 /\ Len(tx) >= SigLen * tx[2] + KeyLen + 10
           THEN Reached(0, SubSeq(tx, 1, Len(tx) - SigLen * tx[2]))
           ELSE Failed
    ELSE LET n == Shortvec(tx, Reached(0, <<>>)) IN
         IF n.ok /\ n.at + n.val * SigLen <= Len(tx)
           THEN Reached(0, SubSeq(tx, n.at + n.val * SigLen + 1, Len(tx)))
           ELSE Failed

\* TransactionUpdate::parse.
Parse(tx) == LET message == MessageBytes(tx) IN
             IF message.ok THEN DecodeMessage(message.val) ELSE [ok |-> FALSE]

-----------------------------------------------------------------------------
(* Signatures, read in update.rs by other readers.                         *)

\* Mutant of DecodeShortvec: the count is taken to be one byte.
DecodeShortvecOneByte(buf) ==
  IF buf # <<>> THEN Reached(1, buf[1] % 128) ELSE Failed

\* decode_shortvec: three bytes, the last of which is at most 3.
DecodeShortvec(buf) ==
  LET sizes == Sizes(buf, 0, 3) IN
  IF sizes # {} /\ (3 \in sizes => buf[3] <= 3)
    THEN LET size == CHOOSE s \in sizes : TRUE
         IN  Reached(size, Groups(buf, 0, size))
    ELSE Failed

Chunk(buf, start, i) == SubSeq(buf, start + SigLen * (i - 1) + 1, start + SigLen * i)

\* As many signatures of a legacy transaction as there are whole ones.
DeriveSignatures(tx) ==
  IF StartsV1(tx)
    THEN LET n == IF Len(tx) >= 2 THEN tx[2] ELSE 0 IN
         IF Len(tx) >= SigLen * n
           THEN [i \in 1..n |-> Chunk(tx, Len(tx) - SigLen * n, i)]
           ELSE <<>>
    ELSE LET count == DecodeShortvec(tx) IN
         IF count.ok
           THEN [i \in 1..Min({count.val, (Len(tx) - count.at) \div SigLen}) |->
                   Chunk(tx, count.at, i)]
           ELSE <<>>

\* Mutant of Signatures: one provided signature of the right length is enough.
SignaturesIfAny(provided, tx) ==
  IF \E i \in DOMAIN provided : Len(provided[i]) = SigLen
    THEN provided ELSE DeriveSignatures(tx)

\* signatures: those that came with the update, if all have their length.
Signatures(provided, tx) ==
  IF provided # <<>> /\ \A i \in DOMAIN provided : Len(provided[i]) = SigLen
    THEN provided ELSE DeriveSignatures(tx)

\* signature: read without a look at the count of a legacy transaction; zero
\* bytes if it is cut.
Signature(tx) ==
  LET start == IF StartsV1(tx) THEN Len(tx) - SigLen * (IF Len(tx) >= 2 THEN tx[2] ELSE 0)
                               ELSE 1
  IN  IF start >= 0 /\ start + SigLen <= Len(tx) THEN Chunk(tx, start, 1)
                                                 ELSE [i \in 1..SigLen |-> 0]
=============================================================================
