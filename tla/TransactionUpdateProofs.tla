------------------------ MODULE TransactionUpdateProofs ------------------------
(***************************************************************************)
(* Proofs about the signatures and the message of a transaction, for every *)
(* sequence of bytes, well-formed or not, and every length of a signature. *)
(* What is inside a message is the subject of WireFormatProofs.            *)
(***************************************************************************)
EXTENDS TransactionUpdate, TLAPS

Start == Reached(0, <<>>)

LEMMA SigLenType == SigLen \in Nat /\ SigLen > 0 /\ KeyLen \in Nat /\ KeyLen > 0
  BY WireAssumption

LEMMA ByteType ==
  ASSUME NEW buf \in ByteSeq, NEW i \in Nat, i >= 1, i <= Len(buf)
  PROVE  buf[i] \in 0..255 /\ buf[i] \in Nat
  <1> DEFINE Byte == 0..255
  <1>1. buf \in Seq(Byte)
    BY DEF ByteSeq
  <1>2. Byte \subseteq Nat
    OBVIOUS
  <1> HIDE DEF Byte
  <1>3. buf[i] \in Byte
    BY <1>1
  <1> QED
    BY <1>2, <1>3 DEF Byte

-----------------------------------------------------------------------------
(* The two decoders of the length prefix.                                  *)

\* A byte without its high bit ends a prefix, so there is one size at most.
LEMMA OneSize ==
  ASSUME NEW buf \in ByteSeq, NEW at \in Nat, NEW max \in Nat,
         NEW s \in Sizes(buf, at, max), NEW t \in Sizes(buf, at, max)
  PROVE  s = t
  <1>1. /\ s \in Nat /\ t \in Nat /\ s >= 1 /\ t >= 1
        /\ at + s <= Len(buf) /\ at + t <= Len(buf)
        /\ buf[at + s] < 128 /\ buf[at + t] < 128
        /\ \A i \in 1..(s - 1) : buf[at + i] >= 128
        /\ \A i \in 1..(t - 1) : buf[at + i] >= 128
    BY DEF Sizes
  <1>2. at + s >= 1 /\ at + t >= 1 /\ at + s \in Nat /\ at + t \in Nat
    BY <1>1
  <1> DEFINE last(i) == buf[at + i]
  <1>3. last(s) \in Nat /\ last(t) \in Nat
    BY <1>1, <1>2, ByteType
  <1>4. /\ last(s) < 128 /\ last(t) < 128
        /\ \A i \in 1..(s - 1) : last(i) >= 128
        /\ \A i \in 1..(t - 1) : last(i) >= 128
    BY <1>1
  <1> HIDE DEF last
  <1>5. s < t => s \in 1..(t - 1)
    BY <1>1
  <1>6. t < s => t \in 1..(s - 1)
    BY <1>1
  <1>7. ~(s < t)
    BY <1>3, <1>4, <1>5
  <1>8. ~(t < s)
    BY <1>3, <1>4, <1>6
  <1> QED
    BY <1>1, <1>7, <1>8

\* The number that four groups of seven bits make is a natural number.
LEMMA GroupsType ==
  ASSUME NEW buf \in ByteSeq, NEW at \in Nat, NEW size \in 1..4,
         at + size <= Len(buf)
  PROVE  Groups(buf, at, size) \in Nat
  <1> DEFINE group(i) == IF i <= size THEN buf[at + i] % 128 ELSE 0
  <1>1. ASSUME NEW i \in 1..4 PROVE group(i) \in Nat
    <2>1. i <= size => buf[at + i] \in Nat
      BY ByteType
    <2> QED
      BY <2>1
  <1>2. Groups(buf, at, size)
          = group(1) + 128 * (group(2) + 128 * (group(3) + 128 * group(4)))
    BY DEF Groups
  <1> DEFINE a == group(1)
             b == group(2)
             c == group(3)
             d == group(4)
  <1>3. a \in Nat /\ b \in Nat /\ c \in Nat /\ d \in Nat
    BY <1>1
  <1>4. Groups(buf, at, size) = a + 128 * (b + 128 * (c + 128 * d))
    BY <1>2
  <1> HIDE DEF a, b, c, d
  <1> QED
    BY <1>3, <1>4

\* What decode_shortvec reads, if it reads anything.
LEMMA DecodedSize ==
  ASSUME NEW buf \in ByteSeq, DecodeShortvec(buf).ok
  PROVE  LET size == DecodeShortvec(buf).at
         IN  /\ size \in Sizes(buf, 0, 3)
             /\ size \in 1..3 /\ size <= Len(buf)
             /\ DecodeShortvec(buf) = Reached(size, Groups(buf, 0, size))
             /\ Groups(buf, 0, size) \in Nat
  <1> DEFINE sizes == Sizes(buf, 0, 3)
  <1>1. sizes # {}
    BY DEF DecodeShortvec, Failed
  <1>2. PICK size \in sizes : size = CHOOSE s \in sizes : TRUE
    BY <1>1
  <1>3. DecodeShortvec(buf) = Reached(size, Groups(buf, 0, size))
    BY <1>1, <1>2 DEF DecodeShortvec, Failed
  <1>4. DecodeShortvec(buf).at = size
    BY <1>3 DEF Reached
  <1>5. size \in 1..3 /\ size <= Len(buf)
    BY DEF Sizes
  <1>6. Groups(buf, 0, size) \in Nat
    BY <1>5, GroupsType
  <1> QED
    BY <1>2, <1>3, <1>4, <1>5, <1>6

\* The prefix that update.rs reads, message.rs reads too, and as the same
\* number of the same bytes (update.rs:33-44, message.rs:47-63).  The reverse
\* is false: message.rs takes a prefix of four bytes, or a larger third one.
THEOREM OnePrefix ==
  ASSUME NEW buf \in ByteSeq, DecodeShortvec(buf).ok
  PROVE  Shortvec(buf, Start) = DecodeShortvec(buf)
  <1> DEFINE size == DecodeShortvec(buf).at
  <1>1. /\ size \in Sizes(buf, 0, 3) /\ size \in 1..3
        /\ DecodeShortvec(buf) = Reached(size, Groups(buf, 0, size))
    BY DecodedSize
  <1> HIDE DEF size
  <1>2. size \in Sizes(buf, 0, 4)
    BY <1>1 DEF Sizes
  <1>3. PICK other \in Sizes(buf, 0, 4) : other = CHOOSE s \in Sizes(buf, 0, 4) : TRUE
    BY <1>2
  <1>4. other = size
    BY <1>2, OneSize
  <1>5. Shortvec(buf, Start) = Reached(0 + size, Groups(buf, 0, size))
    BY <1>2, <1>3, <1>4 DEF Shortvec, Start, Reached
  <1> QED
    BY <1>1, <1>5

-----------------------------------------------------------------------------
(* The signatures.                                                         *)

\* How many signatures there are in rest bytes: as many as are announced, or
\* as are whole.
LEMMA WholeOnes ==
  ASSUME NEW rest \in Nat, NEW count \in Nat
  PROVE  LET n == Min({count, rest \div SigLen})
         IN  /\ n \in Nat /\ n <= count /\ SigLen * n <= rest
             /\ SigLen * count <= rest => n = count
  <1> DEFINE whole == rest \div SigLen
             n == Min({count, whole})
  <1>1. whole \in Nat /\ SigLen * whole <= rest /\ rest < SigLen * (whole + 1)
    BY SigLenType
  <1> HIDE DEF whole
  <1>2. \E m \in {count, whole} : \A k \in {count, whole} : m <= k
    BY <1>1
  <1>3. n \in {count, whole} /\ n <= count /\ n <= whole
    BY <1>2 DEF Min
  <1> HIDE DEF n
  <1>4. n \in Nat
    BY <1>1, <1>3
  <1>5. SigLen * n <= rest
    BY <1>1, <1>3, <1>4, SigLenType
  <1>6. ASSUME SigLen * count <= rest PROVE count <= whole
    BY <1>1, <1>6, SigLenType
  <1>7. SigLen * count <= rest => n = count
    BY <1>1, <1>3, <1>4, <1>6
  <1> QED
    BY <1>3, <1>4, <1>5, <1>7 DEF n, whole

\* The ith of n signatures that lie behind the first `start` bytes.
LEMMA ChunkType ==
  ASSUME NEW tx \in ByteSeq, NEW start \in Nat, NEW n \in Nat, NEW i \in 1..n,
         start + SigLen * n <= Len(tx)
  PROVE  Chunk(tx, start, i) \in [1..SigLen -> 0..255]
  <1> DEFINE from == start + SigLen * (i - 1)
  <1>1. from \in Nat /\ start + SigLen * i = from + SigLen /\ from + SigLen <= Len(tx)
    <2>1. SigLen * i = SigLen * (i - 1) + SigLen /\ SigLen * (i - 1) \in Nat
      BY SigLenType
    <2>2. SigLen * i <= SigLen * n
      BY SigLenType
    <2> HIDE DEF from
    <2>3. from = start + SigLen * (i - 1)
      BY DEF from
    <2> QED
      BY <2>1, <2>2, <2>3, SigLenType
  <1>2. Chunk(tx, start, i) = SubSeq(tx, from + 1, from + SigLen)
    BY <1>1 DEF Chunk
  <1> HIDE DEF from
  <1> DEFINE chunk == SubSeq(tx, from + 1, from + SigLen)
             Byte == 0..255
  <1>3. tx \in Seq(Byte)
    BY DEF ByteSeq
  <1> HIDE DEF Byte
  <1>4. chunk \in Seq(Byte) /\ Len(chunk) = SigLen
    BY <1>1, <1>3, SigLenType
  <1> HIDE DEF chunk
  <1>5. chunk \in [1..SigLen -> Byte]
    BY <1>4, SigLenType
  <1> QED
    BY <1>2, <1>5 DEF chunk, Byte

\* What DeriveSignatures returns: the signatures that follow each other from
\* `start` on, n of them.
CutFrom(tx, start, n) ==
  /\ start \in Nat /\ n \in Nat /\ start + SigLen * n <= Len(tx)
  /\ DeriveSignatures(tx) = [i \in 1..n |-> Chunk(tx, start, i)]

LEMMA SignaturesV1 ==
  ASSUME NEW tx \in ByteSeq, StartsV1(tx), Len(tx) >= 2, Len(tx) >= SigLen * tx[2]
  PROVE  tx[2] \in Nat /\ CutFrom(tx, Len(tx) - SigLen * tx[2], tx[2])
  <1>1. Len(tx) \in Nat /\ tx[2] \in Nat
    BY ByteType DEF ByteSeq
  <1> DEFINE n == tx[2]
             sigs == SigLen * n
  <1>2. DeriveSignatures(tx) = [i \in 1..n |-> Chunk(tx, Len(tx) - sigs, i)]
    BY DEF DeriveSignatures
  <1>3. sigs \in Nat
    BY <1>1, SigLenType
  <1>4. Len(tx) >= sigs
    OBVIOUS
  <1> HIDE DEF sigs
  <1>5. Len(tx) - sigs \in Nat /\ (Len(tx) - sigs) + sigs <= Len(tx)
    BY <1>1, <1>3, <1>4
  <1> QED
    BY <1>1, <1>2, <1>5 DEF CutFrom, sigs

LEMMA SignaturesLegacy ==
  ASSUME NEW tx \in ByteSeq, ~StartsV1(tx), DecodeShortvec(tx).ok
  PROVE  LET prefix == DecodeShortvec(tx) IN
         \E n \in Nat :
           /\ CutFrom(tx, prefix.at, n)
           /\ prefix.at \in 1..3 /\ prefix.val \in Nat /\ n <= prefix.val
           /\ prefix.at + SigLen * prefix.val <= Len(tx) => n = prefix.val
  <1> DEFINE prefix == DecodeShortvec(tx)
  <1>1. /\ prefix.at \in 1..3 /\ prefix.at <= Len(tx)
        /\ prefix = Reached(prefix.at, Groups(tx, 0, prefix.at))
        /\ Groups(tx, 0, prefix.at) \in Nat
    BY DecodedSize
  <1>2. prefix.val \in Nat /\ Len(tx) \in Nat
    BY <1>1 DEF Reached, ByteSeq
  <1> DEFINE rest == Len(tx) - prefix.at
             n == Min({prefix.val, rest \div SigLen})
  <1>3. DeriveSignatures(tx) = [i \in 1..n |-> Chunk(tx, prefix.at, i)]
    BY DEF DeriveSignatures
  <1> HIDE DEF prefix
  <1>4. rest \in Nat
    BY <1>1, <1>2
  <1>5. /\ n \in Nat /\ n <= prefix.val /\ SigLen * n <= rest
        /\ SigLen * prefix.val <= rest => n = prefix.val
    BY <1>2, <1>4, WholeOnes
  <1> HIDE DEF n
  <1>6. /\ prefix.at + SigLen * n <= Len(tx)
        /\ prefix.at + SigLen * prefix.val <= Len(tx) => n = prefix.val
    <2> DEFINE cut == SigLen * n
               announced == SigLen * prefix.val
               at == prefix.at
    <2>1. /\ cut \in Nat /\ announced \in Nat /\ at \in Nat
          /\ cut <= Len(tx) - at
          /\ announced <= Len(tx) - at => n = prefix.val
      BY <1>1, <1>2, <1>5, SigLenType
    <2> HIDE DEF cut, announced, at
    <2>2. /\ at + cut <= Len(tx)
          /\ at + announced <= Len(tx) => n = prefix.val
      BY <1>2, <2>1
    <2> QED
      BY <2>2 DEF cut, announced, at
  <1> QED
    BY <1>1, <1>2, <1>3, <1>5, <1>6 DEF CutFrom, prefix

\* Where DeriveSignatures finds any, it cuts them from behind the prefix, or
\* from where they must start to end with the transaction.
LEMMA SignaturesCut ==
  ASSUME NEW tx \in ByteSeq, DeriveSignatures(tx) # <<>>
  PROVE  \E start, n \in Nat :
           /\ CutFrom(tx, start, n)
           /\ IF StartsV1(tx)
                THEN Len(tx) >= 2 /\ start = Len(tx) - SigLen * tx[2]
                ELSE DecodeShortvec(tx).ok /\ start = DecodeShortvec(tx).at
  <1>1. CASE StartsV1(tx)
    <2> DEFINE n == IF Len(tx) >= 2 THEN tx[2] ELSE 0
               sigs == [i \in 1..n |-> Chunk(tx, Len(tx) - SigLen * n, i)]
    <2>1. Len(tx) >= SigLen * n /\ DeriveSignatures(tx) = sigs
      BY <1>1 DEF DeriveSignatures
    <2>2. CASE ~(Len(tx) >= 2)
      <3>1. n = 0
        BY <2>2
      <3> HIDE DEF n
      <3>2. sigs = <<>>
        BY <3>1
      <3> QED
        BY <2>1, <3>2
    <2>3. CASE Len(tx) >= 2
      <3>1. Len(tx) >= SigLen * tx[2]
        BY <2>1, <2>3
      <3>2. tx[2] \in Nat /\ CutFrom(tx, Len(tx) - SigLen * tx[2], tx[2])
        BY <1>1, <2>3, <3>1, SignaturesV1
      <3>3. Len(tx) - SigLen * tx[2] \in Nat
        BY <3>2 DEF CutFrom
      <3> QED
        BY <1>1, <2>3, <3>2, <3>3
    <2> QED
      BY <2>2, <2>3
  <1>2. CASE ~StartsV1(tx)
    <2>1. DecodeShortvec(tx).ok
      BY <1>2 DEF DeriveSignatures
    <2>2. PICK n \in Nat : CutFrom(tx, DecodeShortvec(tx).at, n)
      BY <1>2, <2>1, SignaturesLegacy
    <2>3. DecodeShortvec(tx).at \in Nat
      BY <2>2 DEF CutFrom
    <2> QED
      BY <1>2, <2>1, <2>2, <2>3
  <1> QED
    BY <1>1, <1>2

\* Every signature that `signatures` returns has the length of one, whatever
\* the bytes of the transaction are and whatever came along with it: neither a
\* short one of the server's nor the rest of a datagram that was cut gets
\* through, and no slice fails its `expect` (update.rs:46-69, 124-138).
THEOREM SignaturesSized ==
  ASSUME NEW tx \in ByteSeq, NEW provided \in Seq(ByteSeq),
         NEW i \in DOMAIN Signatures(provided, tx)
  PROVE  /\ Len(Signatures(provided, tx)[i]) = SigLen
         /\ \A j \in 1..SigLen : Signatures(provided, tx)[i][j] \in 0..255
  <1>1. CASE provided # <<>> /\ \A k \in DOMAIN provided : Len(provided[k]) = SigLen
    <2>1. Signatures(provided, tx) = provided
      BY <1>1 DEF Signatures
    <2> DEFINE sig == provided[i]
    <2>2. sig \in ByteSeq /\ Len(sig) = SigLen
      BY <1>1, <2>1
    <2> HIDE DEF sig
    <2>3. ASSUME NEW j \in 1..SigLen PROVE sig[j] \in 0..255
      <3>1. j \in Nat /\ j >= 1 /\ j <= Len(sig)
        BY <2>2, SigLenType
      <3> QED
        BY <2>2, <3>1, ByteType
    <2>4. Signatures(provided, tx)[i] = sig
      BY <2>1 DEF sig
    <2> QED
      BY <2>2, <2>3, <2>4
  <1>2. CASE ~(provided # <<>> /\ \A k \in DOMAIN provided : Len(provided[k]) = SigLen)
    <2>1. Signatures(provided, tx) = DeriveSignatures(tx)
      BY <1>2 DEF Signatures
    <2>2. DeriveSignatures(tx) # <<>>
      BY <2>1
    <2>3. PICK start, n \in Nat : CutFrom(tx, start, n)
      BY <2>2, SignaturesCut
    <2>4. i \in 1..n /\ DeriveSignatures(tx)[i] = Chunk(tx, start, i)
      BY <2>1, <2>3 DEF CutFrom
    <2> DEFINE chunk == Chunk(tx, start, i)
    <2>5. chunk \in [1..SigLen -> 0..255]
      BY <2>3, <2>4, ChunkType DEF CutFrom
    <2> HIDE DEF chunk
    <2>6. Len(chunk) = SigLen
      BY <2>5, SigLenType
    <2> QED
      BY <2>1, <2>4, <2>5, <2>6 DEF chunk
  <1> QED
    BY <1>1, <1>2

\* `signature` is the first of the signatures, wherever there are any and the
\* prefix of a legacy transaction is one byte (update.rs:112-122 against 46-69;
\* README.md:119-120).  With a longer prefix, that of 128 signatures or more,
\* it would start within the prefix: `signature` does not read it.
THEOREM SignatureIsFirst ==
  ASSUME NEW tx \in ByteSeq, DeriveSignatures(tx) # <<>>,
         StartsV1(tx) \/ tx[1] < 128
  PROVE  Signature(tx) = DeriveSignatures(tx)[1]
  <1>1. PICK start, n \in Nat :
          /\ CutFrom(tx, start, n)
          /\ IF StartsV1(tx)
               THEN Len(tx) >= 2 /\ start = Len(tx) - SigLen * tx[2]
               ELSE DecodeShortvec(tx).ok /\ start = DecodeShortvec(tx).at
    BY SignaturesCut
  <1>2. n >= 1
    <2>1. CASE n = 0
      <3>1. [i \in 1..n |-> Chunk(tx, start, i)] = <<>>
        BY <2>1
      <3> QED
        BY <1>1, <3>1 DEF CutFrom
    <2> QED
      BY <2>1
  <1>3. DeriveSignatures(tx)[1] = Chunk(tx, start, 1)
    <2>1. 1 \in 1..n
      BY <1>2
    <2> QED
      BY <1>1, <2>1 DEF CutFrom
  <1>4. start >= 0 /\ start + SigLen <= Len(tx)
    <2>1. SigLen * n >= SigLen /\ Len(tx) \in Nat
      BY <1>2, SigLenType DEF ByteSeq
    <2>2. start + SigLen * n <= Len(tx) /\ SigLen * n \in Nat
      BY <1>1, SigLenType DEF CutFrom
    <2> QED
      BY <2>1, <2>2, SigLenType
  <1>5. start = IF StartsV1(tx)
                  THEN Len(tx) - SigLen * (IF Len(tx) >= 2 THEN tx[2] ELSE 0)
                  ELSE 1
    <2>1. CASE StartsV1(tx)
      BY <1>1, <2>1
    <2>2. CASE ~StartsV1(tx)
      <3>1. tx[1] < 128 /\ DecodeShortvec(tx).at \in Sizes(tx, 0, 3)
        BY <1>1, <2>2, DecodedSize
      <3>2. 1 \in Sizes(tx, 0, 3)
        <4>1. 0 + 1 <= Len(tx) /\ tx[0 + 1] < 128
          BY <1>4, <3>1, SigLenType DEF ByteSeq
        <4> QED
          BY <4>1 DEF Sizes
      <3>3. DecodeShortvec(tx).at = 1
        BY <3>1, <3>2, OneSize
      <3> QED
        BY <1>1, <2>2, <3>3
    <2> QED
      BY <2>1, <2>2
  <1>6. Signature(tx) = IF start >= 0 /\ start + SigLen <= Len(tx)
                          THEN Chunk(tx, start, 1) ELSE [i \in 1..SigLen |-> 0]
    BY <1>5 DEF Signature
  <1> QED
    BY <1>3, <1>4, <1>6

\* Signatures and message share the transaction: where `parse` finds a message,
\* the signatures lie next to it and take the rest, the prefix excepted
\* (update.rs:33-69, message.rs:47-63 and 206-219), although the two are found
\* by different code.  A legacy prefix that only message.rs accepts leaves
\* `signatures` empty; the hypothesis excludes it.
THEOREM PartsMeet ==
  ASSUME NEW tx \in ByteSeq, MessageBytes(tx).ok, StartsV1(tx) \/ DecodeShortvec(tx).ok
  PROVE  \E start, n \in Nat :
           /\ CutFrom(tx, start, n)
           /\ IF StartsV1(tx)
                THEN /\ start + SigLen * n = Len(tx)
                     /\ MessageBytes(tx).val = SubSeq(tx, 1, start)
                ELSE /\ start \in 1..3
                     /\ MessageBytes(tx).val = SubSeq(tx, start + SigLen * n + 1, Len(tx))
  <1>1. CASE StartsV1(tx)
    <2> DEFINE n == tx[2]
               start == Len(tx) - SigLen * n
    <2>1. Len(tx) \in Nat /\ Len(tx) >= 2 /\ Len(tx) >= SigLen * n + KeyLen + 10
      BY <1>1 DEF MessageBytes, Failed, ByteSeq
    <2>2. n \in Nat
      BY <2>1, ByteType
    <2>3. SigLen * n \in Nat
      BY <2>2, SigLenType
    <2>4. Len(tx) >= SigLen * n
      BY <2>1, <2>3, SigLenType
    <2>5. CutFrom(tx, start, n)
      BY <1>1, <2>1, <2>4, SignaturesV1
    <2>6. MessageBytes(tx).val = SubSeq(tx, 1, start)
      BY <1>1, <2>1 DEF MessageBytes, Reached
    <2>7. start \in Nat /\ start + SigLen * n = Len(tx)
      BY <2>1, <2>3, <2>4
    <2> QED
      BY <1>1, <2>2, <2>5, <2>6, <2>7
  <1>2. CASE ~StartsV1(tx)
    <2> DEFINE prefix == DecodeShortvec(tx)
    <2>1. Shortvec(tx, Reached(0, <<>>)) = prefix
      BY <1>2, OnePrefix DEF Start
    <2>2. /\ prefix.at + prefix.val * SigLen <= Len(tx)
          /\ MessageBytes(tx).val
               = SubSeq(tx, prefix.at + prefix.val * SigLen + 1, Len(tx))
      BY <1>2, <2>1 DEF MessageBytes, Failed, Reached
    <2>3. PICK n \in Nat :
            /\ CutFrom(tx, prefix.at, n)
            /\ prefix.at \in 1..3 /\ prefix.val \in Nat /\ n <= prefix.val
            /\ prefix.at + SigLen * prefix.val <= Len(tx) => n = prefix.val
      BY <1>2, SignaturesLegacy
    <2> HIDE DEF prefix
    <2>4. prefix.val * SigLen = SigLen * prefix.val
      BY <2>3, SigLenType
    <2>5. n = prefix.val
      BY <2>2, <2>3, <2>4
    <2>6. MessageBytes(tx).val = SubSeq(tx, prefix.at + SigLen * n + 1, Len(tx))
      BY <2>2, <2>4, <2>5
    <2>7. prefix.at \in Nat /\ prefix.at \in 1..3 /\ CutFrom(tx, prefix.at, n)
      BY <2>3
    <2> QED
      BY <1>2, <2>6, <2>7
  <1> QED
    BY <1>1, <1>2
=============================================================================
