--------------------------- MODULE WireFormatProofs ---------------------------
(***************************************************************************)
(* Proofs that the decoder of TransactionUpdate reads what was encoded, of *)
(* every transaction, whole or cut anywhere, for every length of keys and  *)
(* signatures.                                                             *)
(*                                                                         *)
(* Each reader is shown to do the same thing: where the encoding of x lies *)
(* in a buffer that may end within it, the reader gives x and the place    *)
(* behind it, or Failed if that place is beyond the end.                   *)
(***************************************************************************)
EXTENDS WireFormat, TransactionUpdateProofs, WellFoundedInduction

-----------------------------------------------------------------------------
(* Induction, in the form of a set that holds 0 and every successor.       *)

LEMMA LeastOf ==
  ASSUME NEW T, T \subseteq Nat, T # {}
  PROVE  \E x \in T : \A y \in T : ~(y < x)
  <1>1. IsWellFoundedOn(OpToRel(<, Nat), Nat)
    BY NatLessThanWellFounded
  <1>2. \E x \in T : \A y \in T : <<y, x>> \notin OpToRel(<, Nat)
    BY <1>1, WFMin
  <1>3. \A x, y \in Nat : y < x => <<y, x>> \in OpToRel(<, Nat)
    BY DEF OpToRel
  <1> QED
    BY <1>2, <1>3

LEMMA Induction ==
  ASSUME NEW T, 0 \in T, \A k \in Nat : k \in T => k + 1 \in T
  PROVE  Nat \subseteq T
  <1> DEFINE U == Nat \ T
  <1>1. SUFFICES ASSUME U # {} PROVE FALSE
    OBVIOUS
  <1>2. U \subseteq Nat
    OBVIOUS
  <1>3. PICK x \in U : \A y \in U : ~(y < x)
    <2> HIDE DEF U
    <2> QED
      BY <1>1, <1>2, LeastOf
  <1>4. x \in Nat /\ x # 0
    OBVIOUS
  <1>5. x - 1 \in Nat /\ x - 1 < x /\ x - 1 + 1 = x
    BY <1>4
  <1>6. x - 1 \in T
    BY <1>3, <1>5
  <1> QED
    BY <1>5, <1>6

\* Two functions that start alike and go on alike end alike.
LEMMA SameRun ==
  ASSUME NEW n \in Nat, NEW f, NEW g, f[0] = g[0],
         \A k \in 1..n : f[k - 1] = g[k - 1] => f[k] = g[k]
  PROVE  f[n] = g[n]
  <1> DEFINE T == {k \in Nat : k <= n => f[k] = g[k]}
  <1>1. 0 \in T
    OBVIOUS
  <1>2. ASSUME NEW k \in Nat, k \in T PROVE k + 1 \in T
    <2>1. CASE k + 1 <= n
      <3>1. k + 1 \in 1..n /\ k + 1 - 1 = k /\ k <= n
        BY <2>1
      <3>2. f[k] = g[k]
        BY <1>2, <3>1
      <3> QED
        BY <3>1, <3>2
    <2> QED
      BY <2>1
  <1> HIDE DEF T
  <1>3. n \in T
    BY <1>1, <1>2, Induction
  <1> QED
    BY <1>3 DEF T

-----------------------------------------------------------------------------
(* Where an encoding lies, and what reading it gives.                      *)

\* The bytes p lie in buf behind the first `at`, or would but for its end.
Lies(p, buf, at) == \A i \in 1..Len(p) : at + i <= Len(buf) => buf[at + i] = p[i]

LEMMA ByteLen ==
  ASSUME NEW p \in ByteSeq
  PROVE  Len(p) \in Nat
  BY DEF ByteSeq

LEMMA Join ==
  ASSUME NEW p \in ByteSeq, NEW q \in ByteSeq
  PROVE  /\ p \o q \in ByteSeq
         /\ Len(p) \in Nat /\ Len(q) \in Nat /\ Len(p \o q) = Len(p) + Len(q)
  BY DEF ByteSeq

\* What a reader gives that reads val up to the place `end`.
Outcome(buf, end, val) == IF end <= Len(buf) THEN Reached(end, val) ELSE Failed

LEMMA LiesParts ==
  ASSUME NEW p \in ByteSeq, NEW q \in ByteSeq, NEW buf, NEW at \in Nat,
         Lies(p \o q, buf, at)
  PROVE  Lies(p, buf, at) /\ Lies(q, buf, at + Len(p))
  <1>1. Len(p) \in Nat /\ Len(q) \in Nat /\ Len(p \o q) = Len(p) + Len(q)
    BY DEF ByteSeq
  <1>2. \A i \in 1..Len(p) : (p \o q)[i] = p[i]
    BY DEF ByteSeq
  <1>3. \A i \in 1..Len(q) : (p \o q)[Len(p) + i] = q[i]
    BY DEF ByteSeq
  <1> DEFINE pq == p \o q
  <1>4. /\ \A i \in 1..Len(pq) : at + i <= Len(buf) => buf[at + i] = pq[i]
        /\ Len(pq) = Len(p) + Len(q)
        /\ \A i \in 1..Len(p) : pq[i] = p[i]
        /\ \A i \in 1..Len(q) : pq[Len(p) + i] = q[i]
    BY <1>1, <1>2, <1>3 DEF Lies
  <1> HIDE DEF pq
  <1>5. ASSUME NEW i \in 1..Len(p), at + i <= Len(buf) PROVE buf[at + i] = p[i]
    BY <1>1, <1>4, <1>5
  <1>6. ASSUME NEW i \in 1..Len(q), at + Len(p) + i <= Len(buf)
        PROVE  buf[at + Len(p) + i] = q[i]
    <2>1. Len(p) + i \in 1..Len(pq) /\ at + (Len(p) + i) = at + Len(p) + i
      BY <1>1, <1>4
    <2> QED
      BY <1>4, <1>6, <2>1
  <1> QED
    BY <1>5, <1>6 DEF Lies

LEMMA OutcomeOk ==
  ASSUME NEW buf, NEW end, NEW val
  PROVE  /\ Outcome(buf, end, val).ok <=> end <= Len(buf)
         /\ end <= Len(buf) => Outcome(buf, end, val) = Reached(end, val)
         /\ ~(end <= Len(buf)) => Outcome(buf, end, val) = Failed
  BY DEF Outcome, Reached, Failed

\* A part that lies in buf whole can be cut out of it.
LEMMA PartRead ==
  ASSUME NEW buf \in ByteSeq, NEW p \in ByteSeq, NEW at \in Nat,
         Lies(p, buf, at), at + Len(p) <= Len(buf)
  PROVE  SubSeq(buf, at + 1, at + Len(p)) = p
  <1> DEFINE Byte == 0..255
             sub == SubSeq(buf, at + 1, at + Len(p))
  <1>1. Len(p) \in Nat /\ Len(buf) \in Nat
    BY ByteLen
  <1>2. buf \in Seq(Byte) /\ p \in Seq(Byte)
    BY DEF ByteSeq
  <1> HIDE DEF Byte
  <1>3. /\ sub \in Seq(Byte) /\ Len(sub) = Len(p)
        /\ \A i \in 1..Len(p) : sub[i] = buf[at + i]
    BY <1>1, <1>2
  <1> HIDE DEF sub
  <1>4. ASSUME NEW i \in 1..Len(p) PROVE sub[i] = p[i]
    <2>1. at + i <= Len(buf)
      BY <1>1
    <2>2. buf[at + i] = p[i]
      BY <2>1 DEF Lies
    <2> QED
      BY <1>3, <2>2
  <1>5. sub = p
    BY <1>2, <1>3, <1>4
  <1> QED
    BY <1>5 DEF sub

LEMMA TakeIs ==
  ASSUME NEW buf, NEW c, NEW n
  PROVE  Take(buf, c, n)
           = IF c.ok /\ c.at + n <= Len(buf)
               THEN Reached(c.at + n, SubSeq(buf, c.at + 1, c.at + n)) ELSE Failed
  <1> DEFINE there == c.ok /\ c.at + n <= Len(buf)
             rest == Reached(c.at + n, SubSeq(buf, c.at + 1, c.at + n))
  <1>1. there => Take(buf, c, n) = rest
    BY ZenonT(60) DEF Take
  <1>2. ~there => Take(buf, c, n) = Failed
    BY ZenonT(60) DEF Take
  <1> HIDE DEF there, rest
  <1>3. Take(buf, c, n) = IF there THEN rest ELSE Failed
    BY <1>1, <1>2
  <1> QED
    BY <1>3 DEF there, rest

LEMMA TakeOutcome ==
  ASSUME NEW buf \in ByteSeq, NEW p \in ByteSeq, NEW at \in Nat, NEW v, NEW c,
         Lies(p, buf, at), c = Outcome(buf, at, v)
  PROVE  Take(buf, c, Len(p)) = Outcome(buf, at + Len(p), p)
  <1>1. Len(p) \in Nat /\ Len(buf) \in Nat
    BY DEF ByteSeq
  <1>2. CASE at + Len(p) <= Len(buf)
    <2>1. c = Reached(at, v)
      BY <1>1, <1>2 DEF Outcome
    <2>2. Take(buf, c, Len(p)) = Reached(at + Len(p), SubSeq(buf, at + 1, at + Len(p)))
      <3> DEFINE rest(from) == Reached(from + Len(p), SubSeq(buf, from + 1, from + Len(p)))
      <3>1. c.ok /\ c.at = at
        BY <2>1 DEF Reached
      <3>2. Take(buf, c, Len(p))
              = IF c.ok /\ c.at + Len(p) <= Len(buf) THEN rest(c.at) ELSE Failed
        BY TakeIs
      <3> HIDE DEF rest
      <3>3. Take(buf, c, Len(p)) = rest(at)
        BY <1>2, <3>1, <3>2
      <3> QED
        BY <3>3 DEF rest
    <2>3. SubSeq(buf, at + 1, at + Len(p)) = p
      BY <1>2, PartRead
    <2> QED
      BY <1>2, <2>2, <2>3 DEF Outcome
  <1>3. CASE ~(at + Len(p) <= Len(buf))
    <2> DEFINE rest == Reached(c.at + Len(p), SubSeq(buf, c.at + 1, c.at + Len(p)))
    <2>1. ~c.ok \/ c.at = at
      BY DEF Outcome, Reached, Failed
    <2>2. Take(buf, c, Len(p))
            = IF c.ok /\ c.at + Len(p) <= Len(buf) THEN rest ELSE Failed
      BY TakeIs
    <2> HIDE DEF rest
    <2>3. Take(buf, c, Len(p)) = Failed
      BY <1>3, <2>1, <2>2
    <2> QED
      BY <1>3, <2>3 DEF Outcome
  <1> QED
    BY <1>2, <1>3

-----------------------------------------------------------------------------
(* Shortvecs.                                                              *)

\* The numbers that EncodeShortvec has room for.
Countable == {n \in Nat : n \div (128 * 128) < 128}

\* What the three sizes have in common.
LEMMA ShortvecShape ==
  ASSUME NEW n \in Countable
  PROVE  LET e == EncodeShortvec(n)
             group(i) == IF i <= Len(e) THEN e[i] % 128 ELSE 0
         IN  /\ e \in ByteSeq /\ Len(e) \in 1..3
             /\ e[Len(e)] < 128
             /\ \A i \in 1..(Len(e) - 1) : e[i] >= 128
             /\ n = group(1) + 128 * (group(2) + 128 * group(3))
  <1> DEFINE e == EncodeShortvec(n)
             a == n % 128
             b == (n \div 128) % 128
             d == n \div (128 * 128)
  <1>1. n \in Nat /\ d < 128
    BY DEF Countable
  <1>2. CASE n < 128
    <2>1. e = <<n>> /\ n \in 0..255 /\ n % 128 = n
      BY <1>1, <1>2 DEF EncodeShortvec
    <2>2. e \in ByteSeq /\ Len(e) = 1 /\ e[1] = n
      BY <2>1 DEF ByteSeq
    <2> HIDE DEF e
    <2> QED
      BY <1>1, <1>2, <2>1, <2>2 DEF e
  <1>3. CASE n >= 128 /\ n < 128 * 128
    <2>1. /\ e = <<128 + (n % 128), n \div 128>>
          /\ a \in 0..127 /\ n \div 128 \in 0..127 /\ n = a + 128 * (n \div 128)
      BY <1>1, <1>3 DEF EncodeShortvec
    <2> DEFINE q == n \div 128
    <2> HIDE DEF a, q
    <2>2. a \in 0..127 /\ q \in 0..127 /\ n = a + 128 * q /\ e = <<128 + a, q>>
      BY <2>1 DEF a, q
    <2>3. /\ 128 + a \in 0..255 /\ q \in 0..255
          /\ (128 + a) % 128 = a /\ q % 128 = q
      BY <2>2
    <2> DEFINE x == 128 + a
    <2>4. x \in 0..255 /\ x >= 128 /\ x % 128 = a /\ e = <<x, q>>
      BY <2>2, <2>3
    <2> HIDE DEF x, e
    <2>5. e \in ByteSeq /\ Len(e) = 2 /\ e[1] = x /\ e[2] = q
      BY <2>3, <2>4 DEF ByteSeq
    <2>6. n = (e[1] % 128) + 128 * ((e[2] % 128) + 128 * 0)
      BY <2>2, <2>3, <2>4, <2>5
    <2>7. \A i \in 1..(Len(e) - 1) : e[i] >= 128
      BY <2>4, <2>5
    <2>8. e[Len(e)] < 128
      BY <2>2, <2>5
    <2> QED
      BY <2>5, <2>6, <2>7, <2>8 DEF e
  <1>4. CASE n >= 128 * 128
    <2>1. e = <<128 + a, 128 + b, d>>
      BY <1>1, <1>4 DEF EncodeShortvec
    <2>2. /\ a \in 0..127 /\ b \in 0..127 /\ d \in 0..127
          /\ n = a + 128 * (b + 128 * d)
      <3> DEFINE q == n \div 128
      <3>1. q \in Nat /\ n = a + 128 * q /\ a \in 0..127
        BY <1>1
      <3>2. q \div 128 \in Nat /\ q = b + 128 * (q \div 128) /\ b \in 0..127
        <4>1. b = q % 128
          OBVIOUS
        <4> HIDE DEF q, b
        <4> QED
          BY <3>1, <4>1
      <3>3. d \in Nat /\ 16384 * d <= n /\ n < 16384 * d + 16384 /\ d < 128
        BY <1>1
      <3> DEFINE r == q \div 128
      <3> HIDE DEF q, a, b, d
      <3>4. r \in Nat /\ q = b + 128 * r
        BY <3>2
      <3> HIDE DEF r
      <3>5. d = r
        BY <1>1, <3>1, <3>2, <3>3, <3>4
      <3> QED
        BY <3>1, <3>2, <3>3, <3>4, <3>5
    <2> HIDE DEF a, b, d
    <2> DEFINE x == 128 + a
               y == 128 + b
    <2>3. /\ x \in 0..255 /\ y \in 0..255 /\ d \in 0..255 /\ x >= 128 /\ y >= 128
          /\ x % 128 = a /\ y % 128 = b /\ d % 128 = d /\ e = <<x, y, d>>
      BY <2>1, <2>2
    <2> HIDE DEF x, y, e
    <2>4. e \in ByteSeq /\ Len(e) = 3 /\ e[1] = x /\ e[2] = y /\ e[3] = d
      BY <2>3 DEF ByteSeq
    <2>5. n = (e[1] % 128) + 128 * ((e[2] % 128) + 128 * (e[3] % 128))
      BY <2>2, <2>3, <2>4
    <2>6. \A i \in 1..(Len(e) - 1) : e[i] >= 128
      BY <2>3, <2>4
    <2>7. e[Len(e)] < 128
      BY <2>2, <2>4
    <2> QED
      BY <2>4, <2>5, <2>6, <2>7 DEF e
  <1> QED
    BY <1>1, <1>2, <1>3, <1>4

LEMMA ShortvecOutcome ==
  ASSUME NEW buf \in ByteSeq, NEW n \in Countable, NEW at \in Nat, NEW v, NEW c,
         Lies(EncodeShortvec(n), buf, at), c = Outcome(buf, at, v)
  PROVE  Shortvec(buf, c) = Outcome(buf, at + Len(EncodeShortvec(n)), n)
  <1> DEFINE e == EncodeShortvec(n)
             group(i) == IF i <= Len(e) THEN e[i] % 128 ELSE 0
             sizes == Sizes(buf, at, 4)
  <1>1. /\ e \in ByteSeq /\ Len(e) \in 1..3 /\ e[Len(e)] < 128
        /\ \A i \in 1..(Len(e) - 1) : e[i] >= 128
    BY ShortvecShape
  <1>6. n = group(1) + 128 * (group(2) + 128 * group(3))
    BY ShortvecShape
  <1>2. \A i \in 1..Len(e) : at + i <= Len(buf) => buf[at + i] = e[i]
    BY DEF Lies
  <1>3. Len(buf) \in Nat
    BY DEF ByteSeq
  <1> HIDE DEF e
  <1>4. CASE at + Len(e) <= Len(buf)
    <2>1. c = Reached(at, v)
      BY <1>1, <1>3, <1>4 DEF Outcome
    <2>2. \A i \in 1..Len(e) : buf[at + i] = e[i]
      BY <1>1, <1>2, <1>3, <1>4
    <2>3. Len(e) \in sizes
      <3>1. Len(e) \in 1..4 /\ Len(e) \in 1..Len(e)
        <4>1. Len(e) \in 1..3
          BY <1>1
        <4> DEFINE k == Len(e)
        <4>2. k \in 1..3
          BY <4>1
        <4> HIDE DEF k
        <4>3. k \in 1..4 /\ k \in 1..k
          BY <4>2
        <4> QED
          BY <4>3 DEF k
      <3>2. buf[at + Len(e)] < 128
        BY <1>1, <2>2, <3>1
      <3>3. ASSUME NEW i \in 1..(Len(e) - 1) PROVE buf[at + i] >= 128
        <4>1. i \in 1..Len(e)
          BY <1>1
        <4> QED
          BY <1>1, <2>2, <4>1
      <3> QED
        BY <1>4, <3>1, <3>2, <3>3 DEF Sizes
    <2>4. c.ok /\ c.at = at
      BY <2>1 DEF Reached
    <2>5. PICK size \in Sizes(buf, c.at, 4) :
            size = CHOOSE s \in Sizes(buf, c.at, 4) : TRUE
      BY <2>3, <2>4
    <2>6. Shortvec(buf, c) = Reached(at + Len(e), Groups(buf, at, Len(e)))
      <3>1. size = Len(e)
        BY <2>3, <2>4, <2>5, OneSize
      <3>2. Shortvec(buf, c) = Reached(c.at + size, Groups(buf, c.at, size))
        BY <2>3, <2>4, <2>5 DEF Shortvec
      <3> QED
        BY <2>4, <3>1, <3>2
    <2>7. Groups(buf, at, Len(e)) = n
      <3> DEFINE read(i) == IF i <= Len(e) THEN buf[at + i] % 128 ELSE 0
      <3>1. \A i \in 1..3 : read(i) = group(i)
        BY <1>1, <2>2
      <3>2. read(4) = 0
        BY <1>1
      <3>3. Groups(buf, at, Len(e)) = read(1) + 128 * (read(2) + 128 * (read(3) + 128 * read(4)))
        BY DEF Groups
      <3> DEFINE g3 == group(3)
      <3>4. g3 \in Nat
        <4>1. 3 <= Len(e) => e[3] \in Nat
          BY <1>1, ByteType
        <4> QED
          BY <4>1
      <3>5. Groups(buf, at, Len(e)) = group(1) + 128 * (group(2) + 128 * (g3 + 128 * 0))
        BY <3>1, <3>2, <3>3
      <3>6. g3 + 128 * 0 = g3
        <4> HIDE DEF g3
        <4> QED
          BY <3>4
      <3> QED
        BY <1>6, <3>5, <3>6
    <2> QED
      BY <1>4, <2>6, <2>7 DEF Outcome, e
  <1>5. CASE ~(at + Len(e) <= Len(buf))
    <2>1. Shortvec(buf, c) = Failed
      <3>1. CASE at <= Len(buf)
        <4>1. c.at = at
          BY <3>1 DEF Outcome, Reached
        <4>2. ASSUME NEW s \in sizes PROVE FALSE
          <5>1. /\ s \in 1..4 /\ at + s <= Len(buf) /\ buf[at + s] < 128
            BY DEF Sizes
          <5>2. s \in 1..(Len(e) - 1) /\ s \in 1..Len(e)
            BY <1>1, <1>3, <1>5, <5>1
          <5>3. buf[at + s] = e[s] /\ e[s] >= 128
            BY <1>1, <1>2, <5>1, <5>2
          <5>4. e[s] \in Nat
            <6>1. s \in Nat /\ s >= 1 /\ s <= Len(e)
              BY <1>1, <5>2
            <6> QED
              BY <1>1, <6>1, ByteType
          <5> QED
            BY <5>1, <5>3, <5>4
        <4> QED
          BY <4>1, <4>2 DEF Shortvec
      <3>2. CASE ~(at <= Len(buf))
        BY <3>2 DEF Outcome, Failed, Shortvec
      <3> QED
        BY <3>1, <3>2
    <2> QED
      BY <1>5, <2>1 DEF Outcome, e
  <1> QED
    BY <1>4, <1>5

LEMMA CountedOutcome ==
  ASSUME NEW buf \in ByteSeq, NEW p \in Short, NEW at \in Nat, NEW v, NEW c,
         Lies(EncodeCounted(p), buf, at), c = Outcome(buf, at, v)
  PROVE  Counted(buf, c) = Outcome(buf, at + Len(EncodeCounted(p)), p)
  <1> DEFINE e == EncodeShortvec(Len(p))
             behind == at + Len(e)
             n == Shortvec(buf, c)
  <1>1. p \in ByteSeq /\ Len(p) \in Nat /\ Len(p) \in Countable
    BY DEF Short, Countable, ByteSeq
  <1>2. e \in ByteSeq /\ Len(e) \in Nat
    BY <1>1, ShortvecShape
  <1>3. EncodeCounted(p) = e \o p
    BY DEF EncodeCounted
  <1>4. Lies(e, buf, at) /\ Lies(p, buf, behind)
    BY <1>1, <1>2, <1>3, LiesParts
  <1>5. n = Outcome(buf, behind, Len(p))
    BY <1>1, <1>4, ShortvecOutcome
  <1>6. Len(EncodeCounted(p)) = Len(e) + Len(p)
    BY <1>1, <1>2, <1>3 DEF ByteSeq
  <1> HIDE DEF e, n
  <1>7. behind \in Nat /\ at + Len(EncodeCounted(p)) = behind + Len(p) /\ Len(buf) \in Nat
    BY <1>1, <1>2, <1>6 DEF ByteSeq
  <1> HIDE DEF behind
  <1>8. Take(buf, n, Len(p)) = Outcome(buf, behind + Len(p), p)
    BY <1>1, <1>4, <1>5, <1>7, TakeOutcome
  <1>9. CASE behind <= Len(buf)
    <2>1. n.ok /\ n.val = Len(p)
      BY <1>5, <1>9 DEF Outcome, Reached
    <2> QED
      BY <1>7, <1>8, <2>1 DEF Counted, n
  <1>10. CASE ~(behind <= Len(buf))
    <2>1. ~n.ok
      BY <1>5, <1>10 DEF Outcome, Failed
    <2>2. ~(behind + Len(p) <= Len(buf))
      BY <1>1, <1>7, <1>10
    <2> QED
      BY <1>7, <2>1, <2>2 DEF Counted, Outcome, n
  <1> QED
    BY <1>9, <1>10

-----------------------------------------------------------------------------
(* What the loops read.                                                    *)

LEMMA FixedSeq ==
  ASSUME NEW n \in Nat, NEW f \in [1..n -> 0..255]
  PROVE  f \in ByteSeq /\ Len(f) = n
  <1> DEFINE Byte == 0..255
  <1> HIDE DEF Byte
  <1>1. ASSUME NEW g \in [1..n -> Byte] PROVE g \in Seq(Byte) /\ Len(g) = n
    OBVIOUS
  <1> QED
    BY <1>1 DEF Byte, ByteSeq

LEMMA KeyType ==
  ASSUME NEW key \in Keys
  PROVE  key \in ByteSeq /\ Len(key) = KeyLen
  BY FixedSeq, SigLenType DEF Keys

LEMMA CountedType ==
  ASSUME NEW p \in Short
  PROVE  /\ p \in ByteSeq /\ Len(p) \in Nat
         /\ EncodeCounted(p) \in ByteSeq /\ Len(EncodeCounted(p)) \in Nat
  <1>1. p \in ByteSeq /\ Len(p) \in Nat /\ Len(p) \in Countable
    BY DEF Short, Countable, ByteSeq
  <1>2. EncodeShortvec(Len(p)) \in ByteSeq
    BY <1>1, ShortvecShape
  <1> QED
    BY <1>1, <1>2 DEF EncodeCounted, ByteSeq

\* What a reader of one item gives: like Outcome, but for the value it may have
\* put together when it failed, at which nobody looks.
Gives(e, buf, end, val) ==
  /\ e.ok <=> end <= Len(buf)
  /\ e.ok => e = Reached(end, val)

LEMMA KeyGives ==
  ASSUME NEW buf \in ByteSeq, NEW key \in Keys, NEW at \in Nat, NEW v, NEW c,
         Lies(key, buf, at), c = Outcome(buf, at, v)
  PROVE  /\ Key(buf, c) = Outcome(buf, at + Len(key), key)
         /\ Gives(Key(buf, c), buf, at + Len(key), key)
  <1>1. key \in ByteSeq /\ Len(key) = KeyLen
    BY KeyType
  <1>2. Key(buf, c) = Outcome(buf, at + Len(key), key)
    BY <1>1, TakeOutcome DEF Key
  <1> QED
    BY <1>2 DEF Outcome, Gives, Reached, Failed

InstrSet == [program : [1..1 -> 0..255], accounts : Short, data : Short]
LookupSet == [table : Keys, writable : Short, readonly : Short]

LEMMA InstructionType ==
  ASSUME NEW in \in InstrSet
  PROVE  EncodeInstruction(in) \in ByteSeq
  <1>1. in.program \in ByteSeq /\ in.accounts \in Short /\ in.data \in Short
    BY FixedSeq DEF InstrSet
  <1>2. EncodeCounted(in.accounts) \in ByteSeq /\ EncodeCounted(in.data) \in ByteSeq
    BY <1>1, CountedType
  <1> QED
    BY <1>1, <1>2 DEF EncodeInstruction, ByteSeq

LEMMA InstructionGives ==
  ASSUME NEW buf \in ByteSeq, NEW in \in InstrSet, NEW at \in Nat, NEW v, NEW c,
         Lies(EncodeInstruction(in), buf, at), c = Outcome(buf, at, v)
  PROVE  Gives(Instruction(buf, c), buf, at + Len(EncodeInstruction(in)), in)
  <1> DEFINE prog == in.program
             accs == EncodeCounted(in.accounts)
             dat == EncodeCounted(in.data)
             program  == Take(buf, c, 1)
             accounts == Counted(buf, program)
             data     == Counted(buf, accounts)
  <1>1. /\ prog \in ByteSeq /\ Len(prog) = 1
        /\ in.accounts \in Short /\ in.data \in Short
        /\ in = [program |-> in.program, accounts |-> in.accounts, data |-> in.data]
    BY FixedSeq DEF InstrSet
  <1>2. accs \in ByteSeq /\ Len(accs) \in Nat /\ dat \in ByteSeq /\ Len(dat) \in Nat
    BY <1>1, CountedType
  <1>3. EncodeInstruction(in) = (prog \o accs) \o dat
    BY DEF EncodeInstruction
  <1> HIDE DEF prog, accs, dat
  <1>4. /\ prog \o accs \in ByteSeq /\ Len(prog \o accs) = 1 + Len(accs)
        /\ (prog \o accs) \o dat \in ByteSeq
        /\ Len((prog \o accs) \o dat) = (1 + Len(accs)) + Len(dat)
    <2> DEFINE first == prog \o accs
    <2>1. first \in ByteSeq /\ Len(first) = 1 + Len(accs)
      BY <1>1, <1>2, Join
    <2> HIDE DEF first
    <2>2. first \o dat \in ByteSeq /\ Len(first \o dat) = Len(first) + Len(dat)
      BY <1>2, <2>1, Join
    <2> QED
      BY <2>1, <2>2 DEF first
  <1>5. Lies(prog \o accs, buf, at) /\ Lies(dat, buf, at + (1 + Len(accs)))
    BY <1>2, <1>3, <1>4, LiesParts
  <1>6. Lies(prog, buf, at) /\ Lies(accs, buf, at + 1)
    BY <1>1, <1>2, <1>5, LiesParts
  <1>7. program = Outcome(buf, at + 1, prog)
    <2>1. prog \in ByteSeq /\ Len(prog) = 1
      BY <1>1
    <2>2. Take(buf, c, Len(prog)) = Outcome(buf, at + Len(prog), prog)
      BY <1>6, <2>1, TakeOutcome
    <2> QED
      BY <2>1, <2>2
  <1>8. accounts = Outcome(buf, (at + 1) + Len(accs), in.accounts)
    BY <1>1, <1>6, <1>7, CountedOutcome DEF accs
  <1>9. at + 1 + Len(accs) = at + (1 + Len(accs)) /\ at + 1 + Len(accs) \in Nat
    BY <1>2
  <1>10. data = Outcome(buf, (at + 1 + Len(accs)) + Len(dat), in.data)
    BY <1>1, <1>5, <1>8, <1>9, CountedOutcome DEF dat
  <1>11. Instruction(buf, c) = [data EXCEPT !.val = [program |-> program.val,
                                  accounts |-> accounts.val, data |-> data.val]]
    BY DEF Instruction
  <1> HIDE DEF program, accounts, data
  <1> DEFINE e == Instruction(buf, c)
             end == at + 1 + Len(accs) + Len(dat)
  <1>12. at + Len(EncodeInstruction(in)) = end /\ end \in Nat /\ Len(buf) \in Nat
    BY <1>2, <1>3, <1>4 DEF ByteSeq
  <1>13. CASE end <= Len(buf)
    <2>1. /\ program.val = prog /\ accounts.val = in.accounts
          /\ data = Reached(end, in.data)
      BY <1>2, <1>7, <1>8, <1>10, <1>12, <1>13 DEF Outcome, Reached
    <2>2. e = Reached(end, [program |-> prog, accounts |-> in.accounts, data |-> in.data])
      BY <1>11, <2>1 DEF Reached
    <2>3. [program |-> prog, accounts |-> in.accounts, data |-> in.data] = in
      BY <1>1 DEF prog
    <2>4. e = Reached(end, in)
      BY <2>2, <2>3
    <2>5. e.ok
      BY <2>4 DEF Reached
    <2> QED
      BY <1>12, <1>13, <2>4, <2>5 DEF Gives
  <1>14. CASE ~(end <= Len(buf))
    <2>1. data = Failed
      BY <1>10, <1>14 DEF Outcome
    <2>2. ~e.ok
      BY <1>11, <2>1 DEF Failed
    <2> QED
      BY <1>12, <1>14, <2>2 DEF Gives
  <1> QED
    BY <1>13, <1>14

LEMMA LookupType ==
  ASSUME NEW lk \in LookupSet
  PROVE  EncodeLookup(lk) \in ByteSeq
  <1>1. lk.table \in ByteSeq /\ lk.writable \in Short /\ lk.readonly \in Short
    BY KeyType DEF LookupSet
  <1>2. EncodeCounted(lk.writable) \in ByteSeq /\ EncodeCounted(lk.readonly) \in ByteSeq
    BY <1>1, CountedType
  <1> QED
    BY <1>1, <1>2 DEF EncodeLookup, ByteSeq

LEMMA LookupGives ==
  ASSUME NEW buf \in ByteSeq, NEW lk \in LookupSet, NEW at \in Nat, NEW v, NEW c,
         Lies(EncodeLookup(lk), buf, at), c = Outcome(buf, at, v)
  PROVE  Gives(Lookup(buf, c), buf, at + Len(EncodeLookup(lk)), lk)
  <1> DEFINE key == lk.table
             wr == EncodeCounted(lk.writable)
             rd == EncodeCounted(lk.readonly)
             table    == Key(buf, c)
             writable == Counted(buf, table)
             readonly == Counted(buf, writable)
  <1>1. /\ key \in Keys /\ key \in ByteSeq /\ Len(key) = KeyLen /\ KeyLen \in Nat
        /\ lk.writable \in Short /\ lk.readonly \in Short
        /\ lk = [table |-> lk.table, writable |-> lk.writable, readonly |-> lk.readonly]
    BY KeyType, SigLenType DEF LookupSet
  <1>2. wr \in ByteSeq /\ Len(wr) \in Nat /\ rd \in ByteSeq /\ Len(rd) \in Nat
    BY <1>1, CountedType
  <1>3. EncodeLookup(lk) = (key \o wr) \o rd
    BY DEF EncodeLookup
  <1> HIDE DEF key, wr, rd
  <1>4. /\ key \o wr \in ByteSeq /\ Len(key \o wr) = KeyLen + Len(wr)
        /\ (key \o wr) \o rd \in ByteSeq
        /\ Len((key \o wr) \o rd) = (KeyLen + Len(wr)) + Len(rd)
    <2> DEFINE first == key \o wr
    <2>1. first \in ByteSeq /\ Len(first) = KeyLen + Len(wr)
      BY <1>1, <1>2, Join
    <2> HIDE DEF first
    <2>2. first \o rd \in ByteSeq /\ Len(first \o rd) = Len(first) + Len(rd)
      BY <1>2, <2>1, Join
    <2> QED
      BY <2>1, <2>2 DEF first
  <1>5. Lies(key \o wr, buf, at) /\ Lies(rd, buf, at + (KeyLen + Len(wr)))
    BY <1>2, <1>3, <1>4, LiesParts
  <1>6. Lies(key, buf, at) /\ Lies(wr, buf, at + KeyLen)
    BY <1>1, <1>2, <1>5, LiesParts
  <1>7. table = Outcome(buf, at + KeyLen, key)
    BY <1>1, <1>6, KeyGives
  <1>8. at + KeyLen \in Nat
    BY <1>1
  <1>9. writable = Outcome(buf, (at + KeyLen) + Len(wr), lk.writable)
    BY <1>1, <1>6, <1>7, <1>8, CountedOutcome DEF wr
  <1>10. at + KeyLen + Len(wr) = at + (KeyLen + Len(wr)) /\ at + KeyLen + Len(wr) \in Nat
    BY <1>1, <1>2
  <1>11. readonly = Outcome(buf, (at + KeyLen + Len(wr)) + Len(rd), lk.readonly)
    BY <1>1, <1>5, <1>9, <1>10, CountedOutcome DEF rd
  <1>12. Lookup(buf, c) = [readonly EXCEPT !.val = [table |-> table.val,
                             writable |-> writable.val, readonly |-> readonly.val]]
    BY DEF Lookup
  <1> HIDE DEF table, writable, readonly
  <1> DEFINE e == Lookup(buf, c)
             end == at + KeyLen + Len(wr) + Len(rd)
  <1>13. at + Len(EncodeLookup(lk)) = end /\ end \in Nat /\ Len(buf) \in Nat
    BY <1>1, <1>2, <1>3, <1>4 DEF ByteSeq
  <1>14. CASE end <= Len(buf)
    <2>1. /\ table.val = key /\ writable.val = lk.writable
          /\ readonly = Reached(end, lk.readonly)
      BY <1>1, <1>2, <1>7, <1>9, <1>11, <1>13, <1>14 DEF Outcome, Reached
    <2>2. e = Reached(end, [table |-> key, writable |-> lk.writable, readonly |-> lk.readonly])
      BY <1>12, <2>1 DEF Reached
    <2>3. [table |-> key, writable |-> lk.writable, readonly |-> lk.readonly] = lk
      BY <1>1 DEF key
    <2>4. e = Reached(end, lk)
      BY <2>2, <2>3
    <2>5. e.ok
      BY <2>4 DEF Reached
    <2> QED
      BY <1>13, <1>14, <2>4, <2>5 DEF Gives
  <1>15. CASE ~(end <= Len(buf))
    <2>1. readonly = Failed
      BY <1>11, <1>15 DEF Outcome
    <2>2. ~e.ok
      BY <1>12, <2>1 DEF Failed
    <2> QED
      BY <1>13, <1>15, <2>2 DEF Gives
  <1> QED
    BY <1>14, <1>15

\* A v1 instruction: its header among the headers, and its contents.
V1Header(in) ==
  in.program \o <<Len(in.accounts), Len(in.data) % 256, Len(in.data) \div 256>>
V1Contents(in) == in.accounts \o in.data

LEMMA ContentsType ==
  ASSUME NEW in \in InstrSet
  PROVE  V1Contents(in) \in ByteSeq
  <1>1. in.accounts \in ByteSeq /\ in.data \in ByteSeq
    BY CountedType DEF InstrSet
  <1> QED
    BY <1>1 DEF V1Contents, ByteSeq

LEMMA MapSeq ==
  ASSUME NEW S, NEW n \in Nat, NEW f \in [1..n -> S]
  PROVE  f \in Seq(S) /\ Len(f) = n
  OBVIOUS

LEMMA Appended ==
  ASSUME NEW S, NEW p \in Seq(S), NEW q \in Seq(S)
  PROVE  /\ p \o q \in Seq(S) /\ Len(p \o q) = Len(p) + Len(q)
         /\ \A i \in 1..Len(p) : (p \o q)[i] = p[i]
         /\ \A i \in 1..Len(q) : (p \o q)[Len(p) + i] = q[i]
  OBVIOUS

LEMMA FourBytes ==
  ASSUME NEW p \in [1..1 -> 0..255], NEW a \in Nat, NEW b \in Nat, NEW c \in Nat
  PROVE  LET h == p \o <<a, b, c>>
         IN  /\ h \in Seq(Nat) /\ Len(h) = 4
             /\ h[1] = p[1] /\ h[2] = a /\ h[3] = b /\ h[4] = c
  <1> DEFINE q == <<a, b, c>>
             h == p \o q
  <1>1. p \in [1..1 -> Nat]
    OBVIOUS
  <1>2. p \in Seq(Nat) /\ Len(p) = 1
    <2>1. 1 \in Nat
      OBVIOUS
    <2> QED
      BY <1>1, <2>1, MapSeq
  <1>3. q \in Seq(Nat) /\ Len(q) = 3 /\ q[1] = a /\ q[2] = b /\ q[3] = c
    OBVIOUS
  <1> HIDE DEF q
  <1>4. /\ h \in Seq(Nat) /\ Len(h) = Len(p) + Len(q)
        /\ \A i \in 1..Len(p) : h[i] = p[i]
        /\ \A i \in 1..Len(q) : h[Len(p) + i] = q[i]
    <2> DEFINE N == Nat
    <2>1. p \in Seq(N) /\ q \in Seq(N)
      BY <1>2, <1>3
    <2> HIDE DEF N
    <2>2. /\ h \in Seq(N) /\ Len(h) = Len(p) + Len(q)
          /\ \A i \in 1..Len(p) : h[i] = p[i]
          /\ \A i \in 1..Len(q) : h[Len(p) + i] = q[i]
      BY <2>1, Appended
    <2> QED
      BY <2>2 DEF N
  <1> HIDE DEF h
  <1>5. Len(h) = 4 /\ h[1] = p[1]
    BY <1>2, <1>3, <1>4
  <1>6. h[1 + 1] = q[1] /\ h[1 + 2] = q[2] /\ h[1 + 3] = q[3]
    BY <1>2, <1>3, <1>4
  <1>7. h[2] = q[1] /\ h[3] = q[2] /\ h[4] = q[3]
    BY <1>6
  <1> QED
    BY <1>3, <1>4, <1>5, <1>7 DEF h, q

LEMMA ContentsGives ==
  ASSUME NEW buf \in ByteSeq, NEW in \in InstrSet, NEW at \in Nat, NEW v, NEW c,
         Lies(V1Contents(in), buf, at), c = Outcome(buf, at, v)
  PROVE  Gives(Contents(buf, c, V1Header(in)), buf, at + Len(V1Contents(in)), in)
  <1> DEFINE prog == in.program
             accs == in.accounts
             dat == in.data
             h == V1Header(in)
             accounts == Take(buf, c, h[2])
             data     == Take(buf, accounts, h[3] + 256 * h[4])
  <1>1. /\ prog \in ByteSeq /\ Len(prog) = 1 /\ prog \in [1..1 -> 0..255]
        /\ accs \in ByteSeq /\ Len(accs) \in Nat
        /\ dat \in ByteSeq /\ Len(dat) \in Nat
        /\ in = [program |-> prog, accounts |-> accs, data |-> dat]
    <2>1. /\ prog \in [1..1 -> 0..255] /\ accs \in Short /\ dat \in Short
          /\ in = [program |-> prog, accounts |-> accs, data |-> dat]
      BY DEF InstrSet
    <2> HIDE DEF prog, accs, dat
    <2>2. accs \in ByteSeq /\ Len(accs) \in Nat /\ dat \in ByteSeq /\ Len(dat) \in Nat
      BY <2>1, CountedType
    <2>3. prog \in ByteSeq /\ Len(prog) = 1
      <3>1. 1 \in Nat
        OBVIOUS
      <3> QED
        BY <2>1, <3>1, FixedSeq
    <2> QED
      BY <2>1, <2>2, <2>3
  <1>2. h = prog \o <<Len(accs), Len(dat) % 256, Len(dat) \div 256>>
    BY DEF V1Header
  <1>3. V1Contents(in) = accs \o dat
    BY DEF V1Contents
  <1>4. Contents(buf, c, h) = [data EXCEPT !.val = [program |-> <<h[1]>>,
                                 accounts |-> accounts.val, data |-> data.val]]
    BY DEF Contents
  <1> HIDE DEF h, prog, accs, dat
  <1>5. /\ h[1] = prog[1] /\ h[2] = Len(accs)
        /\ h[3] = Len(dat) % 256 /\ h[4] = Len(dat) \div 256
    <2> DEFINE a == Len(accs)
               d == Len(dat)
               x == d % 256
               y == d \div 256
    <2>1. prog \in [1..1 -> 0..255] /\ a \in Nat /\ d \in Nat
      BY <1>1
    <2>2. h = prog \o <<a, x, y>>
      BY <1>2
    <2> HIDE DEF d
    <2>3. x \in Nat /\ y \in Nat
      BY <2>1
    <2> HIDE DEF a, x, y
    <2>4. h[1] = prog[1] /\ h[2] = a /\ h[3] = x /\ h[4] = y
      BY <2>1, <2>2, <2>3, FourBytes
    <2> QED
      BY <2>4 DEF a, d, x, y
  <1>6. h[3] + 256 * h[4] = Len(dat)
    BY <1>1, <1>5
  <1>7. <<h[1]>> = prog
    BY <1>1, <1>5 DEF ByteSeq
  <1>8. Lies(accs, buf, at) /\ Lies(dat, buf, at + Len(accs))
    BY <1>1, <1>3, LiesParts
  <1>9. accounts = Outcome(buf, at + Len(accs), accs)
    BY <1>1, <1>5, <1>8, TakeOutcome
  <1>10. at + Len(accs) \in Nat
    BY <1>1
  <1>11. data = Outcome(buf, (at + Len(accs)) + Len(dat), dat)
    BY <1>1, <1>6, <1>8, <1>9, <1>10, TakeOutcome
  <1> HIDE DEF accounts, data
  <1> DEFINE e == Contents(buf, c, h)
             end == at + Len(accs) + Len(dat)
  <1>12. /\ V1Contents(in) \in ByteSeq /\ Len(V1Contents(in)) \in Nat
         /\ at + Len(V1Contents(in)) = end /\ end \in Nat /\ Len(buf) \in Nat
    <2>1. Len(accs \o dat) = Len(accs) + Len(dat) /\ accs \o dat \in ByteSeq
      BY <1>1, Join
    <2>2. Len(buf) \in Nat
      BY DEF ByteSeq
    <2>3. at + (Len(accs) + Len(dat)) = end /\ end \in Nat /\ Len(accs) + Len(dat) \in Nat
      BY <1>1
    <2> QED
      BY <1>3, <2>1, <2>2, <2>3
  <1>13. CASE end <= Len(buf)
    <2>1. accounts.val = accs /\ data = Reached(end, dat)
      BY <1>1, <1>9, <1>11, <1>12, <1>13 DEF Outcome, Reached
    <2>2. e = Reached(end, in) /\ e.ok
      BY <1>1, <1>4, <1>7, <2>1 DEF Reached
    <2> QED
      BY <1>12, <1>13, <2>2 DEF Gives, h
  <1>14. CASE ~(end <= Len(buf))
    <2>1. data = Failed
      BY <1>11, <1>14 DEF Outcome
    <2>2. ~e.ok
      BY <1>4, <2>1 DEF Failed
    <2> QED
      BY <1>12, <1>14, <2>2 DEF Gives, h
  <1> QED
    BY <1>13, <1>14

-----------------------------------------------------------------------------
(* Sequences of encodings, one behind the other.                           *)

\* f[k] is the first k of seqs in one, for k up to n.
Sums(seqs, n, f) ==
  /\ f \in [0..n -> ByteSeq]
  /\ f[0] = <<>>
  /\ \A k \in 1..n : f[k] = f[k - 1] \o seqs[k]

LEMMA SumsExist ==
  ASSUME NEW seqs \in Seq(ByteSeq)
  PROVE  \E f : Sums(seqs, Len(seqs), f)
  <1> DEFINE T == {n \in Nat : n <= Len(seqs) => \E f : Sums(seqs, n, f)}
  <1>1. 0 \in T
    <2> DEFINE f == [k \in 0..0 |-> <<>>]
    <2>1. <<>> \in ByteSeq
      BY DEF ByteSeq
    <2>2. Sums(seqs, 0, f)
      BY <2>1 DEF Sums
    <2> QED
      BY <2>2
  <1>2. ASSUME NEW n \in Nat, n \in T PROVE n + 1 \in T
    <2> SUFFICES ASSUME n + 1 <= Len(seqs) PROVE \E f : Sums(seqs, n + 1, f)
      OBVIOUS
    <2>1. Len(seqs) \in Nat /\ n <= Len(seqs)
      OBVIOUS
    <2>2. PICK f : Sums(seqs, n, f)
      BY <1>2, <2>1
    <2> DEFINE g == [k \in 0..(n + 1) |-> IF k = n + 1 THEN f[n] \o seqs[n + 1] ELSE f[k]]
    <2>3. f[n] \in ByteSeq /\ seqs[n + 1] \in ByteSeq
      BY <2>1, <2>2 DEF Sums
    <2>4. f[n] \o seqs[n + 1] \in ByteSeq
      BY <2>3 DEF ByteSeq
    <2>5. \A k \in 0..n : f[k] \in ByteSeq
      BY <2>2 DEF Sums
    <2>6. g \in [0..(n + 1) -> ByteSeq]
      BY <2>4, <2>5
    <2>7. g[0] = <<>>
      BY <2>2 DEF Sums
    <2>8. ASSUME NEW k \in 1..(n + 1) PROVE g[k] = g[k - 1] \o seqs[k]
      <3>1. CASE k = n + 1
        <4>1. g[k] = f[n] \o seqs[n + 1] /\ k - 1 = n /\ n \in 0..(n + 1) /\ n # n + 1
          BY <3>1
        <4>2. g[n] = f[n]
          BY <4>1
        <4> HIDE DEF g
        <4> QED
          BY <3>1, <4>1, <4>2
      <3>2. CASE k # n + 1
        <4>1. k \in 1..n /\ k - 1 \in 0..n /\ k - 1 # n + 1
          BY <3>2
        <4>2. g[k] = f[k] /\ g[k - 1] = f[k - 1]
          BY <3>2, <4>1
        <4> HIDE DEF g
        <4> QED
          BY <2>2, <4>1, <4>2 DEF Sums
      <3> QED
        BY <3>1, <3>2
    <2> HIDE DEF g
    <2> QED
      BY <2>6, <2>7, <2>8 DEF Sums
  <1> HIDE DEF T
  <1>3. Len(seqs) \in T
    BY <1>1, <1>2, Induction
  <1> QED
    BY <1>3 DEF T

\* The equation that FlattenSeq solves.
Flattens(seqs, g) ==
  g = [i \in 1..Len(seqs) |-> IF i = 1 THEN seqs[i] ELSE g[i - 1] \o seqs[i]]

LEMMA FlattensAt ==
  ASSUME NEW seqs, NEW g, Flattens(seqs, g), Len(seqs) \in Nat, Len(seqs) # 0
  PROVE  /\ g[1] = seqs[1]
         /\ \A i \in 2..Len(seqs) : g[i] = g[i - 1] \o seqs[i]
  <1>1. \A i \in 1..Len(seqs) : g[i] = IF i = 1 THEN seqs[i] ELSE g[i - 1] \o seqs[i]
    BY Zenon DEF Flattens
  <1>2. 1 \in 1..Len(seqs) /\ \A i \in 2..Len(seqs) : i \in 1..Len(seqs) /\ i # 1
    OBVIOUS
  <1> QED
    BY <1>1, <1>2

LEMMA ConcatSum ==
  ASSUME NEW seqs \in Seq(ByteSeq), NEW f, Sums(seqs, Len(seqs), f)
  PROVE  Concat(seqs) = f[Len(seqs)] /\ Concat(seqs) \in ByteSeq
  <1> DEFINE n == Len(seqs)
  <1>1. n \in Nat
    OBVIOUS
  <1>2. f[n] \in ByteSeq
    BY <1>1 DEF Sums
  <1>3. CASE n = 0
    <2>1. Concat(seqs) = seqs /\ seqs = <<>>
      BY <1>3 DEF Concat, FlattenSeq
    <2> QED
      BY <1>2, <1>3, <2>1 DEF Sums
  <1>4. CASE n # 0
    <2> DEFINE w == [i \in 1..n |-> f[i]]
               g == CHOOSE h : Flattens(seqs, h)
    <2>1. Concat(seqs) = g[n]
      BY <1>4 DEF Concat, FlattenSeq, Flattens
    <2>2. Flattens(seqs, w)
      <3>1. ASSUME NEW i \in 1..n
            PROVE  w[i] = IF i = 1 THEN seqs[i] ELSE w[i - 1] \o seqs[i]
        <4>1. CASE i = 1
          <5>1. f[1] = <<>> \o seqs[1] /\ seqs[1] \in ByteSeq
            BY <1>1, <4>1 DEF Sums
          <5>2. <<>> \o seqs[1] = seqs[1]
            BY <5>1 DEF ByteSeq
          <5> QED
            BY <4>1, <5>1, <5>2
        <4>2. CASE i # 1
          <5>1. i - 1 \in 1..n
            BY <1>1, <4>2
          <5>2. f[i] = f[i - 1] \o seqs[i]
            BY DEF Sums
          <5> QED
            BY <4>2, <5>1, <5>2
        <4> QED
          BY <4>1, <4>2
      <3>2. w = [i \in 1..n |-> IF i = 1 THEN seqs[i] ELSE w[i - 1] \o seqs[i]]
        BY <3>1
      <3> QED
        BY <3>2 DEF Flattens
    <2>3. Flattens(seqs, g)
      <3> HIDE DEF w
      <3> QED
        BY <2>2
    <2> HIDE DEF g
    <2>4. g[1] = seqs[1] /\ \A i \in 2..n : g[i] = g[i - 1] \o seqs[i]
      BY <2>3, FlattensAt, <1>1, <1>4
    <2>5. f[1] = seqs[1] /\ \A i \in 2..n : f[i] = f[i - 1] \o seqs[i]
      <3>1. w[1] = seqs[1]
        <4> HIDE DEF w
        <4> QED
          BY <2>2, FlattensAt, <1>1, <1>4
      <3>2. f[1] = seqs[1]
        BY <1>1, <1>4, <3>1
      <3> QED
        BY <1>1, <3>2 DEF Sums
    <2> DEFINE a == [k \in 0..n |-> IF k = 0 THEN <<>> ELSE g[k]]
               b == [k \in 0..n |-> IF k = 0 THEN <<>> ELSE f[k]]
    <2>6. a[0] = b[0]
      BY <1>1
    <2>7. ASSUME NEW k \in 1..n, a[k - 1] = b[k - 1] PROVE a[k] = b[k]
      <3>1. CASE k = 1
        BY <1>1, <2>4, <2>5, <3>1
      <3>2. CASE k # 1
        <4>1. k \in 2..n /\ k - 1 \in 0..n /\ k - 1 # 0
          BY <1>1, <3>2
        <4>2. g[k - 1] = f[k - 1]
          BY <2>7, <4>1
        <4>3. g[k] = g[k - 1] \o seqs[k] /\ f[k] = f[k - 1] \o seqs[k]
          BY <2>4, <2>5, <4>1
        <4>4. g[k] = f[k]
          BY <4>2, <4>3
        <4>5. a[k] = g[k] /\ b[k] = f[k]
          BY <4>1
        <4> HIDE DEF a, b
        <4> QED
          BY <4>4, <4>5
      <3> QED
        BY <3>1, <3>2
    <2>8. a[n] = g[n] /\ b[n] = f[n]
      BY <1>1, <1>4
    <2> HIDE DEF a, b
    <2>9. a[n] = b[n]
      BY <1>1, <2>6, <2>7, SameRun
    <2> QED
      BY <1>2, <2>1, <2>8, <2>9
  <1> QED
    BY <1>3, <1>4

\* Each of seqs lies in buf, where the one before it ends.
Placed(seqs, buf, at, ends) ==
  /\ ends \in [0..Len(seqs) -> Nat]
  /\ ends[0] = at
  /\ \A k \in 1..Len(seqs) : /\ ends[k] = ends[k - 1] + Len(seqs[k])
                             /\ Lies(seqs[k], buf, ends[k - 1])

LEMMA ConcatPlaced ==
  ASSUME NEW seqs \in Seq(ByteSeq), NEW buf, NEW at \in Nat,
         Lies(Concat(seqs), buf, at)
  PROVE  \E ends : /\ Placed(seqs, buf, at, ends)
                   /\ ends[Len(seqs)] = at + Len(Concat(seqs))
  <1> DEFINE n == Len(seqs)
  <1>1. n \in Nat /\ \A k \in 1..n : seqs[k] \in ByteSeq
    OBVIOUS
  <1>2. PICK f : Sums(seqs, n, f)
    BY SumsExist
  <1>3. Concat(seqs) = f[n]
    BY <1>2, ConcatSum
  <1>4. \A k \in 0..n : f[k] \in ByteSeq /\ Len(f[k]) \in Nat
    <2>1. \A k \in 0..n : f[k] \in ByteSeq
      BY <1>2 DEF Sums
    <2> QED
      BY <2>1, ByteLen
  <1> HIDE DEF n
  <1>5. \A k \in 1..n : k - 1 \in 0..n /\ k \in 0..n
    BY <1>1
  <1>6. ASSUME NEW k \in 1..n
        PROVE  /\ Len(f[k]) = Len(f[k - 1]) + Len(seqs[k])
               /\ Len(f[k - 1]) \in Nat /\ Len(seqs[k]) \in Nat
    <2>1. f[k - 1] \in ByteSeq /\ seqs[k] \in ByteSeq
      BY <1>1, <1>4, <1>5
    <2>2. f[k] = f[k - 1] \o seqs[k]
      BY <1>2 DEF Sums
    <2> QED
      BY <2>1, <2>2, Join
  <1>7. ASSUME NEW k \in 1..n, Lies(f[k], buf, at)
        PROVE  Lies(f[k - 1], buf, at) /\ Lies(seqs[k], buf, at + Len(f[k - 1]))
    <2>1. f[k] = f[k - 1] \o seqs[k]
      BY <1>2 DEF Sums
    <2>2. f[k - 1] \in ByteSeq /\ seqs[k] \in ByteSeq
      BY <1>1, <1>4, <1>5
    <2> QED
      BY <1>7, <2>1, <2>2, LiesParts
  <1> DEFINE T == {j \in Nat : j <= n => Lies(f[n - j], buf, at)}
  <1>8. 0 \in T
    BY <1>1, <1>3
  <1>9. ASSUME NEW j \in Nat, j \in T PROVE j + 1 \in T
    <2> SUFFICES ASSUME j + 1 <= n PROVE Lies(f[n - (j + 1)], buf, at)
      OBVIOUS
    <2>1. n - j \in 1..n /\ (n - j) - 1 = n - (j + 1) /\ j <= n
      BY <1>1
    <2> QED
      BY <1>7, <1>9, <2>1
  <1>10. ASSUME NEW k \in 0..n PROVE Lies(f[k], buf, at)
    <2>1. n - k \in Nat /\ n - k <= n /\ n - (n - k) = k
      BY <1>1
    <2>2. n - k \in T
      <3> HIDE DEF T
      <3> QED
        BY <1>8, <1>9, <2>1, Induction
    <2> QED
      BY <2>1, <2>2
  <1> DEFINE ends == [k \in 0..n |-> at + Len(f[k])]
  <1>11. ends \in [0..n -> Nat]
    BY <1>4
  <1>12. ends[0] = at
    BY <1>1, <1>2 DEF Sums
  <1>13. ASSUME NEW k \in 1..n
         PROVE  ends[k] = ends[k - 1] + Len(seqs[k]) /\ Lies(seqs[k], buf, ends[k - 1])
    <2>1. ends[k] = at + Len(f[k]) /\ ends[k - 1] = at + Len(f[k - 1])
      BY <1>5
    <2>2. Lies(seqs[k], buf, ends[k - 1])
      BY <1>5, <1>7, <1>10, <2>1
    <2> HIDE DEF ends
    <2>3. at + Len(f[k]) = at + Len(f[k - 1]) + Len(seqs[k])
      <3> DEFINE x == Len(f[k - 1])
                 y == Len(seqs[k])
      <3>1. x \in Nat /\ y \in Nat /\ Len(f[k]) = x + y
        BY <1>6
      <3> HIDE DEF x, y
      <3>2. at + Len(f[k]) = at + x + y
        BY <3>1
      <3> QED
        BY <3>2 DEF x, y
    <2> QED
      BY <2>1, <2>2, <2>3
  <1>14. ends[n] = at + Len(f[n])
    BY <1>1
  <1> HIDE DEF ends
  <1> QED
    BY <1>3, <1>11, <1>12, <1>13, <1>14 DEF Placed, n

-----------------------------------------------------------------------------
(* The loops.                                                              *)

\* What one round of a loop makes of what it has, d, and what it reads, e.
Round(d, e) == IF d.ok /\ e.ok THEN Reached(e.at, Append(d.val, e.val)) ELSE Failed

\* What is read in the kth round; h are the headers of v1 instructions.
ItemOf(kind, buf, h, d, k) ==
  CASE kind = "key"         -> Key(buf, d)
    [] kind = "instruction" -> Instruction(buf, d)
    [] kind = "lookup"      -> Lookup(buf, d)
    [] kind = "contents"    -> Contents(buf, d, SubSeq(h, 4 * k - 3, 4 * k))

\* The equation that Repeat solves.
Loops(kind, buf, h, n, c, g) ==
  g = [k \in 0..n |-> IF k = 0 THEN [c EXCEPT !.val = <<>>]
                      ELSE Round(g[k - 1], ItemOf(kind, buf, h, g[k - 1], k))]

\* The kth round of a loop ends at ends[k] and finds items[k].
ReadsAll(kind, buf, h, items, ends) ==
  \A k \in 1..Len(items) :
    /\ ends[k - 1] <= ends[k]
    /\ Gives(ItemOf(kind, buf, h,
                    Outcome(buf, ends[k - 1], SubSeq(items, 1, k - 1)), k),
             buf, ends[k], items[k])

LEMMA RoundOutcome ==
  ASSUME NEW D, NEW items \in Seq(D), NEW k \in 1..Len(items),
         NEW buf \in ByteSeq, NEW from \in Nat, NEW to \in Nat, from <= to,
         NEW e, Gives(e, buf, to, items[k])
  PROVE  Round(Outcome(buf, from, SubSeq(items, 1, k - 1)), e)
           = Outcome(buf, to, SubSeq(items, 1, k))
  <1> DEFINE d == Outcome(buf, from, SubSeq(items, 1, k - 1))
  <1>1. Len(buf) \in Nat /\ Len(items) \in Nat
    BY DEF ByteSeq
  <1>2. CASE to <= Len(buf)
    <2>1. from <= Len(buf)
      BY <1>1, <1>2
    <2>2. d = Reached(from, SubSeq(items, 1, k - 1)) /\ e = Reached(to, items[k])
      BY <1>2, <2>1 DEF Outcome, Gives
    <2>3. Append(SubSeq(items, 1, k - 1), items[k]) = SubSeq(items, 1, k)
      <3> DEFINE s == SubSeq(items, 1, k - 1)
                 t == SubSeq(items, 1, k)
      <3>1. s \in Seq(D) /\ Len(s) = k - 1 /\ \A i \in 1..(k - 1) : s[i] = items[i]
        BY <1>1
      <3>2. t \in Seq(D) /\ Len(t) = k /\ \A i \in 1..k : t[i] = items[i]
        BY <1>1
      <3>3. items[k] \in D
        OBVIOUS
      <3> HIDE DEF s, t
      <3>4. /\ Append(s, items[k]) \in Seq(D) /\ Len(Append(s, items[k])) = k
            /\ \A i \in 1..k : Append(s, items[k])[i] = t[i]
        BY <3>1, <3>2, <3>3
      <3>5. Append(s, items[k]) = t
        <4> DEFINE a == Append(s, items[k])
        <4>1. a \in Seq(D) /\ Len(a) = k /\ \A i \in 1..k : a[i] = t[i]
          BY <3>4
        <4> HIDE DEF a
        <4>2. a = t
          BY <3>2, <4>1
        <4> QED
          BY <4>2 DEF a
      <3> QED
        BY <3>5 DEF s, t
    <2>4. Round(d, e) = Reached(to, Append(SubSeq(items, 1, k - 1), items[k]))
      <3>1. d.ok /\ d.val = SubSeq(items, 1, k - 1)
        BY <2>2 DEF Reached
      <3>2. e.ok /\ e.at = to /\ e.val = items[k]
        BY <2>2 DEF Reached
      <3> HIDE DEF d
      <3> QED
        BY <3>1, <3>2 DEF Round
    <2> QED
      BY <1>2, <2>3, <2>4 DEF Outcome
  <1>3. CASE ~(to <= Len(buf))
    <2>1. ~e.ok
      BY <1>3 DEF Gives
    <2> QED
      BY <1>3, <2>1 DEF Round, Outcome
  <1> QED
    BY <1>2, <1>3

\* A loop over items that lie one behind the other reads them all, or fails.
LEMMA LoopOutcome ==
  ASSUME NEW kind, NEW buf \in ByteSeq, NEW h, NEW D, NEW items \in Seq(D),
         NEW ends \in [0..Len(items) -> Nat], ReadsAll(kind, buf, h, items, ends),
         NEW v, NEW c, c = Outcome(buf, ends[0], v)
  PROVE  LET n == Len(items) IN
         /\ \E g : Loops(kind, buf, h, n, c, g)
         /\ \A g : Loops(kind, buf, h, n, c, g) => g[n] = Outcome(buf, ends[n], items)
  <1> DEFINE n == Len(items)
             w == [k \in 0..n |-> Outcome(buf, ends[k], SubSeq(items, 1, k))]
             next(d, k) == Round(d, ItemOf(kind, buf, h, d, k))
  <1>1. n \in Nat
    OBVIOUS
  <1>2. w[0] = [c EXCEPT !.val = <<>>]
    <2>1. w[0] = Outcome(buf, ends[0], SubSeq(items, 1, 0))
      BY <1>1
    <2>2. SubSeq(items, 1, 0) = <<>>
      OBVIOUS
    <2> HIDE DEF w
    <2>3. CASE ends[0] <= Len(buf)
      <3>1. c = Reached(ends[0], v) /\ w[0] = Reached(ends[0], <<>>)
        BY <2>1, <2>2, <2>3 DEF Outcome
      <3>2. \A x, y : [Reached(x, y) EXCEPT !.val = <<>>] = Reached(x, <<>>)
        BY DEF Reached
      <3> QED
        BY <3>1, <3>2
    <2>4. CASE ~(ends[0] <= Len(buf))
      <3>1. c = Failed /\ w[0] = Failed
        BY <2>1, <2>4 DEF Outcome
      <3> QED
        BY <3>1 DEF Failed
    <2> QED
      BY <2>3, <2>4
  <1>3. ASSUME NEW k \in 1..n PROVE w[k] = next(w[k - 1], k)
    <2>1. k - 1 \in 0..n /\ k \in 0..n
      BY <1>1
    <2>2. ends[k - 1] \in Nat /\ ends[k] \in Nat /\ ends[k - 1] <= ends[k]
      BY <2>1 DEF ReadsAll
    <2> DEFINE d == Outcome(buf, ends[k - 1], SubSeq(items, 1, k - 1))
               e == ItemOf(kind, buf, h, d, k)
    <2>3. Gives(e, buf, ends[k], items[k])
      BY DEF ReadsAll
    <2>4. w[k - 1] = d /\ w[k] = Outcome(buf, ends[k], SubSeq(items, 1, k))
      BY <2>1
    <2> HIDE DEF e
    <2>5. Round(d, e) = Outcome(buf, ends[k], SubSeq(items, 1, k))
      BY <2>2, <2>3, RoundOutcome
    <2> HIDE DEF w, d
    <2> QED
      BY <2>4, <2>5 DEF e
  <1>4. w[n] = Outcome(buf, ends[n], items)
    <2>1. SubSeq(items, 1, n) = items
      OBVIOUS
    <2>2. n \in 0..n
      BY <1>1
    <2>3. w[n] = Outcome(buf, ends[n], SubSeq(items, 1, n))
      BY <2>2
    <2> HIDE DEF w, n
    <2> QED
      BY <2>1, <2>3
  <1> HIDE DEF next
  <1>5. w = [k \in 0..n |-> IF k = 0 THEN [c EXCEPT !.val = <<>>] ELSE next(w[k - 1], k)]
    <2>1. ASSUME NEW k \in 0..n
          PROVE  w[k] = IF k = 0 THEN [c EXCEPT !.val = <<>>] ELSE next(w[k - 1], k)
      <3>1. k # 0 => k \in 1..n
        BY <1>1
      <3> HIDE DEF w
      <3> QED
        BY <1>2, <1>3, <3>1
    <2> QED
      BY <2>1
  <1>6. Loops(kind, buf, h, n, c, w)
    <2> HIDE DEF w
    <2> QED
      BY <1>5 DEF Loops, next
  <1>7. ASSUME NEW g, Loops(kind, buf, h, n, c, g)
        PROVE  g[n] = Outcome(buf, ends[n], items)
    <2>1. g = [k \in 0..n |-> IF k = 0 THEN [c EXCEPT !.val = <<>>] ELSE next(g[k - 1], k)]
      BY <1>7 DEF Loops, next
    <2> HIDE DEF w
    <2>2. g[0] = [c EXCEPT !.val = <<>>] /\ \A k \in 1..n : g[k] = next(g[k - 1], k)
      <3> DEFINE first == [c EXCEPT !.val = <<>>]
      <3>1. \A k \in 0..n : g[k] = IF k = 0 THEN first ELSE next(g[k - 1], k)
        BY <2>1, Zenon
      <3> HIDE DEF first, n
      <3>2. g[0] = first /\ \A k \in 1..n : g[k] = next(g[k - 1], k)
        <4>1. 0 \in 0..n /\ \A k \in 1..n : k \in 0..n /\ k # 0
          BY <1>1
        <4> QED
          BY <3>1, <4>1
      <3> QED
        BY <3>2 DEF first
    <2>3. g[0] = w[0] /\ \A k \in 1..n : g[k - 1] = w[k - 1] => g[k] = w[k]
      BY <1>2, <1>3, <2>2
    <2>4. g[n] = w[n]
      BY <1>1, <2>3, SameRun
    <2> QED
      BY <1>4, <2>4
  <1> HIDE DEF w
  <1> QED
    BY <1>6, <1>7

\* The loops of DecodeLegacy and DecodeV1, by name.
KeyLoop(buf, n, c) == Repeat(n, c, LAMBDA d, i : Key(buf, d))
InstructionLoop(buf, n, c) == Repeat(n, c, LAMBDA d, i : Instruction(buf, d))
LookupLoop(buf, n, c) == Repeat(n, c, LAMBDA d, i : Lookup(buf, d))
ContentsLoop(buf, h, n, c) ==
  Repeat(n, c, LAMBDA d, i : Contents(buf, d, SubSeq(h, 4 * i - 3, 4 * i)))

LEMMA KeyLoopSolves ==
  ASSUME NEW buf, NEW h, NEW n \in Nat, NEW c,
         \E g : Loops("key", buf, h, n, c, g)
  PROVE  \E g : Loops("key", buf, h, n, c, g) /\ KeyLoop(buf, n, c) = g[n]
  <1> DEFINE Solves(g) ==
               g = [k \in 0..n |-> IF k = 0 THEN [c EXCEPT !.val = <<>>]
                                   ELSE Round(g[k - 1], Key(buf, g[k - 1]))]
             read == CHOOSE g : Solves(g)
  <1>1. KeyLoop(buf, n, c) = read[n]
    BY DEF KeyLoop, Repeat, Round
  <1>2. ASSUME NEW g PROVE Loops("key", buf, h, n, c, g) <=> Solves(g)
    BY DEF Loops, ItemOf
  <1>3. \E g : Solves(g)
    BY <1>2
  <1>4. Solves(read)
    <2> HIDE DEF Solves
    <2> QED
      BY <1>3
  <1> HIDE DEF Solves, read
  <1> QED
    BY <1>1, <1>2, <1>4

LEMMA InstructionLoopSolves ==
  ASSUME NEW buf, NEW h, NEW n \in Nat, NEW c,
         \E g : Loops("instruction", buf, h, n, c, g)
  PROVE  \E g : Loops("instruction", buf, h, n, c, g) /\ InstructionLoop(buf, n, c) = g[n]
  <1> DEFINE Solves(g) ==
               g = [k \in 0..n |-> IF k = 0 THEN [c EXCEPT !.val = <<>>]
                                   ELSE Round(g[k - 1], Instruction(buf, g[k - 1]))]
             read == CHOOSE g : Solves(g)
  <1>1. InstructionLoop(buf, n, c) = read[n]
    BY DEF InstructionLoop, Repeat, Round
  <1>2. ASSUME NEW g PROVE Loops("instruction", buf, h, n, c, g) <=> Solves(g)
    BY DEF Loops, ItemOf
  <1>3. \E g : Solves(g)
    BY <1>2
  <1>4. Solves(read)
    <2> HIDE DEF Solves
    <2> QED
      BY <1>3
  <1> HIDE DEF Solves, read
  <1> QED
    BY <1>1, <1>2, <1>4

LEMMA LookupLoopSolves ==
  ASSUME NEW buf, NEW h, NEW n \in Nat, NEW c,
         \E g : Loops("lookup", buf, h, n, c, g)
  PROVE  \E g : Loops("lookup", buf, h, n, c, g) /\ LookupLoop(buf, n, c) = g[n]
  <1> DEFINE Solves(g) ==
               g = [k \in 0..n |-> IF k = 0 THEN [c EXCEPT !.val = <<>>]
                                   ELSE Round(g[k - 1], Lookup(buf, g[k - 1]))]
             read == CHOOSE g : Solves(g)
  <1>1. LookupLoop(buf, n, c) = read[n]
    BY DEF LookupLoop, Repeat, Round
  <1>2. ASSUME NEW g PROVE Loops("lookup", buf, h, n, c, g) <=> Solves(g)
    BY DEF Loops, ItemOf
  <1>3. \E g : Solves(g)
    BY <1>2
  <1>4. Solves(read)
    <2> HIDE DEF Solves
    <2> QED
      BY <1>3
  <1> HIDE DEF Solves, read
  <1> QED
    BY <1>1, <1>2, <1>4

LEMMA ContentsLoopSolves ==
  ASSUME NEW buf, NEW h, NEW n \in Nat, NEW c,
         \E g : Loops("contents", buf, h, n, c, g)
  PROVE  \E g : Loops("contents", buf, h, n, c, g) /\ ContentsLoop(buf, h, n, c) = g[n]
  <1> DEFINE Solves(g) ==
               g = [k \in 0..n |-> IF k = 0 THEN [c EXCEPT !.val = <<>>]
                                   ELSE Round(g[k - 1], Contents(buf, g[k - 1], SubSeq(h, 4 * k - 3, 4 * k)))]
             read == CHOOSE g : Solves(g)
  <1>1. ContentsLoop(buf, h, n, c) = read[n]
    BY DEF ContentsLoop, Repeat, Round
  <1>2. ASSUME NEW g PROVE Loops("contents", buf, h, n, c, g) <=> Solves(g)
    BY DEF Loops, ItemOf
  <1>3. \E g : Solves(g)
    BY <1>2
  <1>4. Solves(read)
    <2> HIDE DEF Solves
    <2> QED
      BY <1>3
  <1> HIDE DEF Solves, read
  <1> QED
    BY <1>1, <1>2, <1>4

-----------------------------------------------------------------------------
(* What the loops read of keys, instructions and lookups.                  *)

LEMMA SeqsType ==
  ASSUME NEW n \in Nat, NEW s \in [1..n -> ByteSeq]
  PROVE  s \in Seq(ByteSeq) /\ Len(s) = n /\ Concat(s) \in ByteSeq /\ Len(Concat(s)) \in Nat
  <1>1. s \in Seq(ByteSeq) /\ Len(s) = n
    <2> HIDE DEF ByteSeq
    <2> QED
      OBVIOUS
  <1>2. PICK f : Sums(s, n, f)
    BY <1>1, SumsExist
  <1>3. Concat(s) \in ByteSeq
    BY <1>1, <1>2, ConcatSum
  <1> QED
    BY <1>1, <1>3 DEF ByteSeq


\* The encodings of the keys of s, one by one.
KeyCodes(s) == [i \in DOMAIN s |-> s[i]]

LEMMA KeyCodesType ==
  ASSUME NEW s \in Seq(Keys)
  PROVE  /\ KeyCodes(s) \in Seq(ByteSeq) /\ Len(KeyCodes(s)) = Len(s)
         /\ Concat(KeyCodes(s)) \in ByteSeq /\ Len(Concat(KeyCodes(s))) \in Nat
  <1>1. Len(s) \in Nat /\ DOMAIN s = 1..Len(s) /\ \A i \in 1..Len(s) : s[i] \in Keys
    OBVIOUS
  <1>2. ASSUME NEW one \in Keys PROVE one \in ByteSeq
    BY KeyType
  <1>3. KeyCodes(s) \in [1..Len(s) -> ByteSeq]
    BY <1>1, <1>2 DEF KeyCodes
  <1> QED
    BY <1>1, <1>3, SeqsType

LEMMA KeyLoopOutcome ==
  ASSUME NEW buf \in ByteSeq, NEW s \in Seq(Keys),
         NEW at \in Nat, NEW v, NEW c, c = Outcome(buf, at, v),
         Lies(Concat(KeyCodes(s)), buf, at)
  PROVE  KeyLoop(buf, Len(s), c)
           = Outcome(buf, at + Len(Concat(KeyCodes(s))), s)
  <1> DEFINE codes == KeyCodes(s)
             n == Len(s)
             h == <<>>
  <1>1. n \in Nat /\ DOMAIN s = 1..n /\ \A k \in 1..n : s[k] \in Keys
    OBVIOUS
  <1>2. codes \in Seq(ByteSeq) /\ Len(codes) = n
    BY KeyCodesType
  <1>3. \A k \in 1..n : codes[k] = s[k] /\ Len(codes[k]) \in Nat
    BY <1>1, <1>2 DEF KeyCodes, ByteSeq
  <1> HIDE DEF codes
  <1>4. PICK ends : /\ Placed(codes, buf, at, ends)
                    /\ ends[n] = at + Len(Concat(codes))
    BY <1>2, ConcatPlaced DEF codes
  <1>5. /\ ends \in [0..n -> Nat] /\ ends[0] = at
        /\ \A k \in 1..n : /\ ends[k] = ends[k - 1] + Len(codes[k])
                           /\ Lies(codes[k], buf, ends[k - 1])
    BY <1>2, <1>4 DEF Placed
  <1>6. ASSUME NEW k \in 1..n
        PROVE  /\ ends[k - 1] <= ends[k]
               /\ Gives(ItemOf("key", buf, h,
                               Outcome(buf, ends[k - 1], SubSeq(s, 1, k - 1)), k),
                        buf, ends[k], s[k])
    <2>1. ends[k - 1] \in Nat /\ ends[k] \in Nat
      <3>1. k - 1 \in 0..n /\ k \in 0..n
        BY <1>1
      <3> QED
        BY <1>5, <3>1
    <2> DEFINE d == Outcome(buf, ends[k - 1], SubSeq(s, 1, k - 1))
    <2>2. ItemOf("key", buf, h, d, k) = Key(buf, d)
      BY DEF ItemOf
    <2>3. Lies(s[k], buf, ends[k - 1])
      BY <1>3, <1>5
    <2>4. Gives(Key(buf, d), buf, ends[k - 1] + Len(s[k]), s[k])
      BY <1>1, <2>1, <2>3, KeyGives
    <2>5. ends[k - 1] + Len(s[k]) = ends[k] /\ ends[k - 1] <= ends[k]
      <3>1. Len(s[k]) \in Nat
        BY <1>3
      <3>2. ends[k] = ends[k - 1] + Len(s[k])
        <4>1. ends[k] = ends[k - 1] + Len(codes[k]) /\ codes[k] = s[k]
          BY <1>3, <1>5
        <4> QED
          BY <4>1
      <3> HIDE DEF d
      <3> QED
        BY <2>1, <3>1, <3>2
    <2> QED
      BY <2>2, <2>4, <2>5
  <1>7. ReadsAll("key", buf, h, s, ends)
    BY <1>6 DEF ReadsAll
  <1>8. /\ \E g : Loops("key", buf, h, n, c, g)
        /\ \A g : Loops("key", buf, h, n, c, g) => g[n] = Outcome(buf, ends[n], s)
    <2>1. ends \in [0..Len(s) -> Nat] /\ c = Outcome(buf, ends[0], v)
      BY <1>5
    <2> QED
      BY <1>7, <2>1, LoopOutcome
  <1>9. KeyLoop(buf, n, c) = Outcome(buf, ends[n], s)
    BY <1>1, <1>8, KeyLoopSolves
  <1> QED
    BY <1>4, <1>9 DEF codes

\* The encodings of the instrs of s, one by one.
InstructionCodes(s) == [i \in DOMAIN s |-> EncodeInstruction(s[i])]

LEMMA InstructionCodesType ==
  ASSUME NEW s \in Seq(InstrSet)
  PROVE  /\ InstructionCodes(s) \in Seq(ByteSeq) /\ Len(InstructionCodes(s)) = Len(s)
         /\ Concat(InstructionCodes(s)) \in ByteSeq /\ Len(Concat(InstructionCodes(s))) \in Nat
  <1>1. Len(s) \in Nat /\ DOMAIN s = 1..Len(s) /\ \A i \in 1..Len(s) : s[i] \in InstrSet
    OBVIOUS
  <1>2. ASSUME NEW one \in InstrSet PROVE EncodeInstruction(one) \in ByteSeq
    BY InstructionType
  <1>3. InstructionCodes(s) \in [1..Len(s) -> ByteSeq]
    BY <1>1, <1>2 DEF InstructionCodes
  <1> QED
    BY <1>1, <1>3, SeqsType

LEMMA InstructionLoopOutcome ==
  ASSUME NEW buf \in ByteSeq, NEW s \in Seq(InstrSet),
         NEW at \in Nat, NEW v, NEW c, c = Outcome(buf, at, v),
         Lies(Concat(InstructionCodes(s)), buf, at)
  PROVE  InstructionLoop(buf, Len(s), c)
           = Outcome(buf, at + Len(Concat(InstructionCodes(s))), s)
  <1> DEFINE codes == InstructionCodes(s)
             n == Len(s)
             h == <<>>
  <1>1. n \in Nat /\ DOMAIN s = 1..n /\ \A k \in 1..n : s[k] \in InstrSet
    OBVIOUS
  <1>2. codes \in Seq(ByteSeq) /\ Len(codes) = n
    BY InstructionCodesType
  <1>3. \A k \in 1..n : codes[k] = EncodeInstruction(s[k]) /\ Len(codes[k]) \in Nat
    BY <1>1, <1>2 DEF InstructionCodes, ByteSeq
  <1> HIDE DEF codes
  <1>4. PICK ends : /\ Placed(codes, buf, at, ends)
                    /\ ends[n] = at + Len(Concat(codes))
    BY <1>2, ConcatPlaced DEF codes
  <1>5. /\ ends \in [0..n -> Nat] /\ ends[0] = at
        /\ \A k \in 1..n : /\ ends[k] = ends[k - 1] + Len(codes[k])
                           /\ Lies(codes[k], buf, ends[k - 1])
    BY <1>2, <1>4 DEF Placed
  <1>6. ASSUME NEW k \in 1..n
        PROVE  /\ ends[k - 1] <= ends[k]
               /\ Gives(ItemOf("instruction", buf, h,
                               Outcome(buf, ends[k - 1], SubSeq(s, 1, k - 1)), k),
                        buf, ends[k], s[k])
    <2>1. ends[k - 1] \in Nat /\ ends[k] \in Nat
      <3>1. k - 1 \in 0..n /\ k \in 0..n
        BY <1>1
      <3> QED
        BY <1>5, <3>1
    <2> DEFINE d == Outcome(buf, ends[k - 1], SubSeq(s, 1, k - 1))
    <2>2. ItemOf("instruction", buf, h, d, k) = Instruction(buf, d)
      BY DEF ItemOf
    <2>3. Lies(EncodeInstruction(s[k]), buf, ends[k - 1])
      BY <1>3, <1>5
    <2>4. Gives(Instruction(buf, d), buf, ends[k - 1] + Len(EncodeInstruction(s[k])), s[k])
      BY <1>1, <2>1, <2>3, InstructionGives
    <2>5. ends[k - 1] + Len(EncodeInstruction(s[k])) = ends[k] /\ ends[k - 1] <= ends[k]
      BY <1>3, <1>5, <2>1
    <2> QED
      BY <2>2, <2>4, <2>5
  <1>7. ReadsAll("instruction", buf, h, s, ends)
    BY <1>6 DEF ReadsAll
  <1>8. /\ \E g : Loops("instruction", buf, h, n, c, g)
        /\ \A g : Loops("instruction", buf, h, n, c, g) => g[n] = Outcome(buf, ends[n], s)
    <2>1. ends \in [0..Len(s) -> Nat] /\ c = Outcome(buf, ends[0], v)
      BY <1>5
    <2> QED
      BY <1>7, <2>1, LoopOutcome
  <1>9. InstructionLoop(buf, n, c) = Outcome(buf, ends[n], s)
    BY <1>1, <1>8, InstructionLoopSolves
  <1> QED
    BY <1>4, <1>9 DEF codes

\* The encodings of the lookups of s, one by one.
LookupCodes(s) == [i \in DOMAIN s |-> EncodeLookup(s[i])]

LEMMA LookupCodesType ==
  ASSUME NEW s \in Seq(LookupSet)
  PROVE  /\ LookupCodes(s) \in Seq(ByteSeq) /\ Len(LookupCodes(s)) = Len(s)
         /\ Concat(LookupCodes(s)) \in ByteSeq /\ Len(Concat(LookupCodes(s))) \in Nat
  <1>1. Len(s) \in Nat /\ DOMAIN s = 1..Len(s) /\ \A i \in 1..Len(s) : s[i] \in LookupSet
    OBVIOUS
  <1>2. ASSUME NEW one \in LookupSet PROVE EncodeLookup(one) \in ByteSeq
    BY LookupType
  <1>3. LookupCodes(s) \in [1..Len(s) -> ByteSeq]
    BY <1>1, <1>2 DEF LookupCodes
  <1> QED
    BY <1>1, <1>3, SeqsType

LEMMA LookupLoopOutcome ==
  ASSUME NEW buf \in ByteSeq, NEW s \in Seq(LookupSet),
         NEW at \in Nat, NEW v, NEW c, c = Outcome(buf, at, v),
         Lies(Concat(LookupCodes(s)), buf, at)
  PROVE  LookupLoop(buf, Len(s), c)
           = Outcome(buf, at + Len(Concat(LookupCodes(s))), s)
  <1> DEFINE codes == LookupCodes(s)
             n == Len(s)
             h == <<>>
  <1>1. n \in Nat /\ DOMAIN s = 1..n /\ \A k \in 1..n : s[k] \in LookupSet
    OBVIOUS
  <1>2. codes \in Seq(ByteSeq) /\ Len(codes) = n
    BY LookupCodesType
  <1>3. \A k \in 1..n : codes[k] = EncodeLookup(s[k]) /\ Len(codes[k]) \in Nat
    BY <1>1, <1>2 DEF LookupCodes, ByteSeq
  <1> HIDE DEF codes
  <1>4. PICK ends : /\ Placed(codes, buf, at, ends)
                    /\ ends[n] = at + Len(Concat(codes))
    BY <1>2, ConcatPlaced DEF codes
  <1>5. /\ ends \in [0..n -> Nat] /\ ends[0] = at
        /\ \A k \in 1..n : /\ ends[k] = ends[k - 1] + Len(codes[k])
                           /\ Lies(codes[k], buf, ends[k - 1])
    BY <1>2, <1>4 DEF Placed
  <1>6. ASSUME NEW k \in 1..n
        PROVE  /\ ends[k - 1] <= ends[k]
               /\ Gives(ItemOf("lookup", buf, h,
                               Outcome(buf, ends[k - 1], SubSeq(s, 1, k - 1)), k),
                        buf, ends[k], s[k])
    <2>1. ends[k - 1] \in Nat /\ ends[k] \in Nat
      <3>1. k - 1 \in 0..n /\ k \in 0..n
        BY <1>1
      <3> QED
        BY <1>5, <3>1
    <2> DEFINE d == Outcome(buf, ends[k - 1], SubSeq(s, 1, k - 1))
    <2>2. ItemOf("lookup", buf, h, d, k) = Lookup(buf, d)
      BY DEF ItemOf
    <2>3. Lies(EncodeLookup(s[k]), buf, ends[k - 1])
      BY <1>3, <1>5
    <2>4. Gives(Lookup(buf, d), buf, ends[k - 1] + Len(EncodeLookup(s[k])), s[k])
      BY <1>1, <2>1, <2>3, LookupGives
    <2>5. ends[k - 1] + Len(EncodeLookup(s[k])) = ends[k] /\ ends[k - 1] <= ends[k]
      BY <1>3, <1>5, <2>1
    <2> QED
      BY <2>2, <2>4, <2>5
  <1>7. ReadsAll("lookup", buf, h, s, ends)
    BY <1>6 DEF ReadsAll
  <1>8. /\ \E g : Loops("lookup", buf, h, n, c, g)
        /\ \A g : Loops("lookup", buf, h, n, c, g) => g[n] = Outcome(buf, ends[n], s)
    <2>1. ends \in [0..Len(s) -> Nat] /\ c = Outcome(buf, ends[0], v)
      BY <1>5
    <2> QED
      BY <1>7, <2>1, LoopOutcome
  <1>9. LookupLoop(buf, n, c) = Outcome(buf, ends[n], s)
    BY <1>1, <1>8, LookupLoopSolves
  <1> QED
    BY <1>4, <1>9 DEF codes

\* The encodings of the instrs of s, one by one.
ContentsCodes(s) == [i \in DOMAIN s |-> V1Contents(s[i])]

LEMMA ContentsCodesType ==
  ASSUME NEW s \in Seq(InstrSet)
  PROVE  /\ ContentsCodes(s) \in Seq(ByteSeq) /\ Len(ContentsCodes(s)) = Len(s)
         /\ Concat(ContentsCodes(s)) \in ByteSeq /\ Len(Concat(ContentsCodes(s))) \in Nat
  <1>1. Len(s) \in Nat /\ DOMAIN s = 1..Len(s) /\ \A i \in 1..Len(s) : s[i] \in InstrSet
    OBVIOUS
  <1>2. ASSUME NEW one \in InstrSet PROVE V1Contents(one) \in ByteSeq
    BY ContentsType
  <1>3. ContentsCodes(s) \in [1..Len(s) -> ByteSeq]
    BY <1>1, <1>2 DEF ContentsCodes
  <1> QED
    BY <1>1, <1>3, SeqsType

\* The headers in h are those of the instructions of s.
HeadersOf(h, s) == \A k \in 1..Len(s) : SubSeq(h, 4 * k - 3, 4 * k) = V1Header(s[k])

LEMMA ContentsLoopOutcome ==
  ASSUME NEW buf \in ByteSeq, NEW s \in Seq(InstrSet),
         NEW h, HeadersOf(h, s),
         NEW at \in Nat, NEW v, NEW c, c = Outcome(buf, at, v),
         Lies(Concat(ContentsCodes(s)), buf, at)
  PROVE  ContentsLoop(buf, h, Len(s), c)
           = Outcome(buf, at + Len(Concat(ContentsCodes(s))), s)
  <1> DEFINE codes == ContentsCodes(s)
             n == Len(s)
  <1>1. n \in Nat /\ DOMAIN s = 1..n /\ \A k \in 1..n : s[k] \in InstrSet
    OBVIOUS
  <1>2. codes \in Seq(ByteSeq) /\ Len(codes) = n
    BY ContentsCodesType
  <1>3. \A k \in 1..n : codes[k] = V1Contents(s[k]) /\ Len(codes[k]) \in Nat
    BY <1>1, <1>2 DEF ContentsCodes, ByteSeq
  <1> HIDE DEF codes
  <1>4. PICK ends : /\ Placed(codes, buf, at, ends)
                    /\ ends[n] = at + Len(Concat(codes))
    BY <1>2, ConcatPlaced DEF codes
  <1>5. /\ ends \in [0..n -> Nat] /\ ends[0] = at
        /\ \A k \in 1..n : /\ ends[k] = ends[k - 1] + Len(codes[k])
                           /\ Lies(codes[k], buf, ends[k - 1])
    BY <1>2, <1>4 DEF Placed
  <1>6. ASSUME NEW k \in 1..n
        PROVE  /\ ends[k - 1] <= ends[k]
               /\ Gives(ItemOf("contents", buf, h,
                               Outcome(buf, ends[k - 1], SubSeq(s, 1, k - 1)), k),
                        buf, ends[k], s[k])
    <2>1. ends[k - 1] \in Nat /\ ends[k] \in Nat
      <3>1. k - 1 \in 0..n /\ k \in 0..n
        BY <1>1
      <3> QED
        BY <1>5, <3>1
    <2> DEFINE d == Outcome(buf, ends[k - 1], SubSeq(s, 1, k - 1))
    <2>2. ItemOf("contents", buf, h, d, k) = Contents(buf, d, SubSeq(h, 4 * k - 3, 4 * k))
      BY DEF ItemOf
    <2>3. Lies(V1Contents(s[k]), buf, ends[k - 1])
      BY <1>3, <1>5
    <2>4. Gives(Contents(buf, d, V1Header(s[k])), buf, ends[k - 1] + Len(V1Contents(s[k])), s[k])
      BY <1>1, <2>1, <2>3, ContentsGives
    <2>5. ends[k - 1] + Len(V1Contents(s[k])) = ends[k] /\ ends[k - 1] <= ends[k]
      BY <1>3, <1>5, <2>1
    <2>6. SubSeq(h, 4 * k - 3, 4 * k) = V1Header(s[k])
      BY DEF HeadersOf
    <2> QED
      BY <2>2, <2>4, <2>5, <2>6
  <1>7. ReadsAll("contents", buf, h, s, ends)
    BY <1>6 DEF ReadsAll
  <1>8. /\ \E g : Loops("contents", buf, h, n, c, g)
        /\ \A g : Loops("contents", buf, h, n, c, g) => g[n] = Outcome(buf, ends[n], s)
    <2>1. ends \in [0..Len(s) -> Nat] /\ c = Outcome(buf, ends[0], v)
      BY <1>5
    <2> QED
      BY <1>7, <2>1, LoopOutcome
  <1>9. ContentsLoop(buf, h, n, c) = Outcome(buf, ends[n], s)
    BY <1>1, <1>8, ContentsLoopSolves
  <1> QED
    BY <1>4, <1>9 DEF codes

-----------------------------------------------------------------------------
(* Vectors: a shortvec and as many items.                                  *)

LEMMA VectorParts ==
  ASSUME NEW buf \in ByteSeq, NEW k \in Countable, NEW code \in ByteSeq,
         NEW at \in Nat, NEW v, NEW c, c = Outcome(buf, at, v),
         Lies(EncodeShortvec(k) \o code, buf, at)
  PROVE  LET n == Shortvec(buf, c)
             behind == at + Len(EncodeShortvec(k))
         IN  /\ n = Outcome(buf, behind, k) /\ behind \in Nat
             /\ Lies(code, buf, behind)
             /\ EncodeShortvec(k) \o code \in ByteSeq
             /\ at + Len(EncodeShortvec(k) \o code) = behind + Len(code)
             /\ n.ok => n.val = k
             /\ ~n.ok => ~(behind + Len(code) <= Len(buf))
  <1> DEFINE e == EncodeShortvec(k)
             n == Shortvec(buf, c)
             behind == at + Len(e)
  <1>1. e \in ByteSeq
    BY ShortvecShape
  <1>2. /\ Len(e) \in Nat /\ Len(code) \in Nat /\ Len(e \o code) = Len(e) + Len(code)
        /\ e \o code \in ByteSeq
    BY <1>1, Join
  <1>3. Lies(e, buf, at) /\ Lies(code, buf, behind)
    BY <1>1, LiesParts
  <1>4. n = Outcome(buf, behind, k)
    BY <1>3, ShortvecOutcome
  <1> HIDE DEF e, n
  <1>5. /\ behind \in Nat /\ at + Len(e \o code) = behind + Len(code)
        /\ Len(buf) \in Nat
    BY <1>2 DEF ByteSeq
  <1>6. n.ok <=> behind <= Len(buf)
    BY <1>4, OutcomeOk
  <1>7. n.ok => n.val = k
    BY <1>4, <1>6 DEF Outcome, Reached
  <1>8. ~n.ok => ~(behind + Len(code) <= Len(buf))
    <2> HIDE DEF behind
    <2> QED
      BY <1>2, <1>5, <1>6
  <1> QED
    BY <1>2, <1>3, <1>4, <1>5, <1>7, <1>8 DEF e, n

KeyVector(buf, c) == Vector(buf, c, LAMBDA d, i : Key(buf, d))
KeysCode(s) == EncodeShortvec(Len(s)) \o Concat(KeyCodes(s))

LEMMA KeyVectorOutcome ==
  ASSUME NEW buf \in ByteSeq, NEW s \in Seq(Keys), Len(s) \in Countable,
         NEW at \in Nat, NEW v, NEW c, c = Outcome(buf, at, v),
         Lies(KeysCode(s), buf, at)
  PROVE  KeyVector(buf, c) = Outcome(buf, at + Len(KeysCode(s)), s)
  <1> DEFINE code == Concat(KeyCodes(s))
             n == Shortvec(buf, c)
             behind == at + Len(EncodeShortvec(Len(s)))
             end == behind + Len(code)
  <1>1. code \in ByteSeq
    BY KeyCodesType
  <1>2. /\ n = Outcome(buf, behind, Len(s)) /\ behind \in Nat
        /\ Lies(code, buf, behind)
        /\ at + Len(KeysCode(s)) = end
        /\ n.ok => n.val = Len(s)
        /\ ~n.ok => ~(end <= Len(buf))
    BY <1>1, VectorParts DEF KeysCode
  <1>3. KeyVector(buf, c) = IF n.ok THEN KeyLoop(buf, n.val, n) ELSE Failed
    BY DEF KeyVector, Vector, KeyLoop, Repeat
  <1> HIDE DEF n, behind
  <1>4. KeyLoop(buf, Len(s), n) = Outcome(buf, end, s)
    BY <1>2, KeyLoopOutcome
  <1>5. ~n.ok => Outcome(buf, end, s) = Failed
    BY <1>2 DEF Outcome
  <1> QED
    BY <1>2, <1>3, <1>4, <1>5

InstructionVector(buf, c) == Vector(buf, c, LAMBDA d, i : Instruction(buf, d))
InstructionsCode(s) == EncodeShortvec(Len(s)) \o Concat(InstructionCodes(s))

LEMMA InstructionVectorOutcome ==
  ASSUME NEW buf \in ByteSeq, NEW s \in Seq(InstrSet), Len(s) \in Countable,
         NEW at \in Nat, NEW v, NEW c, c = Outcome(buf, at, v),
         Lies(InstructionsCode(s), buf, at)
  PROVE  InstructionVector(buf, c) = Outcome(buf, at + Len(InstructionsCode(s)), s)
  <1> DEFINE code == Concat(InstructionCodes(s))
             n == Shortvec(buf, c)
             behind == at + Len(EncodeShortvec(Len(s)))
             end == behind + Len(code)
  <1>1. code \in ByteSeq
    BY InstructionCodesType
  <1>2. /\ n = Outcome(buf, behind, Len(s)) /\ behind \in Nat
        /\ Lies(code, buf, behind)
        /\ at + Len(InstructionsCode(s)) = end
        /\ n.ok => n.val = Len(s)
        /\ ~n.ok => ~(end <= Len(buf))
    BY <1>1, VectorParts DEF InstructionsCode
  <1>3. InstructionVector(buf, c) = IF n.ok THEN InstructionLoop(buf, n.val, n) ELSE Failed
    BY DEF InstructionVector, Vector, InstructionLoop, Repeat
  <1> HIDE DEF n, behind
  <1>4. InstructionLoop(buf, Len(s), n) = Outcome(buf, end, s)
    BY <1>2, InstructionLoopOutcome
  <1>5. ~n.ok => Outcome(buf, end, s) = Failed
    BY <1>2 DEF Outcome
  <1> QED
    BY <1>2, <1>3, <1>4, <1>5

LookupVector(buf, c) == Vector(buf, c, LAMBDA d, i : Lookup(buf, d))
LookupsCode(s) == EncodeShortvec(Len(s)) \o Concat(LookupCodes(s))

LEMMA LookupVectorOutcome ==
  ASSUME NEW buf \in ByteSeq, NEW s \in Seq(LookupSet), Len(s) \in Countable,
         NEW at \in Nat, NEW v, NEW c, c = Outcome(buf, at, v),
         Lies(LookupsCode(s), buf, at)
  PROVE  LookupVector(buf, c) = Outcome(buf, at + Len(LookupsCode(s)), s)
  <1> DEFINE code == Concat(LookupCodes(s))
             n == Shortvec(buf, c)
             behind == at + Len(EncodeShortvec(Len(s)))
             end == behind + Len(code)
  <1>1. code \in ByteSeq
    BY LookupCodesType
  <1>2. /\ n = Outcome(buf, behind, Len(s)) /\ behind \in Nat
        /\ Lies(code, buf, behind)
        /\ at + Len(LookupsCode(s)) = end
        /\ n.ok => n.val = Len(s)
        /\ ~n.ok => ~(end <= Len(buf))
    BY <1>1, VectorParts DEF LookupsCode
  <1>3. LookupVector(buf, c) = IF n.ok THEN LookupLoop(buf, n.val, n) ELSE Failed
    BY DEF LookupVector, Vector, LookupLoop, Repeat
  <1> HIDE DEF n, behind
  <1>4. LookupLoop(buf, Len(s), n) = Outcome(buf, end, s)
    BY <1>2, LookupLoopOutcome
  <1>5. ~n.ok => Outcome(buf, end, s) = Failed
    BY <1>2 DEF Outcome
  <1> QED
    BY <1>2, <1>3, <1>4, <1>5

LEMMA CodesType ==
  /\ \A s \in Seq(Keys) : Len(s) \in Countable => KeysCode(s) \in ByteSeq
  /\ \A s \in Seq(InstrSet) : Len(s) \in Countable => InstructionsCode(s) \in ByteSeq
  /\ \A s \in Seq(LookupSet) : Len(s) \in Countable => LookupsCode(s) \in ByteSeq
  <1>1. ASSUME NEW s \in Seq(Keys), Len(s) \in Countable PROVE KeysCode(s) \in ByteSeq
    BY <1>1, ShortvecShape, KeyCodesType, Join DEF KeysCode
  <1>2. ASSUME NEW s \in Seq(InstrSet), Len(s) \in Countable
        PROVE  InstructionsCode(s) \in ByteSeq
    BY <1>2, ShortvecShape, InstructionCodesType, Join DEF InstructionsCode
  <1>3. ASSUME NEW s \in Seq(LookupSet), Len(s) \in Countable
        PROVE  LookupsCode(s) \in ByteSeq
    BY <1>3, ShortvecShape, LookupCodesType, Join DEF LookupsCode
  <1> QED
    BY <1>1, <1>2, <1>3

-----------------------------------------------------------------------------
(* Messages of the legacy and the versioned layout.                        *)

LEMMA MessageFields ==
  ASSUME NEW m, IsMessage(m)
  PROVE  /\ m.header \in ByteSeq /\ Len(m.header) = 3
         /\ m.token \in Keys /\ m.token \in ByteSeq /\ Len(m.token) = KeyLen
         /\ m.keys \in Seq(Keys) /\ Len(m.keys) \in Countable
         /\ m.instrs \in Seq(InstrSet) /\ Len(m.instrs) \in Countable
         /\ m.lookups \in Seq(LookupSet) /\ Len(m.lookups) \in Countable
  <1>1. /\ m.header \in [1..3 -> 0..255] /\ m.token \in Keys /\ m.keys \in Seq(Keys)
        /\ m.instrs \in Seq(InstrSet) /\ m.lookups \in Seq(LookupSet)
        /\ Len(m.keys) \div 256 < 256 /\ Len(m.instrs) \div 256 < 256
        /\ Len(m.lookups) \div 256 < 256
    BY ZenonT(60) DEF IsMessage, InstrSet, LookupSet
  <1>2. ASSUME NEW n \in Nat, n \div 256 < 256 PROVE n \in Countable
    BY <1>2 DEF Countable
  <1>3. Len(m.keys) \in Nat /\ Len(m.instrs) \in Nat /\ Len(m.lookups) \in Nat
    BY <1>1
  <1>4. 3 \in Nat
    OBVIOUS
  <1>5. m.header \in ByteSeq /\ Len(m.header) = 3
    BY <1>1, <1>4, FixedSeq
  <1> QED
    BY <1>1, <1>2, <1>3, <1>5, KeyType


LEMMA LegacyCode ==
  ASSUME NEW m, IsMessage(m)
  PROVE  LET a == m.header
             b == a \o KeysCode(m.keys)
             c == b \o m.token
             d == c \o InstructionsCode(m.instrs)
         IN  /\ EncodeLegacy(m) = d
             /\ a \in ByteSeq /\ b \in ByteSeq /\ c \in ByteSeq /\ d \in ByteSeq
  <1> DEFINE a == m.header
             b == a \o KeysCode(m.keys)
             c == b \o m.token
             d == c \o InstructionsCode(m.instrs)
  <1>1. a \in ByteSeq /\ m.token \in ByteSeq
    BY MessageFields
  <1>2. KeysCode(m.keys) \in ByteSeq /\ InstructionsCode(m.instrs) \in ByteSeq
    BY MessageFields, CodesType
  <1>3. b \in ByteSeq
    BY <1>1, <1>2, Join
  <1>4. c \in ByteSeq
    <2> HIDE DEF b
    <2> QED
      BY <1>1, <1>3, Join
  <1>5. d \in ByteSeq
    <2> HIDE DEF c
    <2> QED
      BY <1>2, <1>4, Join
  <1>6. EncodeLegacy(m) = d
    BY DEF EncodeLegacy, EncodeVector, All, KeysCode, InstructionsCode, KeyCodes,
           InstructionCodes
  <1> QED
    BY <1>1, <1>3, <1>4, <1>5, <1>6

\* The readers of DecodeLegacy, from the header to the instructions.
LEMMA LegacyOutcome ==
  ASSUME NEW buf \in ByteSeq, NEW m, IsMessage(m), NEW at \in Nat,
         Lies(EncodeLegacy(m), buf, at), NEW v, NEW start, start = Outcome(buf, at, v)
  PROVE  LET header == Take(buf, start, 3)
             keys   == KeyVector(buf, header)
             token  == Key(buf, keys)
             instrs == InstructionVector(buf, token)
             end    == at + Len(EncodeLegacy(m))
         IN  /\ instrs = Outcome(buf, end, m.instrs)
             /\ end <= Len(buf) => /\ header.val = m.header
                                   /\ keys.val = m.keys
                                   /\ token.val = m.token
  <1> DEFINE a == m.header
             k == KeysCode(m.keys)
             b == a \o k
             c == b \o m.token
             i == InstructionsCode(m.instrs)
             d == c \o i
             header == Take(buf, start, 3)
             keys   == KeyVector(buf, header)
             token  == Key(buf, keys)
             instrs == InstructionVector(buf, token)
  <1>1. /\ EncodeLegacy(m) = d /\ d \in ByteSeq
        /\ a \in ByteSeq /\ b \in ByteSeq /\ c \in ByteSeq
    BY LegacyCode
  <1>2. k \in ByteSeq /\ i \in ByteSeq
    BY MessageFields, CodesType
  <1>3. /\ Len(a) = 3 /\ m.token \in Keys /\ m.token \in ByteSeq /\ Len(m.token) \in Nat
        /\ m.keys \in Seq(Keys) /\ Len(m.keys) \in Countable
        /\ m.instrs \in Seq(InstrSet) /\ Len(m.instrs) \in Countable
    BY MessageFields, SigLenType
  <1>4. Lies(c, buf, at) /\ Lies(i, buf, at + Len(c)) /\ Len(d) = Len(c) + Len(i)
    <2> HIDE DEF c, i
    <2> QED
      BY <1>1, <1>2, LiesParts, Join
  <1>5. /\ Lies(b, buf, at) /\ Lies(m.token, buf, at + Len(b))
        /\ Len(c) = Len(b) + Len(m.token)
    <2> HIDE DEF b
    <2> QED
      BY <1>1, <1>3, <1>4, LiesParts, Join
  <1>6. Lies(a, buf, at) /\ Lies(k, buf, at + Len(a)) /\ Len(b) = Len(a) + Len(k)
    <2> HIDE DEF a, k
    <2> QED
      BY <1>1, <1>2, <1>5, LiesParts, Join
  <1>7. Len(k) \in Nat /\ Len(i) \in Nat /\ Len(buf) \in Nat
    BY <1>2 DEF ByteSeq
  <1> HIDE DEF a, b, c, d, i, k
  <1>8. header = Outcome(buf, at + Len(a), a)
    <2>1. Take(buf, start, Len(a)) = Outcome(buf, at + Len(a), a)
      BY <1>1, <1>6, TakeOutcome
    <2> QED
      BY <1>3, <2>1
  <1> DEFINE x == at + Len(a)
             y == at + Len(b)
             z == at + Len(c)
             token_ == m.token
  <1> HIDE DEF header, token_
  <1>9. /\ x \in Nat /\ y = x + Len(k) /\ y \in Nat
        /\ z = y + Len(token_) /\ z \in Nat
        /\ at + Len(d) = z + Len(i)
    <2>1. Len(token_) \in Nat /\ Len(c) = Len(b) + Len(token_)
      BY <1>3, <1>5 DEF token_
    <2> DEFINE la == Len(a)
               lb == Len(b)
               lc == Len(c)
               ld == Len(d)
               li == Len(i)
               lk == Len(k)
               lt == Len(token_)
    <2>2. /\ la = 3 /\ lb = la + lk /\ lc = lb + lt /\ ld = lc + li
          /\ lk \in Nat /\ lt \in Nat /\ li \in Nat
      BY <1>3, <1>4, <1>6, <1>7, <2>1
    <2> HIDE DEF la, lb, lc, ld, li, lk, lt
    <2>3. /\ at + la \in Nat /\ at + lb = at + la + lk /\ at + lb \in Nat
          /\ at + lc = at + lb + lt /\ at + lc \in Nat
          /\ at + ld = at + lc + li
      BY <2>2
    <2> QED
      BY <2>3 DEF la, lb, lc, ld, li, lk, lt
  <1>10. keys = Outcome(buf, y, m.keys)
    <2>1. Lies(KeysCode(m.keys), buf, x) /\ header = Outcome(buf, x, a)
      BY <1>6, <1>8 DEF k
    <2> HIDE DEF x, y
    <2>2. keys = Outcome(buf, x + Len(KeysCode(m.keys)), m.keys)
      BY <1>3, <1>9, <2>1, KeyVectorOutcome
    <2> QED
      BY <1>9, <2>2 DEF k
  <1> HIDE DEF keys
  <1>11. token = Outcome(buf, z, token_)
    <2>1. Lies(token_, buf, y) /\ token_ \in Keys
      BY <1>3, <1>5 DEF token_
    <2> HIDE DEF y, z
    <2>2. token = Outcome(buf, y + Len(token_), token_)
      BY <1>9, <1>10, <2>1, KeyGives
    <2> QED
      BY <1>9, <2>2
  <1> HIDE DEF token
  <1>12. instrs = Outcome(buf, at + Len(d), m.instrs)
    <2>1. Lies(InstructionsCode(m.instrs), buf, z)
      BY <1>4 DEF i
    <2> HIDE DEF z
    <2>2. instrs = Outcome(buf, z + Len(InstructionsCode(m.instrs)), m.instrs)
      BY <1>3, <1>9, <1>11, <2>1, InstructionVectorOutcome
    <2> QED
      BY <1>9, <2>2 DEF i
  <1> HIDE DEF instrs
  <1>13. ASSUME at + Len(d) <= Len(buf)
         PROVE  header.val = a /\ keys.val = m.keys /\ token.val = token_
    <2>1. header = Outcome(buf, x, a)
      BY <1>8
    <2>2. Len(k) \in Nat /\ Len(token_) \in Nat /\ Len(i) \in Nat
      BY <1>3, <1>7 DEF token_
    <2> DEFINE end == at + Len(d)
    <2>3. end <= Len(buf) /\ end = z + Len(i)
      BY <1>9, <1>13
    <2> HIDE DEF x, y, z, end
    <2>4. x <= Len(buf) /\ y <= Len(buf) /\ z <= Len(buf)
      <3> DEFINE lk == Len(k)
                 lt == Len(token_)
                 li == Len(i)
                 lb == Len(buf)
      <3>1. /\ lk \in Nat /\ lt \in Nat /\ li \in Nat /\ lb \in Nat /\ x \in Nat
            /\ y = x + lk /\ z = y + lt /\ end = z + li /\ end <= lb
        BY <1>7, <1>9, <2>2, <2>3
      <3> HIDE DEF lk, lt, li, lb
      <3>2. x <= lb /\ y <= lb /\ z <= lb
        BY <3>1
      <3> QED
        BY <3>2 DEF lb
    <2> QED
      BY <1>10, <1>11, <2>1, <2>4 DEF Outcome, Reached
  <1> QED
    BY <1>1, <1>12, <1>13 DEF header, keys, token, instrs, a, token_


LEMMA LegacyDecoded ==
  ASSUME NEW buf
  PROVE  LET start   == Reached(IF Versioned(buf) THEN 1 ELSE 0, <<>>)
             header  == Take(buf, start, 3)
             keys    == KeyVector(buf, header)
             token   == Key(buf, keys)
             instrs  == InstructionVector(buf, token)
             lookups == LookupVector(buf, instrs)
         IN  DecodeLegacy(buf) =
               IF Versioned(buf)
                 THEN Message(lookups, <<buf[1] - 128>>, header, keys, token, instrs,
                              lookups.val)
                 ELSE Message(instrs, <<>>, header, keys, token, instrs, <<>>)
  BY DEF DecodeLegacy, KeyVector, InstructionVector, LookupVector, Vector, Repeat

LEMMA LegacyLength ==
  ASSUME NEW m, IsMessage(m)
  PROVE  /\ EncodeLegacy(m) \in ByteSeq
         /\ Len(EncodeLegacy(m)) \in Nat /\ Len(EncodeLegacy(m)) >= 3
         /\ \A buf, at : Lies(EncodeLegacy(m), buf, at) /\ at + 1 <= Len(buf)
                           => buf[at + 1] = m.header[1]
  <1> DEFINE a == m.header
             k == KeysCode(m.keys)
             b == a \o k
             c == b \o m.token
             i == InstructionsCode(m.instrs)
             d == c \o i
  <1>1. /\ EncodeLegacy(m) = d /\ d \in ByteSeq
        /\ a \in ByteSeq /\ b \in ByteSeq /\ c \in ByteSeq
    BY LegacyCode
  <1>2. k \in ByteSeq /\ i \in ByteSeq /\ m.token \in ByteSeq /\ Len(a) = 3
    BY MessageFields, CodesType
  <1> DEFINE t == m.token
  <1> HIDE DEF a, i, k, t
  <1>3. Len(d) = Len(c) + Len(i) /\ \A j \in 1..Len(c) : d[j] = c[j]
    <2> HIDE DEF c
    <2> QED
      BY <1>1, <1>2, Appended DEF ByteSeq
  <1>4. Len(c) = Len(b) + Len(t) /\ \A j \in 1..Len(b) : c[j] = b[j]
    <2> HIDE DEF b
    <2> QED
      BY <1>1, <1>2, Appended DEF ByteSeq, t
  <1>5. Len(b) = Len(a) + Len(k) /\ \A j \in 1..Len(a) : b[j] = a[j]
    <2> DEFINE Byte == 0..255
    <2>1. a \in Seq(Byte) /\ k \in Seq(Byte)
      BY <1>1, <1>2 DEF ByteSeq
    <2> HIDE DEF Byte
    <2> QED
      BY <2>1, Appended
  <1>6. Len(k) \in Nat /\ Len(i) \in Nat /\ Len(t) \in Nat
    BY <1>2 DEF ByteSeq, t
  <1> HIDE DEF b, c, d
  <1>7. Len(d) \in Nat /\ Len(d) >= 3 /\ Len(b) >= 1 /\ Len(c) >= 1
    <2> DEFINE la == Len(a)
               lb == Len(b)
               lc == Len(c)
               ld == Len(d)
               li == Len(i)
               lk == Len(k)
               lt == Len(t)
    <2>1. /\ la = 3 /\ lb = la + lk /\ lc = lb + lt /\ ld = lc + li
          /\ lk \in Nat /\ lt \in Nat /\ li \in Nat
      BY <1>2, <1>3, <1>4, <1>5, <1>6
    <2> HIDE DEF la, lb, lc, ld, li, lk, lt
    <2>2. ld \in Nat /\ ld >= 3 /\ lb >= 1 /\ lc >= 1
      BY <2>1
    <2> QED
      BY <2>2 DEF lb, lc, ld
  <1>8. d[1] = a[1]
    <2>1. 1 \in 1..Len(a) /\ 1 \in 1..Len(b) /\ 1 \in 1..Len(c)
      <3>1. Len(a) \in Nat /\ Len(b) \in Nat /\ Len(c) \in Nat
        BY <1>1 DEF ByteSeq
      <3> QED
        BY <1>2, <1>7, <3>1
    <2> QED
      BY <1>3, <1>4, <1>5, <2>1
  <1>9. ASSUME NEW buf, NEW at, Lies(d, buf, at), at + 1 <= Len(buf)
        PROVE  buf[at + 1] = d[1]
    <2>1. 1 \in 1..Len(d)
      BY <1>7
    <2> QED
      BY <1>9, <2>1 DEF Lies
  <1> QED
    BY <1>1, <1>7, <1>8, <1>9 DEF a

\* What decode_message gives of a message that may be cut.
Decoded(buf, m) == IF Len(buf) = Len(EncodeMessage(m)) THEN Expected(m) ELSE [ok |-> FALSE]

LEMMA DecodesLegacy ==
  ASSUME NEW buf \in ByteSeq, NEW m, IsMessage(m), m.version = <<>>, m.header[1] < 128,
         Len(buf) <= Len(EncodeMessage(m)), Lies(EncodeMessage(m), buf, 0)
  PROVE  DecodeMessage(buf) = Decoded(buf, m)
  <1> DEFINE header == Take(buf, Reached(0, <<>>), 3)
             keys   == KeyVector(buf, header)
             token  == Key(buf, keys)
             instrs == InstructionVector(buf, token)
             len    == Len(EncodeLegacy(m))
  <1>1. EncodeMessage(m) = EncodeLegacy(m)
    BY DEF EncodeMessage
  <1>2. len \in Nat /\ len >= 3 /\ Len(buf) \in Nat
    BY LegacyLength DEF ByteSeq
  <1>3. ASSUME buf # <<>> PROVE buf[1] = m.header[1]
    <2>1. 0 + 1 <= Len(buf)
      BY <1>2, <1>3 DEF ByteSeq
    <2>2. buf[0 + 1] = m.header[1]
      BY <1>1, <2>1, LegacyLength
    <2> QED
      BY <2>2
  <1> DEFINE byte == m.header[1]
  <1>4. byte \in 0..127
    <2>1. m.header \in [1..3 -> 0..255] /\ 1 \in 1..3
      BY DEF IsMessage
    <2>2. byte \in 0..255 /\ byte < 128
      BY <2>1
    <2> HIDE DEF byte
    <2> QED
      BY <2>2
  <1>5. ~Versioned(buf) /\ ~StartsV1(buf)
    <2>1. buf # <<>> => buf[1] = byte
      BY <1>3
    <2> HIDE DEF byte
    <2> QED
      BY <1>4, <2>1 DEF Versioned, StartsV1, V1
  <1>6. DecodeMessage(buf) = Message(instrs, <<>>, header, keys, token, instrs, <<>>)
    BY <1>5, LegacyDecoded DEF DecodeMessage
  <1>7. Reached(0, <<>>) = Outcome(buf, 0, <<>>)
    BY <1>2 DEF Outcome
  <1>8. /\ instrs = Outcome(buf, 0 + len, m.instrs)
        /\ 0 + len <= Len(buf) => /\ header.val = m.header
                                  /\ keys.val = m.keys
                                  /\ token.val = m.token
    <2>1. 0 \in Nat
      OBVIOUS
    <2> QED
      BY <1>1, <1>7, <2>1, LegacyOutcome
  <1> HIDE DEF header, keys, token, instrs, len
  <1>9. 0 + len = len /\ (len <= Len(buf) <=> Len(buf) = Len(EncodeMessage(m)))
    BY <1>1, <1>2 DEF len
  <1>10. CASE len <= Len(buf)
    <2>1. instrs.ok /\ instrs.val = m.instrs
      BY <1>8, <1>9, <1>10 DEF Outcome, Reached
    <2>2. m.lookups = <<>>
      BY DEF IsMessage
    <2> QED
      BY <1>6, <1>8, <1>9, <1>10, <2>1, <2>2 DEF Message, Decoded, Expected
  <1>11. CASE ~(len <= Len(buf))
    <2>1. ~instrs.ok
      BY <1>8, <1>9, <1>11, OutcomeOk
    <2> QED
      BY <1>6, <1>9, <1>11, <2>1 DEF Message, Decoded
  <1> QED
    BY <1>10, <1>11

LEMMA DecodesVersioned ==
  ASSUME NEW buf \in ByteSeq, NEW m, IsMessage(m), m.version \notin {<<>>, << 1 >>},
         Len(buf) <= Len(EncodeMessage(m)), Lies(EncodeMessage(m), buf, 0)
  PROVE  DecodeMessage(buf) = Decoded(buf, m)
  <1>1. PICK v \in 0..127 : m.version = <<v>> /\ v # 1
    BY DEF IsMessage
  <1> DEFINE first  == <<128 + v>>
             legacy == EncodeLegacy(m)
             most   == first \o legacy
             codes  == LookupsCode(m.lookups)
             whole  == most \o codes
  <1>2. /\ first \in ByteSeq /\ Len(first) = 1 /\ first[1] = 128 + v
        /\ Len(buf) \in Nat
    <2> DEFINE x == 128 + v
    <2>1. x \in 0..255
      BY <1>1
    <2> HIDE DEF x
    <2>2. <<x>> \in ByteSeq /\ Len(<<x>>) = 1 /\ <<x>>[1] = x
      BY <2>1 DEF ByteSeq
    <2> QED
      BY <2>2 DEF x, ByteSeq
  <1>3. legacy \in ByteSeq /\ Len(legacy) \in Nat /\ Len(legacy) >= 3
    BY LegacyLength
  <1>4. codes \in ByteSeq /\ m.lookups \in Seq(LookupSet) /\ Len(m.lookups) \in Countable
    BY MessageFields, CodesType
  <1>5. EncodeMessage(m) = whole
    <2>1. EncodeMessage(m) = <<128 + m.version[1]>> \o EncodeLegacy(m)
                               \o EncodeVector(m.lookups, EncodeLookup)
      BY DEF EncodeMessage
    <2>2. EncodeVector(m.lookups, EncodeLookup) = codes
      BY DEF EncodeVector, All, LookupsCode, LookupCodes
    <2>3. m.version[1] = v
      BY <1>1
    <2> QED
      BY <2>1, <2>2, <2>3
  <1> HIDE DEF first, legacy, codes
  <1>6. most \in ByteSeq /\ Len(most) = 1 + Len(legacy)
    BY <1>2, <1>3, Join
  <1>7. whole \in ByteSeq /\ Len(whole) = Len(most) + Len(codes) /\ Len(codes) \in Nat
    <2> HIDE DEF most
    <2> QED
      BY <1>4, <1>6, Join
  <1>8. Lies(most, buf, 0) /\ Lies(codes, buf, 0 + Len(most))
    <2>1. Lies(whole, buf, 0)
      BY <1>5
    <2> HIDE DEF most
    <2>2. 0 \in Nat
      OBVIOUS
    <2> QED
      BY <1>4, <1>6, <2>1, <2>2, LiesParts
  <1>9. Lies(first, buf, 0) /\ Lies(legacy, buf, 0 + 1)
    <2>1. 0 \in Nat
      OBVIOUS
    <2> QED
      BY <1>2, <1>3, <1>8, <2>1, LiesParts
  <1> HIDE DEF most, whole
  <1>10. ASSUME buf # <<>>
         PROVE  /\ buf[1] = 128 + v /\ 1 <= Len(buf)
                /\ Versioned(buf) /\ ~StartsV1(buf)
    <2>1. 1 <= Len(buf)
      BY <1>10 DEF ByteSeq
    <2>2. buf[0 + 1] = first[1]
      <3>1. 1 \in 1..Len(first) /\ 0 + 1 <= Len(buf)
        BY <1>2, <2>1
      <3> QED
        BY <1>9, <3>1 DEF Lies
    <2>3. buf[1] = 128 + v
      BY <1>2, <2>2
    <2> QED
      BY <1>1, <1>10, <2>1, <2>3 DEF Versioned, StartsV1, V1
  <1>11. CASE buf = <<>>
    <2> DEFINE header == Take(buf, Reached(0, <<>>), 3)
               keys   == KeyVector(buf, header)
               token  == Key(buf, keys)
               instrs == InstructionVector(buf, token)
    <2>1. ~Versioned(buf) /\ ~StartsV1(buf) /\ Len(buf) = 0
      BY <1>11 DEF Versioned, StartsV1
    <2>2. DecodeMessage(buf) = Message(instrs, <<>>, header, keys, token, instrs, <<>>)
      BY <2>1, LegacyDecoded DEF DecodeMessage
    <2>3. Reached(0, <<>>) = Outcome(buf, 0, <<>>)
      BY <2>1 DEF Outcome
    <2>4. Lies(EncodeLegacy(m), buf, 0)
      <3>1. Len(EncodeLegacy(m)) \in Nat
        BY <1>3 DEF legacy
      <3>2. \A i \in 1..Len(EncodeLegacy(m)) : ~(0 + i <= Len(buf))
        BY <2>1, <3>1
      <3> QED
        BY <3>2 DEF Lies
    <2>5. instrs = Outcome(buf, 0 + Len(EncodeLegacy(m)), m.instrs)
      <3>1. 0 \in Nat
        OBVIOUS
      <3> QED
        BY <2>3, <2>4, <3>1, LegacyOutcome
    <2> HIDE DEF header, keys, token, instrs
    <2>6. ~instrs.ok
      <3>1. ~(0 + Len(EncodeLegacy(m)) <= Len(buf))
        BY <1>3, <2>1 DEF legacy
      <3> QED
        BY <2>5, <3>1, OutcomeOk
    <2>7. Len(buf) # Len(EncodeMessage(m))
      BY <1>3, <1>5, <1>6, <1>7, <2>1
    <2> QED
      BY <2>2, <2>6, <2>7 DEF Message, Decoded
  <1>12. CASE buf # <<>>
    <2> DEFINE header == Take(buf, Reached(1, <<>>), 3)
               keys   == KeyVector(buf, header)
               token  == Key(buf, keys)
               instrs == InstructionVector(buf, token)
               lookups == LookupVector(buf, instrs)
    <2>1. /\ buf[1] = 128 + v /\ 1 <= Len(buf) /\ Versioned(buf) /\ ~StartsV1(buf)
      BY <1>10, <1>12
    <2>2. buf[1] - 128 = v
      <3>1. (128 + v) - 128 = v
        BY <1>1
      <3> QED
        BY <2>1, <3>1
    <2>3. DecodeMessage(buf)
            = Message(lookups, <<v>>, header, keys, token, instrs, lookups.val)
      BY <2>1, <2>2, LegacyDecoded DEF DecodeMessage
    <2>4. Reached(1, <<>>) = Outcome(buf, 1, <<>>)
      BY <2>1 DEF Outcome
    <2>5. Lies(EncodeLegacy(m), buf, 1)
      BY <1>9 DEF legacy
    <2>6. /\ instrs = Outcome(buf, 1 + Len(EncodeLegacy(m)), m.instrs)
          /\ 1 + Len(EncodeLegacy(m)) <= Len(buf) => /\ header.val = m.header
                                                     /\ keys.val = m.keys
                                                     /\ token.val = m.token
      <3>1. 1 \in Nat
        OBVIOUS
      <3> QED
        BY <2>4, <2>5, <3>1, LegacyOutcome
    <2> HIDE DEF header, keys, token, instrs
    <2>7. /\ Len(most) \in Nat /\ instrs = Outcome(buf, Len(most), m.instrs)
          /\ Len(most) <= Len(buf) => /\ header.val = m.header
                                      /\ keys.val = m.keys
                                      /\ token.val = m.token
      BY <1>3, <1>6, <2>6 DEF legacy
    <2>8. Lies(LookupsCode(m.lookups), buf, Len(most))
      BY <1>8, <2>7 DEF codes
    <2>9. lookups = Outcome(buf, Len(whole), m.lookups)
      <3>1. lookups = Outcome(buf, Len(most) + Len(LookupsCode(m.lookups)), m.lookups)
        BY <1>4, <2>7, <2>8, LookupVectorOutcome
      <3> QED
        BY <1>7, <3>1 DEF codes
    <2> HIDE DEF lookups
    <2>10. /\ Len(whole) <= Len(buf) <=> Len(buf) = Len(EncodeMessage(m))
           /\ Len(whole) <= Len(buf) => Len(most) <= Len(buf)
      <3> DEFINE lm == Len(most)
                 lc == Len(codes)
                 lw == Len(whole)
                 lb == Len(buf)
      <3>1. /\ lm \in Nat /\ lc \in Nat /\ lw = lm + lc /\ lb \in Nat /\ lb <= lw
        BY <1>2, <1>5, <1>7, <2>7
      <3> HIDE DEF lm, lc, lw, lb
      <3>2. (lw <= lb <=> lb = lw) /\ (lw <= lb => lm <= lb)
        BY <3>1
      <3> QED
        BY <1>5, <3>2 DEF lm, lw, lb
    <2>11. CASE Len(whole) <= Len(buf)
      <3>1. lookups.ok /\ lookups.val = m.lookups /\ instrs.val = m.instrs
        BY <2>7, <2>9, <2>10, <2>11 DEF Outcome, Reached
      <3> QED
        BY <1>1, <2>3, <2>7, <2>10, <2>11, <3>1 DEF Message, Decoded, Expected
    <2>12. CASE ~(Len(whole) <= Len(buf))
      <3>1. ~lookups.ok
        BY <2>9, <2>12, OutcomeOk
      <3> QED
        BY <2>3, <2>10, <2>12, <3>1 DEF Message, Decoded
    <2> QED
      BY <2>11, <2>12
  <1> QED
    BY <1>11, <1>12

-----------------------------------------------------------------------------
(* Messages of the v1 layout.                                              *)

\* A loop that starts with a failure goes on with it.
LEMMA FailedLoop ==
  ASSUME NEW kind, NEW buf, NEW h, NEW n \in Nat
  PROVE  /\ \E g : Loops(kind, buf, h, n, Failed, g)
         /\ \A g : Loops(kind, buf, h, n, Failed, g) => g[n] = Failed
  <1> DEFINE w == [k \in 0..n |-> Failed]
             start == [Failed EXCEPT !.val = <<>>]
             next(d, k) == Round(d, ItemOf(kind, buf, h, d, k))
  <1>1. start = Failed
    BY DEF Failed
  <1>2. \A k : next(Failed, k) = Failed
    BY DEF Round, Failed
  <1> HIDE DEF start, next
  <1>3. \A k \in 1..n : k - 1 \in 0..n /\ k \in 0..n /\ k # 0
    OBVIOUS
  <1>4. \A k \in 0..n : w[k] = Failed
    OBVIOUS
  <1>5. w = [k \in 0..n |-> IF k = 0 THEN start ELSE next(w[k - 1], k)]
    <2>1. ASSUME NEW k \in 0..n PROVE w[k] = IF k = 0 THEN start ELSE next(w[k - 1], k)
      <3>1. k # 0 => k - 1 \in 0..n
        OBVIOUS
      <3> HIDE DEF w
      <3> QED
        BY <1>1, <1>2, <1>4, <3>1
    <2>2. [k \in 0..n |-> IF k = 0 THEN start ELSE next(w[k - 1], k)]
            = [k \in 0..n |-> w[k]]
      <3> HIDE DEF w
      <3> QED
        BY <2>1, Zenon
    <2> QED
      BY <2>2
  <1>6. Loops(kind, buf, h, n, Failed, w)
    <2> HIDE DEF w
    <2> QED
      BY <1>5 DEF Loops, start, next
  <1>7. ASSUME NEW g, Loops(kind, buf, h, n, Failed, g) PROVE g[n] = Failed
    <2>1. g = [k \in 0..n |-> IF k = 0 THEN start ELSE next(g[k - 1], k)]
      BY <1>7 DEF Loops, start, next
    <2>2. \A k \in 0..n : g[k] = IF k = 0 THEN start ELSE next(g[k - 1], k)
      BY <2>1, Zenon
    <2>3. g[0] = w[0]
      <3>1. 0 \in 0..n
        OBVIOUS
      <3>2. g[0] = start /\ w[0] = Failed
        BY <1>4, <2>2, <3>1
      <3> QED
        BY <1>1, <3>2
    <2>4. ASSUME NEW k \in 1..n, g[k - 1] = w[k - 1] PROVE g[k] = w[k]
      <3> HIDE DEF w
      <3>1. k - 1 \in 0..n /\ k \in 0..n /\ k # 0
        BY <1>3
      <3>2. g[k - 1] = Failed /\ w[k] = Failed
        BY <1>4, <2>4, <3>1
      <3>3. g[k] = next(g[k - 1], k)
        BY <2>2, <3>1
      <3> QED
        BY <1>2, <3>2, <3>3
    <2> HIDE DEF w
    <2>5. g[n] = w[n]
      BY <2>3, <2>4, SameRun
    <2>6. n \in 0..n
      OBVIOUS
    <2> QED
      BY <1>4, <2>5, <2>6
  <1> QED
    BY <1>6, <1>7

\* The headers of the instructions of s, one by one.
HeaderCodes(s) == [i \in DOMAIN s |-> V1Header(s[i])]

LEMMA HeaderType ==
  ASSUME NEW in \in InstrSet, Len(in.accounts) < 256
  PROVE  V1Header(in) \in ByteSeq /\ Len(V1Header(in)) = 4
  <1> DEFINE p == in.program
             a == Len(in.accounts)
             d == Len(in.data)
             q == <<a, d % 256, d \div 256>>
  <1>1. p \in ByteSeq /\ Len(p) = 1
    <2>1. 1 \in Nat /\ p \in [1..1 -> 0..255]
      BY DEF InstrSet
    <2> HIDE DEF p
    <2> QED
      BY <2>1, FixedSeq
  <1>2. a \in Nat /\ a < 256 /\ d \in Nat /\ d \div 256 < 256
    BY DEF InstrSet, Short, ByteSeq
  <1> HIDE DEF a, d
  <1>3. a \in 0..255 /\ d % 256 \in 0..255 /\ d \div 256 \in 0..255
    BY <1>2
  <1> DEFINE x == d % 256
             y == d \div 256
  <1>4. a \in 0..255 /\ x \in 0..255 /\ y \in 0..255
    BY <1>3
  <1> HIDE DEF x, y
  <1>5. <<a, x, y>> \in ByteSeq /\ Len(<<a, x, y>>) = 3
    BY <1>4 DEF ByteSeq
  <1>6. q \in ByteSeq /\ Len(q) = 3
    BY <1>5 DEF x, y
  <1> HIDE DEF p, q
  <1>7. p \o q \in ByteSeq /\ Len(p \o q) = 4
    <2>1. p \o q \in ByteSeq /\ Len(p \o q) = Len(p) + Len(q)
      BY <1>1, <1>6, Join
    <2> QED
      BY <1>1, <1>6, <2>1
  <1> QED
    BY <1>7 DEF V1Header, p, q, a, d

\* Codes of one length lie at equal distances.
LEMMA EvenlyPlaced ==
  ASSUME NEW size \in Nat, NEW codes \in Seq(ByteSeq),
         \A k \in 1..Len(codes) : Len(codes[k]) = size
  PROVE  /\ Concat(codes) \in ByteSeq /\ Len(Concat(codes)) = size * Len(codes)
         /\ \A buf : \A at \in Nat :
              Lies(Concat(codes), buf, at) =>
                \A k \in 1..Len(codes) : Lies(codes[k], buf, at + size * (k - 1))
  <1> DEFINE n == Len(codes)
             whole == Concat(codes)
  <1>1. n \in Nat /\ codes \in [1..n -> ByteSeq]
    OBVIOUS
  <1>2. whole \in ByteSeq
    BY <1>1, SeqsType
  <1> HIDE DEF n
  <1>3. ASSUME NEW buf, NEW at \in Nat, Lies(whole, buf, at)
        PROVE  \E ends : /\ ends[n] = at + Len(whole)
                         /\ \A k \in 0..n : ends[k] = at + size * k
                         /\ \A k \in 1..n : Lies(codes[k], buf, ends[k - 1])
    <2>1. PICK ends : Placed(codes, buf, at, ends) /\ ends[n] = at + Len(whole)
      BY <1>3, ConcatPlaced DEF n
    <2>2. /\ ends \in [0..n -> Nat] /\ ends[0] = at
          /\ \A k \in 1..n : /\ ends[k] = ends[k - 1] + size
                             /\ Lies(codes[k], buf, ends[k - 1])
      BY <2>1 DEF Placed, n
    <2> DEFINE T == {k \in Nat : k <= n => ends[k] = at + size * k}
    <2>3. 0 \in T
      BY <2>2
    <2>4. ASSUME NEW k \in Nat, k \in T PROVE k + 1 \in T
      <3> SUFFICES ASSUME k + 1 <= n PROVE ends[k + 1] = at + size * (k + 1)
        OBVIOUS
      <3>1. k + 1 \in 1..n /\ (k + 1) - 1 = k /\ k <= n
        BY <1>1
      <3>2. ends[k] = at + size * k
        BY <2>4, <3>1
      <3>3. ends[k + 1] = ends[k] + size
        BY <2>2, <3>1
      <3>4. size * (k + 1) = size * k + size /\ size * k \in Nat
        OBVIOUS
      <3> QED
        BY <3>2, <3>3, <3>4
    <2>5. \A k \in 0..n : ends[k] = at + size * k
      <3> HIDE DEF T
      <3>1. Nat \subseteq T
        BY <2>3, <2>4, Induction
      <3> QED
        BY <1>1, <3>1 DEF T
    <2> QED
      BY <2>1, <2>2, <2>5
  <1>4. Lies(whole, whole, 0)
    <2>1. \A i \in Nat : 0 + i = i
      OBVIOUS
    <2>2. \A i \in 1..Len(whole) : i \in Nat
      BY <1>2, ByteLen
    <2> HIDE DEF whole
    <2> QED
      BY <2>1, <2>2 DEF Lies
  <1>5. Len(whole) = size * n
    <2>1. 0 \in Nat
      OBVIOUS
    <2>2. PICK ends : /\ ends[n] = 0 + Len(whole)
                      /\ \A k \in 0..n : ends[k] = 0 + size * k
      BY <1>3, <1>4, <2>1
    <2>3. Len(whole) \in Nat /\ size * n \in Nat /\ n \in 0..n
      BY <1>1, <1>2, ByteLen
    <2> QED
      BY <2>2, <2>3
  <1>6. ASSUME NEW buf, NEW at \in Nat, Lies(whole, buf, at), NEW k \in 1..n
        PROVE  Lies(codes[k], buf, at + size * (k - 1))
    <2>1. PICK ends : /\ \A j \in 0..n : ends[j] = at + size * j
                      /\ \A j \in 1..n : Lies(codes[j], buf, ends[j - 1])
      BY <1>3, <1>6
    <2>2. k - 1 \in 0..n
      BY <1>1
    <2> QED
      BY <2>1, <2>2
  <1> QED
    BY <1>2, <1>5, <1>6 DEF n

LEMMA HeaderCodesType ==
  ASSUME NEW s \in Seq(InstrSet), \A i \in DOMAIN s : Len(s[i].accounts) < 256
  PROVE  LET heads == Concat(HeaderCodes(s))
         IN  /\ heads \in ByteSeq /\ Len(heads) = 4 * Len(s)
             /\ HeadersOf(heads, s)
  <1> DEFINE codes == HeaderCodes(s)
             n == Len(s)
             heads == Concat(codes)
  <1>1. n \in Nat /\ DOMAIN s = 1..n /\ \A k \in 1..n : s[k] \in InstrSet
    OBVIOUS
  <1>2. ASSUME NEW k \in 1..n PROVE V1Header(s[k]) \in ByteSeq /\ Len(V1Header(s[k])) = 4
    BY <1>1, HeaderType
  <1>3. codes \in [1..n -> ByteSeq] /\ \A k \in 1..n : codes[k] = V1Header(s[k])
    BY <1>1, <1>2 DEF HeaderCodes
  <1> HIDE DEF codes, n
  <1>4. codes \in Seq(ByteSeq) /\ Len(codes) = n /\ heads \in ByteSeq
    BY <1>1, <1>3, SeqsType
  <1>5. Lies(heads, heads, 0)
    <2>1. \A i \in Nat : 0 + i = i
      OBVIOUS
    <2>2. \A i \in 1..Len(heads) : i \in Nat
      BY <1>4 DEF ByteSeq
    <2> HIDE DEF heads
    <2> QED
      BY <2>1, <2>2 DEF Lies
  <1>6. /\ Len(heads) = 4 * n
        /\ \A k \in 1..n : Lies(V1Header(s[k]), heads, 0 + 4 * (k - 1))
    <2>1. 0 \in Nat /\ 4 \in Nat /\ \A k \in 1..Len(codes) : Len(codes[k]) = 4
      BY <1>2, <1>3, <1>4
    <2>2. \A k \in 1..n : Lies(codes[k], heads, 0 + 4 * (k - 1))
      BY <1>4, <1>5, <2>1, EvenlyPlaced
    <2> QED
      BY <1>3, <1>4, <2>1, <2>2, EvenlyPlaced
  <1>11. Len(heads) \in Nat /\ Len(heads) = 4 * n
    BY <1>4, <1>6, ByteLen
  <1> HIDE DEF heads
  <1>12. ASSUME NEW k \in 1..n PROVE SubSeq(heads, 4 * k - 3, 4 * k) = V1Header(s[k])
    <2> DEFINE at == 4 * (k - 1)
               p == V1Header(s[k])
    <2>1. /\ at \in Nat /\ at + 1 = 4 * k - 3 /\ at + 4 = 4 * k
          /\ at <= Len(heads) /\ at + 4 <= Len(heads)
      BY <1>1, <1>11
    <2>2. Lies(p, heads, at)
      BY <1>6
    <2>3. p \in ByteSeq /\ Len(p) = 4
      BY <1>2
    <2> HIDE DEF at, p
    <2>4. SubSeq(heads, at + 1, at + Len(p)) = p
      BY <1>4, <2>1, <2>2, <2>3, PartRead
    <2> QED
      BY <2>1, <2>3, <2>4 DEF p
  <1> QED
    BY <1>4, <1>11, <1>12 DEF heads, codes, n, HeadersOf

\* What the values of a mask of `fee` and a, b, c take.
IsMask(mask, size) ==
  \E fee \in 0..3, a, b, c \in {0, 1} :
    /\ mask = fee + 4 * a + 8 * b + 16 * c
    /\ size = (IF fee = 3 THEN 8 ELSE 0) + 4 * (a + b + c)

LEMMA MaskSize ==
  ASSUME NEW mask, NEW size, IsMask(mask, size)
  PROVE  mask \in 0..255 /\ ConfigSize(mask) = size
  <1>1. PICK fee \in 0..3, a \in {0, 1}, b \in {0, 1}, c \in {0, 1} :
          /\ mask = fee + 4 * a + 8 * b + 16 * c
          /\ size = (IF fee = 3 THEN 8 ELSE 0) + 4 * (a + b + c)
    BY DEF IsMask
  <1>2. mask \in 0..31 /\ mask % 4 = fee /\ mask \div 4 = a + 2 * b + 4 * c
    BY <1>1
  <1>3. mask \div 8 = b + 2 * c /\ mask \div 16 = c
    BY <1>1
  <1>4. (a + 2 * b + 4 * c) % 2 = a /\ (b + 2 * c) % 2 = b /\ c % 2 = c
    BY <1>1
  <1>5. ConfigSize(mask) = (IF fee = 3 THEN 8 ELSE 0) + 4 * (a + b + c)
    BY <1>2, <1>3, <1>4 DEF ConfigSize
  <1> QED
    BY <1>1, <1>2, <1>5

\* Nine parts, one behind the other.
Nine(p1, p2, p3, p4, p5, p6, p7, p8, p9) ==
  p1 \o p2 \o p3 \o p4 \o p5 \o p6 \o p7 \o p8 \o p9

NineBytes(p1, p2, p3, p4, p5, p6, p7, p8, p9) ==
  /\ p1 \in ByteSeq /\ p2 \in ByteSeq /\ p3 \in ByteSeq
  /\ p4 \in ByteSeq /\ p5 \in ByteSeq /\ p6 \in ByteSeq
  /\ p7 \in ByteSeq /\ p8 \in ByteSeq /\ p9 \in ByteSeq

LEMMA NineType ==
  ASSUME NEW p1, NEW p2, NEW p3, NEW p4, NEW p5, NEW p6, NEW p7, NEW p8, NEW p9,
         NineBytes(p1, p2, p3, p4, p5, p6, p7, p8, p9)
  PROVE  LET whole == Nine(p1, p2, p3, p4, p5, p6, p7, p8, p9)
         IN  /\ whole \in ByteSeq
             /\ Len(whole) = Len(p1) + Len(p2) + Len(p3) + Len(p4) + Len(p5) + Len(p6)
                               + Len(p7) + Len(p8) + Len(p9)
  <1> DEFINE e2 == p1 \o p2
             e3 == e2 \o p3
             e4 == e3 \o p4
             e5 == e4 \o p5
             e6 == e5 \o p6
             e7 == e6 \o p7
             e8 == e7 \o p8
             e9 == e8 \o p9
  <1>0. /\ p1 \in ByteSeq /\ p2 \in ByteSeq /\ p3 \in ByteSeq
        /\ p4 \in ByteSeq /\ p5 \in ByteSeq /\ p6 \in ByteSeq
        /\ p7 \in ByteSeq /\ p8 \in ByteSeq /\ p9 \in ByteSeq
    BY DEF NineBytes
  <1>1. e2 \in ByteSeq /\ Len(e2) = Len(p1) + Len(p2)
    BY <1>0, Join
  <1>2. e3 \in ByteSeq /\ Len(e3) = Len(e2) + Len(p3)
    <2> HIDE DEF e2
    <2> QED
      BY <1>0, <1>1, Join
  <1>3. e4 \in ByteSeq /\ Len(e4) = Len(e3) + Len(p4)
    <2> HIDE DEF e3
    <2> QED
      BY <1>0, <1>2, Join
  <1>4. e5 \in ByteSeq /\ Len(e5) = Len(e4) + Len(p5)
    <2> HIDE DEF e4
    <2> QED
      BY <1>0, <1>3, Join
  <1>5. e6 \in ByteSeq /\ Len(e6) = Len(e5) + Len(p6)
    <2> HIDE DEF e5
    <2> QED
      BY <1>0, <1>4, Join
  <1>6. e7 \in ByteSeq /\ Len(e7) = Len(e6) + Len(p7)
    <2> HIDE DEF e6
    <2> QED
      BY <1>0, <1>5, Join
  <1>7. e8 \in ByteSeq /\ Len(e8) = Len(e7) + Len(p8)
    <2> HIDE DEF e7
    <2> QED
      BY <1>0, <1>6, Join
  <1>8. e9 \in ByteSeq /\ Len(e9) = Len(e8) + Len(p9)
    <2> HIDE DEF e8
    <2> QED
      BY <1>0, <1>7, Join
  <1> DEFINE l1 == Len(p1)
             l2 == Len(p2)
             l3 == Len(p3)
             l4 == Len(p4)
             l5 == Len(p5)
             l6 == Len(p6)
             l7 == Len(p7)
             l8 == Len(p8)
             l9 == Len(p9)
  <1>9. /\ l1 \in Nat /\ l2 \in Nat /\ l3 \in Nat
        /\ l4 \in Nat /\ l5 \in Nat /\ l6 \in Nat
        /\ l7 \in Nat /\ l8 \in Nat /\ l9 \in Nat
    BY DEF ByteSeq
  <1> DEFINE m2 == Len(e2)
             m3 == Len(e3)
             m4 == Len(e4)
             m5 == Len(e5)
             m6 == Len(e6)
             m7 == Len(e7)
             m8 == Len(e8)
             m9 == Len(e9)
  <1>10. /\ m2 = l1 + l2
         /\ m3 = m2 + l3
         /\ m4 = m3 + l4
         /\ m5 = m4 + l5
         /\ m6 = m5 + l6
         /\ m7 = m6 + l7
         /\ m8 = m7 + l8
         /\ m9 = m8 + l9
    BY <1>1, <1>2, <1>3, <1>4, <1>5, <1>6, <1>7, <1>8
  <1> HIDE DEF m2, m3, m4, m5, m6, m7, m8, m9, l1, l2, l3, l4, l5, l6, l7, l8, l9
  <1>11. m9 = l1 + l2 + l3 + l4 + l5 + l6 + l7 + l8 + l9
    BY <1>9, <1>10
  <1> QED
    BY <1>8, <1>11 DEF Nine, m2, m3, m4, m5, m6, m7, m8, m9, l1, l2, l3, l4, l5, l6, l7, l8, l9

LEMMA NineLie ==
  ASSUME NEW p1, NEW p2, NEW p3, NEW p4, NEW p5, NEW p6, NEW p7, NEW p8, NEW p9,
         NineBytes(p1, p2, p3, p4, p5, p6, p7, p8, p9),
         NEW buf, NEW at \in Nat, Lies(Nine(p1, p2, p3, p4, p5, p6, p7, p8, p9), buf, at)
  PROVE  /\ Lies(p1, buf, at)
         /\ Lies(p2, buf, at + Len(p1))
         /\ Lies(p3, buf, at + Len(p1) + Len(p2))
         /\ Lies(p4, buf, at + Len(p1) + Len(p2) + Len(p3))
         /\ Lies(p5, buf, at + Len(p1) + Len(p2) + Len(p3) + Len(p4))
         /\ Lies(p6, buf, at + Len(p1) + Len(p2) + Len(p3) + Len(p4) + Len(p5))
         /\ Lies(p7, buf, at + Len(p1) + Len(p2) + Len(p3) + Len(p4)
                           + Len(p5) + Len(p6))
         /\ Lies(p8, buf, at + Len(p1) + Len(p2) + Len(p3) + Len(p4)
                           + Len(p5) + Len(p6) + Len(p7))
         /\ Lies(p9, buf, at + Len(p1) + Len(p2) + Len(p3) + Len(p4)
                           + Len(p5) + Len(p6) + Len(p7) + Len(p8))
  <1> DEFINE e2 == p1 \o p2
             e3 == e2 \o p3
             e4 == e3 \o p4
             e5 == e4 \o p5
             e6 == e5 \o p6
             e7 == e6 \o p7
             e8 == e7 \o p8
             e9 == e8 \o p9
  <1>0. /\ p1 \in ByteSeq /\ p2 \in ByteSeq /\ p3 \in ByteSeq
        /\ p4 \in ByteSeq /\ p5 \in ByteSeq /\ p6 \in ByteSeq
        /\ p7 \in ByteSeq /\ p8 \in ByteSeq /\ p9 \in ByteSeq
    BY DEF NineBytes
  <1>1. e2 \in ByteSeq /\ Len(e2) = Len(p1) + Len(p2)
    BY <1>0, Join
  <1>2. e3 \in ByteSeq /\ Len(e3) = Len(e2) + Len(p3)
    <2> HIDE DEF e2
    <2> QED
      BY <1>0, <1>1, Join
  <1>3. e4 \in ByteSeq /\ Len(e4) = Len(e3) + Len(p4)
    <2> HIDE DEF e3
    <2> QED
      BY <1>0, <1>2, Join
  <1>4. e5 \in ByteSeq /\ Len(e5) = Len(e4) + Len(p5)
    <2> HIDE DEF e4
    <2> QED
      BY <1>0, <1>3, Join
  <1>5. e6 \in ByteSeq /\ Len(e6) = Len(e5) + Len(p6)
    <2> HIDE DEF e5
    <2> QED
      BY <1>0, <1>4, Join
  <1>6. e7 \in ByteSeq /\ Len(e7) = Len(e6) + Len(p7)
    <2> HIDE DEF e6
    <2> QED
      BY <1>0, <1>5, Join
  <1>7. e8 \in ByteSeq /\ Len(e8) = Len(e7) + Len(p8)
    <2> HIDE DEF e7
    <2> QED
      BY <1>0, <1>6, Join
  <1>8. e9 \in ByteSeq /\ Len(e9) = Len(e8) + Len(p9)
    <2> HIDE DEF e8
    <2> QED
      BY <1>0, <1>7, Join
  <1> DEFINE l1 == Len(p1)
             l2 == Len(p2)
             l3 == Len(p3)
             l4 == Len(p4)
             l5 == Len(p5)
             l6 == Len(p6)
             l7 == Len(p7)
             l8 == Len(p8)
             l9 == Len(p9)
  <1>9. /\ l1 \in Nat /\ l2 \in Nat /\ l3 \in Nat
        /\ l4 \in Nat /\ l5 \in Nat /\ l6 \in Nat
        /\ l7 \in Nat /\ l8 \in Nat /\ l9 \in Nat
    BY <1>0, ByteLen
  <1>10. /\ Lies(p2, buf, at + Len(p1))
         /\ Lies(p3, buf, at + Len(e2))
         /\ Lies(p4, buf, at + Len(e3))
         /\ Lies(p5, buf, at + Len(e4))
         /\ Lies(p6, buf, at + Len(e5))
         /\ Lies(p7, buf, at + Len(e6))
         /\ Lies(p8, buf, at + Len(e7))
         /\ Lies(p9, buf, at + Len(e8))
         /\ Lies(p1, buf, at)
    <2>0. Lies(e9, buf, at)
      BY DEF Nine
    <2>1. Lies(e8, buf, at) /\ Lies(p9, buf, at + Len(e8))
      <3> HIDE DEF e8
      <3> QED
        BY <1>0, <1>7, <2>0, LiesParts
    <2>2. Lies(e7, buf, at) /\ Lies(p8, buf, at + Len(e7))
      <3> HIDE DEF e7
      <3> QED
        BY <1>0, <1>6, <2>1, LiesParts
    <2>3. Lies(e6, buf, at) /\ Lies(p7, buf, at + Len(e6))
      <3> HIDE DEF e6
      <3> QED
        BY <1>0, <1>5, <2>2, LiesParts
    <2>4. Lies(e5, buf, at) /\ Lies(p6, buf, at + Len(e5))
      <3> HIDE DEF e5
      <3> QED
        BY <1>0, <1>4, <2>3, LiesParts
    <2>5. Lies(e4, buf, at) /\ Lies(p5, buf, at + Len(e4))
      <3> HIDE DEF e4
      <3> QED
        BY <1>0, <1>3, <2>4, LiesParts
    <2>6. Lies(e3, buf, at) /\ Lies(p4, buf, at + Len(e3))
      <3> HIDE DEF e3
      <3> QED
        BY <1>0, <1>2, <2>5, LiesParts
    <2>7. Lies(e2, buf, at) /\ Lies(p3, buf, at + Len(e2))
      <3> HIDE DEF e2
      <3> QED
        BY <1>0, <1>1, <2>6, LiesParts
    <2>8. Lies(p1, buf, at) /\ Lies(p2, buf, at + Len(p1))
      <3> QED
        BY <1>0, <2>7, LiesParts
    <2> QED
      BY <2>1, <2>2, <2>3, <2>4, <2>5, <2>6, <2>7, <2>8
  <1> DEFINE m2 == Len(e2)
             m3 == Len(e3)
             m4 == Len(e4)
             m5 == Len(e5)
             m6 == Len(e6)
             m7 == Len(e7)
             m8 == Len(e8)
             m9 == Len(e9)
  <1>11. /\ m2 = l1 + l2
         /\ m3 = m2 + l3
         /\ m4 = m3 + l4
         /\ m5 = m4 + l5
         /\ m6 = m5 + l6
         /\ m7 = m6 + l7
         /\ m8 = m7 + l8
         /\ m9 = m8 + l9
    BY <1>1, <1>2, <1>3, <1>4, <1>5, <1>6, <1>7, <1>8
  <1> HIDE DEF m2, m3, m4, m5, m6, m7, m8, m9, l1, l2, l3, l4, l5, l6, l7, l8, l9
  <1>12. /\ at + m2 = at + l1 + l2
         /\ at + m3 = at + l1 + l2 + l3
         /\ at + m4 = at + l1 + l2 + l3 + l4
         /\ at + m5 = at + l1 + l2 + l3 + l4 + l5
         /\ at + m6 = at + l1 + l2 + l3 + l4 + l5 + l6
         /\ at + m7 = at + l1 + l2 + l3 + l4 + l5 + l6 + l7
         /\ at + m8 = at + l1 + l2 + l3 + l4 + l5 + l6 + l7 + l8
    BY <1>9, <1>11
  <1> QED
    BY <1>10, <1>12 DEF m2, m3, m4, m5, m6, m7, m8, m9, l1, l2, l3, l4, l5, l6, l7, l8, l9

LEMMA V1Fields ==
  ASSUME NEW m, IsMessage(m), m.version = << 1 >>
  PROVE  /\ m.config.mask \in 0..255
         /\ m.config.values \in ByteSeq
         /\ ConfigSize(m.config.mask) = Len(m.config.values)
         /\ Len(m.keys) \in 0..255 /\ Len(m.instrs) \in 0..255
         /\ \A i \in DOMAIN m.instrs : Len(m.instrs[i].accounts) < 256
         /\ m.lookups = <<>>
  <1>1. /\ Len(m.keys) < 256 /\ Len(m.instrs) < 256
        /\ \A i \in DOMAIN m.instrs : Len(m.instrs[i].accounts) < 256
        /\ m.config.values \in ByteSeq
        /\ \E fee \in 0..3, a, b, c \in {0, 1} :
             /\ m.config.mask = fee + 4 * a + 8 * b + 16 * c
             /\ Len(m.config.values) = (IF fee = 3 THEN 8 ELSE 0) + 4 * (a + b + c)
        /\ m.lookups = <<>>
    BY DEF IsMessage
  <1>2. Len(m.keys) \in Nat /\ Len(m.instrs) \in Nat
    BY MessageFields
  <1>3. ASSUME NEW n \in Nat, n < 256 PROVE n \in 0..255
    BY <1>3
  <1>4. Len(m.keys) \in 0..255 /\ Len(m.instrs) \in 0..255
    BY <1>1, <1>2, <1>3
  <1>5. IsMask(m.config.mask, Len(m.config.values))
    BY <1>1 DEF IsMask
  <1>6. /\ m.config.mask \in 0..255
        /\ ConfigSize(m.config.mask) = Len(m.config.values)
    BY <1>5, MaskSize
  <1> QED
    BY <1>1, <1>4, <1>6

LEMMA KeysInOne ==
  ASSUME NEW s \in Seq(Keys)
  PROVE  s = KeyCodes(s)
  <1>1. KeyCodes(s) = [i \in 1..Len(s) |-> s[i]]
    BY DEF KeyCodes
  <1>2. s = [i \in 1..Len(s) |-> s[i]]
    <2> DEFINE K == Keys
    <2>1. s \in Seq(K)
      OBVIOUS
    <2> HIDE DEF K
    <2> QED
      BY <2>1
  <1> QED
    BY <1>1, <1>2

\* The parts of a v1 message.
V1Mask(m) == <<m.config.mask, 0, 0, 0>>
V1Counts(m) == <<Len(m.instrs), Len(m.keys)>>
V1Keys(m) == Concat(KeyCodes(m.keys))
V1Heads(m) == Concat(HeaderCodes(m.instrs))
V1Bodies(m) == Concat(ContentsCodes(m.instrs))

LEMMA V1Code ==
  ASSUME NEW m, IsMessage(m), m.version = << 1 >>
  PROVE  /\ EncodeV1(m) = <<V1>> \o m.header \o V1Mask(m) \o m.token \o V1Counts(m)
                            \o V1Keys(m) \o m.config.values \o V1Heads(m) \o V1Bodies(m)
         /\ <<V1>> \in ByteSeq /\ Len(<<V1>>) = 1 /\ <<V1>>[1] = V1
         /\ m.header \in ByteSeq /\ Len(m.header) = 3
         /\ V1Mask(m) \in ByteSeq /\ Len(V1Mask(m)) = 4 /\ V1Mask(m)[1] = m.config.mask
         /\ m.token \in ByteSeq /\ Len(m.token) = KeyLen
         /\ V1Counts(m) \in ByteSeq /\ Len(V1Counts(m)) = 2
         /\ V1Counts(m)[1] = Len(m.instrs) /\ V1Counts(m)[2] = Len(m.keys)
         /\ V1Keys(m) \in ByteSeq
         /\ m.config.values \in ByteSeq
         /\ V1Heads(m) \in ByteSeq /\ Len(V1Heads(m)) = 4 * Len(m.instrs)
         /\ V1Bodies(m) \in ByteSeq
  <1>1. /\ m.keys \in Seq(Keys) /\ m.instrs \in Seq(InstrSet)
        /\ m.header \in ByteSeq /\ Len(m.header) = 3
        /\ m.token \in ByteSeq /\ Len(m.token) = KeyLen
    BY MessageFields
  <1>2. /\ m.config.mask \in 0..255 /\ m.config.values \in ByteSeq
        /\ Len(m.keys) \in 0..255 /\ Len(m.instrs) \in 0..255
        /\ \A i \in DOMAIN m.instrs : Len(m.instrs[i].accounts) < 256
    BY SMTT(30), V1Fields
  <1>3. EncodeV1(m) = <<V1>> \o m.header \o V1Mask(m) \o m.token \o V1Counts(m)
                        \o V1Keys(m) \o m.config.values \o V1Heads(m) \o V1Bodies(m)
    <2>1. Concat(m.keys) = V1Keys(m)
      BY <1>1, KeysInOne DEF V1Keys
    <2>2. All(m.instrs, LAMBDA in : in.program \o <<Len(in.accounts),
                           Len(in.data) % 256, Len(in.data) \div 256>>) = V1Heads(m)
      BY DEF All, V1Heads, HeaderCodes, V1Header
    <2>3. All(m.instrs, LAMBDA in : in.accounts \o in.data) = V1Bodies(m)
      BY DEF All, V1Bodies, ContentsCodes, V1Contents
    <2> QED
      BY <2>1, <2>2, <2>3 DEF EncodeV1, V1Mask, V1Counts
  <1>4. ASSUME NEW x \in 0..255, NEW y \in 0..255
        PROVE  /\ <<x>> \in ByteSeq /\ Len(<<x>>) = 1 /\ <<x>>[1] = x
               /\ <<x, y>> \in ByteSeq /\ Len(<<x, y>>) = 2
               /\ <<x, y>>[1] = x /\ <<x, y>>[2] = y
               /\ <<x, y, y, y>> \in ByteSeq /\ Len(<<x, y, y, y>>) = 4
               /\ <<x, y, y, y>>[1] = x
    BY DEF ByteSeq
  <1>5. V1 \in 0..255 /\ 0 \in 0..255
    BY DEF V1
  <1>6. <<V1>> \in ByteSeq /\ Len(<<V1>>) = 1 /\ <<V1>>[1] = V1
    BY <1>4, <1>5
  <1>7. V1Mask(m) \in ByteSeq /\ Len(V1Mask(m)) = 4 /\ V1Mask(m)[1] = m.config.mask
    BY <1>2, <1>4, <1>5 DEF V1Mask
  <1>8. /\ V1Counts(m) \in ByteSeq /\ Len(V1Counts(m)) = 2
        /\ V1Counts(m)[1] = Len(m.instrs) /\ V1Counts(m)[2] = Len(m.keys)
    BY <1>2, <1>4 DEF V1Counts
  <1>9. V1Keys(m) \in ByteSeq /\ V1Bodies(m) \in ByteSeq
    BY <1>1, KeyCodesType, ContentsCodesType DEF V1Keys, V1Bodies
  <1>10. V1Heads(m) \in ByteSeq /\ Len(V1Heads(m)) = 4 * Len(m.instrs)
    BY <1>1, <1>2, HeaderCodesType DEF V1Heads
  <1> QED
    BY <1>1, <1>2, <1>3, <1>6, <1>7, <1>8, <1>9, <1>10

LEMMA V1Decoded ==
  ASSUME NEW buf
  PROVE  LET header  == Take(buf, Reached(1, <<>>), 3)
             mask    == Take(buf, header, 4)
             token   == Take(buf, mask, KeyLen)
             counts  == Take(buf, token, 2)
             keys    == KeyLoop(buf, counts.val[2], counts)
             config  == Take(buf, keys, ConfigSize(mask.val[1]))
             heads   == Take(buf, config, 4 * counts.val[1])
             instrs  == ContentsLoop(buf, heads.val, counts.val[1], heads)
         IN  DecodeV1(buf) =
               IF counts.ok THEN Message(instrs, << 1 >>, header, keys, token, instrs, <<>>)
                            ELSE [ok |-> FALSE]
  BY DEF DecodeV1, KeyLoop, ContentsLoop, Repeat

LEMMA V1Length ==
  ASSUME NEW m, IsMessage(m), m.version = << 1 >>
  PROVE  /\ EncodeV1(m) \in ByteSeq /\ Len(EncodeV1(m)) \in Nat
         /\ Len(EncodeV1(m)) >= KeyLen + 10
         /\ \A buf : Lies(EncodeV1(m), buf, 0) =>
              /\ 1 <= Len(buf) => buf[1] = V1
              /\ 2 <= Len(buf) => buf[2] = m.header[1]
  <1> DEFINE p1 == <<V1>>
             p2 == m.header
             p3 == V1Mask(m)
             p4 == m.token
             p5 == V1Counts(m)
             p6 == V1Keys(m)
             p7 == m.config.values
             p8 == V1Heads(m)
             p9 == V1Bodies(m)
             whole == Nine(p1, p2, p3, p4, p5, p6, p7, p8, p9)
  <1>1. /\ p1 \in ByteSeq /\ Len(p1) = 1 /\ p1[1] = V1
        /\ p2 \in ByteSeq /\ Len(p2) = 3
        /\ p3 \in ByteSeq /\ Len(p3) = 4
        /\ p4 \in ByteSeq /\ Len(p4) = KeyLen
        /\ p5 \in ByteSeq /\ Len(p5) = 2
        /\ p6 \in ByteSeq /\ p7 \in ByteSeq /\ p8 \in ByteSeq /\ p9 \in ByteSeq
    BY V1Code
  <1>2. EncodeV1(m) = whole
    BY V1Code DEF Nine
  <1> HIDE DEF p1, p2, p3, p4, p5, p6, p7, p8, p9
  <1>0. NineBytes(p1, p2, p3, p4, p5, p6, p7, p8, p9)
    BY <1>1 DEF NineBytes
  <1>3. 0 \in Nat
    OBVIOUS
  <1>4. /\ whole \in ByteSeq
        /\ Len(whole) = Len(p1) + Len(p2) + Len(p3) + Len(p4) + Len(p5) + Len(p6) + Len(p7)
                          + Len(p8) + Len(p9)
        /\ \A buf : Lies(whole, buf, 0) => Lies(p1, buf, 0) /\ Lies(p2, buf, 0 + Len(p1))
    <2>1. ASSUME NEW buf, Lies(whole, buf, 0)
          PROVE  Lies(p1, buf, 0) /\ Lies(p2, buf, 0 + Len(p1))
      BY <1>0, <1>3, <2>1, NineLie
    <2> QED
      BY <1>0, <2>1, NineType
  <1> HIDE DEF whole
  <1>5. Len(whole) \in Nat /\ Len(whole) >= KeyLen + 10
    <2> DEFINE l6 == Len(p6)
               l7 == Len(p7)
               l8 == Len(p8)
               l9 == Len(p9)
               l == Len(whole)
    <2>1. /\ l6 \in Nat /\ l7 \in Nat /\ l8 \in Nat /\ l9 \in Nat /\ KeyLen \in Nat
          /\ l = 1 + 3 + 4 + KeyLen + 2 + l6 + l7 + l8 + l9
      BY <1>1, <1>4, SigLenType, ByteLen
    <2> HIDE DEF l6, l7, l8, l9, l
    <2>2. l \in Nat /\ l >= KeyLen + 10
      BY <2>1
    <2> QED
      BY <2>2 DEF l
  <1>6. ASSUME NEW buf, Lies(whole, buf, 0)
        PROVE  /\ 1 <= Len(buf) => buf[1] = V1
               /\ 2 <= Len(buf) => buf[2] = m.header[1]
    <2>1. Lies(p1, buf, 0) /\ Lies(p2, buf, 1)
      BY <1>1, <1>4, <1>6
    <2>2. 1 \in 1..Len(p1) /\ 1 \in 1..Len(p2)
      BY <1>1
    <2>3. 0 + 1 <= Len(buf) => buf[0 + 1] = p1[1]
      BY <2>1, <2>2 DEF Lies
    <2>4. 1 + 1 <= Len(buf) => buf[1 + 1] = p2[1]
      BY <2>1, <2>2 DEF Lies
    <2> QED
      BY <1>1, <2>3, <2>4 DEF p2
  <1> QED
    BY <1>2, <1>4, <1>5, <1>6

\* A v1 message, of which at least the first byte is there.
LEMMA V1Outcome ==
  ASSUME NEW buf \in ByteSeq, NEW m, IsMessage(m), m.version = << 1 >>,
         buf # <<>>, Lies(EncodeV1(m), buf, 0)
  PROVE  /\ StartsV1(buf)
         /\ DecodeV1(buf) = IF Len(EncodeV1(m)) <= Len(buf) THEN Expected(m)
                                                            ELSE [ok |-> FALSE]
  <1> DEFINE p1 == <<V1>>
             p2 == m.header
             p3 == V1Mask(m)
             p4 == m.token
             p5 == V1Counts(m)
             p6 == V1Keys(m)
             p7 == m.config.values
             p8 == V1Heads(m)
             p9 == V1Bodies(m)
             whole == Nine(p1, p2, p3, p4, p5, p6, p7, p8, p9)
  <1>1. /\ p1 \in ByteSeq /\ Len(p1) = 1 /\ p1[1] = V1
        /\ p2 \in ByteSeq /\ Len(p2) = 3
        /\ p3 \in ByteSeq /\ Len(p3) = 4 /\ p3[1] = m.config.mask
        /\ p4 \in ByteSeq /\ Len(p4) = KeyLen
        /\ p5 \in ByteSeq /\ Len(p5) = 2 /\ p5[1] = Len(m.instrs) /\ p5[2] = Len(m.keys)
        /\ p6 \in ByteSeq /\ p7 \in ByteSeq
        /\ p8 \in ByteSeq /\ Len(p8) = 4 * Len(m.instrs)
        /\ p9 \in ByteSeq
    BY V1Code
  <1>2. EncodeV1(m) = whole
    BY V1Code DEF Nine
  <1> HIDE DEF p1, p2, p3, p4, p5, p6, p7, p8, p9
  <1>0. NineBytes(p1, p2, p3, p4, p5, p6, p7, p8, p9)
    BY <1>1 DEF NineBytes
  <1> DEFINE e1 == 0 + Len(p1)
             e2 == e1 + Len(p2)
             e3 == e2 + Len(p3)
             e4 == e3 + Len(p4)
             e5 == e4 + Len(p5)
             e6 == e5 + Len(p6)
             e7 == e6 + Len(p7)
             e8 == e7 + Len(p8)
             e9 == e8 + Len(p9)
  <1>3. /\ Lies(p1, buf, 0)  /\ Lies(p2, buf, e1) /\ Lies(p3, buf, e2)
        /\ Lies(p4, buf, e3) /\ Lies(p5, buf, e4) /\ Lies(p6, buf, e5)
        /\ Lies(p7, buf, e6) /\ Lies(p8, buf, e7) /\ Lies(p9, buf, e8)
    <2>1. 0 \in Nat /\ Lies(whole, buf, 0)
      BY <1>2
    <2> QED
      BY <1>0, <2>1, NineLie
  <1>4. Len(whole) = Len(p1) + Len(p2) + Len(p3) + Len(p4) + Len(p5) + Len(p6) + Len(p7)
                       + Len(p8) + Len(p9)
    BY <1>0, NineType
  <1> HIDE DEF whole
  <1> DEFINE end == Len(whole)
             len == Len(buf)
  <1>5. /\ e1 = 1 /\ e2 \in Nat /\ e3 \in Nat /\ e4 \in Nat /\ e5 \in Nat /\ e6 \in Nat
        /\ e7 \in Nat /\ e8 \in Nat /\ e9 = end /\ end \in Nat /\ len \in Nat
        /\ e2 <= e3 /\ e3 <= e4 /\ e4 <= e5 /\ e5 <= e6 /\ e6 <= e7 /\ e7 <= e8
        /\ e8 <= end
    <2> DEFINE l1 == Len(p1)
               l2 == Len(p2)
               l3 == Len(p3)
               l4 == Len(p4)
               l5 == Len(p5)
               l6 == Len(p6)
               l7 == Len(p7)
               l8 == Len(p8)
               l9 == Len(p9)
    <2>1. /\ l1 = 1 /\ l2 \in Nat /\ l3 \in Nat /\ l4 \in Nat /\ l5 \in Nat /\ l6 \in Nat
          /\ l7 \in Nat /\ l8 \in Nat /\ l9 \in Nat /\ len \in Nat
          /\ end = l1 + l2 + l3 + l4 + l5 + l6 + l7 + l8 + l9
      BY <1>1, <1>4, ByteLen
    <2>2. /\ e1 = 0 + l1 /\ e2 = e1 + l2 /\ e3 = e2 + l3 /\ e4 = e3 + l4 /\ e5 = e4 + l5
          /\ e6 = e5 + l6 /\ e7 = e6 + l7 /\ e8 = e7 + l8 /\ e9 = e8 + l9
      OBVIOUS
    <2> HIDE DEF l1, l2, l3, l4, l5, l6, l7, l8, l9, len, end,
                 e1, e2, e3, e4, e5, e6, e7, e8, e9
    <2>3. e1 = 1 /\ e2 \in Nat /\ e3 \in Nat /\ e4 \in Nat /\ e5 \in Nat
      BY <2>1, <2>2
    <2>4. e6 \in Nat /\ e7 \in Nat /\ e8 \in Nat /\ e9 \in Nat
      BY <2>1, <2>2, <2>3
    <2>5. /\ e2 <= e3 /\ e3 <= e4 /\ e4 <= e5 /\ e5 <= e6 /\ e6 <= e7 /\ e7 <= e8
          /\ e8 <= e9
      BY <2>1, <2>2, <2>3, <2>4
    <2>6. e9 = end
      BY <2>1, <2>2
    <2> QED
      BY <2>1, <2>3, <2>4, <2>5, <2>6
  <1>6. 1 <= len /\ buf[1] = V1 /\ StartsV1(buf)
    <2>1. 1 <= Len(buf)
      BY DEF ByteSeq
    <2>2. buf[0 + 1] = p1[1]
      <3>1. 1 \in 1..Len(p1) /\ 0 + 1 <= Len(buf)
        BY <1>1, <2>1
      <3> QED
        BY <1>3, <3>1 DEF Lies
    <2> QED
      BY <1>1, <2>1, <2>2 DEF StartsV1
  <1> HIDE DEF e1, e2, e3, e4, e5, e6, e7, e8, e9, end, len
  <1> DEFINE start   == Reached(1, <<>>)
             header  == Take(buf, start, 3)
             mask    == Take(buf, header, 4)
             token   == Take(buf, mask, KeyLen)
             counts  == Take(buf, token, 2)
             keys    == KeyLoop(buf, counts.val[2], counts)
             config  == Take(buf, keys, ConfigSize(mask.val[1]))
             heads   == Take(buf, config, 4 * counts.val[1])
             instrs  == ContentsLoop(buf, heads.val, counts.val[1], heads)
  <1>7. DecodeV1(buf) = IF counts.ok
                          THEN Message(instrs, << 1 >>, header, keys, token, instrs, <<>>)
                          ELSE [ok |-> FALSE]
    BY V1Decoded
  <1>8. start = Outcome(buf, e1, <<>>)
    BY <1>5, <1>6 DEF Outcome, len
  <1>9. header = Outcome(buf, e2, p2)
    <2>1. Take(buf, start, Len(p2)) = Outcome(buf, e1 + Len(p2), p2)
      <3>1. e1 \in Nat /\ p2 \in ByteSeq /\ Lies(p2, buf, e1)
        BY <1>1, <1>3, <1>5
      <3> HIDE DEF start
      <3> QED
        BY <1>8, <3>1, TakeOutcome
    <2> QED
      BY <1>1, <2>1 DEF e2
  <1> HIDE DEF start, header
  <1>10. mask = Outcome(buf, e3, p3)
    <2>1. Take(buf, header, Len(p3)) = Outcome(buf, e2 + Len(p3), p3)
      <3>1. e2 \in Nat /\ p3 \in ByteSeq /\ Lies(p3, buf, e2)
        BY <1>1, <1>3, <1>5
      <3> QED
        BY <1>9, <3>1, TakeOutcome
    <2> QED
      BY <1>1, <2>1 DEF e3
  <1> HIDE DEF mask
  <1>11. token = Outcome(buf, e4, p4)
    <2>1. Take(buf, mask, Len(p4)) = Outcome(buf, e3 + Len(p4), p4)
      <3>1. e3 \in Nat /\ p4 \in ByteSeq /\ Lies(p4, buf, e3)
        BY <1>1, <1>3, <1>5
      <3> QED
        BY <1>10, <3>1, TakeOutcome
    <2> QED
      BY <1>1, <2>1 DEF e4
  <1> HIDE DEF token
  <1>12. counts = Outcome(buf, e5, p5)
    <2>1. Take(buf, token, Len(p5)) = Outcome(buf, e4 + Len(p5), p5)
      <3>1. e4 \in Nat /\ p5 \in ByteSeq /\ Lies(p5, buf, e4)
        BY <1>1, <1>3, <1>5
      <3> QED
        BY <1>11, <3>1, TakeOutcome
    <2> QED
      BY <1>1, <2>1 DEF e5
  <1> HIDE DEF counts
  <1>13. CASE ~(e5 <= len)
    <2>1. ~counts.ok
      BY <1>12, <1>13, OutcomeOk DEF len
    <2>2. ~(end <= len)
      BY <1>5, <1>13
    <2> QED
      BY <1>2, <1>6, <1>7, <2>1, <2>2 DEF end, len
  <1>14. CASE e5 <= len
    <2>1. /\ counts.ok /\ counts.val = p5 /\ mask.val = p3
          /\ header.val = m.header /\ token.val = m.token
      <3>1. e2 <= len /\ e3 <= len /\ e4 <= len
        BY <1>5, <1>14
      <3> QED
        BY <1>9, <1>10, <1>11, <1>12, <1>14, <3>1 DEF Outcome, Reached, len, p2, p4
    <2>2. /\ m.keys \in Seq(Keys) /\ m.instrs \in Seq(InstrSet) /\ Len(m.instrs) \in Nat
          /\ \A i \in DOMAIN m.instrs : Len(m.instrs[i].accounts) < 256
          /\ ConfigSize(mask.val[1]) = Len(p7) /\ m.lookups = <<>>
      <3>1. m.keys \in Seq(Keys) /\ m.instrs \in Seq(InstrSet) /\ Len(m.instrs) \in Countable
        BY MessageFields
      <3>2. /\ ConfigSize(m.config.mask) = Len(m.config.values) /\ m.lookups = <<>>
            /\ \A i \in DOMAIN m.instrs : Len(m.instrs[i].accounts) < 256
        BY SMTT(30), V1Fields
      <3>3. mask.val[1] = m.config.mask
        BY <1>1, <2>1
      <3>4. ConfigSize(mask.val[1]) = Len(p7)
        BY <3>2, <3>3 DEF p7
      <3>5. Len(m.instrs) \in Nat
        BY <3>1 DEF Countable
      <3> QED
        BY <3>1, <3>2, <3>4, <3>5
    <2>3. keys = Outcome(buf, e6, m.keys)
      <3>1. KeyLoop(buf, Len(m.keys), counts) = Outcome(buf, e5 + Len(p6), m.keys)
        BY <1>3, <1>5, <1>12, <2>2, KeyLoopOutcome DEF p6, V1Keys
      <3> QED
        BY <1>1, <2>1, <3>1 DEF e6
    <2> HIDE DEF keys
    <2>4. config = Outcome(buf, e7, p7)
      <3>1. Take(buf, keys, Len(p7)) = Outcome(buf, e6 + Len(p7), p7)
        <4>1. e6 \in Nat /\ p7 \in ByteSeq /\ Lies(p7, buf, e6)
          BY <1>1, <1>3, <1>5
        <4> QED
          BY <2>3, <4>1, TakeOutcome
      <3> QED
        BY <2>2, <3>1 DEF e7
    <2> HIDE DEF config
    <2>5. heads = Outcome(buf, e8, p8)
      <3>1. Take(buf, config, Len(p8)) = Outcome(buf, e7 + Len(p8), p8)
        <4>1. e7 \in Nat /\ p8 \in ByteSeq /\ Lies(p8, buf, e7)
          BY <1>1, <1>3, <1>5
        <4> QED
          BY <2>4, <4>1, TakeOutcome
      <3> QED
        BY <1>1, <2>1, <3>1 DEF e8
    <2> HIDE DEF heads
    <2>6. instrs = ContentsLoop(buf, heads.val, Len(m.instrs), heads)
      BY <1>1, <2>1
    <2> HIDE DEF instrs
    <2>7. instrs.ok <=> end <= len
      <3>1. CASE e8 <= len
        <4>1. heads.val = V1Heads(m)
          BY <2>5, <3>1 DEF Outcome, Reached, len, p8
        <4>2. instrs = Outcome(buf, end, m.instrs)
          <5>1. HeadersOf(heads.val, m.instrs)
            BY <2>2, <4>1, HeaderCodesType DEF V1Heads
          <5>2. ContentsLoop(buf, heads.val, Len(m.instrs), heads)
                  = Outcome(buf, e8 + Len(p9), m.instrs)
            <6>1. e8 \in Nat /\ Lies(Concat(ContentsCodes(m.instrs)), buf, e8)
              BY <1>3, <1>5 DEF p9, V1Bodies
            <6>2. p9 = Concat(ContentsCodes(m.instrs))
              BY DEF p9, V1Bodies
            <6> QED
              BY <2>2, <2>5, <5>1, <6>1, <6>2, ContentsLoopOutcome
          <5> QED
            BY <1>5, <2>6, <5>2 DEF e9
        <4> QED
          BY <4>2, OutcomeOk DEF len
      <3>2. CASE ~(e8 <= len)
        <4>1. heads = Failed
          BY <2>5, <3>2 DEF Outcome, len
        <4>2. /\ \E g : Loops("contents", buf, heads.val, Len(m.instrs), Failed, g)
              /\ \A g : Loops("contents", buf, heads.val, Len(m.instrs), Failed, g)
                          => g[Len(m.instrs)] = Failed
          BY <2>2, FailedLoop
        <4>3. instrs = Failed
          BY <2>2, <2>6, <4>1, <4>2, ContentsLoopSolves
        <4>4. ~instrs.ok
          BY <4>3 DEF Failed
        <4> QED
          BY <1>5, <3>2, <4>4
      <3> QED
        BY <3>1, <3>2
    <2>8. CASE end <= len
      <3>1. e8 <= len /\ e6 <= len
        BY <1>5, <2>8
      <3>2. heads.val = V1Heads(m) /\ keys.val = m.keys
        BY <2>3, <2>5, <3>1 DEF Outcome, Reached, len, p8
      <3>3. instrs = Outcome(buf, end, m.instrs)
        <4>1. HeadersOf(heads.val, m.instrs)
          BY <2>2, <3>2, HeaderCodesType DEF V1Heads
        <4>2. ContentsLoop(buf, heads.val, Len(m.instrs), heads)
                = Outcome(buf, e8 + Len(p9), m.instrs)
          <5>1. e8 \in Nat /\ Lies(Concat(ContentsCodes(m.instrs)), buf, e8)
            BY <1>3, <1>5 DEF p9, V1Bodies
          <5>2. p9 = Concat(ContentsCodes(m.instrs))
            BY DEF p9, V1Bodies
          <5> QED
            BY <2>2, <2>5, <4>1, <5>1, <5>2, ContentsLoopOutcome
        <4> QED
          BY <1>5, <2>6, <4>2 DEF e9
      <3>4. instrs.ok /\ instrs.val = m.instrs
        BY <2>8, <3>3 DEF Outcome, Reached, len
      <3>5. DecodeV1(buf) = Expected(m)
        BY <1>7, <2>1, <2>2, <3>2, <3>4 DEF Message, Expected
      <3> QED
        BY <1>2, <1>6, <2>8, <3>5 DEF end, len
    <2>9. CASE ~(end <= len)
      <3>1. DecodeV1(buf) = [ok |-> FALSE]
        BY <1>7, <2>1, <2>7, <2>9 DEF Message
      <3> QED
        BY <1>2, <1>6, <2>9, <3>1 DEF end, len
    <2> QED
      BY <2>8, <2>9
  <1> QED
    BY <1>13, <1>14

LEMMA TakeFailed ==
  ASSUME NEW buf \in ByteSeq, NEW n \in Nat
  PROVE  Take(buf, Failed, n) = Failed
  <1> DEFINE c == Failed
             there == c.at + n <= Len(buf)
             rest == Reached(c.at + n, SubSeq(buf, c.at + 1, c.at + n))
  <1>1. ~c.ok
    BY DEF Failed
  <1> HIDE DEF c
  <1>2. Take(buf, c, n) = IF c.ok /\ there THEN rest ELSE Failed
    BY TakeIs
  <1> HIDE DEF there, rest
  <1>3. Take(buf, c, n) = Failed
    BY <1>1, <1>2
  <1> QED
    BY <1>3 DEF c

LEMMA TakeNothing ==
  ASSUME NEW buf \in ByteSeq, NEW n \in Nat, Len(buf) < n
  PROVE  Take(buf, Reached(0, <<>>), n) = Failed
  <1> DEFINE c == Reached(0, <<>>)
             there == c.at + n <= Len(buf)
             rest == Reached(c.at + n, SubSeq(buf, c.at + 1, c.at + n))
  <1>1. c.at = 0
    BY DEF Reached
  <1> HIDE DEF c
  <1>2. ~there
    BY <1>1, ByteLen
  <1>3. Take(buf, c, n) = IF c.ok /\ there THEN rest ELSE Failed
    BY TakeIs
  <1> HIDE DEF there, rest
  <1>4. Take(buf, c, n) = Failed
    BY <1>2, <1>3
  <1> QED
    BY <1>4 DEF c

LEMMA NothingDecoded ==
  DecodeMessage(<<>>) = [ok |-> FALSE]
  <1> DEFINE buf    == <<>>
             header == Take(buf, Reached(0, <<>>), 3)
             keys   == KeyVector(buf, header)
             token  == Key(buf, keys)
             instrs == InstructionVector(buf, token)
  <1>1. ~Versioned(buf) /\ ~StartsV1(buf) /\ Len(buf) = 0 /\ buf \in ByteSeq
    BY DEF Versioned, StartsV1, ByteSeq
  <1>2. DecodeMessage(buf) = Message(instrs, <<>>, header, keys, token, instrs, <<>>)
    BY <1>1, LegacyDecoded DEF DecodeMessage
  <1>3. header = Failed
    <2>1. 3 \in Nat /\ Len(buf) < 3
      BY <1>1
    <2> HIDE DEF buf
    <2> QED
      BY <1>1, <2>1, TakeNothing
  <1>4. Shortvec(buf, Failed) = Failed
    BY DEF Shortvec, Failed
  <1>5. ~Failed.ok
    BY DEF Failed
  <1>6. KeyVector(buf, Failed) = Failed /\ InstructionVector(buf, Failed) = Failed
    BY <1>4, <1>5 DEF KeyVector, InstructionVector, Vector
  <1>7. Key(buf, Failed) = Failed
    BY <1>1, TakeFailed, SigLenType DEF Key
  <1>8. instrs = Failed
    BY <1>3, <1>6, <1>7
  <1> HIDE DEF header, keys, token, instrs
  <1> QED
    BY <1>2, <1>5, <1>8 DEF Message

\* decode_message of the bytes of a message that have come: the message, if
\* they are all there.
LEMMA Decodes ==
  ASSUME NEW buf \in ByteSeq, NEW m, IsMessage(m),
         m.version = <<>> => m.header[1] < 128,
         Len(buf) <= Len(EncodeMessage(m)), Lies(EncodeMessage(m), buf, 0)
  PROVE  DecodeMessage(buf) = Decoded(buf, m)
  <1>1. CASE m.version = <<>>
    BY <1>1, DecodesLegacy
  <1>2. CASE m.version = << 1 >>
    <2>1. EncodeMessage(m) = EncodeV1(m)
      <3>1. << 1 >> # <<>>
        OBVIOUS
      <3> QED
        BY <1>2, <3>1 DEF EncodeMessage
    <2>2. Len(EncodeV1(m)) \in Nat /\ Len(EncodeV1(m)) > 0 /\ Len(buf) \in Nat
      <3>1. Len(EncodeV1(m)) \in Nat /\ Len(EncodeV1(m)) >= KeyLen + 10
        BY <1>2, V1Length
      <3> QED
        BY <3>1, SigLenType, ByteLen
    <2>3. CASE buf = <<>>
      <3>1. Len(buf) # Len(EncodeMessage(m))
        BY <2>1, <2>2, <2>3
      <3> QED
        BY <2>3, <3>1, NothingDecoded DEF Decoded
    <2>4. CASE buf # <<>>
      <3>1. DecodeMessage(buf) = DecodeV1(buf)
        BY <1>2, <2>1, <2>4, V1Outcome DEF DecodeMessage
      <3>2. Len(EncodeV1(m)) <= Len(buf) <=> Len(buf) = Len(EncodeMessage(m))
        BY <2>1, <2>2
      <3> QED
        BY <1>2, <2>1, <2>4, <3>1, <3>2, V1Outcome DEF Decoded
    <2> QED
      BY <2>3, <2>4
  <1>3. CASE m.version \notin {<<>>, << 1 >>}
    BY <1>3, DecodesVersioned
  <1> QED
    BY <1>1, <1>2, <1>3

-----------------------------------------------------------------------------
(* Transactions: the signatures before the message or behind it.           *)

SigSet == [1..SigLen -> 0..255]

\* What is known of a transaction that is sent.
LEMMA TransactionFields ==
  ASSUME NEW t \in Transactions
  PROVE  /\ IsMessage(t.message)
         /\ t.sigs \in Seq(SigSet)
         /\ Len(t.sigs) \in 1..255 /\ Len(t.sigs) \in Nat
         /\ t.message.header[1] = Len(t.sigs)
         /\ t.message.version = <<>> => Len(t.sigs) < 128
         /\ t.message.version # << 1 >> => Len(t.sigs) # 129
  <1>1. /\ IsMessage(t.message) /\ t.sigs \in Seq(SigSet)
        /\ Len(t.sigs) \in 1..255 /\ t.message.header[1] = Len(t.sigs)
        /\ t.message.version = <<>> => Len(t.sigs) < 128
        /\ t.message.version # << 1 >> => Len(t.sigs) # 129
    BY FormatAssumption DEF SigSet
  <1>2. ASSUME NEW n \in 1..255 PROVE n \in Nat
    OBVIOUS
  <1> QED
    BY <1>1, <1>2

\* Signatures in one: the kth lies behind k - 1 others.
LEMMA SignatureCodes ==
  ASSUME NEW s \in Seq(SigSet)
  PROVE  /\ \A k \in 1..Len(s) : s[k] \in ByteSeq /\ Len(s[k]) = SigLen
         /\ Concat(s) \in ByteSeq /\ Len(Concat(s)) = SigLen * Len(s)
         /\ \A buf : \A at \in Nat :
              Lies(Concat(s), buf, at) =>
                \A k \in 1..Len(s) : Lies(s[k], buf, at + SigLen * (k - 1))
         /\ s = [k \in DOMAIN s |-> s[k]]
  <1>1. ASSUME NEW sig \in SigSet PROVE sig \in ByteSeq /\ Len(sig) = SigLen
    BY FixedSeq, SigLenType DEF SigSet
  <1> HIDE DEF SigSet
  <1>2. \A k \in 1..Len(s) : s[k] \in SigSet
    OBVIOUS
  <1>3. s \in Seq(ByteSeq)
    <2>1. SigSet \subseteq ByteSeq
      BY <1>1
    <2> HIDE DEF ByteSeq
    <2> QED
      BY <2>1
  <1>4. s = [k \in DOMAIN s |-> s[k]]
    OBVIOUS
  <1> QED
    BY <1>1, <1>2, <1>3, <1>4, EvenlyPlaced, SigLenType

\* A count of signatures takes a byte, or two from 128 on; either way the first
\* byte is the count, its high bit saying that there is another.
LEMMA CountBytes ==
  ASSUME NEW n \in 1..255
  PROVE  LET e == EncodeShortvec(n)
         IN  /\ n \in Countable /\ e \in ByteSeq /\ Len(e) \in 1..2
             /\ e[1] = n /\ e[Len(e)] < 128
             /\ \A i \in 1..(Len(e) - 1) : e[i] >= 128
             /\ n < 128 => Len(e) = 1
  <1> DEFINE e == EncodeShortvec(n)
  <1>1. n \in Countable /\ n < 128 * 128
    BY DEF Countable
  <1>2. /\ e \in ByteSeq /\ e[Len(e)] < 128
        /\ \A i \in 1..(Len(e) - 1) : e[i] >= 128
    BY <1>1, ShortvecShape
  <1>3. CASE n < 128
    <2>1. e = <<n>>
      BY <1>3 DEF EncodeShortvec
    <2>2. Len(e) = 1 /\ e[1] = n
      BY <2>1
    <2> HIDE DEF e
    <2> QED
      BY <1>1, <1>2, <2>2 DEF e
  <1>4. CASE ~(n < 128)
    <2>1. e = <<128 + (n % 128), n \div 128>>
      BY <1>1, <1>4 DEF EncodeShortvec
    <2>2. 128 + (n % 128) = n
      BY <1>4
    <2>3. Len(e) = 2 /\ e[1] = n
      BY <2>1, <2>2
    <2> HIDE DEF e
    <2> QED
      BY <1>1, <1>2, <1>4, <2>3 DEF e
  <1> QED
    BY <1>3, <1>4

\* Signatures before a message: their count, and they.
LEMMA SignatureVector ==
  ASSUME NEW s \in Seq(SigSet), Len(s) \in 1..255
  PROVE  LET count == EncodeShortvec(Len(s))
         IN  /\ EncodeVector(s, LAMBDA sig : sig) = count \o Concat(s)
             /\ count \o Concat(s) \in ByteSeq
             /\ Len(count \o Concat(s)) = Len(count) + SigLen * Len(s)
  <1> DEFINE n == Len(s)
             count == EncodeShortvec(n)
  <1>1. EncodeVector(s, LAMBDA sig : sig) = count \o Concat(s)
    <2>1. EncodeVector(s, LAMBDA sig : sig)
            = count \o Concat([k \in DOMAIN s |-> s[k]])
      BY DEF EncodeVector, All
    <2>2. s = [k \in DOMAIN s |-> s[k]]
      BY SignatureCodes
    <2> QED
      BY <2>1, <2>2
  <1>2. Concat(s) \in ByteSeq /\ Len(Concat(s)) = SigLen * n
    BY SignatureCodes
  <1>3. count \in ByteSeq
    BY CountBytes
  <1> HIDE DEF n, count
  <1>4. count \o Concat(s) \in ByteSeq /\ Len(count \o Concat(s)) = Len(count) + SigLen * n
    BY <1>2, <1>3, Join
  <1> QED
    BY <1>1, <1>4 DEF n, count

LEMMA MessageType ==
  ASSUME NEW m, IsMessage(m)
  PROVE  /\ EncodeMessage(m) \in ByteSeq /\ Len(EncodeMessage(m)) \in Nat
         /\ m.version = << 1 >> => EncodeMessage(m) = EncodeV1(m)
  <1>1. << 1 >> # <<>>
    OBVIOUS
  <1>2. CASE m.version = <<>>
    <2>1. EncodeMessage(m) = EncodeLegacy(m)
      BY <1>2 DEF EncodeMessage
    <2> QED
      BY <1>1, <1>2, <2>1, LegacyLength
  <1>3. CASE m.version = << 1 >>
    <2>1. EncodeMessage(m) = EncodeV1(m)
      BY <1>1, <1>3 DEF EncodeMessage
    <2> QED
      BY <1>3, <2>1, V1Length
  <1>4. CASE m.version \notin {<<>>, << 1 >>}
    <2> DEFINE v == m.version[1]
               a == <<128 + v>>
               b == EncodeLegacy(m)
               c == LookupsCode(m.lookups)
    <2>1. EncodeMessage(m) = a \o b \o c
      BY <1>4 DEF EncodeMessage, EncodeVector, All, LookupsCode, LookupCodes
    <2>2. a \in ByteSeq
      <3>1. v \in 0..127
        <4>1. m.version \in {<<x>> : x \in 0..127}
          BY <1>4 DEF IsMessage
        <4> QED
          BY <4>1
      <3> HIDE DEF v
      <3>2. 128 + v \in 0..255
        BY <3>1
      <3> QED
        BY <3>2 DEF ByteSeq
    <2>3. b \in ByteSeq
      BY LegacyLength
    <2>4. c \in ByteSeq
      BY MessageFields, CodesType
    <2> HIDE DEF a, b, c
    <2>5. a \o b \in ByteSeq
      BY <2>2, <2>3, Join
    <2>6. (a \o b) \o c \in ByteSeq /\ Len((a \o b) \o c) \in Nat
      <3> DEFINE ab == a \o b
      <3> HIDE DEF ab
      <3>1. ab \in ByteSeq
        BY <2>5 DEF ab
      <3>2. ab \o c \in ByteSeq
        BY <2>4, <3>1, Join
      <3> QED
        BY <3>2, ByteLen DEF ab
    <2> QED
      BY <1>4, <2>1, <2>6
  <1> QED
    BY <1>2, <1>3, <1>4

\* The first bytes of what lies at the start, and the bytes behind a place.
LEMMA FirstBytes ==
  ASSUME NEW buf \in ByteSeq, NEW p, Lies(p, buf, 0), NEW k \in Nat, k <= Len(buf)
  PROVE  LET cut == SubSeq(buf, 1, k)
         IN  cut \in ByteSeq /\ Len(cut) = k /\ Lies(p, cut, 0)
  <1> DEFINE Byte == 0..255
             cut == SubSeq(buf, 1, k)
  <1>1. buf \in Seq(Byte) /\ Len(buf) \in Nat
    BY DEF ByteSeq
  <1> HIDE DEF Byte
  <1>2. cut \in Seq(Byte) /\ Len(cut) = k /\ \A i \in 1..k : cut[i] = buf[i]
    BY <1>1
  <1> HIDE DEF cut
  <1>3. ASSUME NEW i \in 1..Len(p), 0 + i <= Len(cut) PROVE cut[0 + i] = p[i]
    <2>1. i \in Int /\ i >= 1
      OBVIOUS
    <2>2. 0 + i = i /\ i \in 1..k /\ i <= Len(buf)
      BY <1>1, <1>2, <1>3, <2>1
    <2>3. buf[0 + i] = p[i]
      BY <2>2 DEF Lies
    <2> QED
      BY <1>2, <2>2, <2>3
  <1> QED
    BY <1>2, <1>3 DEF Lies, ByteSeq, Byte, cut

LEMMA LastBytes ==
  ASSUME NEW buf \in ByteSeq, NEW k \in Nat, NEW p, Lies(p, buf, k), k <= Len(buf)
  PROVE  LET rest == SubSeq(buf, k + 1, Len(buf))
         IN  rest \in ByteSeq /\ Len(rest) = Len(buf) - k /\ Lies(p, rest, 0)
  <1> DEFINE Byte == 0..255
             len == Len(buf)
             rest == SubSeq(buf, k + 1, len)
  <1>1. buf \in Seq(Byte) /\ len \in Nat
    BY DEF ByteSeq
  <1> HIDE DEF Byte
  <1>2. rest \in Seq(Byte) /\ Len(rest) = len - k /\ \A i \in 1..(len - k) : rest[i] = buf[k + i]
    BY <1>1
  <1> HIDE DEF rest
  <1>3. ASSUME NEW i \in 1..Len(p), 0 + i <= Len(rest) PROVE rest[0 + i] = p[i]
    <2>1. i \in Int /\ i >= 1
      OBVIOUS
    <2>2. 0 + i = i /\ i \in 1..(len - k) /\ k + i <= len
      BY <1>1, <1>2, <1>3, <2>1
    <2>3. buf[k + i] = p[i]
      BY <2>2 DEF Lies
    <2> QED
      BY <1>2, <2>2, <2>3
  <1> QED
    BY <1>2, <1>3 DEF Lies, ByteSeq, Byte, rest

\* A transaction of which buf holds what has come.
Starts(buf, t) == buf \in ByteSeq /\ Lies(EncodeTransaction(t), buf, 0)
IsPart(buf, t) == Starts(buf, t) /\ Len(buf) <= Len(EncodeTransaction(t))

\* Where the message of a legacy or versioned transaction starts.
Behind(t) == Len(EncodeShortvec(Len(t.sigs))) + SigLen * Len(t.sigs)

LEMMA LegacyParts ==
  ASSUME NEW t \in Transactions, t.message.version # << 1 >>, NEW buf, Starts(buf, t)
  PROVE  LET count == EncodeShortvec(Len(t.sigs))
             sigs == count \o Concat(t.sigs)
             message == EncodeMessage(t.message)
         IN  /\ EncodeTransaction(t) = sigs \o message
             /\ sigs \in ByteSeq /\ Len(sigs) = Behind(t) /\ Behind(t) \in Nat
             /\ Lies(sigs, buf, 0) /\ Lies(count, buf, 0)
             /\ Lies(Concat(t.sigs), buf, Len(count))
             /\ Lies(message, buf, Behind(t))
             /\ Len(EncodeTransaction(t)) = Behind(t) + Len(message)
             /\ ~StartsV1(buf) /\ (buf # <<>> => buf[1] = Len(t.sigs))
             /\ Shortvec(buf, Reached(0, <<>>)) = Outcome(buf, Len(count), Len(t.sigs))
  <1> DEFINE n == Len(t.sigs)
             count == EncodeShortvec(n)
             cat == Concat(t.sigs)
             sigs == count \o cat
             message == EncodeMessage(t.message)
  <1>1. /\ EncodeVector(t.sigs, LAMBDA sig : sig) = sigs
        /\ sigs \in ByteSeq /\ Len(sigs) = Behind(t)
    BY TransactionFields, SignatureVector DEF Behind
  <1>0. n \in Countable /\ n # V1 /\ count \in ByteSeq /\ Len(count) \in 1..2 /\ count[1] = n
    <2>1. n \in 1..255 /\ n # 129
      BY TransactionFields
    <2> HIDE DEF n
    <2> QED
      BY <2>1, CountBytes DEF V1
  <1>2. cat \in ByteSeq /\ message \in ByteSeq
    BY TransactionFields, SignatureCodes, MessageType
  <1>3. EncodeTransaction(t) = sigs \o message
    BY <1>1 DEF EncodeTransaction
  <1>4. buf \in ByteSeq /\ Lies(sigs \o message, buf, 0) /\ 0 \in Nat
    BY <1>3 DEF Starts
  <1> HIDE DEF count, cat, message
  <1>5. Lies(sigs, buf, 0) /\ Lies(message, buf, 0 + Len(sigs))
    <2> HIDE DEF sigs
    <2> QED
      BY <1>1, <1>2, <1>4, LiesParts
  <1>6. Lies(count, buf, 0) /\ Lies(cat, buf, 0 + Len(count))
    BY <1>0, <1>1, <1>2, <1>4, <1>5, LiesParts
  <1>7. Len(sigs \o message) = Len(sigs) + Len(message) /\ Len(sigs) \in Nat
    <2> HIDE DEF sigs
    <2> QED
      BY <1>1, <1>2, Join
  <1> HIDE DEF sigs
  <1>8. Len(buf) \in Nat /\ Lies(message, buf, Behind(t)) /\ Behind(t) \in Nat
    BY <1>1, <1>4, <1>5, <1>7, ByteLen
  <1>9. buf # <<>> => buf[1] = n
    <2> SUFFICES ASSUME buf # <<>> PROVE buf[1] = n
      OBVIOUS
    <2>1. 0 + 1 <= Len(buf)
      BY <1>4 DEF ByteSeq
    <2>2. 1 \in 1..Len(count)
      BY <1>0
    <2>3. buf[0 + 1] = count[1]
      BY <1>6, <2>1, <2>2 DEF Lies
    <2> QED
      BY <1>0, <2>3
  <1>10. ~StartsV1(buf)
    BY <1>0, <1>9 DEF StartsV1
  <1>11. 0 + Len(count) = Len(count)
    BY <1>0
  <1>12. Shortvec(buf, Reached(0, <<>>)) = Outcome(buf, Len(count), n)
    <2>1. Reached(0, <<>>) = Outcome(buf, 0, <<>>)
      BY <1>8 DEF Outcome
    <2>2. Lies(EncodeShortvec(n), buf, 0)
      BY <1>6 DEF count
    <2> DEFINE start == Reached(0, <<>>)
    <2> HIDE DEF start, n
    <2>3. Shortvec(buf, start) = Outcome(buf, 0 + Len(EncodeShortvec(n)), n)
      BY <1>0, <1>4, <2>1, <2>2, ShortvecOutcome DEF start
    <2> QED
      BY <1>11, <2>3 DEF start, count
  <1>13. Lies(cat, buf, Len(count))
    BY <1>6, <1>11
  <1>14. Len(EncodeTransaction(t)) = Behind(t) + Len(message)
    BY <1>1, <1>3, <1>7
  <1> QED
    BY <1>1, <1>3, <1>5, <1>6, <1>8, <1>9, <1>10, <1>12, <1>13, <1>14
    DEF sigs, count, cat, message

\* message_bytes finds the message once the signatures before it are there.
LEMMA LegacyMessage ==
  ASSUME NEW t \in Transactions, t.message.version # << 1 >>, NEW buf, IsPart(buf, t)
  PROVE  /\ MessageBytes(buf) =
              IF Behind(t) <= Len(buf)
                THEN Reached(0, SubSeq(buf, Behind(t) + 1, Len(buf))) ELSE Failed
         /\ Parse(buf) = IF Len(buf) = Len(EncodeTransaction(t)) THEN Expected(t.message)
                                                                ELSE [ok |-> FALSE]
  <1> DEFINE m == t.message
             n == Len(t.sigs)
             b == Behind(t)
             len == Len(buf)
             whole == Len(EncodeTransaction(t))
             rest == SubSeq(buf, b + 1, len)
             prefix == Shortvec(buf, Reached(0, <<>>))
             size == Len(EncodeShortvec(n))
  <1>1. /\ b \in Nat /\ whole = b + Len(EncodeMessage(m)) /\ ~StartsV1(buf)
        /\ Lies(EncodeMessage(m), buf, b) /\ prefix = Outcome(buf, size, n)
    BY LegacyParts DEF IsPart
  <1>2. buf \in ByteSeq /\ len \in Nat /\ len <= whole
    BY ByteLen DEF IsPart, Starts
  <1>3. /\ IsMessage(m) /\ n \in Nat /\ m.header[1] = n
        /\ m.version = <<>> => n < 128
    BY TransactionFields
  <1>0. size \in Nat
    <2>1. size \in 1..2
      BY TransactionFields, CountBytes
    <2> HIDE DEF size
    <2> QED
      BY <2>1
  <1>4. Len(EncodeMessage(m)) \in Nat /\ b = size + n * SigLen /\ n * SigLen \in Nat
    <2>1. SigLen * n = n * SigLen /\ n * SigLen \in Nat
      BY <1>3, SigLenType
    <2> QED
      BY <1>3, <2>1, MessageType DEF Behind
  <1>5. MessageBytes(buf) = IF prefix.ok /\ prefix.at + prefix.val * SigLen <= len
                              THEN Reached(0, SubSeq(buf, prefix.at + prefix.val * SigLen + 1, len))
                              ELSE Failed
    BY <1>1 DEF MessageBytes
  <1> HIDE DEF prefix, size, len, whole
  <1>6. prefix.ok <=> size <= len
    BY <1>1, OutcomeOk DEF len
  <1>7. prefix.ok => prefix.at = size /\ prefix.val = n
    BY <1>1, <1>6, OutcomeOk DEF Reached, len
  <1>8. b <= len => size <= len
    <2> DEFINE sigs == n * SigLen
    <2>1. b = size + sigs /\ sigs \in Nat
      BY <1>4
    <2> HIDE DEF b, sigs
    <2> QED
      BY <1>0, <1>1, <1>2, <2>1
  <1>9. CASE b <= len
    <2>1. MessageBytes(buf) = Reached(0, rest)
      BY <1>4, <1>5, <1>6, <1>7, <1>8, <1>9
    <2>2. MessageBytes(buf).ok /\ MessageBytes(buf).val = rest
      <3> HIDE DEF rest
      <3> QED
        BY <2>1 DEF Reached
    <2>3. rest \in ByteSeq /\ Len(rest) = len - b /\ Lies(EncodeMessage(m), rest, 0)
      BY <1>1, <1>2, <1>9, LastBytes DEF len
    <2> HIDE DEF rest
    <2>4. /\ Len(rest) <= Len(EncodeMessage(m))
          /\ Len(rest) = Len(EncodeMessage(m)) <=> len = whole
      <3> DEFINE r == Len(rest)
                 l == Len(EncodeMessage(m))
      <3>1. r = len - b /\ whole = b + l /\ len <= whole
        BY <1>1, <1>2, <2>3
      <3>2. b \in Nat /\ l \in Nat /\ len \in Nat
        BY <1>1, <1>2, <1>4
      <3> HIDE DEF b, r, l
      <3>3. r <= l /\ (r = l <=> len = whole)
        BY <3>1, <3>2
      <3> QED
        BY <3>3 DEF r, l
    <2>5. DecodeMessage(rest) = Decoded(rest, m)
      <3>1. m.version = <<>> => m.header[1] < 128
        BY <1>3
      <3> QED
        BY <1>3, <2>3, <2>4, <3>1, Decodes
    <2>6. Parse(buf) = Decoded(rest, m)
      BY <2>2, <2>5 DEF Parse
    <2> QED
      BY <1>9, <2>1, <2>4, <2>6 DEF Decoded, rest, len, whole
  <1>10. CASE ~(b <= len)
    <2>1. MessageBytes(buf) = Failed
      BY <1>4, <1>5, <1>7, <1>10
    <2>2. ~MessageBytes(buf).ok
      BY <2>1 DEF Failed
    <2>3. len # whole
      <3> HIDE DEF b, m
      <3> QED
        BY <1>1, <1>2, <1>4, <1>10
    <2> QED
      BY <1>10, <2>1, <2>2, <2>3 DEF Parse, len, whole
  <1> QED
    BY <1>9, <1>10

LEMMA V1Parts ==
  ASSUME NEW t \in Transactions, t.message.version = << 1 >>, NEW buf, Starts(buf, t)
  PROVE  LET message == EncodeV1(t.message)
             sigs == Concat(t.sigs)
         IN  /\ EncodeTransaction(t) = message \o sigs
             /\ message \in ByteSeq /\ Len(message) \in Nat /\ Len(message) >= KeyLen + 10
             /\ sigs \in ByteSeq /\ Len(sigs) = SigLen * Len(t.sigs)
             /\ SigLen * Len(t.sigs) \in Nat
             /\ Lies(message, buf, 0) /\ Lies(sigs, buf, Len(message))
             /\ Len(EncodeTransaction(t)) = Len(message) + SigLen * Len(t.sigs)
             /\ buf # <<>> => StartsV1(buf)
             /\ Len(buf) >= 2 => buf[2] = Len(t.sigs)
  <1> DEFINE n == Len(t.sigs)
             message == EncodeV1(t.message)
             sigs == Concat(t.sigs)
  <1>1. IsMessage(t.message) /\ t.message.header[1] = n /\ n \in Nat
    BY TransactionFields
  <1>2. /\ message \in ByteSeq /\ Len(message) \in Nat /\ Len(message) >= KeyLen + 10
        /\ Lies(message, buf, 0) => /\ 1 <= Len(buf) => buf[1] = V1
                                    /\ 2 <= Len(buf) => buf[2] = n
    BY <1>1, V1Length
  <1>3. sigs \in ByteSeq /\ Len(sigs) = SigLen * n /\ SigLen * n \in Nat
    BY <1>1, TransactionFields, SignatureCodes, SigLenType
  <1>4. EncodeTransaction(t) = message \o sigs
    BY <1>1, MessageType DEF EncodeTransaction
  <1>5. buf \in ByteSeq /\ Lies(message \o sigs, buf, 0) /\ 0 \in Nat
    BY <1>4 DEF Starts
  <1> HIDE DEF message, sigs
  <1>6. /\ Lies(message, buf, 0) /\ Lies(sigs, buf, 0 + Len(message))
        /\ Len(message \o sigs) = Len(message) + Len(sigs)
    BY <1>2, <1>3, <1>5, LiesParts, Join
  <1>7. 0 + Len(message) = Len(message)
    BY <1>2
  <1>8. Len(buf) \in Nat /\ (buf # <<>> => 1 <= Len(buf))
    BY <1>5 DEF ByteSeq
  <1>9. /\ buf # <<>> => StartsV1(buf)
        /\ Len(buf) >= 2 => buf[2] = n
    BY <1>2, <1>6, <1>8 DEF StartsV1
  <1>10. Len(EncodeTransaction(t)) = Len(message) + SigLen * n
    BY <1>3, <1>4, <1>6
  <1> QED
    BY <1>2, <1>3, <1>4, <1>6, <1>7, <1>9, <1>10 DEF message, sigs

LEMMA NothingThere ==
  ASSUME NEW buf, buf = <<>>
  PROVE  ~MessageBytes(buf).ok
  <1> DEFINE c == Reached(0, <<>>)
  <1>1. ~StartsV1(buf)
    BY DEF StartsV1
  <1>2. Sizes(buf, c.at, 4) = {}
    <2>1. \A size \in 1..4 : ~(0 + size <= Len(buf))
      OBVIOUS
    <2>2. c.at = 0
      BY DEF Reached
    <2> HIDE DEF c
    <2> QED
      BY <2>1, <2>2 DEF Sizes
  <1>3. Shortvec(buf, c) = Failed
    BY <1>2 DEF Shortvec
  <1>4. ~Shortvec(buf, c).ok
    BY <1>3 DEF Failed
  <1>5. MessageBytes(buf) = Failed
    BY <1>1, <1>4 DEF MessageBytes
  <1> QED
    BY <1>5 DEF Failed

\* message_bytes leaves out as many bytes at the end as the signatures take,
\* whether they are those or not: what it finds of a cut transaction is cut.
LEMMA V1Message ==
  ASSUME NEW t \in Transactions, t.message.version = << 1 >>, NEW buf, IsPart(buf, t)
  PROVE  Parse(buf) = IF Len(buf) = Len(EncodeTransaction(t)) THEN Expected(t.message)
                                                             ELSE [ok |-> FALSE]
  <1> DEFINE m == t.message
             n == Len(t.sigs)
             size == SigLen * n
             len == Len(buf)
             whole == Len(EncodeTransaction(t))
             full == Len(EncodeV1(m))
             cut == SubSeq(buf, 1, len - size)
  <1>1. /\ full \in Nat /\ full >= KeyLen + 10 /\ size \in Nat /\ whole = full + size
        /\ Lies(EncodeV1(m), buf, 0) /\ (buf # <<>> => StartsV1(buf))
        /\ Len(buf) >= 2 => buf[2] = n
    BY V1Parts DEF IsPart
  <1>2. buf \in ByteSeq /\ len \in Nat /\ len <= whole
    BY ByteLen DEF IsPart, Starts
  <1>3. IsMessage(m) /\ EncodeMessage(m) = EncodeV1(m)
    BY TransactionFields, MessageType
  <1>4. KeyLen \in Nat
    BY SigLenType
  <1> DEFINE there == len >= 2 /\ len >= size + KeyLen + 10
  <1>5. there <=> len >= size + KeyLen + 10
    <2> HIDE DEF size, len
    <2> QED
      BY <1>1, <1>2, <1>4
  <1>6. buf # <<>> =>
          MessageBytes(buf) = IF there THEN Reached(0, cut) ELSE Failed
    <2> HIDE DEF cut
    <2> SUFFICES ASSUME buf # <<>>
                 PROVE  MessageBytes(buf) = IF there THEN Reached(0, cut) ELSE Failed
      OBVIOUS
    <2>1. MessageBytes(buf) =
            IF Len(buf) >= 2 /\ Len(buf) >= SigLen * buf[2] + KeyLen + 10
              THEN Reached(0, SubSeq(buf, 1, Len(buf) - SigLen * buf[2])) ELSE Failed
      BY <1>1 DEF MessageBytes
    <2>2. CASE ~(Len(buf) >= 2)
      BY <2>1, <2>2
    <2>3. CASE Len(buf) >= 2
      BY <1>1, <2>1, <2>3 DEF cut
    <2> QED
      BY <2>2, <2>3
  <1>7. buf = <<>> => ~MessageBytes(buf).ok
    BY NothingThere
  <1>8. buf = <<>> => len = 0
    OBVIOUS
  <1> HIDE DEF size, len, whole, full
  <1>9. CASE there /\ buf # <<>>
    <2>1. len - size \in Nat /\ len - size <= len
      BY <1>1, <1>2, <1>4, <1>5, <1>9
    <2>2. cut \in ByteSeq /\ Len(cut) = len - size /\ Lies(EncodeMessage(m), cut, 0)
      BY <1>1, <1>2, <1>3, <2>1, FirstBytes DEF len
    <2> HIDE DEF cut
    <2>3. MessageBytes(buf).ok /\ MessageBytes(buf).val = cut
      BY <1>6, <1>9 DEF Reached
    <2>4. /\ Len(cut) <= Len(EncodeMessage(m))
          /\ Len(cut) = Len(EncodeMessage(m)) <=> len = whole
      <3>1. Len(EncodeMessage(m)) = full
        BY <1>3 DEF full
      <3> HIDE DEF m
      <3> QED
        BY <1>1, <1>2, <2>2, <3>1
    <2>5. m.version # <<>>
      <3>1. << 1 >> # <<>>
        OBVIOUS
      <3> QED
        BY <3>1
    <2>6. DecodeMessage(cut) = Decoded(cut, m)
      BY <1>3, <2>2, <2>4, <2>5, Decodes
    <2>7. Parse(buf) = Decoded(cut, m)
      BY <2>3, <2>6 DEF Parse
    <2> QED
      BY <2>4, <2>7 DEF Decoded, len, whole
  <1>10. CASE ~(there /\ buf # <<>>)
    <2>1. ~MessageBytes(buf).ok
      BY <1>6, <1>7, <1>10 DEF Failed
    <2>2. len # whole
      BY <1>1, <1>2, <1>4, <1>5, <1>8, <1>10
    <2> QED
      BY <2>1, <2>2 DEF Parse, len, whole
  <1> QED
    BY <1>9, <1>10

-----------------------------------------------------------------------------
(* The invariants.                                                         *)

\* One of the transactions is sent, with signatures that may come with it, and
\* no more than its bytes arrive.
Arriving == /\ tx \in Transactions
            /\ provided \in Provided[tx]
            /\ arrived \in Nat /\ arrived <= Len(Wire)

LEMMA WireType ==
  ASSUME NEW t \in Transactions
  PROVE  EncodeTransaction(t) \in ByteSeq /\ Len(EncodeTransaction(t)) \in Nat
  <1> DEFINE none == <<>>
             message == EncodeMessage(t.message)
             sigs == EncodeShortvec(Len(t.sigs)) \o Concat(t.sigs)
             cat == Concat(t.sigs)
  <1>1. Starts(none, t)
    <2>1. none \in ByteSeq /\ Len(none) = 0
      BY DEF ByteSeq
    <2>2. \A i \in 1..Len(EncodeTransaction(t)) : ~(0 + i <= 0)
      OBVIOUS
    <2> QED
      BY <2>1, <2>2 DEF Lies, Starts
  <1>2. message \in ByteSeq
    BY TransactionFields, MessageType
  <1> HIDE DEF none
  <1>3. CASE t.message.version = << 1 >>
    <2>1. EncodeTransaction(t) = message \o cat /\ cat \in ByteSeq
      BY <1>1, <1>3, V1Parts, TransactionFields, MessageType
    <2> HIDE DEF message, cat
    <2> QED
      BY <1>2, <2>1, Join, ByteLen
  <1>4. CASE t.message.version # << 1 >>
    <2>1. EncodeTransaction(t) = sigs \o message /\ sigs \in ByteSeq
      BY <1>1, <1>4, LegacyParts
    <2> HIDE DEF message, sigs
    <2> QED
      BY <1>2, <2>1, Join, ByteLen
  <1> QED
    BY <1>3, <1>4

LEMMA BytesArrived ==
  ASSUME Arriving
  PROVE  /\ tx \in Transactions /\ IsPart(Bytes, tx) /\ Bytes \in ByteSeq
         /\ Len(Bytes) = arrived /\ Len(Wire) \in Nat
  <1>1. tx \in Transactions /\ arrived \in Nat /\ arrived <= Len(Wire)
    BY DEF Arriving
  <1>2. Wire \in ByteSeq /\ Len(Wire) \in Nat
    BY <1>1, WireType DEF Wire
  <1>3. Lies(Wire, Wire, 0)
    <2> DEFINE w == Wire
    <2>1. \A i \in 1..Len(w) : i \in Nat
      BY <1>2
    <2> HIDE DEF w
    <2>2. \A i \in 1..Len(w) : 0 + i = i
      BY <2>1
    <2>3. Lies(w, w, 0)
      BY <2>2 DEF Lies
    <2> QED
      BY <2>3 DEF w
  <1>4. Bytes \in ByteSeq /\ Len(Bytes) = arrived /\ Lies(Wire, Bytes, 0)
    BY <1>1, <1>2, <1>3, FirstBytes DEF Bytes
  <1> QED
    BY <1>1, <1>2, <1>4 DEF IsPart, Starts, Wire

LEMMA StaysArriving == Spec => []Arriving
  <1>1. Init => Arriving
    <2> SUFFICES ASSUME Init PROVE Arriving
      OBVIOUS
    <2>1. tx \in Transactions /\ provided \in Provided[tx] /\ arrived = 0
      BY DEF Init
    <2>2. Len(Wire) \in Nat
      BY <2>1, WireType DEF Wire
    <2> QED
      BY <2>1, <2>2 DEF Arriving
  <1>2. Arriving /\ [Next]_vars => Arriving'
    <2> SUFFICES ASSUME Arriving, [Next]_vars PROVE Arriving'
      OBVIOUS
    <2>1. Len(Wire) \in Nat
      BY BytesArrived
    <2>2. CASE Next
      <3>1. tx' = tx /\ provided' = provided /\ arrived' = arrived + 1 /\ arrived < Len(Wire)
        BY <2>2 DEF Next
      <3>2. Wire' = Wire
        BY <3>1 DEF Wire
      <3> QED
        BY <2>1, <3>1, <3>2 DEF Arriving
    <2>3. CASE UNCHANGED vars
      BY <2>3 DEF Arriving, vars, Wire
    <2> QED
      BY <2>2, <2>3
  <1> QED
    BY <1>1, <1>2, PTL DEF Spec

\* What parse returns of the bytes that have arrived.
LEMMA Parsed ==
  ASSUME Arriving
  PROVE  Parse(Bytes) = IF arrived = Len(Wire) THEN Expected(tx.message)
                                               ELSE [ok |-> FALSE]
  <1>1. tx \in Transactions /\ IsPart(Bytes, tx) /\ Len(Bytes) = arrived
    BY BytesArrived
  <1> QED
    BY <1>1, LegacyMessage, V1Message DEF Wire

\* parse returns the message that was sent, of whatever layout and size, field
\* by field, from every transaction that has arrived whole (message.rs:69-219,
\* README.md:119-143).
THEOREM ParsesEveryTransaction == Spec => []ParsesWhole
  <1>1. Arriving => ParsesWhole
    BY Parsed DEF ParsesWhole
  <1> QED
    BY <1>1, StaysArriving, PTL

\* parse returns an error for every transaction that ends early, wherever it is
\* cut: no count, length or offset in what has come makes it take a part for
\* the whole (message.rs:14-45, 69-219, 231).
THEOREM RefusesEveryCut == Spec => []RefusesCut
  <1>1. Arriving => RefusesCut
    BY Parsed DEF RefusesCut
  <1> QED
    BY <1>1, StaysArriving, PTL

-----------------------------------------------------------------------------
(* The signatures.                                                         *)

\* The signatures that lie in buf from `start` on are the chunks of it.
LEMMA ChunksOf ==
  ASSUME NEW s \in Seq(SigSet), NEW buf \in ByteSeq, NEW start \in Nat,
         Lies(Concat(s), buf, start), start + SigLen * Len(s) <= Len(buf)
  PROVE  s = [i \in 1..Len(s) |-> Chunk(buf, start, i)]
  <1> DEFINE n == Len(s)
  <1>1. /\ \A k \in 1..n : s[k] \in ByteSeq /\ Len(s[k]) = SigLen
        /\ \A k \in 1..n : Lies(s[k], buf, start + SigLen * (k - 1))
        /\ s = [k \in DOMAIN s |-> s[k]]
    BY SignatureCodes
  <1>2. n \in Nat /\ DOMAIN s = 1..n
    <2> HIDE DEF SigSet
    <2> QED
      OBVIOUS
  <1>3. Len(buf) \in Nat /\ SigLen \in Nat /\ SigLen > 0
    BY ByteLen, SigLenType
  <1> HIDE DEF n
  <1>4. ASSUME NEW i \in 1..n PROVE s[i] = Chunk(buf, start, i)
    <2> DEFINE at == start + SigLen * (i - 1)
               sig == s[i]
               len == Len(buf)
    <2>1. sig \in ByteSeq /\ Len(sig) = SigLen /\ Lies(sig, buf, at)
      BY <1>1
    <2>2. SigLen * (i - 1) + SigLen = SigLen * i /\ SigLen * i <= SigLen * n
          /\ SigLen * (i - 1) \in Nat /\ SigLen * n \in Nat /\ SigLen * i \in Nat
      BY <1>2, <1>3
    <2>3. start + SigLen * n <= len
      BY DEF n
    <2>4. Chunk(buf, start, i) = SubSeq(buf, at + 1, start + SigLen * i)
      BY DEF Chunk
    <2> DEFINE x == SigLen * (i - 1)
               y == SigLen * i
               z == SigLen * n
    <2>5. x + SigLen = y /\ y <= z /\ x \in Nat /\ z \in Nat /\ y \in Nat /\ start + z <= len
      BY <2>2, <2>3
    <2> HIDE DEF x, y, z, len
    <2>6. start + x \in Nat /\ start + y = start + x + SigLen /\ start + x + SigLen <= len
      BY <1>3, <2>5 DEF len
    <2>7. at \in Nat /\ start + SigLen * i = at + SigLen /\ at + SigLen <= Len(buf)
      BY <2>6 DEF x, y, len
    <2> HIDE DEF at, sig
    <2>8. SubSeq(buf, at + 1, at + Len(sig)) = sig
      BY <2>1, <2>7, PartRead
    <2> QED
      BY <2>1, <2>4, <2>7, <2>8 DEF sig
  <1>5. s = [i \in 1..n |-> Chunk(buf, start, i)]
    BY <1>1, <1>2, <1>4
  <1> QED
    BY <1>5 DEF n

\* decode_shortvec of update.rs reads the count of signatures as soon as it is
\* there, in a byte or two.
LEMMA CountRead ==
  ASSUME NEW buf \in ByteSeq, NEW n \in 1..255, Lies(EncodeShortvec(n), buf, 0),
         Len(EncodeShortvec(n)) <= Len(buf)
  PROVE  /\ DecodeShortvec(buf).ok
         /\ DecodeShortvec(buf) = Shortvec(buf, Reached(0, <<>>))
  <1> DEFINE e == EncodeShortvec(n)
             size == Len(e)
  <1>1. /\ size \in 1..2 /\ e[size] < 128
        /\ \A i \in 1..(size - 1) : e[i] >= 128
    BY CountBytes
  <1>2. \A i \in 1..size : 0 + i <= Len(buf) => buf[0 + i] = e[i]
    BY DEF Lies
  <1>3. size <= Len(buf) /\ Len(buf) \in Nat
    BY ByteLen
  <1> HIDE DEF e, size
  <1>4. size \in 1..3 /\ size # 3 /\ 0 + size <= Len(buf)
    BY <1>1, <1>3
  <1>5. \A i \in 1..size : buf[0 + i] = e[i]
    BY <1>1, <1>2, <1>3
  <1>6. buf[0 + size] < 128 /\ \A i \in 1..(size - 1) : buf[0 + i] >= 128
    BY <1>1, <1>5
  <1>7. size \in Sizes(buf, 0, 3)
    BY <1>4, <1>6 DEF Sizes
  <1>8. 3 \notin Sizes(buf, 0, 3)
    <2>1. 0 \in Nat /\ 3 \in Nat
      OBVIOUS
    <2> QED
      BY <1>4, <1>7, <2>1, OneSize
  <1>9. DecodeShortvec(buf).ok
    BY <1>7, <1>8 DEF DecodeShortvec, Reached
  <1> QED
    BY <1>9, OnePrefix DEF Start

\* All the signatures of a legacy or versioned transaction, once they are there.
LEMMA LegacySignatures ==
  ASSUME NEW t \in Transactions, t.message.version # << 1 >>, NEW buf, Starts(buf, t),
         Behind(t) <= Len(buf)
  PROVE  DeriveSignatures(buf) = t.sigs
  <1> DEFINE n == Len(t.sigs)
             size == Len(EncodeShortvec(n))
  <1>1. /\ ~StartsV1(buf) /\ Lies(EncodeShortvec(n), buf, 0)
        /\ Shortvec(buf, Reached(0, <<>>)) = Outcome(buf, size, n)
        /\ Lies(Concat(t.sigs), buf, size)
    BY LegacyParts
  <1>2. buf \in ByteSeq /\ Len(buf) \in Nat
    BY ByteLen DEF Starts
  <1>3. t.sigs \in Seq(SigSet) /\ n \in 1..255
    BY TransactionFields
  <1>4. size \in 1..2 /\ size + SigLen * n <= Len(buf)
    BY <1>3, CountBytes DEF Behind
  <1> HIDE DEF n, size
  <1>5. SigLen * n \in Nat /\ size \in Nat
    BY <1>3, <1>4, SigLenType
  <1>6. size <= Len(buf)
    <2> DEFINE sigs == SigLen * n
    <2>1. sigs \in Nat /\ size + sigs <= Len(buf)
      BY <1>4, <1>5
    <2> HIDE DEF sigs
    <2> QED
      BY <1>2, <1>5, <2>1
  <1>7. DecodeShortvec(buf).ok /\ DecodeShortvec(buf) = Reached(size, n)
    BY <1>1, <1>2, <1>3, <1>6, CountRead, OutcomeOk DEF size
  <1>8. DecodeShortvec(buf).at = size /\ DecodeShortvec(buf).val = n
    BY <1>7 DEF Reached
  <1>9. CutFrom(buf, size, n)
    BY <1>1, <1>2, <1>4, <1>7, <1>8, SignaturesLegacy
  <1>10. DeriveSignatures(buf) = [i \in 1..n |-> Chunk(buf, size, i)]
    BY <1>9 DEF CutFrom
  <1>11. t.sigs = [i \in 1..n |-> Chunk(buf, size, i)]
    BY <1>1, <1>2, <1>3, <1>4, <1>5, ChunksOf DEF n
  <1> QED
    BY <1>10, <1>11

\* All the signatures of a v1 transaction, which is there whole.
LEMMA V1Signatures ==
  ASSUME NEW t \in Transactions, t.message.version = << 1 >>, NEW buf, Starts(buf, t),
         Len(buf) = Len(EncodeTransaction(t))
  PROVE  StartsV1(buf) /\ DeriveSignatures(buf) = t.sigs
  <1> DEFINE n == Len(t.sigs)
             size == SigLen * n
             full == Len(EncodeV1(t.message))
             len == Len(buf)
  <1>1. /\ full \in Nat /\ full >= KeyLen + 10 /\ size \in Nat
        /\ Lies(Concat(t.sigs), buf, full) /\ len = full + size
        /\ buf # <<>> => StartsV1(buf)
        /\ Len(buf) >= 2 => buf[2] = n
    BY V1Parts
  <1>2. buf \in ByteSeq /\ len \in Nat
    BY ByteLen DEF Starts
  <1>3. t.sigs \in Seq(SigSet)
    BY TransactionFields
  <1> HIDE DEF n, size, full, len
  <1>4. len >= 2 /\ len >= size /\ len - size = full
    BY <1>1, <1>2, SigLenType
  <1>5. buf # <<>>
    BY <1>4 DEF len
  <1>6. buf[2] = n /\ StartsV1(buf)
    BY <1>1, <1>4, <1>5 DEF len
  <1>7. CutFrom(buf, full, n)
    BY <1>2, <1>4, <1>6, SignaturesV1 DEF len, size
  <1>8. DeriveSignatures(buf) = [i \in 1..n |-> Chunk(buf, full, i)]
    BY <1>7 DEF CutFrom
  <1>9. full + SigLen * n <= Len(buf)
    BY <1>7 DEF CutFrom
  <1>10. t.sigs = [i \in 1..n |-> Chunk(buf, full, i)]
    BY <1>1, <1>2, <1>3, <1>9, ChunksOf DEF n
  <1> QED
    BY <1>6, <1>8, <1>10

\* signatures returns all the signatures of every transaction that has arrived
\* whole, in the order of the wire, whichever the server sent along, and
\* signature the first of them, if they are in the v1 layout or fewer than 128
\* (README.md:119-120, update.rs:33-69, 112-138).
THEOREM SignsEveryTransaction == Spec => []SignaturesWhole
  <1>1. ASSUME Arriving, arrived = Len(Wire)
        PROVE  /\ Signatures(provided, Bytes) = tx.sigs
               /\ tx.message.version = << 1 >> \/ Len(tx.sigs) < 128 =>
                    Signature(Bytes) = tx.sigs[1]
    <2>1. /\ tx \in Transactions /\ Starts(Bytes, tx) /\ Bytes \in ByteSeq
          /\ Len(Bytes) = Len(EncodeTransaction(tx)) /\ provided \in Provided[tx]
      BY <1>1, BytesArrived DEF IsPart, Arriving, Wire
    <2> DEFINE buf == Bytes
    <2> HIDE DEF buf
    <2>2. /\ DeriveSignatures(buf) = tx.sigs
          /\ \/ tx.message.version = << 1 >> /\ StartsV1(buf)
             \/ tx.message.version # << 1 >> /\ buf[1] = Len(tx.sigs)
      <3>1. CASE tx.message.version = << 1 >>
        BY <2>1, <3>1, V1Signatures DEF buf
      <3>2. CASE tx.message.version # << 1 >>
        <4>1. /\ Behind(tx) \in Nat /\ Len(EncodeMessage(tx.message)) \in Nat
              /\ Len(buf) = Behind(tx) + Len(EncodeMessage(tx.message))
              /\ buf # <<>> => buf[1] = Len(tx.sigs)
          BY <2>1, <3>2, LegacyParts, TransactionFields, MessageType DEF buf
        <4>2. Behind(tx) <= Len(buf)
          BY <4>1
        <4>3. buf # <<>>
          <5> DEFINE size == Len(EncodeShortvec(Len(tx.sigs)))
                     sigs == SigLen * Len(tx.sigs)
          <5>1. Len(tx.sigs) \in 1..255 /\ Len(tx.sigs) \in Nat
            BY <2>1, TransactionFields
          <5>2. size \in 1..2
            BY <5>1, CountBytes
          <5>0. sigs \in Nat
            BY <5>1, SigLenType
          <5>3. Behind(tx) = size + sigs
            BY DEF Behind
          <5> HIDE DEF size, sigs
          <5>4. Behind(tx) >= 1
            BY <5>0, <5>2, <5>3
          <5> QED
            BY <4>1, <4>2, <5>4
        <4> QED
          BY <2>1, <3>2, <4>1, <4>2, <4>3, LegacySignatures DEF buf
      <3> QED
        BY <3>1, <3>2
    <2>3. \A k \in 1..Len(tx.sigs) : Len(tx.sigs[k]) = SigLen
      BY <2>1, TransactionFields, SignatureCodes
    <2>4. tx.sigs # <<>> /\ DOMAIN tx.sigs = 1..Len(tx.sigs)
      <3> DEFINE s == tx.sigs
                 n == Len(s)
      <3>1. s \in Seq(SigSet) /\ n \in 1..255
        BY <2>1, TransactionFields
      <3> HIDE DEF SigSet, s, n
      <3>2. n # 0
        BY <3>1
      <3>3. s # <<>> /\ DOMAIN s = 1..n
        BY <3>1, <3>2 DEF n
      <3> QED
        BY <3>3 DEF s, n
    <2>5. \/ provided \in {<<>>, tx.sigs}
          \/ \E i \in DOMAIN provided : Len(provided[i]) # SigLen
      BY <2>1, ProvidedAssumption
    <2>6. Signatures(provided, buf) = tx.sigs
      BY <2>2, <2>3, <2>4, <2>5 DEF Signatures
    <2>7. ASSUME tx.message.version = << 1 >> \/ Len(tx.sigs) < 128
          PROVE  Signature(buf) = tx.sigs[1]
      <3>1. StartsV1(buf) \/ buf[1] < 128
        BY <2>2, <2>7
      <3> QED
        BY <2>1, <2>2, <2>4, <3>1, SignatureIsFirst DEF buf
    <2> QED
      BY <2>6, <2>7 DEF buf
  <1>2. Arriving => SignaturesWhole
    BY <1>1 DEF SignaturesWhole
  <1> QED
    BY <1>2, StaysArriving, PTL

LEMMA TwoParts ==
  ASSUME NEW buf \in ByteSeq, NEW k \in Nat, k <= Len(buf)
  PROVE  SubSeq(buf, 1, k) \o SubSeq(buf, k + 1, Len(buf)) = buf
  <1> DEFINE Byte == 0..255
             len == Len(buf)
             p == SubSeq(buf, 1, k)
             q == SubSeq(buf, k + 1, len)
  <1>1. buf \in Seq(Byte) /\ len \in Nat
    BY DEF ByteSeq
  <1> HIDE DEF Byte
  <1>2. p \in Seq(Byte) /\ Len(p) = k /\ \A i \in 1..k : p[i] = buf[i]
    BY <1>1
  <1>3. /\ q \in Seq(Byte) /\ Len(q) = len - k
        /\ \A i \in 1..(len - k) : q[i] = buf[k + i]
    BY <1>1
  <1> HIDE DEF p, q
  <1> DEFINE pq == p \o q
  <1>4. /\ pq \in Seq(Byte) /\ Len(pq) = len
        /\ \A i \in 1..k : pq[i] = p[i]
        /\ \A i \in 1..(len - k) : pq[k + i] = q[i]
    BY <1>1, <1>2, <1>3, Appended
  <1> HIDE DEF pq
  <1>5. ASSUME NEW i \in 1..len PROVE pq[i] = buf[i]
    <2>1. CASE i <= k
      <3>1. i \in 1..k
        BY <2>1
      <3> QED
        BY <1>2, <1>4, <3>1
    <2>2. CASE ~(i <= k)
      <3>1. i - k \in 1..(len - k) /\ k + (i - k) = i
        BY <1>1, <2>2
      <3>2. pq[i] = q[i - k] /\ q[i - k] = buf[i]
        BY <1>3, <1>4, <3>1
      <3> QED
        BY <3>2
    <2> QED
      BY <2>1, <2>2
  <1>6. pq = buf
    BY <1>1, <1>4, <1>5
  <1> QED
    BY <1>6 DEF pq, p, q

\* The signatures cut from the end of buf are the end of it.
LEMMA ChunksInOne ==
  ASSUME NEW buf \in ByteSeq, NEW start \in Nat, NEW n \in Nat,
         start + SigLen * n = Len(buf)
  PROVE  Concat([i \in 1..n |-> Chunk(buf, start, i)]) = SubSeq(buf, start + 1, Len(buf))
  <1> DEFINE s == [i \in 1..n |-> Chunk(buf, start, i)]
             one == Concat(s)
             size == SigLen * n
             Byte == 0..255
             rest == SubSeq(buf, start + 1, Len(buf))
  <1>0. buf \in Seq(Byte) /\ Len(buf) \in Nat /\ size \in Nat /\ start + size = Len(buf)
    BY SigLenType DEF ByteSeq
  <1>1. s \in Seq(SigSet) /\ Len(s) = n
    <2>1. ASSUME NEW i \in 1..n PROVE Chunk(buf, start, i) \in SigSet
      <3>1. start + SigLen * n <= Len(buf)
        BY <1>0
      <3> QED
        BY <3>1, ChunkType DEF SigSet
    <2> HIDE DEF SigSet
    <2> QED
      BY <2>1
  <1> HIDE DEF s
  <1>2. one \in ByteSeq /\ Len(one) = size
    BY <1>1, SignatureCodes
  <1>3. \A k \in 1..n : Lies(s[k], one, 0 + SigLen * (k - 1)) /\ Len(s[k]) = SigLen
    <2>1. Lies(one, one, 0)
      <3> HIDE DEF one
      <3>1. \A i \in 1..Len(one) : 0 + i = i
        BY <1>2, ByteLen
      <3> QED
        BY <3>1 DEF Lies
    <2>2. 0 \in Nat
      OBVIOUS
    <2> QED
      BY <1>1, <2>1, <2>2, SignatureCodes
  <1> HIDE DEF one, size, Byte
  <1>4. /\ rest \in Seq(Byte) /\ Len(rest) = size
        /\ \A j \in 1..size : rest[j] = buf[start + j]
    BY <1>0
  <1> HIDE DEF rest
  <1>5. ASSUME NEW j \in 1..size PROVE one[j] = rest[j]
    <2> DEFINE q == (j - 1) \div SigLen
    <2>0. j \in Nat /\ j >= 1 /\ j <= size
      BY <1>0
    <2>1. q \in Nat /\ SigLen * q <= j - 1 /\ j - 1 < SigLen * (q + 1)
      BY <2>0, SigLenType
    <2> HIDE DEF q
    <2>2. SigLen * (q + 1) = SigLen * q + SigLen /\ SigLen * q \in Nat
      BY <2>1, SigLenType
    <2>3. q < n
      <3>1. SigLen * q < SigLen * n
        BY <2>0, <2>1, SigLenType DEF size
      <3> QED
        BY <2>1, <3>1, SigLenType
    <2> DEFINE at == SigLen * q
               r == j - at
               k == q + 1
    <2>4. at \in Nat /\ at <= j - 1 /\ j - 1 < at + SigLen
      BY <2>1, <2>2
    <2>5. k \in 1..n /\ SigLen * (k - 1) = at /\ SigLen * k = at + SigLen /\ k - 1 = q
      BY <2>1, <2>2, <2>3
    <2> HIDE DEF at, k
    <2>6. r \in 1..SigLen /\ at + r = j /\ 0 + at + r = j /\ 0 + at = at
      BY <2>0, <2>4, SigLenType
    <2>7. one[j] = s[k][r]
      <3>1. Lies(s[k], one, at) /\ Len(s[k]) = SigLen
        BY <1>3, <2>5, <2>6
      <3>2. at + r <= Len(one)
        BY <1>2, <2>0, <2>6
      <3> HIDE DEF r
      <3> QED
        BY <2>6, <3>1, <3>2 DEF Lies
    <2>8. s[k] = SubSeq(buf, start + at + 1, start + (at + SigLen))
      BY <2>5 DEF s, Chunk
    <2>9. at + SigLen <= size
      BY <2>3, <2>5, SigLenType DEF size
    <2>10. s[k][r] = buf[start + at + r]
      <3> HIDE DEF r
      <3> QED
        BY <1>0, <2>4, <2>6, <2>8, <2>9, SigLenType
    <2>11. start + at + r = start + j
      BY <2>4, <2>6
    <2> QED
      BY <1>4, <2>7, <2>10, <2>11
  <1>6. one \in Seq(Byte)
    BY <1>2 DEF ByteSeq, Byte
  <1>7. one = rest
    BY <1>2, <1>4, <1>5, <1>6
  <1> QED
    BY <1>7 DEF one, rest, s

\* What parse takes for the message and what signatures returns when none came
\* along are the transaction again, of whatever layout and however many
\* signatures, cut where it was cut: the two read the count alike, and no byte
\* between them is lost or read twice (update.rs:33-69, message.rs:47-63,
\* 206-219).
THEOREM PartsFitEverywhere == Spec => []PartsFit
  <1> DEFINE buf == Bytes
             sigs == DeriveSignatures(buf)
             message == MessageBytes(buf).val
  <1>1. ASSUME Arriving, MessageBytes(buf).ok, tx.message.version # << 1 >>
        PROVE  buf = EncodeVector(sigs, LAMBDA sig : sig) \o message
    <2> DEFINE b == Behind(tx)
               front == EncodeShortvec(Len(tx.sigs)) \o Concat(tx.sigs)
               rest == SubSeq(buf, b + 1, Len(buf))
    <2>1. tx \in Transactions /\ IsPart(buf, tx) /\ Starts(buf, tx) /\ buf \in ByteSeq
      BY <1>1, BytesArrived DEF IsPart
    <2> HIDE DEF buf
    <2>2. /\ front \in ByteSeq /\ Len(front) = b /\ b \in Nat /\ Lies(front, buf, 0)
      BY <1>1, <2>1, LegacyParts
    <2>3. /\ MessageBytes(buf) = IF b <= Len(buf) THEN Reached(0, rest) ELSE Failed
          /\ MessageBytes(buf).ok
      BY <1>1, <2>1, LegacyMessage
    <2> HIDE DEF b, rest
    <2>4. b <= Len(buf) /\ message = rest
      BY <2>3 DEF Failed, Reached
    <2>5. sigs = tx.sigs
      BY <1>1, <2>1, <2>4, LegacySignatures DEF b
    <2>6. EncodeVector(tx.sigs, LAMBDA sig : sig) = front
      BY <2>1, TransactionFields, SignatureVector
    <2> HIDE DEF front
    <2>7. SubSeq(buf, 1, b) = front
      <3>1. SubSeq(buf, 0 + 1, 0 + Len(front)) = front
        <4>1. 0 \in Nat /\ 0 + Len(front) <= Len(buf)
          BY <2>2, <2>4
        <4> QED
          BY <2>1, <2>2, <4>1, PartRead
      <3>2. 0 + 1 = 1 /\ 0 + Len(front) = b
        BY <2>2
      <3> QED
        BY <3>1, <3>2
    <2>8. SubSeq(buf, 1, b) \o SubSeq(buf, b + 1, Len(buf)) = buf
      BY <2>1, <2>2, <2>4, TwoParts
    <2> HIDE DEF sigs, message
    <2> QED
      BY <2>4, <2>5, <2>6, <2>7, <2>8 DEF rest
  <1>2. ASSUME Arriving, MessageBytes(buf).ok, tx.message.version = << 1 >>
        PROVE  buf = message \o Concat(sigs)
    <2>1. tx \in Transactions /\ Starts(buf, tx) /\ buf \in ByteSeq
      BY <1>2, BytesArrived DEF IsPart
    <2> HIDE DEF buf
    <2>2. StartsV1(buf)
      BY <1>2, <2>1, V1Parts, NothingThere
    <2>3. PICK start, n \in Nat :
            /\ CutFrom(buf, start, n)
            /\ start + SigLen * n = Len(buf)
            /\ message = SubSeq(buf, 1, start)
      BY <1>2, <2>1, <2>2, PartsMeet
    <2>4. sigs = [i \in 1..n |-> Chunk(buf, start, i)]
      BY <2>3 DEF CutFrom
    <2>5. Concat(sigs) = SubSeq(buf, start + 1, Len(buf))
      <3> HIDE DEF sigs
      <3> QED
        BY <2>1, <2>3, <2>4, ChunksInOne
    <2>6. start <= Len(buf)
      <3>1. SigLen * n \in Nat
        BY SigLenType
      <3> QED
        BY <2>3, <3>1
    <2>7. SubSeq(buf, 1, start) \o SubSeq(buf, start + 1, Len(buf)) = buf
      BY <2>1, <2>6, TwoParts
    <2> HIDE DEF sigs, message
    <2> QED
      BY <2>3, <2>5, <2>7
  <1>3. Signatures(<<>>, buf) = sigs
    BY DEF Signatures
  <1>4. Arriving => PartsFit
    BY <1>1, <1>2, <1>3 DEF PartsFit
  <1> QED
    BY <1>4, StaysArriving, PTL
=============================================================================
