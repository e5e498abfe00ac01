---------------------------- MODULE MCWireFormat ----------------------------
(***************************************************************************)
(* WireFormat on transactions of each layout with up to two of everything, *)
(* instruction data long enough for a length of two bytes, and signatures  *)
(* of two bytes, keys of one; and on some with as many signatures as take a *)
(* count of two bytes.                                                     *)
(***************************************************************************)
EXTENDS WireFormat

Sig(i) == <<100 + i, 110 + i>>
MCSigs == {<<Sig(1)>>, <<Sig(1), Sig(2)>>}

Run(from, n) == [i \in 1..n |-> from]
Ins(accounts, size) ==
  [program |-> <<7>>, accounts |-> Run(8, accounts), data |-> Run(9, size)]

MCInstrs == {<<>>, <<Ins(0, 0)>>, <<Ins(2, 3), Ins(1, 0)>>, <<Ins(1, 130)>>}
MCKeys == {<<>>, <<<<1>>>>, <<<<1>>, <<2>>>>}
Lk(writable, readonly) ==
  [table |-> <<3>>, writable |-> Run(4, writable), readonly |-> Run(5, readonly)]
MCLookups == {<<>>, <<Lk(1, 0), Lk(2, 1)>>}

\* The masks of no value, half and all of the priority fee, one of the other
\* values and all of them, with as many bytes as they announce.
MCConfigs == {[mask |-> 0,  values |-> <<>>],
              [mask |-> 1,  values |-> <<>>],
              [mask |-> 3,  values |-> Run(6, 8)],
              [mask |-> 8,  values |-> Run(6, 4)],
              [mask |-> 31, values |-> Run(6, 20)]}
NoConfig == [mask |-> 0, values |-> <<>>]

Messages(n) ==
  [version : {<<>>}, header : {<<n, 0, 1>>}, keys : MCKeys, token : {<<11>>},
   instrs : MCInstrs, lookups : {<<>>}, config : {NoConfig}]
  \cup [version : {<<0>>}, header : {<<n, 0, 1>>}, keys : MCKeys, token : {<<11>>},
        instrs : MCInstrs, lookups : MCLookups, config : {NoConfig}]
  \cup [version : {<<1>>}, header : {<<n, 0, 1>>}, keys : MCKeys, token : {<<11>>},
        instrs : MCInstrs \cup {<<Ins(1, 258)>>}, lookups : {<<>>}, config : MCConfigs]

\* 130 signatures, before a message and after one.
ManySigs == [i \in 1..130 |-> Sig(i)]
Many == {m \in Messages(130) : /\ m.version # <<>>
                               /\ m.keys = <<<<1>>>> /\ m.instrs = <<Ins(1, 130)>>
                               /\ m.lookups = <<>> /\ m.config = NoConfig}

MCTransactions ==
  UNION {[sigs : {sigs}, message : Messages(Len(sigs))] : sigs \in MCSigs}
    \cup [sigs : {ManySigs}, message : Many]

MCProvided == [t \in MCTransactions |-> {<<>>, t.sigs, <<Sig(1), <<1>>>>}]
=============================================================================
