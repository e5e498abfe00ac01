-------------------------- MODULE MCFragmentedFeed --------------------------
(***************************************************************************)
(* FragmentedFeed on four transactions: one whole, one in two fragments,   *)
(* one in as many fragments as a u8 counts here, and one in two fragments  *)
(* that together are shorter than a slot.                                  *)
(***************************************************************************)
EXTENDS FragmentedFeed

CONSTANTS whole, pair, long, short

MCTx == {whole, pair, long, short}

\* One byte per transaction and place in it, so that any splice shows.
MCByte == (MCTx \cup {None}) \X (0..3)

MCCuts == [t \in MCTx |-> CASE t = whole -> <<2>>
                            [] t = pair  -> <<2, 3>>
                            [] t = long  -> <<1, 2, 3>>
                            [] t = short -> <<1, 1>>]

MCMessage == [t \in MCTx |->
                [i \in 1..MCCuts[t][Len(MCCuts[t])] |-> <<t, i>>]]

Stray(faults, index, count) ==
  [faults |-> faults, msg_type |-> MSG_TRANSACTION, frag_index |-> index,
   frag_count |-> count, seq |-> 0, payload |-> << <<None, 0>> >>]

\* A header that is cut, one of another protocol, a frame of no fragments and
\* one whose index is its count.
MCForeign == {Stray({"TooShort", "BadMagic", "UnsupportedVersion"}, 0, 0),
              Stray({"BadMagic", "UnsupportedVersion"}, 1, 2),
              Stray({}, 0, 0),
              Stray({}, 2, 2)}
=============================================================================
