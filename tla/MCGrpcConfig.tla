---------------------------- MODULE MCGrpcConfig ----------------------------
(***************************************************************************)
(* GrpcConfig with limits of one key and one filter, two names, and every *)
(* endpoint of up to four pieces, or one with an address in brackets.       *)
(***************************************************************************)
EXTENDS GrpcConfig

MCBatches == {<<"good">>, <<"good", "good">>, <<"bad">>}

Pieces == {<<"h">>, <<"9">>, <<":">>, <<"/">>, <<"http://">>, <<"https://">>, <<" ">>}

\* An address in brackets, with what may stand before and after it.
Bracketed == {before \o <<"[", ":", "9", "]">> \o after :
                before \in {<<>>, <<" ">>, <<"http://">>, <<"https://">>},
                after  \in {<<>>, <<" ">>, <<":">>, <<":", "9">>, <<":", "h">>,
                            <<":", "9", ":", "9">>, <<"/">>}}

MCEndpoints == Bracketed \cup
                 UNION {{FlattenSeq(p) : p \in [1..n -> Pieces]} : n \in 0..4}
=============================================================================
