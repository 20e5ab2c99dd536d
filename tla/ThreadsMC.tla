----------------------------- MODULE ThreadsMC -----------------------------
(* Two neighbours D and E; E is also reached over D, whose timer may wake. *)
EXTENDS Threads

CONSTANTS D, E, t1, t2, t3, t4, t5

\* D answers for E; a RREP of D for E passes by.
AnsweredOrForwarded == {<<D, E, Self>>, <<D, D, E>>}

OfEoverD == {<<D, E>>}

DtoE == {<<D, E>>}
=============================================================================
