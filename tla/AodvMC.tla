------------------------------- MODULE AodvMC -------------------------------
(***************************************************************************)
(* Small networks for TLC. The nodes are A, B, C, D; a configuration says  *)
(* which of them exist, who hears whom, whose applications send to whom    *)
(* (Flows), and whose timers for which entries may fire (Timers).          *)
(***************************************************************************)
EXTENDS AodvProperties, TLC

CONSTANTS A, B, C, D

BothWays(S) == S \cup {<<p[2], p[1]>> : p \in S}

Line2 == BothWays({<<A, B>>})
Line3 == BothWays({<<A, B>>, <<B, C>>})
Line4 == BothWays({<<A, B>>, <<B, C>>, <<C, D>>})

Numbers == LET octet == (A :> 6) @@ (B :> 7) @@ (C :> 8) @@ (D :> 9)
           IN  [n \in Node |-> octet[n]]

NoPairs == {}

\* Flows.
AtoC == {<<A, C>>}
AtoD == {<<A, D>>}
AtoDandBtoC == {<<A, D>>, <<B, C>>}
AtoDandDtoB == {<<A, D>>, <<D, B>>}
AtoBandBack == {<<A, B>>, <<B, A>>}
AtoBandCtoA == {<<A, B>>, <<C, A>>}

\* Timers.
AforB == {<<A, B>>}
BforC == {<<B, C>>}
BforD == {<<B, D>>}
BforCandCforD == {<<B, C>>, <<C, D>>}
BforCandD == {<<B, C>>, <<B, D>>}
=============================================================================
