--------------------------- MODULE SearchContract ---------------------------
(***************************************************************************)
(* What send_rreq promises the outgoing callback of each node, without     *)
(* tables, threads and messages: a search goes on until it is answered, or *)
(* until the whole network was flooded RREQ_RETRIES + 1 times; it ends     *)
(* once, and the callback hears how. The one way out of the contract is    *)
(* that the entry is deleted under the search.                             *)
(***************************************************************************)
EXTENDS Naturals

CONSTANTS Node, RREQ_RETRIES

VARIABLES
    phase,      \* of the search each node's callback waits for
    floods      \* of the whole network, in that search

vars == <<phase, floods>>

Init ==
    /\ phase = [n \in Node |-> "idle"]
    /\ floods = [n \in Node |-> 0]

Becomes(n, p, f) ==
    /\ phase' = [phase EXCEPT ![n] = p]
    /\ floods' = [floods EXCEPT ![n] = f]

Ask(n) == phase[n] = "idle" /\ Becomes(n, "searching", 0)

Flood(n) ==
    /\ phase[n] = "searching" /\ floods[n] <= RREQ_RETRIES
    /\ Becomes(n, "searching", floods[n] + 1)

GiveUp(n) ==
    /\ phase[n] = "searching" /\ floods[n] = RREQ_RETRIES + 1
    /\ Becomes(n, "failed", 0)

\* A RREP, which may still come while the callback has not seen the failure.
Answer(n) == phase[n] \in {"searching", "failed"} /\ Becomes(n, "found", 0)

Lose(n) == phase[n] \in {"searching", "found", "failed"} /\ Becomes(n, "lost", 0)

Return(n) == phase[n] \in {"found", "failed", "lost"} /\ Becomes(n, "idle", 0)

Next ==
    \E n \in Node :
        Ask(n) \/ Flood(n) \/ GiveUp(n) \/ Answer(n) \/ Lose(n) \/ Return(n)

Spec == Init /\ [][Next]_vars
=============================================================================
