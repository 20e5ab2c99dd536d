--------------------------- MODULE AodvProperties ---------------------------
(***************************************************************************)
(* What a network of daemons keeps true (the first part), what the threads *)
(* of a daemon eventually do, and what comments of the source say that the *)
(* code does not do (the last part; each is checked to be violated).       *)
(***************************************************************************)
EXTENDS Aodv

-----------------------------------------------------------------------------
(* Safety.                                                                 *)

\* Every variable has its type: the state of main and of the threads it starts.
TypeOK ==
    /\ table \in [Node -> Table]
    /\ kernel \in [Node -> SUBSET (Node \X Node)]
    /\ sequence_num \in [Node -> Nat]
    /\ rreq_id \in [Node -> Nat]
    /\ active_routes \in [Node -> Nat]
    /\ outgoing \in [Node -> Call]
    /\ sender \in [Node -> Thread]
    /\ hello \in [Node -> {"spinning", "sleeping"}]
    /\ held \in [Node -> SUBSET Node]
    /\ hung \in [Node -> SUBSET {"in", "out", "fwd"}]
    /\ rreqs \subseteq Rreq
    /\ rreps \subseteq Rrep
    /\ rerrs \subseteq Rerr
    /\ packets \subseteq Packet

\* However a RREQ is copied, delayed and re-flooded, it dies within the ring it
\* was sent for: its hops and its remaining ttl never exceed the larger of the
\* last ring and NET_DIAMETER. recv_rreq relies on it when it computes the
\* unsigned lifetime 2*NET_TRAVERSAL_TIME - 2*hop_count*NODE_TRAVERSAL_TIME.
FloodBudget ==
    \A m \in rreqs :
        /\ m.ttl >= 1
        /\ \/ m.hop_count + m.ttl <= NET_DIAMETER
           \/ m.hop_count + m.ttl <= TTL_THRESHOLD

\* No RREQ and no RREP, gratuitous ones included, has its originator as its
\* destination: recv_rrep locks both entries, and would wait for itself.
EndpointsDiffer ==
    /\ \A m \in rreqs : m.src # m.dest
    /\ \A m \in rreps : m.src # m.dest

waits_for(n, d) == outgoing[n] = [dest |-> d, freed |-> FALSE]

\* An entry is marked as searched for exactly while a thread searches for it and
\* the outgoing callback polls it: whoever ends the search (a RREP, the failure,
\* the deletion of the entry) ends all three. A mark left behind would make
\* every later send_rreq to that destination poll for ever.
SearchHasThread ==
    \A n \in Node :
        /\ \A d \in Node :
              (table[n][d] # NoEntry /\ table[n][d].rreq_search = "SEARCH_SEARCHING")
                 <=> (sender[n].stage # "none" /\ sender[n].dest = d)
        /\ sender[n].stage # "none" => waits_for(n, sender[n].dest)
        /\ \A d \in Node : waits_for(n, d) => table[n][d] # NoEntry

\* An entry whose mutex is locked for good stays in the table: its timer waits
\* for the mutex, so that no thread waits for the mutex of a freed entry.
LockedStays ==
    \A n \in Node : \A d \in held[n] : table[n][d] # NoEntry

\* Every entry has a running expiration timer, so that no route outlives its
\* lifetime, unless it is being searched for (send_rreq cancels the timer and
\* the end of the search starts it again) or a callback thread hangs.
EntryTimed ==
    \A n, d \in Node :
        (table[n][d] # NoEntry /\ table[n][d].expiration_thread = 0)
            => table[n][d].rreq_search = "SEARCH_SEARCHING" \/ hung[n] # {}

\* A route the daemon calls valid has a route in the kernel, through whichever
\* gateway: no handler, expiry or error removes the last one and leaves the
\* entry valid.
ValidRouteInKernel ==
    \A n, d \in Node :
        Valid(table[n], d) => \E g \in Node : <<d, g>> \in kernel[n]

\* Until a RERR is sent, every sequence number in the network that is about a
\* node is one that this node has issued: no handler invents a fresher one.
SeqFromOwner ==
    rerrs = {} =>
        /\ \A n, d \in Node :
              (table[n][d] # NoEntry /\ table[n][d].seq_valid = "SEQ_VALID")
                 => table[n][d].dest_seq <= sequence_num[d]
        /\ \A m \in rreqs : /\ m.src_seq <= sequence_num[m.src]
                            /\ m.dest_seq <= sequence_num[m.dest]
        /\ \A m \in rreps : m.dest_seq <= sequence_num[m.dest]

\* Routes only lead through nodes this node has heard, never through itself:
\* a unicast RREP or RERR is for a neighbour, or for nobody.
RouteViaNeighbour ==
    \A n \in Node :
        /\ \A d \in Node : table[n][d] # NoEntry =>
              \/ table[n][d].next_hop = NoAddr
              \/ table[n][d].next_hop # n /\ <<table[n][d].next_hop, n>> \in Link
        /\ \A r \in kernel[n] : r[2] # n /\ <<r[2], n>> \in Link

\* A valid sequence number is replaced by a smaller one only when a RERR that
\* the node hears says so: reordered RREQs, RREPs and HELLOs never undo fresher
\* information.
FreshnessMonotone ==
    [][\A n, d \in Node :
          /\ table[n][d] # NoEntry /\ table'[n][d] # NoEntry
          /\ table[n][d].seq_valid = "SEQ_VALID"
          /\ table'[n][d].dest_seq < table[n][d].dest_seq
          => \E m \in rerrs : /\ Hears(n, m.from, m.to)
                              /\ m.dest = d
                              /\ m.seq = table'[n][d].dest_seq]_vars

\* The search of SearchContract that the callback of n waits for.
search_phase(n) ==
    LET call == outgoing[n]
        mark == table[n][call.dest].rreq_search
    IN  IF call.dest = NoAddr THEN "idle"
        ELSE IF call.freed THEN "lost"
        ELSE IF mark = "SEARCH_SEARCHING" THEN "searching"
        ELSE IF mark = "SEARCH_FAILED" THEN "failed" ELSE "found"

Contract == INSTANCE SearchContract WITH
    phase <- [n \in Node |-> search_phase(n)],
    floods <- [n \in Node |-> IF search_phase(n) = "searching" THEN sender[n].tries ELSE 0]

\* Callback, entry and thread together keep the contract of send_rreq: a search
\* fails only after RREQ_RETRIES + 1 floods of the whole network, is never
\* restarted while it runs, and no message, timer or hung thread of the
\* node takes it anywhere else.
ImplementsSearch == Contract!Spec

-----------------------------------------------------------------------------
(* Liveness.                                                               *)

waiting(n) == outgoing[n].dest # NoAddr

\* The outgoing callback does not poll for ever: the search ends, unless the
\* entry was freed under it or its mutex is never released.
SearchEnds ==
    \A n \in Node :
        waiting(n) ~> \/ ~waiting(n)
                      \/ outgoing[n].freed
                      \/ outgoing[n].dest \in held[n]

-----------------------------------------------------------------------------
(* What the source says of itself and the code does not do.                *)

\* "If we have already seen this RREQID, ignore it" (recv_messages.c:46): a RREQ
\* of an originator from which the node has seen none is not ignored.
UnseenRreqProcessed ==
    [][\A n \in Node : \A m \in rreqs :
          /\ recv_rreq(n, m)
          /\ m.src # n /\ m.dest # n
          /\ table[n][m.src] = NoEntry \/ table[n][m.src].rreq_id = Garbage
          => table'[n][m.src].rreq_id = m.rreq_id]_vars

\* "RERR condition 1, I.E Link break in next hop of active route"
\* (AODV.c:221-222, 290-301): a packet for such a route makes the node send a
\* RERR.
BrokenLinkReported ==
    [][\A n \in Node : \A p \in packets :
          /\ forwarded_messages(n, p)
          /\ p.dest \notin held[n]
          /\ Valid(table[n], p.dest)
          /\ get_routing_entry(table[n], next_hop_of(n, p.dest)) # NoEntry
          /\ ~Valid(table[n], next_hop_of(n, p.dest))
          => \E m \in rerrs' : m.from = n]_vars

\* "@return If a route has been found (1) or it failed (0)"
\* (send_messages.c:110): send_rreq returns.
SendRreqReturns == \A n \in Node : waiting(n) ~> ~waiting(n)
=============================================================================
