---------------------------- MODULE RoutingTable ----------------------------
(***************************************************************************)
(* The routing table of one daemon (DataStructures/routing_table.c and .h, *)
(* data_structure.c) and the updates that the message handlers make to it. *)
(* The table is a function from destinations to entries; the slot array of *)
(* data_structure.c is a function of the last octet of the address, so the *)
(* model is the one of a network whose addresses differ in that octet.     *)
(*                                                                         *)
(* An entry keeps the fields of routing_entry with these abstractions:     *)
(*   time_out             left out, timers are untimed: an armed one may   *)
(*                        fire at any moment                               *)
(*   expiration_thread,   1 when the thread exists, 0 when the field is 0  *)
(*   rreq_id_thread                                                        *)
(*   rreq_id              -1 (Garbage) while create_or_get_routing_entry   *)
(*                        has left it uninitialised                        *)
(*   precursor_list       its first element and whether it has 0, 1 or     *)
(*                        more elements, which is all that is ever read    *)
(*   next_hop_for         left out: its one reader (AODV.c:232) is         *)
(*                        unreachable, see fwd_broken in Aodv              *)
(*   entry_mutex,         in Aodv: held and sender                         *)
(*   rreq_message_sender                                                   *)
(* Sequence numbers are naturals: the model covers runs in which every     *)
(* number is below 2^31, where the signed comparison of seq_compare and    *)
(* the unsigned one of recv_rreq agree.                                    *)
(***************************************************************************)
EXTENDS Integers

CONSTANTS
    Node,     \* the addresses of the daemons
    NoAddr,   \* the address 0
    NoEntry   \* the NULL routing_entry pointer

ASSUME AddressAssumption == NoAddr \notin Node

Addr == Node \cup {NoAddr}

Garbage == -1

Precursors == [size : {0, 1, 2}, first : Addr]

EmptyList == [size |-> 0, first |-> NoAddr]

\* add_entry_to_list, on the abstract list.
add_entry_to_list(list, a) ==
    IF list.size = 0 THEN [size |-> 1, first |-> a]
    ELSE [list EXCEPT !.size = 2]

Entry == [dest_seq : Nat,
          seq_valid : {"SEQ_VALID", "SEQ_INVALID"},
          next_hop : Addr,
          hop_count : Nat,
          status : {"ROUTE_VALID", "ROUTE_INVALID"},
          rreq_search : {"SEARCH_NONE", "SEARCH_SEARCHING",
                         "SEARCH_FOUND", "SEARCH_FAILED"},
          rreq_id : Nat \cup {Garbage},
          rreq_id_thread : {0, 1},
          expiration_thread : {0, 1},
          active_route : {0, 1},
          precursor_list : Precursors]

ASSUME NoEntryAssumption == NoEntry \notin Entry

Table == [Node -> Entry \cup {NoEntry}]

EmptyTable == [d \in Node |-> NoEntry]

get_routing_entry(T, a) == IF a \in Node THEN T[a] ELSE NoEntry

Valid(T, a) == /\ get_routing_entry(T, a) # NoEntry
               /\ get_routing_entry(T, a).status = "ROUTE_VALID"

new_entry(seq, valid_seq, next_hop, hop_count) ==
    [dest_seq |-> seq, seq_valid |-> valid_seq, next_hop |-> next_hop,
     hop_count |-> hop_count, status |-> "ROUTE_INVALID",
     rreq_search |-> "SEARCH_NONE", rreq_id |-> Garbage, rreq_id_thread |-> 0,
     expiration_thread |-> 0, active_route |-> 0,
     precursor_list |-> EmptyList]

create_or_get_routing_entry(T, d, seq, valid_seq, next_hop, hop_count) ==
    IF T[d] # NoEntry THEN T[d]
    ELSE new_entry(seq, valid_seq, next_hop, hop_count)

-----------------------------------------------------------------------------
(* What the handlers do to entries.                                        *)

\* set_expiration_timer: cancel the thread there is, start another one.
set_expiration_timer(e) == [e EXCEPT !.expiration_thread = 1]

\* An entry timer of T[d] is (re)started when the entry exists.
refresh(T, d) == IF T[d] = NoEntry THEN T
                 ELSE [T EXCEPT ![d] = set_expiration_timer(@)]

\* The route to the node a RREQ or RREP came from. An existing entry becomes
\* valid with the next hop it had.
previous_hop(T, sender) ==
    LET e == create_or_get_routing_entry(T, sender, 0, "SEQ_INVALID", sender, 0)
    IN  [T EXCEPT ![sender] =
            set_expiration_timer([e EXCEPT !.status = "ROUTE_VALID"])]

\* The condition under which recv_rreq renews the route to the originator.
reverse_route_better(T, m, hops) ==
    \/ T[m.src] = NoEntry
    \/ m.src_seq > T[m.src].dest_seq
    \/ T[m.src].seq_valid = "SEQ_INVALID"
    \/ m.src_seq = T[m.src].dest_seq /\ hops < T[m.src].hop_count

route_update(e, seq, next_hop, hops) ==
    [e EXCEPT !.dest_seq = seq, !.seq_valid = "SEQ_VALID",
              !.next_hop = next_hop, !.hop_count = hops]

\* The reverse route of a RREQ: valid and timed whether or not it is better.
reverse_route(T, m) ==
    LET hops == m.hop_count + 1
        e == create_or_get_routing_entry(T, m.src, m.src_seq, "SEQ_VALID", m.from, hops)
        r == IF reverse_route_better(T, m, hops)
             THEN route_update(e, m.src_seq, m.from, hops) ELSE e
    IN  [T EXCEPT ![m.src] =
            set_expiration_timer([r EXCEPT !.rreq_id = m.rreq_id,
                                           !.rreq_id_thread = 1,
                                           !.status = "ROUTE_VALID"])]

\* Wrong on purpose: any RREP is better.
forward_route_always(T, m, hops) == TRUE

\* The condition under which recv_rrep renews the route to the destination.
forward_route_better(T, m, hops) ==
    \/ T[m.dest] = NoEntry
    \/ T[m.dest].seq_valid = "SEQ_INVALID"
    \/ m.dest_seq >= T[m.dest].dest_seq
    \/ m.dest_seq = T[m.dest].dest_seq /\ T[m.dest].status = "ROUTE_INVALID"
    \/ m.dest_seq = T[m.dest].dest_seq /\ hops < T[m.dest].hop_count

\* The forward route of a RREP: valid, timed and active in both branches.
forward_route(T, m) ==
    LET hops == m.hop_count + 1
        e == create_or_get_routing_entry(T, m.dest, m.dest_seq, "SEQ_VALID", m.from, hops)
        r == IF forward_route_better(T, m, hops)
             THEN route_update(e, m.dest_seq, m.from, hops) ELSE e
    IN  [T EXCEPT ![m.dest] =
            set_expiration_timer([r EXCEPT !.status = "ROUTE_VALID",
                                           !.active_route = 1])]

\* Wrong on purpose: any HELLO is taken.
hello_always(T, m) ==
    LET e == create_or_get_routing_entry(T, m.dest, m.dest_seq, "SEQ_VALID",
                                         m.from, m.hop_count + 1)
    IN  [T EXCEPT ![m.dest] =
            set_expiration_timer([e EXCEPT !.seq_valid = "SEQ_VALID",
                                           !.dest_seq = m.dest_seq])]

\* A HELLO: the sequence number and the timer, never the route.
hello_route(T, m) ==
    LET e == create_or_get_routing_entry(T, m.dest, m.dest_seq, "SEQ_VALID",
                                         m.from, m.hop_count + 1)
    IN  IF \/ T[m.dest] = NoEntry
           \/ e.seq_valid = "SEQ_INVALID"
           \/ m.dest_seq >= e.dest_seq
        THEN [T EXCEPT ![m.dest] =
                set_expiration_timer([e EXCEPT !.seq_valid = "SEQ_VALID",
                                               !.dest_seq = m.dest_seq])]
        ELSE T

add_precursor(T, d, a) ==
    [T EXCEPT ![d].precursor_list = add_entry_to_list(@, a)]

activate(T, d) == [T EXCEPT ![d].active_route = 1]

set_search(T, d, outcome) == [T EXCEPT ![d].rreq_search = outcome]

\* The route to d breaks: it is invalid and its entry is to be deleted later.
invalidate(T, d) ==
    [T EXCEPT ![d] = set_expiration_timer([@ EXCEPT !.status = "ROUTE_INVALID"])]

\* send_rreq up to the creation of its thread: the entry's own timer is
\* cancelled and the entry is marked as being searched for.
start_search(T, d) ==
    [T EXCEPT ![d] =
        [create_or_get_routing_entry(T, d, 0, "SEQ_INVALID", NoAddr, 0)
            EXCEPT !.expiration_thread = 0, !.rreq_search = "SEARCH_SEARCHING"]]
=============================================================================
