-------------------------------- MODULE Aodv --------------------------------
(***************************************************************************)
(* A network of AODV daemons: AODV.c, Messages/recv_messages.c and         *)
(* Messages/send_messages.c over the routing table of RoutingTable.        *)
(*                                                                         *)
(* Threads of a daemon: one callback thread per packet queue ("in" for     *)
(* control and data packets addressed to it, "out", "fwd"), the HELLO      *)
(* thread, at most one send_rreq_thread, and the timer threads of every    *)
(* entry. A handler runs as one step, except where it waits: the outgoing  *)
(* callback waits for the search it started, and a thread that locks a     *)
(* mutex nobody will release stops there with what it did before.          *)
(*                                                                         *)
(* The network loses, delays, duplicates and reorders: a message once sent *)
(* can be received at any later moment, any number of times, or never.     *)
(***************************************************************************)
EXTENDS RoutingTable, FiniteSets

CONSTANTS
    Broadcast,      \* the broadcast address
    Link,           \* <<a, b>> : b hears what a sends
    IpNumber,       \* an address as the integer that AODV.c:316 sends
    TTL_START, TTL_INCREMENT, TTL_THRESHOLD, NET_DIAMETER, RREQ_RETRIES,
    MaxSeq,         \* bound: no search or reply begins above this own number
    MaxHop,         \* bound: no RREP is forwarded beyond this hop count
    Flows,          \* <<a, b>> : applications at a send packets to b
    Greeters,       \* nodes whose HELLO thread is scheduled
    Timers          \* <<a, b>> : the timers of a's entry for b may fire

ASSUME NetworkAssumption ==
    /\ Broadcast \notin Addr
    /\ Link \subseteq Node \X Node
    /\ IpNumber \in [Node -> Nat]
    /\ Flows \subseteq Node \X Node
    /\ Greeters \subseteq Node
    /\ Timers \subseteq Node \X Node

ASSUME ParameterAssumption ==
    /\ TTL_START \in Nat \ {0} /\ TTL_INCREMENT \in Nat \ {0}
    /\ TTL_THRESHOLD \in Nat /\ NET_DIAMETER \in Nat \ {0}
    /\ RREQ_RETRIES \in Nat
    /\ MaxSeq \in Nat /\ MaxHop \in Nat

VARIABLES
    table,          \* table[n]: the routing table of n
    kernel,         \* kernel[n]: the <<destination, gateway>> pairs n installed
    sequence_num,   \* own sequence number
    rreq_id,        \* own RREQ ID
    active_routes,  \* the count that keeps the HELLO thread awake
    outgoing,       \* the search the outgoing callback waits for
    sender,         \* the send_rreq_thread
    hello,          \* where the HELLO thread is in its loop
    held,           \* held[n]: entries whose mutex is locked and never released
    hung,           \* hung[n]: callback threads that wait for such a mutex
    rreqs, rreps, rerrs,  \* every control message ever sent
    packets         \* every data packet ever handed to a link

numbers == <<sequence_num, rreq_id>>
locks   == <<held, hung>>
control == <<rreqs, rreps, rerrs>>
vars == <<table, kernel, numbers, active_routes, outgoing, sender, hello,
          locks, control, packets>>

Flags == {"GRAT", "UNKNOWN", "DEST_ONLY"}

\* rreq_header, and the node it was received from. RREQs are broadcast.
Rreq == [from : Node, src : Node, dest : Node, src_seq : Nat, dest_seq : Nat,
         flags : SUBSET Flags, rreq_id : Nat, ttl : Nat, hop_count : Nat]

\* rrep_header. A HELLO has src 0.
Rrep == [from : Node, to : Addr \cup {Broadcast}, src : Addr, dest : Node,
         dest_seq : Nat, hop_count : Nat]

\* rerr_header and its pairs. Every RERR has one pair: forwarded_messages
\* sends one and recv_rerr resends a part of what it received.
Rerr == [from : Node, to : Addr \cup {Broadcast}, dest : Node, seq : Nat]

\* A data packet that reached the node at.
Packet == [src : Node, dest : Node, at : Node]

Call == [dest : Addr, freed : BOOLEAN]

NoCall == [dest |-> NoAddr, freed |-> FALSE]

Thread == [dest : Addr, stage : {"none", "created", "numbered", "sending"},
           src_seq : Nat, dest_seq : Nat, flags : SUBSET Flags,
           ttl : Nat, tries : Nat]

NoThread == [dest |-> NoAddr, stage |-> "none", src_seq |-> 0, dest_seq |-> 0,
             flags |-> {}, ttl |-> 0, tries |-> 0]

Init ==
    /\ table = [n \in Node |-> EmptyTable]
    /\ kernel = [n \in Node |-> {}]
    /\ sequence_num = [n \in Node |-> 0]
    /\ rreq_id = [n \in Node |-> 0]
    /\ active_routes = [n \in Node |-> 0]
    /\ outgoing = [n \in Node |-> NoCall]
    /\ sender = [n \in Node |-> NoThread]
    /\ hello = [n \in Node |-> "spinning"]
    /\ held = [n \in Node |-> {}]
    /\ hung = [n \in Node |-> {}]
    /\ rreqs = {} /\ rreps = {} /\ rerrs = {} /\ packets = {}

-----------------------------------------------------------------------------
(* The testbed library, from how the daemon uses it: the kernel keeps a    *)
(* route per destination and gateway, DeleteEntry removes exactly the pair *)
(* it is given, and a packet leaves over any route of its destination.     *)

AddUnicastRoutingEntry(n, routes) ==
    kernel' = [kernel EXCEPT ![n] = @ \cup routes]

DeleteEntry(n, d) ==
    kernel' = [kernel EXCEPT ![n] = @ \ {<<d, table[n][d].next_hop>>}]

Gateways(n, d) == {g \in Node : <<d, g>> \in kernel[n] /\ <<n, g>> \in Link}

\* The kernel sends a packet of s to d from n, or drops it.
route_packet(n, s, d) ==
    packets' \in {packets} \cup
        {packets \cup {[src |-> s, dest |-> d, at |-> g]} : g \in Gateways(n, d)}

\* n may receive from s what is addressed to a.
Hears(n, s, a) == s # n /\ <<s, n>> \in Link /\ a \in {n, Broadcast}

-----------------------------------------------------------------------------
(* Helpers of the handlers.                                                *)

running(n, thread) == thread \notin hung[n]

\* A callback thread stops: it has locked the mutexes of locked for good.
hangs(n, thread, locked) ==
    /\ hung' = [hung EXCEPT ![n] = @ \cup {thread}]
    /\ held' = [held EXCEPT ![n] = @ \cup locked]

new_active(e) == IF e = NoEntry THEN 1 ELSE 1 - e.active_route

\* Wrong on purpose: the count without its guard.
lost_active_unguarded(n, e) == active_routes[n] - e.active_route

lost_active(n, e) ==
    IF active_routes[n] > 0 THEN active_routes[n] - e.active_route
    ELSE active_routes[n]

set_table(n, T) == table' = [table EXCEPT ![n] = T]

set_active(n, a) == active_routes' = [active_routes EXCEPT ![n] = a]

\* Wrong on purpose: the thread is left to run.
sender_left(n, d) == UNCHANGED sender

\* The RREQ thread that searches for d is cancelled.
cancel_sender(n, d) ==
    sender' = [sender EXCEPT ![n] = IF @.dest = d THEN NoThread ELSE @]

(* recv_rreq, with send_rrep_destination and send_rrep_intermediate.       *)

after_hop(n, m) == previous_hop(table[n], m.from)

after_reverse(n, m) == reverse_route(after_hop(n, m), m)

\* Wrong on purpose: without the originator, or with a direct route to it.
reverse_hop_only(m) == {<<m.from, m.from>>}

reverse_direct(m) == {<<m.from, m.from>>, <<m.src, m.src>>}

reverse_routes(m) == {<<m.from, m.from>>, <<m.src, m.from>>}

\* seen: whether the id of the originator's entry equals the one of the RREQ,
\* which is anything while the entry's id is uninitialised.
id_matches(n, m, seen) ==
    LET e == after_hop(n, m)[m.src]
    IN  e # NoEntry /\ e.rreq_id # Garbage => seen = (e.rreq_id = m.rreq_id)

\* Own RREQs, and repeated ones except a shorter one at the destination.
rreq_discarded(n, m, seen) ==
    LET e == after_hop(n, m)[m.src]
    IN  \/ m.src = n
        \/ e # NoEntry /\ seen /\ (n # m.dest \/ e.hop_count <= m.hop_count)

\* T has a route that is fresh enough to answer m from here.
can_answer(T, m) ==
    /\ "DEST_ONLY" \notin m.flags
    /\ Valid(T, m.dest)
    /\ T[m.dest].seq_valid = "SEQ_VALID"
    /\ "UNKNOWN" \in m.flags \/ m.dest_seq < T[m.dest].dest_seq

rreq_ignored(n, m, seen) ==
    /\ m.from \notin held[n]
    /\ rreq_discarded(n, m, seen)
    /\ set_table(n, after_hop(n, m))
    /\ AddUnicastRoutingEntry(n, {<<m.from, m.from>>})
    /\ UNCHANGED <<numbers, active_routes, sender, locks, rreqs, rreps>>

\* The number send_rrep_destination answers with and keeps as its own.
reply_seq(n, m) ==
    IF "UNKNOWN" \in m.flags \/ m.dest_seq < sequence_num[n] + 1
    THEN sequence_num[n] + 1 ELSE m.dest_seq

rreq_at_destination(n, m, seen) ==
    LET T == after_reverse(n, m)
    IN  /\ {m.from, m.src} \cap held[n] = {}
        /\ ~rreq_discarded(n, m, seen)
        /\ n = m.dest
        /\ sequence_num[n] < MaxSeq
        /\ set_table(n, activate(T, m.src))
        /\ AddUnicastRoutingEntry(n, reverse_routes(m))
        /\ set_active(n, active_routes[n] + new_active(T[m.src]))
        /\ sequence_num' = [sequence_num EXCEPT ![n] = reply_seq(n, m)]
        /\ rreps' = rreps \cup
              {[from |-> n, to |-> m.from, src |-> m.src, dest |-> n,
                dest_seq |-> reply_seq(n, m), hop_count |-> 0]}
        /\ UNCHANGED <<rreq_id, sender, locks, rreqs>>

\* Wrong on purpose: a gratuitous RREP about the node it is for.
gratuitous_dest(n, T, m) ==
    {[from |-> n, to |-> m.from, src |-> m.src, dest |-> m.dest,
      dest_seq |-> T[m.dest].dest_seq, hop_count |-> T[m.dest].hop_count],
     [from |-> n, to |-> T[m.dest].next_hop, src |-> m.dest, dest |-> m.dest,
      dest_seq |-> m.src_seq, hop_count |-> m.hop_count + 1]}

\* The reply to the originator, and the gratuitous one for the destination:
\* `message->flags && RREQ_GRAT` holds for any flag.
intermediate_rreps(n, T, m) ==
    LET d == T[m.dest]
    IN  {[from |-> n, to |-> m.from, src |-> m.src, dest |-> m.dest,
          dest_seq |-> d.dest_seq, hop_count |-> d.hop_count]}
        \cup IF m.flags = {} THEN {} ELSE
        {[from |-> n, to |-> d.next_hop, src |-> m.dest, dest |-> m.src,
          dest_seq |-> m.src_seq, hop_count |-> m.hop_count + 1]}

rreq_answered(n, m, seen) ==
    LET T == after_reverse(n, m)
    IN  /\ {m.from, m.src, m.dest} \cap held[n] = {}
        /\ ~rreq_discarded(n, m, seen)
        /\ n # m.dest
        /\ can_answer(T, m)
        /\ set_table(n, add_precursor(add_precursor(T, m.dest, m.from),
                                      m.src, T[m.dest].next_hop))
        /\ AddUnicastRoutingEntry(n, reverse_routes(m))
        /\ rreps' = rreps \cup intermediate_rreps(n, T, m)
        /\ UNCHANGED <<numbers, active_routes, sender, locks, rreqs>>

\* Wrong on purpose: the ttl is not used up.
rebroadcast_same_ttl(n, T, m) == [m EXCEPT !.from = n, !.hop_count = @ + 1]

\* The copy of m that n broadcasts, with the freshest destination number.
rebroadcast(n, T, m) ==
    LET d == T[m.dest]
        known == /\ d # NoEntry
                 /\ d.seq_valid = "SEQ_VALID"
                 /\ "UNKNOWN" \in m.flags \/ m.dest_seq < d.dest_seq
    IN  [m EXCEPT !.from = n, !.ttl = @ - 1, !.hop_count = @ + 1,
                  !.dest_seq = IF known THEN d.dest_seq ELSE @]

rreq_flooded(n, m, seen) ==
    LET T == after_reverse(n, m)
    IN  /\ {m.from, m.src} \cap held[n] = {}
        /\ ~rreq_discarded(n, m, seen)
        /\ n # m.dest
        /\ ~can_answer(T, m)
        /\ set_table(n, T)
        /\ AddUnicastRoutingEntry(n, reverse_routes(m))
        /\ rreqs' = IF m.ttl <= 1 THEN rreqs ELSE rreqs \cup {rebroadcast(n, T, m)}
        /\ UNCHANGED <<numbers, active_routes, sender, locks, rreps>>

\* The thread stops at the first entry it cannot lock: the previous hop's, the
\* originator's or, to answer, the destination's.
rreq_blocked(n, m, seen) ==
    /\ hangs(n, "in", {})
    /\ IF m.from \in held[n]
       THEN UNCHANGED <<table, kernel>>
       ELSE /\ ~rreq_discarded(n, m, seen)
            /\ IF m.src \in held[n]
               THEN /\ set_table(n, after_hop(n, m))
                    /\ AddUnicastRoutingEntry(n, {<<m.from, m.from>>})
               ELSE /\ n # m.dest
                    /\ m.dest \in held[n]
                    /\ can_answer(after_reverse(n, m), m)
                    /\ set_table(n, after_reverse(n, m))
                    /\ AddUnicastRoutingEntry(n, reverse_routes(m))
    /\ UNCHANGED <<numbers, active_routes, sender, rreqs, rreps>>

recv_rreq(n, m) ==
    /\ running(n, "in")
    /\ Hears(n, m.from, Broadcast)
    /\ \E seen \in BOOLEAN :
          /\ id_matches(n, m, seen)
          /\ \/ rreq_ignored(n, m, seen)
             \/ rreq_at_destination(n, m, seen)
             \/ rreq_answered(n, m, seen)
             \/ rreq_flooded(n, m, seen)
             \/ rreq_blocked(n, m, seen)
    /\ UNCHANGED <<outgoing, hello, rerrs, packets>>

-----------------------------------------------------------------------------
(* recv_rrep.                                                              *)

\* Lines 178-189: the originator stops the search before anything else.
search_ends(n, m) == m.src = n /\ table[n][m.dest] # NoEntry

\* Wrong on purpose: the callback is not told.
found_unmarked(n, m) == table[n]

after_found(n, m) ==
    IF search_ends(n, m) THEN set_search(table[n], m.dest, "SEARCH_FOUND")
    ELSE table[n]

after_forward(n, m) == forward_route(previous_hop(after_found(n, m), m.from), m)

forward_routes(m) == {<<m.from, m.from>>, <<m.dest, m.from>>}

cancel_found(n, m) ==
    IF search_ends(n, m) THEN cancel_sender(n, m.dest) ELSE UNCHANGED sender

recv_hello(n, m) ==
    /\ m.src = NoAddr
    /\ IF m.dest \in held[n]
       THEN hangs(n, "in", {}) /\ UNCHANGED table
       ELSE set_table(n, hello_route(table[n], m)) /\ UNCHANGED locks
    /\ UNCHANGED <<kernel, active_routes, sender, rreps>>

\* The route to the destination is installed, then counted as active.
rrep_installs(n, m) ==
    /\ m.src # NoAddr
    /\ {m.from, m.dest} \cap held[n] = {}
    /\ AddUnicastRoutingEntry(n, forward_routes(m))
    /\ cancel_found(n, m)

rrep_consumed(n, m) ==
    LET T == after_forward(n, m)
    IN  /\ rrep_installs(n, m)
        /\ m.src = n \/ T[m.src] = NoEntry
        /\ set_table(n, T)
        /\ set_active(n, active_routes[n] + new_active(table[n][m.dest]))
        /\ UNCHANGED <<locks, rreps>>

rrep_forwarded(n, m) ==
    LET T == after_forward(n, m)
        precursors == add_precursor(add_precursor(T, m.src, T[m.dest].next_hop),
                                    m.dest, T[m.src].next_hop)
    IN  /\ rrep_installs(n, m)
        /\ m.src \notin {n} \cup held[n]
        /\ T[m.src] # NoEntry
        /\ m.hop_count < MaxHop
        /\ set_table(n, activate(precursors, m.src))
        /\ set_active(n, active_routes[n] + new_active(table[n][m.dest])
                                          + new_active(T[m.src]))
        /\ rreps' = rreps \cup {[m EXCEPT !.from = n, !.to = T[m.src].next_hop,
                                          !.hop_count = @ + 1]}
        /\ UNCHANGED locks

\* The thread stops at the destination's entry (to end the search), at the
\* previous hop's, at the destination's, or at the originator's. In the last
\* case it keeps the destination locked. The originator and the destination
\* are never the same entry (EndpointsDiffer).
rrep_blocked(n, m) ==
    /\ m.src # NoAddr
    /\ IF m.src = n /\ m.dest \in held[n]
       THEN /\ hangs(n, "in", {})
            /\ UNCHANGED <<table, kernel, active_routes, sender>>
       ELSE IF m.from \in held[n]
       THEN /\ hangs(n, "in", {})
            /\ set_table(n, after_found(n, m))
            /\ cancel_found(n, m)
            /\ UNCHANGED <<kernel, active_routes>>
       ELSE IF m.dest \in held[n]
       THEN /\ hangs(n, "in", {})
            /\ set_table(n, previous_hop(table[n], m.from))
            /\ AddUnicastRoutingEntry(n, {<<m.from, m.from>>})
            /\ UNCHANGED <<active_routes, sender>>
       ELSE /\ m.src \in held[n] \ {n}
            /\ hangs(n, "in", {m.dest})
            /\ set_table(n, after_forward(n, m))
            /\ AddUnicastRoutingEntry(n, forward_routes(m))
            /\ set_active(n, active_routes[n] + new_active(table[n][m.dest]))
            /\ UNCHANGED sender
    /\ UNCHANGED rreps

recv_rrep(n, m) ==
    /\ running(n, "in")
    /\ Hears(n, m.from, m.to)
    /\ \/ recv_hello(n, m)
       \/ rrep_consumed(n, m)
       \/ rrep_forwarded(n, m)
       \/ rrep_blocked(n, m)
    /\ UNCHANGED <<numbers, outgoing, hello, rreqs, rerrs, packets>>

-----------------------------------------------------------------------------
(* recv_rerr. A RERR about a route not taken through its sender does       *)
(* nothing.                                                                *)

\* The RERR sent on: to the only precursor, or to everyone when there are more
\* of them or when the only one is the address 0.
forwarded_rerr(n, m, list) ==
    [m EXCEPT !.from = n,
              !.to = IF list.size = 1 /\ list.first # NoAddr THEN list.first
                     ELSE Broadcast]

recv_rerr(n, m) ==
    LET e == table[n][m.dest]
        T == [table[n] EXCEPT ![m.dest].dest_seq = m.seq]
    IN  /\ running(n, "in")
        /\ Hears(n, m.from, m.to)
        /\ Valid(table[n], m.dest)
        /\ e.next_hop = m.from
        /\ IF m.dest \in held[n]
           THEN /\ hangs(n, "in", {})
                /\ UNCHANGED <<table, kernel, active_routes, rerrs>>
           ELSE /\ set_table(n, invalidate(T, m.dest))
                /\ DeleteEntry(n, m.dest)
                /\ set_active(n, lost_active(n, e))
                /\ rerrs' = IF e.precursor_list.size = 0 THEN rerrs
                            ELSE rerrs \cup {forwarded_rerr(n, m, e.precursor_list)}
                /\ UNCHANGED locks
        /\ UNCHANGED <<numbers, outgoing, sender, hello, rreqs, rreps, packets>>

-----------------------------------------------------------------------------
(* outgoing_message and send_rreq. One packet at a time: while the callback *)
(* waits for a search, every other outgoing packet waits behind it.        *)

established(n, d) ==
    Valid(table[n], d) /\ table[n][d].seq_valid = "SEQ_VALID"

\* A route to send on: its next hop is the destination or is valid itself.
usable(n, d) ==
    /\ established(n, d)
    /\ LET hop == table[n][d].next_hop IN hop = d \/ Valid(table[n], hop)

can_call(n, d) ==
    /\ <<n, d>> \in Flows
    /\ n # d
    /\ running(n, "out")
    /\ outgoing[n] = NoCall

\* The table when send_rreq is called: a route whose next hop is gone is broken.
before_search(n, d) ==
    IF established(n, d) THEN invalidate(table[n], d) ELSE table[n]

recently_failed(n, d) ==
    LET e == before_search(n, d)[d]
    IN  e # NoEntry /\ e.rreq_search = "SEARCH_FAILED" /\ e.status = "ROUTE_INVALID"

break_route(n, d) ==
    IF established(n, d)
    THEN DeleteEntry(n, d) /\ set_active(n, lost_active(n, table[n][d]))
    ELSE UNCHANGED <<kernel, active_routes>>

out_routed(n, d) ==
    LET neighbour == table[n][d].next_hop = d
    IN  /\ usable(n, d)
        /\ neighbour => d \notin held[n]
        /\ IF neighbour THEN set_table(n, refresh(table[n], d)) ELSE UNCHANGED table
        /\ route_packet(n, n, d)
        /\ UNCHANGED <<kernel, active_routes, outgoing, sender, locks>>

out_dropped(n, d) ==
    /\ ~usable(n, d)
    /\ established(n, d) => d \notin held[n]
    /\ recently_failed(n, d)
    /\ set_table(n, before_search(n, d))
    /\ break_route(n, d)
    /\ UNCHANGED <<outgoing, sender, locks, packets>>

\* The entry is not being searched for already (lines 124 and 133): with no call
\* under way no search is (SearchHasThread).
out_searches(n, d) ==
    /\ ~usable(n, d)
    /\ d \notin held[n]
    /\ ~recently_failed(n, d)
    /\ sequence_num[n] < MaxSeq
    /\ set_table(n, start_search(before_search(n, d), d))
    /\ break_route(n, d)
    /\ outgoing' = [outgoing EXCEPT ![n] = [dest |-> d, freed |-> FALSE]]
    /\ sender' = [sender EXCEPT ![n] = [NoThread EXCEPT !.dest = d, !.stage = "created"]]
    /\ UNCHANGED <<locks, packets>>

\* The callback stops at the destination's entry, in outgoing_message or, its
\* timer cancelled, in send_rreq.
out_blocked(n, d) ==
    /\ d \in held[n]
    /\ hangs(n, "out", {})
    /\ IF established(n, d)
       THEN /\ usable(n, d) => table[n][d].next_hop = d
            /\ UNCHANGED table
       ELSE /\ ~recently_failed(n, d)
            /\ table' = [table EXCEPT ![n][d].expiration_thread = 0]
    /\ UNCHANGED <<kernel, active_routes, outgoing, sender, packets>>

outgoing_message(n, d) ==
    /\ can_call(n, d)
    /\ \/ out_routed(n, d)
       \/ out_dropped(n, d)
       \/ out_searches(n, d)
       \/ out_blocked(n, d)
    /\ UNCHANGED <<numbers, hello, control>>

\* The wait is over: the packet leaves, or the failure is remembered while the
\* entry's timer runs.
send_rreq_returns(n) ==
    LET d == outgoing[n].dest
    IN  /\ d # NoAddr /\ ~outgoing[n].freed
        /\ d \notin held[n]
        /\ table[n][d].rreq_search # "SEARCH_SEARCHING"
        /\ IF table[n][d].rreq_search = "SEARCH_FAILED"
           THEN /\ set_table(n, refresh(table[n], d))
                /\ UNCHANGED packets
           ELSE /\ set_table(n, set_search(table[n], d, "SEARCH_NONE"))
                /\ route_packet(n, n, d)
        /\ outgoing' = [outgoing EXCEPT ![n] = NoCall]
        /\ UNCHANGED <<kernel, numbers, active_routes, sender, hello, locks, control>>

\* The entry the callback polls was freed. What it reads is anything: it may
\* poll forever, drop the packet or let it leave.
freed_wait_returns(n) ==
    /\ outgoing[n].freed
    /\ outgoing' = [outgoing EXCEPT ![n] = NoCall]
    /\ route_packet(n, n, outgoing[n].dest)
    /\ UNCHANGED <<table, kernel, numbers, active_routes, sender, hello, locks, control>>

-----------------------------------------------------------------------------
(* send_rreq_thread.                                                       *)

thread_is(n, stage) == sender[n].stage = stage

\* Wrong on purpose: the number is used but not kept.
number_not_kept(n) ==
    /\ thread_is(n, "created")
    /\ sender' = [sender EXCEPT ![n].stage = "numbered",
                                ![n].src_seq = sequence_num[n] + 1]
    /\ UNCHANGED <<table, kernel, numbers, active_routes, outgoing, hello,
                   locks, control, packets>>

\* Its own number, before it locks the entry.
rreq_thread_numbers(n) ==
    /\ thread_is(n, "created")
    /\ sequence_num' = [sequence_num EXCEPT ![n] = @ + 1]
    /\ sender' = [sender EXCEPT ![n].stage = "numbered",
                                ![n].src_seq = sequence_num[n] + 1]
    /\ UNCHANGED <<table, kernel, rreq_id, active_routes, outgoing, hello,
                   locks, control, packets>>

first_ttl(hop_count) ==
    IF TTL_START > hop_count THEN TTL_START ELSE hop_count + TTL_INCREMENT

\* What is known of the destination, read under its mutex.
rreq_thread_reads(n) ==
    LET e == table[n][sender[n].dest]
        known == e.seq_valid = "SEQ_VALID"
    IN  /\ thread_is(n, "numbered")
        /\ sender[n].dest \notin held[n]
        /\ sender' = [sender EXCEPT
              ![n].stage = "sending",
              ![n].dest_seq = IF known THEN e.dest_seq ELSE 0,
              ![n].flags = IF known THEN {"GRAT"} ELSE {"GRAT", "UNKNOWN"},
              ![n].ttl = first_ttl(e.hop_count)]
        /\ UNCHANGED <<table, kernel, numbers, active_routes, outgoing, hello,
                       locks, control, packets>>

broadcast_rreq(n, ttl) ==
    /\ rreq_id' = [rreq_id EXCEPT ![n] = @ + 1]
    /\ rreqs' = rreqs \cup
          {[from |-> n, src |-> n, dest |-> sender[n].dest,
            src_seq |-> sender[n].src_seq, dest_seq |-> sender[n].dest_seq,
            flags |-> sender[n].flags, rreq_id |-> rreq_id[n] + 1,
            ttl |-> ttl, hop_count |-> 0]}
    /\ UNCHANGED <<table, kernel, sequence_num, active_routes, outgoing, hello,
                   locks, rreps, rerrs, packets>>

\* The expanding rings.
send_rreq_ring(n) ==
    /\ thread_is(n, "sending")
    /\ sender[n].ttl <= TTL_THRESHOLD
    /\ broadcast_rreq(n, sender[n].ttl)
    /\ sender' = [sender EXCEPT ![n].ttl = @ + TTL_INCREMENT]

\* Wrong on purpose: one flood too many.
full_once_more(n) ==
    /\ thread_is(n, "sending")
    /\ sender[n].ttl > TTL_THRESHOLD
    /\ sender[n].tries <= RREQ_RETRIES + 1
    /\ broadcast_rreq(n, NET_DIAMETER)
    /\ sender' = [sender EXCEPT ![n].tries = @ + 1]

\* The whole network, RREQ_RETRIES + 1 times.
send_rreq_full(n) ==
    /\ thread_is(n, "sending")
    /\ sender[n].ttl > TTL_THRESHOLD
    /\ sender[n].tries <= RREQ_RETRIES
    /\ broadcast_rreq(n, NET_DIAMETER)
    /\ sender' = [sender EXCEPT ![n].tries = @ + 1]

\* Wrong on purpose: the entry's timer stays cancelled.
failure_untimed(n, d) == set_search(table[n], d, "SEARCH_FAILED")

after_failure(n, d) == refresh(set_search(table[n], d, "SEARCH_FAILED"), d)

send_rreq_fails(n) ==
    LET d == sender[n].dest
    IN  /\ thread_is(n, "sending")
        /\ sender[n].ttl > TTL_THRESHOLD
        /\ sender[n].tries > RREQ_RETRIES
        /\ d \notin held[n]
        /\ set_table(n, after_failure(n, d))
        /\ sender' = [sender EXCEPT ![n] = NoThread]
        /\ UNCHANGED <<kernel, numbers, active_routes, outgoing, hello, locks,
                       control, packets>>

send_rreq_thread(n) ==
    \/ rreq_thread_numbers(n)
    \/ rreq_thread_reads(n)
    \/ send_rreq_ring(n)
    \/ send_rreq_full(n)
    \/ send_rreq_fails(n)

-----------------------------------------------------------------------------
(* forwarded_messages.                                                     *)

next_hop_of(n, d) == table[n][d].next_hop

\* The mutexes of the destination and, when it is another entry, of its hop.
free_to_lock(n, d) == {d, next_hop_of(n, d)} \cap held[n] = {}

fwd_accepted(n, p) ==
    /\ Valid(table[n], p.dest)
    /\ Valid(table[n], next_hop_of(n, p.dest))
    /\ free_to_lock(n, p.dest)
    /\ p.src \notin held[n]
    /\ set_table(n, refresh(refresh(table[n], p.dest), p.src))
    /\ route_packet(n, p.src, p.dest)
    /\ UNCHANGED <<locks, rerrs>>

rerr_for(n, p, seq) == [from |-> n, to |-> Broadcast, dest |-> p.dest, seq |-> seq]

\* No entry: the pair (dest, 0).
fwd_unknown(n, p) ==
    /\ table[n][p.dest] = NoEntry
    /\ rerrs' = rerrs \cup {rerr_for(n, p, 0)}
    /\ UNCHANGED <<table, locks, packets>>

\* An entry that is invalid or whose next hop has no entry. The address stands
\* where the sequence number belongs, and a next hop's entry that was locked
\* stays locked.
fwd_unreachable(n, p) ==
    LET d == p.dest
        hop == next_hop_of(n, d)
        hop_entry == get_routing_entry(table[n], hop)
    IN  /\ table[n][d] # NoEntry
        /\ hop_entry # NoEntry => ~Valid(table[n], d)
        /\ free_to_lock(n, d)
        /\ rerrs' = rerrs \cup {rerr_for(n, p, IpNumber[d])}
        /\ held' = IF hop_entry # NoEntry /\ hop # d
                   THEN [held EXCEPT ![n] = @ \cup {hop}] ELSE held
        /\ UNCHANGED <<table, hung, packets>>

\* A valid route through a next hop that is not: the handler locks the next
\* hop's mutex a second time (line 230 after 188) and stops for ever, before
\* anything of "RERR condition 1" (lines 232-301) is done.
fwd_broken(n, p) ==
    LET hop == next_hop_of(n, p.dest)
    IN  /\ Valid(table[n], p.dest)
        /\ get_routing_entry(table[n], hop) # NoEntry
        /\ ~Valid(table[n], hop)
        /\ free_to_lock(n, p.dest)
        /\ hangs(n, "fwd", {p.dest, hop})
        /\ UNCHANGED <<table, rerrs, packets>>

\* The thread stops at the destination's entry, at its hop's, or at the
\* source's; the destination's is then locked.
fwd_blocked(n, p) ==
    /\ table[n][p.dest] # NoEntry
    /\ IF p.dest \in held[n]
       THEN hangs(n, "fwd", {})
       ELSE /\ \/ next_hop_of(n, p.dest) \in held[n]
               \/ /\ Valid(table[n], p.dest)
                  /\ Valid(table[n], next_hop_of(n, p.dest))
                  /\ p.src \in held[n]
            /\ hangs(n, "fwd", {p.dest})
    /\ UNCHANGED <<table, rerrs, packets>>

forwarded_messages(n, p) ==
    /\ p.at = n /\ p.dest # n
    /\ running(n, "fwd")
    /\ \/ fwd_accepted(n, p)
       \/ fwd_unknown(n, p)
       \/ fwd_unreachable(n, p)
       \/ fwd_broken(n, p)
       \/ fwd_blocked(n, p)
    /\ UNCHANGED <<kernel, numbers, active_routes, outgoing, sender, hello,
                   rreqs, rreps>>

\* incoming_data_message, at the packet's destination.
incoming_data_message(n, p) ==
    /\ p.at = n /\ p.dest = n
    /\ running(n, "in")
    /\ table[n][p.src] # NoEntry
    /\ IF p.src \in held[n]
       THEN hangs(n, "in", {}) /\ UNCHANGED table
       ELSE set_table(n, refresh(table[n], p.src)) /\ UNCHANGED locks
    /\ UNCHANGED <<kernel, numbers, active_routes, outgoing, sender, hello,
                   control, packets>>

-----------------------------------------------------------------------------
(* The timer threads of an entry (routing_table.c) and the HELLO thread.   *)

\* Wrong on purpose: the timer does not wait for the mutex.
fires_unlocked(n, d) == <<n, d>> \in Timers /\ table[n][d] # NoEntry

fires(n, d) ==
    /\ <<n, d>> \in Timers
    /\ table[n][d] # NoEntry
    /\ d \notin held[n]

\* expiration_func on a valid entry: the route goes, the timer starts again.
route_expires(n, d) ==
    LET e == table[n][d]
    IN  /\ fires(n, d)
        /\ e.expiration_thread = 1
        /\ e.status = "ROUTE_VALID"
        /\ set_table(n, invalidate(table[n], d))
        /\ DeleteEntry(n, d)
        /\ set_active(n, IF e.seq_valid = "SEQ_VALID" THEN lost_active(n, e)
                         ELSE active_routes[n])
        /\ UNCHANGED <<numbers, outgoing, sender, hello, locks, control, packets>>

\* expiration_func on an invalid entry: remove_routing_entry and free_entry,
\* which also cancels the thread that searches for it.
entry_deleted(n, d) ==
    /\ fires(n, d)
    /\ table[n][d].expiration_thread = 1
    /\ table[n][d].status = "ROUTE_INVALID"
    /\ table' = [table EXCEPT ![n][d] = NoEntry]
    /\ cancel_sender(n, d)
    /\ outgoing' = [outgoing EXCEPT ![n].freed = @ \/ outgoing[n].dest = d]
    /\ UNCHANGED <<kernel, numbers, active_routes, hello, locks, control, packets>>

\* rreq_id_func.
rreq_id_forgotten(n, d) ==
    /\ fires(n, d)
    /\ table[n][d].rreq_id_thread = 1
    /\ set_table(n, [table[n] EXCEPT ![d] = [@ EXCEPT !.rreq_id = 0, !.rreq_id_thread = 0]])
    /\ UNCHANGED <<kernel, numbers, active_routes, outgoing, sender, hello, locks,
                   control, packets>>

\* hello_interval: the thread spins while no route is active, sleeps for
\* HELLO_INTERVAL and broadcasts.
hello_wakes(n) ==
    /\ n \in Greeters
    /\ hello[n] = "spinning"
    /\ active_routes[n] > 0
    /\ hello' = [hello EXCEPT ![n] = "sleeping"]
    /\ UNCHANGED <<table, kernel, numbers, active_routes, outgoing, sender, locks,
                   control, packets>>

hello_sends(n) ==
    /\ hello[n] = "sleeping"
    /\ hello' = [hello EXCEPT ![n] = "spinning"]
    /\ rreps' = rreps \cup
          {[from |-> n, to |-> Broadcast, src |-> NoAddr, dest |-> n,
            dest_seq |-> sequence_num[n], hop_count |-> 0]}
    /\ UNCHANGED <<table, kernel, numbers, active_routes, outgoing, sender, locks,
                   rreqs, rerrs, packets>>

-----------------------------------------------------------------------------

Next ==
    \/ \E n \in Node :
          \/ \E m \in rreqs : recv_rreq(n, m)
          \/ \E m \in rreps : recv_rrep(n, m)
          \/ \E m \in rerrs : recv_rerr(n, m)
          \/ \E p \in packets : forwarded_messages(n, p)
          \/ \E p \in packets : incoming_data_message(n, p)
          \/ send_rreq_returns(n)
          \/ freed_wait_returns(n)
          \/ send_rreq_thread(n)
          \/ hello_wakes(n)
          \/ hello_sends(n)
    \/ \E n, d \in Node :
          \/ outgoing_message(n, d)
          \/ route_expires(n, d)
          \/ entry_deleted(n, d)
          \/ rreq_id_forgotten(n, d)

Spec == Init /\ [][Next]_vars

\* The threads of a daemon are scheduled: a sleep of send_rreq_thread ends, and
\* the polling callback sees the end of a search. Nothing is assumed of the
\* network, of timers, or of a callback that polls freed memory.
FairSpec ==
    /\ Spec
    /\ \A n \in Node : WF_vars(send_rreq_thread(n)) /\ WF_vars(send_rreq_returns(n))
=============================================================================
