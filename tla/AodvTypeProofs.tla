--------------------------- MODULE AodvTypeProofs ---------------------------
(***************************************************************************)
(* That every action of the network keeps the types, for every set of      *)
(* nodes, every topology and every value of the parameters; before it what *)
(* each operation of RoutingTable returns for any table and any message.   *)
(***************************************************************************)
EXTENDS AodvProperties, TLAPS

-----------------------------------------------------------------------------
(* Tables and entries.                                                     *)

\* A table holds an entry or NoEntry, which is no entry (get_routing_entry).
LEMMA EntryOrNone ==
    ASSUME NEW T \in Table, NEW d \in Node
    PROVE  /\ T[d] \in Entry \cup {NoEntry}
           /\ T[d] # NoEntry => T[d] \in Entry
BY DEF Table

\* A table with one entry replaced is a table.
LEMMA TableUpdate ==
    ASSUME NEW T \in Table, NEW d \in Node, NEW e \in Entry \cup {NoEntry}
    PROVE  [T EXCEPT ![d] = e] \in Table
BY DEF Table

\* add_entry_to_list keeps a precursor list a precursor list.
LEMMA AddToListType ==
    ASSUME NEW list \in Precursors, NEW a \in Addr
    PROVE  add_entry_to_list(list, a) \in Precursors
BY DEF add_entry_to_list, Precursors

\* create_or_get_routing_entry returns an entry.
LEMMA CreateType ==
    ASSUME NEW T \in Table, NEW d \in Node, NEW seq \in Nat,
           NEW v \in {"SEQ_VALID", "SEQ_INVALID"}, NEW hop \in Addr, NEW hops \in Nat
    PROVE  create_or_get_routing_entry(T, d, seq, v, hop, hops) \in Entry
<1>1. new_entry(seq, v, hop, hops) \in Entry
  BY DEF new_entry, Entry, Precursors, EmptyList, Addr, Garbage
<1> QED
  BY <1>1, EntryOrNone DEF create_or_get_routing_entry

\* set_expiration_timer changes an entry into an entry.
LEMMA TimerType ==
    ASSUME NEW e \in Entry
    PROVE  set_expiration_timer(e) \in Entry
BY DEF set_expiration_timer, Entry

LEMMA RefreshType ==
    ASSUME NEW T \in Table, NEW d \in Addr, d \in Node
    PROVE  refresh(T, d) \in Table
<1>1. CASE T[d] = NoEntry
  BY <1>1 DEF refresh
<1>2. CASE T[d] # NoEntry
  BY <1>2, EntryOrNone, TimerType, TableUpdate DEF refresh
<1> QED
  BY <1>1, <1>2


-----------------------------------------------------------------------------
(* One lemma per operation: it returns a table, changes one entry, and what *)
(* it does to the fields of that entry.                                    *)

\* What an update that only renews routes keeps of the search of an entry.
SameSearch(T, U, d) ==
    U[d].rreq_search = IF T[d] = NoEntry THEN "SEARCH_NONE" ELSE T[d].rreq_search

\* What a message received from s does to the entry for s: it is valid and timed,
\* and its number and next hop are the ones it had, or none and s itself.
HopTaken(T, U, s) ==
    /\ U \in Table
    /\ \A d \in Node \ {s} : U[d] = T[d]
    /\ U[s] \in Entry
    /\ U[s].status = "ROUTE_VALID"
    /\ U[s].expiration_thread = 1
    /\ U[s].next_hop = IF T[s] = NoEntry THEN s ELSE T[s].next_hop
    /\ U[s].seq_valid = IF T[s] = NoEntry THEN "SEQ_INVALID" ELSE T[s].seq_valid
    /\ U[s].dest_seq = IF T[s] = NoEntry THEN 0 ELSE T[s].dest_seq
    /\ U[s].active_route = IF T[s] = NoEntry THEN 0 ELSE T[s].active_route
    /\ SameSearch(T, U, s)

LEMMA PreviousHopEffect ==
    ASSUME NEW T \in Table, NEW s \in Node
    PROVE  HopTaken(T, previous_hop(T, s), s)
<1> DEFINE e == create_or_get_routing_entry(T, s, 0, "SEQ_INVALID", s, 0)
           f == set_expiration_timer([e EXCEPT !.status = "ROUTE_VALID"])
           U == previous_hop(T, s)
<1>1. e \in Entry
  BY CreateType DEF Addr
<1>2. /\ T[s] = NoEntry => /\ e.rreq_search = "SEARCH_NONE" /\ e.next_hop = s
                           /\ e.seq_valid = "SEQ_INVALID" /\ e.dest_seq = 0
                           /\ e.active_route = 0
      /\ T[s] # NoEntry => e = T[s]
  BY DEF create_or_get_routing_entry, new_entry
<1>3. U = [T EXCEPT ![s] = f]
  BY DEF previous_hop
<1> HIDE DEF e
<1>4. /\ f.status = "ROUTE_VALID" /\ f.expiration_thread = 1
      /\ f.next_hop = e.next_hop /\ f.seq_valid = e.seq_valid
      /\ f.dest_seq = e.dest_seq /\ f.active_route = e.active_route
      /\ f.rreq_search = e.rreq_search
  BY <1>1 DEF Entry, set_expiration_timer
<1>5. f \in Entry
  <2>1. [e EXCEPT !.status = "ROUTE_VALID"] \in Entry
    BY <1>1 DEF Entry
  <2> QED
    BY <2>1, TimerType
<1> HIDE DEF f
<1>6. U \in Table /\ U[s] = f /\ \A d \in Node \ {s} : U[d] = T[d]
  BY <1>3, <1>5 DEF Table
<1> HIDE DEF U
<1> QED
  BY <1>2, <1>4, <1>5, <1>6 DEF SameSearch, HopTaken, U

\* Renewing a route gives an entry with the number, next hop and hop count given.
LEMMA RouteUpdateEffect ==
    ASSUME NEW e \in Entry, NEW seq \in Nat, NEW hop \in Addr, NEW hops \in Nat
    PROVE  /\ route_update(e, seq, hop, hops) \in Entry
           /\ route_update(e, seq, hop, hops).dest_seq = seq
           /\ route_update(e, seq, hop, hops).seq_valid = "SEQ_VALID"
           /\ route_update(e, seq, hop, hops).next_hop = hop
           /\ route_update(e, seq, hop, hops).rreq_search = e.rreq_search
           /\ route_update(e, seq, hop, hops).active_route = e.active_route
<1>1. route_update(e, seq, hop, hops) \in Entry
  BY DEF route_update, Entry
<1> QED
  BY <1>1 DEF route_update, Entry

\* The entry of an originator whose RREQ with this id is being handled.
LEMMA SeenEntryType ==
    ASSUME NEW e \in Entry, NEW id \in Nat
    PROVE  LET g == [e EXCEPT !.rreq_id = id, !.rreq_id_thread = 1,
                              !.status = "ROUTE_VALID"]
           IN  /\ g \in Entry
               /\ g.status = "ROUTE_VALID"
               /\ g.next_hop = e.next_hop /\ g.seq_valid = e.seq_valid
               /\ g.dest_seq = e.dest_seq /\ g.active_route = e.active_route
               /\ g.rreq_search = e.rreq_search
<1> DEFINE g == [e EXCEPT !.rreq_id = id, !.rreq_id_thread = 1,
                          !.status = "ROUTE_VALID"]
<1>1. g \in Entry
  BY DEF Entry
<1>2. /\ g.status = "ROUTE_VALID"
      /\ g.next_hop = e.next_hop /\ g.seq_valid = e.seq_valid
      /\ g.dest_seq = e.dest_seq /\ g.active_route = e.active_route
      /\ g.rreq_search = e.rreq_search
  BY DEF Entry
<1> QED
  BY <1>1, <1>2

\* set_expiration_timer starts the timer and changes nothing else.
LEMMA TimerEffect ==
    ASSUME NEW e \in Entry
    PROVE  LET f == set_expiration_timer(e)
           IN  /\ f \in Entry
               /\ f.expiration_thread = 1
               /\ f.status = e.status
               /\ f.next_hop = e.next_hop /\ f.seq_valid = e.seq_valid
               /\ f.dest_seq = e.dest_seq /\ f.active_route = e.active_route
               /\ f.rreq_search = e.rreq_search
<1>1. set_expiration_timer(e) \in Entry
  BY TimerType
<1> QED
  BY <1>1 DEF set_expiration_timer, Entry

\* What a RREQ or RREP with number seq received from hop may do to the route of
\* d: the entry is valid and timed, its number is the one of the message or a
\* valid one of before, and it never goes back from a valid number.
RouteRenewed(T, U, d, seq, hop) ==
    /\ U \in Table
    /\ \A x \in Node \ {d} : U[x] = T[x]
    /\ U[d] \in Entry
    /\ U[d].status = "ROUTE_VALID"
    /\ U[d].expiration_thread = 1
    /\ U[d].seq_valid = "SEQ_VALID"
    /\ \/ U[d].dest_seq = seq /\ U[d].next_hop = hop
       \/ /\ T[d] # NoEntry /\ T[d].seq_valid = "SEQ_VALID"
          /\ U[d].dest_seq = T[d].dest_seq /\ U[d].next_hop = T[d].next_hop
    /\ T[d] # NoEntry /\ T[d].seq_valid = "SEQ_VALID" => U[d].dest_seq >= T[d].dest_seq
    /\ SameSearch(T, U, d)

\* A renewed entry: the number, next hop and hop count of a message when it is
\* better, else the entry as it was (recv_rreq and recv_rrep decide alike).
Renewed(e, better, seq, hop, hops) ==
    IF better THEN route_update(e, seq, hop, hops) ELSE e

LEMMA RenewedEffect ==
    ASSUME NEW e \in Entry, NEW better \in BOOLEAN,
           NEW seq \in Nat, NEW hop \in Addr, NEW hops \in Nat
    PROVE  LET r == Renewed(e, better, seq, hop, hops)
           IN  /\ r \in Entry
               /\ better => r.dest_seq = seq /\ r.seq_valid = "SEQ_VALID" /\ r.next_hop = hop
               /\ ~better => r = e
               /\ r.rreq_search = e.rreq_search
               /\ r.active_route = e.active_route
<1>1. CASE better
  BY <1>1, RouteUpdateEffect DEF Renewed
<1>2. CASE ~better
  BY <1>2 DEF Renewed
<1> QED
  BY <1>1, <1>2

\* Under which condition a message may leave the number of d as it is, and
\* under which it may replace it: what both conditions of the handlers imply.
Decision(T, d, seq, better) ==
    /\ better \in BOOLEAN
    /\ ~better => /\ T[d] # NoEntry /\ T[d].seq_valid = "SEQ_VALID"
    /\ better => \/ T[d] = NoEntry
                 \/ T[d].seq_valid = "SEQ_INVALID"
                 \/ seq >= T[d].dest_seq

\* The two handlers finish an entry alike but for the RREQ id and the mark of an
\* active route: any f that agrees with r on the fields below will do.
LEMMA RenewedTable ==
    ASSUME NEW T \in Table, NEW d \in Node, NEW seq \in Nat, NEW hop \in Addr,
           NEW better, Decision(T, d, seq, better),
           NEW r, NEW f \in Entry,
           better => r.dest_seq = seq /\ r.seq_valid = "SEQ_VALID" /\ r.next_hop = hop,
           ~better => r = T[d],
           f.status = "ROUTE_VALID", f.expiration_thread = 1,
           f.next_hop = r.next_hop, f.seq_valid = r.seq_valid, f.dest_seq = r.dest_seq,
           f.rreq_search = IF T[d] = NoEntry THEN "SEARCH_NONE" ELSE T[d].rreq_search
    PROVE  RouteRenewed(T, [T EXCEPT ![d] = f], d, seq, hop)
<1> DEFINE U == [T EXCEPT ![d] = f]
<1>1. U \in Table /\ U[d] = f /\ \A x \in Node \ {d} : U[x] = T[x]
  BY DEF Table
<1>2. T[d] # NoEntry => /\ T[d].dest_seq \in Nat
                        /\ T[d].seq_valid \in {"SEQ_VALID", "SEQ_INVALID"}
  BY EntryOrNone DEF Entry
<1>3. /\ f.seq_valid = "SEQ_VALID"
      /\ \/ f.dest_seq = seq /\ f.next_hop = hop
         \/ /\ T[d] # NoEntry /\ T[d].seq_valid = "SEQ_VALID"
            /\ f.dest_seq = T[d].dest_seq /\ f.next_hop = T[d].next_hop
      /\ T[d] # NoEntry /\ T[d].seq_valid = "SEQ_VALID" => f.dest_seq >= T[d].dest_seq
  <2>1. CASE better
    BY <2>1, <1>2 DEF Decision
  <2>2. CASE ~better
    BY <2>2, <1>2 DEF Decision
  <2> QED
    BY <2>1, <2>2 DEF Decision
<1> HIDE DEF U
<1> QED
  BY <1>1, <1>3 DEF RouteRenewed, SameSearch, U

\* The entry that create_or_get_routing_entry returns is the one there is, or
\* one that nobody searches for and that is not active.
LEMMA CreateEffect ==
    ASSUME NEW T \in Table, NEW d \in Node, NEW seq \in Nat,
           NEW v \in {"SEQ_VALID", "SEQ_INVALID"}, NEW hop \in Addr, NEW hops \in Nat
    PROVE  \E e \in Entry :
              /\ e = create_or_get_routing_entry(T, d, seq, v, hop, hops)
              /\ T[d] = NoEntry => /\ e.rreq_search = "SEARCH_NONE" /\ e.active_route = 0
                                   /\ e.dest_seq = seq /\ e.seq_valid = v
                                   /\ e.next_hop = hop
              /\ T[d] # NoEntry => e = T[d]
<1>1. create_or_get_routing_entry(T, d, seq, v, hop, hops) \in Entry
  BY CreateType
<1> QED
  BY <1>1 DEF create_or_get_routing_entry, new_entry

\* reverse_route on the fields of a RREQ, for any decision.
ReverseUpdate(T, src, seq, hop, hops, id, better) ==
    LET r == Renewed(create_or_get_routing_entry(T, src, seq, "SEQ_VALID", hop, hops),
                     better, seq, hop, hops)
    IN  [T EXCEPT ![src] =
            set_expiration_timer([r EXCEPT !.rreq_id = id, !.rreq_id_thread = 1,
                                           !.status = "ROUTE_VALID"])]

LEMMA ReverseUpdateEffect ==
    ASSUME NEW T \in Table, NEW src \in Node, NEW seq \in Nat, NEW hop \in Addr,
           NEW hops \in Nat, NEW id \in Nat, NEW better, Decision(T, src, seq, better)
    PROVE  LET U == ReverseUpdate(T, src, seq, hop, hops, id, better)
           IN  /\ RouteRenewed(T, U, src, seq, hop)
               /\ U[src].active_route = IF T[src] = NoEntry THEN 0
                                        ELSE T[src].active_route
<1>1. PICK e \in Entry :
         /\ e = create_or_get_routing_entry(T, src, seq, "SEQ_VALID", hop, hops)
         /\ T[src] = NoEntry => e.rreq_search = "SEARCH_NONE" /\ e.active_route = 0
         /\ T[src] # NoEntry => e = T[src]
  BY CreateEffect
<1>2. PICK r \in Entry :
         /\ r = Renewed(e, better, seq, hop, hops)
         /\ better => r.dest_seq = seq /\ r.seq_valid = "SEQ_VALID" /\ r.next_hop = hop
         /\ ~better => r = e
         /\ r.rreq_search = e.rreq_search
         /\ r.active_route = e.active_route
  BY RenewedEffect DEF Decision
<1>3. PICK g \in Entry :
         /\ g = [r EXCEPT !.rreq_id = id, !.rreq_id_thread = 1, !.status = "ROUTE_VALID"]
         /\ g.status = "ROUTE_VALID"
         /\ g.next_hop = r.next_hop /\ g.seq_valid = r.seq_valid
         /\ g.dest_seq = r.dest_seq /\ g.active_route = r.active_route
         /\ g.rreq_search = r.rreq_search
  BY SeenEntryType
<1>4. PICK f \in Entry :
         /\ f = set_expiration_timer(g)
         /\ f.expiration_thread = 1
         /\ f.status = g.status
         /\ f.next_hop = g.next_hop /\ f.seq_valid = g.seq_valid
         /\ f.dest_seq = g.dest_seq /\ f.active_route = g.active_route
         /\ f.rreq_search = g.rreq_search
  BY TimerEffect
<1>5. ReverseUpdate(T, src, seq, hop, hops, id, better) = [T EXCEPT ![src] = f]
  BY <1>1, <1>2, <1>3, <1>4 DEF ReverseUpdate
<1>6. /\ f.next_hop = r.next_hop /\ f.seq_valid = r.seq_valid /\ f.dest_seq = r.dest_seq
      /\ f.status = "ROUTE_VALID" /\ f.expiration_thread = 1
      /\ f.rreq_search = IF T[src] = NoEntry THEN "SEARCH_NONE" ELSE T[src].rreq_search
      /\ f.active_route = IF T[src] = NoEntry THEN 0 ELSE T[src].active_route
  BY <1>1, <1>2, <1>3, <1>4
<1>7. ~better => r = T[src]
  BY <1>1, <1>2 DEF Decision
<1>8. RouteRenewed(T, [T EXCEPT ![src] = f], src, seq, hop)
  BY <1>2, <1>6, <1>7, RenewedTable
<1>9. [T EXCEPT ![src] = f][src] = f
  BY DEF Table
<1> QED
  BY <1>5, <1>6, <1>8, <1>9

\* reverse_route renews the route to the originator, and only makes a route that
\* is not better valid again.
LEMMA ReverseRouteEffect ==
    ASSUME NEW T \in Table, NEW m,
           m.src \in Node, m.from \in Node,
           m.src_seq \in Nat, m.hop_count \in Nat, m.rreq_id \in Nat
    PROVE  LET U == reverse_route(T, m)
           IN  /\ RouteRenewed(T, U, m.src, m.src_seq, m.from)
               /\ U[m.src].active_route = IF T[m.src] = NoEntry THEN 0
                                          ELSE T[m.src].active_route
<1> DEFINE better == reverse_route_better(T, m, m.hop_count + 1)
<1>1. Decision(T, m.src, m.src_seq, better)
  <2>1. T[m.src] # NoEntry => /\ T[m.src].dest_seq \in Nat
                              /\ T[m.src].seq_valid \in {"SEQ_VALID", "SEQ_INVALID"}
    BY EntryOrNone DEF Entry
  <2> QED
    BY <2>1 DEF reverse_route_better, Decision
<1>2. reverse_route(T, m) = ReverseUpdate(T, m.src, m.src_seq, m.from,
                                          m.hop_count + 1, m.rreq_id, better)
  BY DEF reverse_route, ReverseUpdate, Renewed
<1>3. m.hop_count + 1 \in Nat /\ m.from \in Addr
  BY DEF Addr
<1> HIDE DEF better
<1> QED
  BY <1>1, <1>2, <1>3, ReverseUpdateEffect

\* The entry of the destination of a RREP that is being handled.
LEMMA ActiveEntryType ==
    ASSUME NEW e \in Entry
    PROVE  LET g == [e EXCEPT !.status = "ROUTE_VALID", !.active_route = 1]
           IN  /\ g \in Entry
               /\ g.status = "ROUTE_VALID" /\ g.active_route = 1
               /\ g.next_hop = e.next_hop /\ g.seq_valid = e.seq_valid
               /\ g.dest_seq = e.dest_seq /\ g.rreq_search = e.rreq_search
<1> DEFINE g == [e EXCEPT !.status = "ROUTE_VALID", !.active_route = 1]
<1>1. g \in Entry
  BY DEF Entry
<1>2. /\ g.status = "ROUTE_VALID" /\ g.active_route = 1
      /\ g.next_hop = e.next_hop /\ g.seq_valid = e.seq_valid
      /\ g.dest_seq = e.dest_seq /\ g.rreq_search = e.rreq_search
  BY DEF Entry
<1> QED
  BY <1>1, <1>2

\* forward_route on the fields of a RREP, for any decision.
ForwardUpdate(T, d, seq, hop, hops, better) ==
    LET r == Renewed(create_or_get_routing_entry(T, d, seq, "SEQ_VALID", hop, hops),
                     better, seq, hop, hops)
    IN  [T EXCEPT ![d] =
            set_expiration_timer([r EXCEPT !.status = "ROUTE_VALID",
                                           !.active_route = 1])]

LEMMA ForwardUpdateEffect ==
    ASSUME NEW T \in Table, NEW d \in Node, NEW seq \in Nat, NEW hop \in Addr,
           NEW hops \in Nat, NEW better, Decision(T, d, seq, better)
    PROVE  LET U == ForwardUpdate(T, d, seq, hop, hops, better)
           IN  /\ RouteRenewed(T, U, d, seq, hop)
               /\ U[d].active_route = 1
<1>1. PICK e \in Entry :
         /\ e = create_or_get_routing_entry(T, d, seq, "SEQ_VALID", hop, hops)
         /\ T[d] = NoEntry => e.rreq_search = "SEARCH_NONE"
         /\ T[d] # NoEntry => e = T[d]
  BY CreateEffect
<1>2. PICK r \in Entry :
         /\ r = Renewed(e, better, seq, hop, hops)
         /\ better => r.dest_seq = seq /\ r.seq_valid = "SEQ_VALID" /\ r.next_hop = hop
         /\ ~better => r = e
         /\ r.rreq_search = e.rreq_search
  BY RenewedEffect DEF Decision
<1>3. PICK g \in Entry :
         /\ g = [r EXCEPT !.status = "ROUTE_VALID", !.active_route = 1]
         /\ g.status = "ROUTE_VALID" /\ g.active_route = 1
         /\ g.next_hop = r.next_hop /\ g.seq_valid = r.seq_valid
         /\ g.dest_seq = r.dest_seq /\ g.rreq_search = r.rreq_search
  BY ActiveEntryType
<1>4. PICK f \in Entry :
         /\ f = set_expiration_timer(g)
         /\ f.expiration_thread = 1
         /\ f.status = g.status
         /\ f.next_hop = g.next_hop /\ f.seq_valid = g.seq_valid
         /\ f.dest_seq = g.dest_seq /\ f.active_route = g.active_route
         /\ f.rreq_search = g.rreq_search
  BY TimerEffect
<1>5. ForwardUpdate(T, d, seq, hop, hops, better) = [T EXCEPT ![d] = f]
  BY <1>1, <1>2, <1>3, <1>4 DEF ForwardUpdate
<1>6. /\ f.next_hop = r.next_hop /\ f.seq_valid = r.seq_valid /\ f.dest_seq = r.dest_seq
      /\ f.status = "ROUTE_VALID" /\ f.expiration_thread = 1 /\ f.active_route = 1
      /\ f.rreq_search = IF T[d] = NoEntry THEN "SEARCH_NONE" ELSE T[d].rreq_search
  BY <1>1, <1>2, <1>3, <1>4
<1>7. ~better => r = T[d]
  BY <1>1, <1>2 DEF Decision
<1>8. RouteRenewed(T, [T EXCEPT ![d] = f], d, seq, hop)
  BY <1>2, <1>6, <1>7, RenewedTable
<1>9. [T EXCEPT ![d] = f][d] = f
  BY DEF Table
<1> QED
  BY <1>5, <1>6, <1>8, <1>9

\* forward_route renews the route to the destination, and in any case makes it
\* valid and active.
LEMMA ForwardRouteEffect ==
    ASSUME NEW T \in Table, NEW m,
           m.dest \in Node, m.from \in Node, m.dest_seq \in Nat, m.hop_count \in Nat
    PROVE  LET U == forward_route(T, m)
           IN  /\ RouteRenewed(T, U, m.dest, m.dest_seq, m.from)
               /\ U[m.dest].active_route = 1
<1> DEFINE better == forward_route_better(T, m, m.hop_count + 1)
<1>1. Decision(T, m.dest, m.dest_seq, better)
  <2>1. T[m.dest] # NoEntry => /\ T[m.dest].dest_seq \in Nat
                               /\ T[m.dest].seq_valid \in {"SEQ_VALID", "SEQ_INVALID"}
    BY EntryOrNone DEF Entry
  <2> QED
    BY <2>1 DEF forward_route_better, Decision
<1>2. forward_route(T, m) = ForwardUpdate(T, m.dest, m.dest_seq, m.from,
                                          m.hop_count + 1, better)
  BY DEF forward_route, ForwardUpdate, Renewed
<1>3. m.hop_count + 1 \in Nat /\ m.from \in Addr
  BY DEF Addr
<1> HIDE DEF better
<1> QED
  BY <1>1, <1>2, <1>3, ForwardUpdateEffect

\* A table with one entry replaced differs in that entry only.
LEMMA UpdateEffect ==
    ASSUME NEW T \in Table, NEW d \in Node, NEW e \in Entry \cup {NoEntry}
    PROVE  \E U \in Table : /\ U = [T EXCEPT ![d] = e] /\ U[d] = e
                            /\ \A x \in Node \ {d} : U[x] = T[x]
<1> DEFINE U == [T EXCEPT ![d] = e]
<1>1. U \in Table /\ U[d] = e /\ \A x \in Node \ {d} : U[x] = T[x]
  BY DEF Table
<1> QED
  BY <1>1

\* hello_route on the fields of a HELLO.
HelloUpdate(T, d, seq, hop, hops) ==
    LET e == create_or_get_routing_entry(T, d, seq, "SEQ_VALID", hop, hops)
    IN  IF \/ T[d] = NoEntry
           \/ e.seq_valid = "SEQ_INVALID"
           \/ seq >= e.dest_seq
        THEN [T EXCEPT ![d] =
                set_expiration_timer([e EXCEPT !.seq_valid = "SEQ_VALID",
                                               !.dest_seq = seq])]
        ELSE T

\* What a HELLO with number seq from hop does to the entry for d: it never makes
\* the entry valid, and gives a number that is not smaller than a valid one.
HelloTaken(T, U, d, seq, hop) ==
    /\ U \in Table
    /\ \A x \in Node \ {d} : U[x] = T[x]
    /\ U[d] \in Entry
    /\ T[d] # NoEntry => /\ U[d].status = T[d].status
                         /\ U[d].next_hop = T[d].next_hop
                         /\ U[d].rreq_search = T[d].rreq_search
                         /\ U[d].active_route = T[d].active_route
    /\ T[d] = NoEntry => /\ U[d].status = "ROUTE_INVALID"
                         /\ U[d].next_hop = hop
                         /\ U[d].rreq_search = "SEARCH_NONE"
                         /\ U[d].active_route = 0
    /\ \/ T[d] # NoEntry /\ U = T
       \/ /\ U[d].expiration_thread = 1
          /\ U[d].seq_valid = "SEQ_VALID"
          /\ U[d].dest_seq = seq
    /\ T[d] # NoEntry /\ T[d].seq_valid = "SEQ_VALID" => U[d].dest_seq >= T[d].dest_seq

LEMMA HelloUpdateEffect ==
    ASSUME NEW T \in Table, NEW d \in Node, NEW seq \in Nat, NEW hop \in Addr,
           NEW hops \in Nat
    PROVE  HelloTaken(T, HelloUpdate(T, d, seq, hop, hops), d, seq, hop)
<1>1. PICK e \in Entry :
         /\ e = create_or_get_routing_entry(T, d, seq, "SEQ_VALID", hop, hops)
         /\ T[d] # NoEntry => e = T[d]
         /\ T[d] = NoEntry => /\ e.status = "ROUTE_INVALID" /\ e.next_hop = hop
                              /\ e.rreq_search = "SEARCH_NONE" /\ e.active_route = 0
  <2>1. create_or_get_routing_entry(T, d, seq, "SEQ_VALID", hop, hops) \in Entry
    BY CreateType
  <2> QED
    BY <2>1 DEF create_or_get_routing_entry, new_entry
<1>2. PICK g \in Entry :
         /\ g = [e EXCEPT !.seq_valid = "SEQ_VALID", !.dest_seq = seq]
         /\ g.status = e.status /\ g.next_hop = e.next_hop
         /\ g.rreq_search = e.rreq_search /\ g.active_route = e.active_route
         /\ g.seq_valid = "SEQ_VALID" /\ g.dest_seq = seq
  <2>1. [e EXCEPT !.seq_valid = "SEQ_VALID", !.dest_seq = seq] \in Entry
    BY DEF Entry
  <2> QED
    BY <2>1 DEF Entry
<1>3. PICK f \in Entry :
         /\ f = set_expiration_timer(g)
         /\ f.expiration_thread = 1
         /\ f.status = g.status /\ f.next_hop = g.next_hop
         /\ f.seq_valid = g.seq_valid /\ f.dest_seq = g.dest_seq
         /\ f.active_route = g.active_route /\ f.rreq_search = g.rreq_search
  BY TimerEffect
<1>4. PICK U \in Table : /\ U = [T EXCEPT ![d] = f] /\ U[d] = f
                         /\ \A x \in Node \ {d} : U[x] = T[x]
  BY UpdateEffect
<1> DEFINE better == \/ T[d] = NoEntry
                     \/ e.seq_valid = "SEQ_INVALID"
                     \/ seq >= e.dest_seq
<1>5. HelloUpdate(T, d, seq, hop, hops) = IF better THEN U ELSE T
  BY <1>1, <1>2, <1>3, <1>4 DEF HelloUpdate
<1>6. e.dest_seq \in Nat /\ e.seq_valid \in {"SEQ_VALID", "SEQ_INVALID"}
  BY DEF Entry
<1>7. CASE better
  <2>1. HelloTaken(T, U, d, seq, hop)
    BY <1>1, <1>2, <1>3, <1>4, <1>6, <1>7 DEF HelloTaken
  <2> QED
    BY <1>5, <1>7, <2>1
<1>8. CASE ~better
  <2>1. HelloTaken(T, T, d, seq, hop)
    BY <1>1, <1>6, <1>8 DEF HelloTaken
  <2> QED
    BY <1>5, <1>8, <2>1
<1> QED
  BY <1>7, <1>8

LEMMA HelloRouteEffect ==
    ASSUME NEW T \in Table, NEW m,
           m.dest \in Node, m.from \in Node, m.dest_seq \in Nat, m.hop_count \in Nat
    PROVE  HelloTaken(T, hello_route(T, m), m.dest, m.dest_seq, m.from)
<1>1. hello_route(T, m) = HelloUpdate(T, m.dest, m.dest_seq, m.from, m.hop_count + 1)
  BY DEF hello_route, HelloUpdate
<1>2. m.hop_count + 1 \in Nat /\ m.from \in Addr
  BY DEF Addr
<1> QED
  BY <1>1, <1>2, HelloUpdateEffect

-----------------------------------------------------------------------------
(* The updates of an entry there is.                                       *)

\* Two entries with the same route: its status, next hop and number.
SameRoute(e, f) ==
    /\ f.status = e.status /\ f.next_hop = e.next_hop
    /\ f.seq_valid = e.seq_valid /\ f.dest_seq = e.dest_seq

\* An update of the entry for d that leaves its route as it is.
RouteKept(T, U, d) ==
    /\ U \in Table
    /\ \A x \in Node \ {d} : U[x] = T[x]
    /\ U[d] \in Entry
    /\ SameRoute(T[d], U[d])

\* A precursor changes nothing else of the entry.
LEMMA AddPrecursorEffect ==
    ASSUME NEW T \in Table, NEW d \in Node, T[d] # NoEntry, NEW a \in Addr
    PROVE  LET U == add_precursor(T, d, a)
           IN  /\ RouteKept(T, U, d)
               /\ U[d].rreq_search = T[d].rreq_search
               /\ U[d].expiration_thread = T[d].expiration_thread
               /\ U[d].active_route = T[d].active_route
<1>1. PICK e \in Entry : e = T[d]
  BY EntryOrNone
<1>2. PICK list \in Precursors : list = add_entry_to_list(e.precursor_list, a)
  <2>1. e.precursor_list \in Precursors
    BY DEF Entry
  <2> QED
    BY <2>1, AddToListType
<1>3. PICK f \in Entry :
         /\ f = [e EXCEPT !.precursor_list = list]
         /\ SameRoute(e, f) /\ f.rreq_search = e.rreq_search
         /\ f.expiration_thread = e.expiration_thread
         /\ f.active_route = e.active_route
  <2>1. [e EXCEPT !.precursor_list = list] \in Entry
    BY DEF Entry
  <2> QED
    BY <2>1 DEF Entry, SameRoute
<1>4. add_precursor(T, d, a) = [T EXCEPT ![d] = f]
  BY <1>1, <1>2, <1>3 DEF add_precursor, Table
<1>5. PICK U \in Table :
       /\ U = [T EXCEPT ![d] = f] /\ U[d] = f
       /\ \A x \in Node \ {d} : U[x] = T[x]
  BY UpdateEffect
<1> QED
  BY <1>1, <1>3, <1>4, <1>5 DEF RouteKept

\* An activated route is the same route.
LEMMA ActivateEffect ==
    ASSUME NEW T \in Table, NEW d \in Node, T[d] # NoEntry
    PROVE  LET U == activate(T, d)
           IN  /\ RouteKept(T, U, d)
               /\ U[d].rreq_search = T[d].rreq_search
               /\ U[d].expiration_thread = T[d].expiration_thread
               /\ U[d].active_route = 1
<1>1. PICK e \in Entry : e = T[d]
  BY EntryOrNone
<1>2. PICK f \in Entry :
         /\ f = [e EXCEPT !.active_route = 1]
         /\ SameRoute(e, f) /\ f.rreq_search = e.rreq_search
         /\ f.expiration_thread = e.expiration_thread
         /\ f.active_route = 1
  <2>1. [e EXCEPT !.active_route = 1] \in Entry
    BY DEF Entry
  <2> QED
    BY <2>1 DEF Entry, SameRoute
<1>3. activate(T, d) = [T EXCEPT ![d] = f]
  BY <1>1, <1>2 DEF activate, Table
<1>4. PICK U \in Table :
       /\ U = [T EXCEPT ![d] = f] /\ U[d] = f
       /\ \A x \in Node \ {d} : U[x] = T[x]
  BY UpdateEffect
<1> QED
  BY <1>1, <1>2, <1>3, <1>4 DEF RouteKept

Outcomes == {"SEARCH_NONE", "SEARCH_SEARCHING", "SEARCH_FOUND", "SEARCH_FAILED"}

\* The outcome of a search is noted in the entry and nothing else is.
LEMMA SetSearchEffect ==
    ASSUME NEW T \in Table, NEW d \in Node, T[d] # NoEntry, NEW outcome \in Outcomes
    PROVE  LET U == set_search(T, d, outcome)
           IN  /\ RouteKept(T, U, d)
               /\ U[d].rreq_search = outcome
               /\ U[d].expiration_thread = T[d].expiration_thread
               /\ U[d].active_route = T[d].active_route
<1>1. PICK e \in Entry : e = T[d]
  BY EntryOrNone
<1>2. PICK f \in Entry :
         /\ f = [e EXCEPT !.rreq_search = outcome]
         /\ SameRoute(e, f) /\ f.rreq_search = outcome
         /\ f.expiration_thread = e.expiration_thread
         /\ f.active_route = e.active_route
  <2>1. [e EXCEPT !.rreq_search = outcome] \in Entry
    BY DEF Entry, Outcomes
  <2> QED
    BY <2>1 DEF Entry, SameRoute
<1>3. set_search(T, d, outcome) = [T EXCEPT ![d] = f]
  BY <1>1, <1>2 DEF set_search, Table
<1>4. PICK U \in Table :
       /\ U = [T EXCEPT ![d] = f] /\ U[d] = f
       /\ \A x \in Node \ {d} : U[x] = T[x]
  BY UpdateEffect
<1> QED
  BY <1>1, <1>2, <1>3, <1>4 DEF RouteKept

\* A refreshed entry is the same but for its timer, which runs; refreshing no
\* entry does nothing.
LEMMA RefreshEffect ==
    ASSUME NEW T \in Table, NEW d \in Node
    PROVE  LET U == refresh(T, d)
           IN  /\ T[d] = NoEntry => U = T
               /\ T[d] # NoEntry => /\ RouteKept(T, U, d)
                                    /\ U[d].rreq_search = T[d].rreq_search
                                    /\ U[d].expiration_thread = 1
                                    /\ U[d].active_route = T[d].active_route
<1>1. CASE T[d] = NoEntry
  BY <1>1 DEF refresh
<1>2. CASE T[d] # NoEntry
  <2>1. PICK e \in Entry : e = T[d]
    BY <1>2, EntryOrNone
  <2>2. PICK f \in Entry :
           /\ f = set_expiration_timer(e)
           /\ SameRoute(e, f) /\ f.rreq_search = e.rreq_search
           /\ f.expiration_thread = 1
           /\ f.active_route = e.active_route
    BY TimerEffect DEF SameRoute
  <2>3. refresh(T, d) = [T EXCEPT ![d] = f]
    BY <1>2, <2>1, <2>2 DEF refresh
  <2>4. PICK U \in Table :
         /\ U = [T EXCEPT ![d] = f] /\ U[d] = f
         /\ \A x \in Node \ {d} : U[x] = T[x]
    BY UpdateEffect
  <2> QED
    BY <1>2, <2>1, <2>2, <2>3, <2>4 DEF RouteKept
<1> QED
  BY <1>1, <1>2

\* A broken route is invalid and timed; its number and next hop stay.
LEMMA InvalidateEffect ==
    ASSUME NEW T \in Table, NEW d \in Node, T[d] # NoEntry
    PROVE  LET U == invalidate(T, d)
           IN  /\ U \in Table
               /\ \A x \in Node \ {d} : U[x] = T[x]
               /\ U[d] \in Entry
               /\ U[d].status = "ROUTE_INVALID"
               /\ U[d].next_hop = T[d].next_hop
               /\ U[d].seq_valid = T[d].seq_valid /\ U[d].dest_seq = T[d].dest_seq
               /\ U[d].rreq_search = T[d].rreq_search
               /\ U[d].expiration_thread = 1
               /\ U[d].active_route = T[d].active_route
<1>1. PICK e \in Entry : e = T[d]
  BY EntryOrNone
<1>2. PICK g \in Entry :
         /\ g = [e EXCEPT !.status = "ROUTE_INVALID"]
         /\ g.status = "ROUTE_INVALID" /\ g.next_hop = e.next_hop
         /\ g.seq_valid = e.seq_valid /\ g.dest_seq = e.dest_seq
         /\ g.rreq_search = e.rreq_search /\ g.active_route = e.active_route
  <2>1. [e EXCEPT !.status = "ROUTE_INVALID"] \in Entry
    BY DEF Entry
  <2> QED
    BY <2>1 DEF Entry
<1>3. PICK f \in Entry :
         /\ f = set_expiration_timer(g)
         /\ f.status = g.status /\ f.next_hop = g.next_hop
         /\ f.seq_valid = g.seq_valid /\ f.dest_seq = g.dest_seq
         /\ f.rreq_search = g.rreq_search /\ f.expiration_thread = 1
         /\ f.active_route = g.active_route
  BY TimerEffect
<1>4. invalidate(T, d) = [T EXCEPT ![d] = f]
  BY <1>1, <1>2, <1>3 DEF invalidate, Table
<1>5. PICK U \in Table :
       /\ U = [T EXCEPT ![d] = f] /\ U[d] = f
       /\ \A x \in Node \ {d} : U[x] = T[x]
  BY UpdateEffect
<1> QED
  BY <1>1, <1>2, <1>3, <1>4, <1>5

\* A search starts: the route there was stays, a new entry has none.
LEMMA StartSearchEffect ==
    ASSUME NEW T \in Table, NEW d \in Node
    PROVE  LET U == start_search(T, d)
           IN  /\ U \in Table
               /\ \A x \in Node \ {d} : U[x] = T[x]
               /\ U[d] \in Entry
               /\ T[d] # NoEntry => SameRoute(T[d], U[d])
               /\ T[d] = NoEntry => /\ U[d].status = "ROUTE_INVALID"
                                    /\ U[d].seq_valid = "SEQ_INVALID"
                                    /\ U[d].next_hop = NoAddr
               /\ U[d].rreq_search = "SEARCH_SEARCHING"
<1>0. 0 \in Nat /\ NoAddr \in Addr
  BY DEF Addr
<1>1. PICK e \in Entry :
         /\ e = create_or_get_routing_entry(T, d, 0, "SEQ_INVALID", NoAddr, 0)
         /\ T[d] # NoEntry => e = T[d]
         /\ T[d] = NoEntry => /\ e.status = "ROUTE_INVALID"
                              /\ e.seq_valid = "SEQ_INVALID"
                              /\ e.next_hop = NoAddr
  <2>1. create_or_get_routing_entry(T, d, 0, "SEQ_INVALID", NoAddr, 0) \in Entry
    BY <1>0, CreateType
  <2> QED
    BY <2>1 DEF create_or_get_routing_entry, new_entry
<1>2. PICK f \in Entry :
         /\ f = [e EXCEPT !.expiration_thread = 0, !.rreq_search = "SEARCH_SEARCHING"]
         /\ SameRoute(e, f) /\ f.rreq_search = "SEARCH_SEARCHING"
  <2>1. [e EXCEPT !.expiration_thread = 0, !.rreq_search = "SEARCH_SEARCHING"] \in Entry
    BY DEF Entry
  <2> QED
    BY <2>1 DEF Entry, SameRoute
<1>3. start_search(T, d) = [T EXCEPT ![d] = f]
  BY <1>1, <1>2 DEF start_search
<1>4. PICK U \in Table :
       /\ U = [T EXCEPT ![d] = f] /\ U[d] = f
       /\ \A x \in Node \ {d} : U[x] = T[x]
  BY UpdateEffect
<1>5. T[d] # NoEntry => SameRoute(T[d], f)
  BY <1>1, <1>2
<1>6. T[d] = NoEntry => /\ f.status = "ROUTE_INVALID"
                        /\ f.seq_valid = "SEQ_INVALID"
                        /\ f.next_hop = NoAddr
  BY <1>1, <1>2 DEF SameRoute
<1> QED
  BY <1>2, <1>3, <1>4, <1>5, <1>6

-----------------------------------------------------------------------------
(* Updates that no search notices.                                         *)

\* No entry is removed, none is marked as searched for, and the marks there are
\* stay.
SearchKept(T, U) ==
    \A d \in Node :
        /\ T[d] # NoEntry => U[d] # NoEntry /\ U[d].rreq_search = T[d].rreq_search
        /\ T[d] = NoEntry /\ U[d] # NoEntry => U[d].rreq_search = "SEARCH_NONE"

LEMMA SearchKeptTransitive ==
    ASSUME NEW T, NEW U, NEW V, SearchKept(T, U), SearchKept(U, V)
    PROVE  SearchKept(T, V)
BY DEF SearchKept

\* The operations that keep the searches.
LEMMA SearchKeepers ==
    ASSUME NEW T \in Table, NEW U \in Table, NEW d \in Node
    PROVE  /\ SearchKept(T, T)
           /\ HopTaken(T, U, d) => SearchKept(T, U)
           /\ \A seq, hop : RouteRenewed(T, U, d, seq, hop) => SearchKept(T, U)
           /\ \A seq, hop : HelloTaken(T, U, d, seq, hop) => SearchKept(T, U)
           /\ T[d] # NoEntry /\ RouteKept(T, U, d) /\ U[d].rreq_search = T[d].rreq_search
                 => SearchKept(T, U)
<1>1. SearchKept(T, T)
  BY DEF SearchKept
<1>2. HopTaken(T, U, d) => SearchKept(T, U)
  BY NoEntryAssumption DEF HopTaken, SearchKept, SameSearch
<1>3. \A seq, hop : RouteRenewed(T, U, d, seq, hop) => SearchKept(T, U)
  BY NoEntryAssumption DEF RouteRenewed, SearchKept, SameSearch
<1>4. \A seq, hop : HelloTaken(T, U, d, seq, hop) => SearchKept(T, U)
  BY NoEntryAssumption DEF HelloTaken, SearchKept
<1>5. T[d] # NoEntry /\ RouteKept(T, U, d) /\ U[d].rreq_search = T[d].rreq_search
         => SearchKept(T, U)
  BY NoEntryAssumption DEF RouteKept, SearchKept
<1> QED
  BY <1>1, <1>2, <1>3, <1>4, <1>5

\* Refreshing and invalidating too.
LEMMA TimersKeepSearch ==
    ASSUME NEW T \in Table, NEW d \in Node
    PROVE  /\ refresh(T, d) \in Table /\ SearchKept(T, refresh(T, d))
           /\ T[d] # NoEntry => /\ invalidate(T, d) \in Table
                                /\ SearchKept(T, invalidate(T, d))
<1>1. refresh(T, d) \in Table /\ SearchKept(T, refresh(T, d))
  <2>1. CASE T[d] = NoEntry
    BY <2>1, RefreshEffect, SearchKeepers
  <2>2. CASE T[d] # NoEntry
    <3>1. PICK U \in Table : /\ U = refresh(T, d) /\ RouteKept(T, U, d)
                             /\ U[d].rreq_search = T[d].rreq_search
      BY <2>2, RefreshEffect DEF RouteKept
    <3> QED
      BY <2>2, <3>1, SearchKeepers
  <2> QED
    BY <2>1, <2>2
<1>2. ASSUME T[d] # NoEntry
      PROVE  invalidate(T, d) \in Table /\ SearchKept(T, invalidate(T, d))
  <2>1. PICK U \in Table : /\ U = invalidate(T, d)
                           /\ \A x \in Node \ {d} : U[x] = T[x]
                           /\ U[d] \in Entry /\ U[d].rreq_search = T[d].rreq_search
    BY <1>2, InvalidateEffect
  <2> QED
    BY <1>2, <2>1, NoEntryAssumption DEF SearchKept
<1> QED
  BY <1>1, <1>2

-----------------------------------------------------------------------------
(* What the tables are that a message leaves behind.                       *)

\* recv_rreq: the table after the previous hop, and after the reverse route.
LEMMA RreqTables ==
    ASSUME TypeOK, NEW n \in Node, NEW m \in Rreq
    PROVE  \E T, H, R \in Table :
              /\ T = table[n]
              /\ H = after_hop(n, m) /\ HopTaken(T, H, m.from)
              /\ R = after_reverse(n, m)
              /\ RouteRenewed(H, R, m.src, m.src_seq, m.from)
              /\ R[m.src].active_route = IF H[m.src] = NoEntry THEN 0
                                         ELSE H[m.src].active_route
<1>1. PICK T \in Table : T = table[n]
  BY DEF TypeOK
<1>2. /\ m.src \in Node /\ m.from \in Node
      /\ m.src_seq \in Nat /\ m.hop_count \in Nat /\ m.rreq_id \in Nat
  BY DEF Rreq
<1>3. PICK H \in Table : H = after_hop(n, m) /\ HopTaken(T, H, m.from)
  <2>1. HopTaken(T, previous_hop(T, m.from), m.from)
    BY <1>2, PreviousHopEffect
  <2> QED
    BY <1>1, <2>1 DEF after_hop, HopTaken
<1>4. PICK R \in Table :
         /\ R = after_reverse(n, m)
         /\ RouteRenewed(H, R, m.src, m.src_seq, m.from)
         /\ R[m.src].active_route = IF H[m.src] = NoEntry THEN 0
                                    ELSE H[m.src].active_route
  <2>1. /\ RouteRenewed(H, reverse_route(H, m), m.src, m.src_seq, m.from)
        /\ reverse_route(H, m)[m.src].active_route
              = IF H[m.src] = NoEntry THEN 0 ELSE H[m.src].active_route
    BY <1>2, ReverseRouteEffect
  <2> QED
    BY <1>3, <2>1 DEF after_reverse, RouteRenewed
<1> QED
  BY <1>1, <1>3, <1>4

\* recv_rrep: the table after the end of the search, after the previous hop, and
\* after the forward route.
LEMMA RrepTables ==
    ASSUME TypeOK, NEW n \in Node, NEW m \in Rrep
    PROVE  \E T, F, H, R \in Table :
              /\ T = table[n]
              /\ F = after_found(n, m)
              /\ ~search_ends(n, m) => F = T
              /\ search_ends(n, m) =>
                    /\ RouteKept(T, F, m.dest)
                    /\ F[m.dest].rreq_search = "SEARCH_FOUND"
                    /\ F[m.dest].expiration_thread = T[m.dest].expiration_thread
                    /\ F[m.dest].active_route = T[m.dest].active_route
              /\ H = previous_hop(F, m.from) /\ HopTaken(F, H, m.from)
              /\ R = after_forward(n, m)
              /\ RouteRenewed(H, R, m.dest, m.dest_seq, m.from)
              /\ R[m.dest].active_route = 1
<1>1. PICK T \in Table : T = table[n]
  BY DEF TypeOK
<1>2. /\ m.dest \in Node /\ m.from \in Node
      /\ m.dest_seq \in Nat /\ m.hop_count \in Nat
  BY DEF Rrep
<1>3. PICK F \in Table :
         /\ F = after_found(n, m)
         /\ ~search_ends(n, m) => F = T
         /\ search_ends(n, m) =>
               /\ RouteKept(T, F, m.dest)
               /\ F[m.dest].rreq_search = "SEARCH_FOUND"
               /\ F[m.dest].expiration_thread = T[m.dest].expiration_thread
               /\ F[m.dest].active_route = T[m.dest].active_route
  <2>1. CASE search_ends(n, m)
    <3>1. T[m.dest] # NoEntry
      BY <1>1, <2>1 DEF search_ends
    <3>2. PICK d \in Node : d = m.dest
      BY <1>2
    <3>3. PICK U \in Table :
             /\ U = set_search(T, d, "SEARCH_FOUND")
             /\ RouteKept(T, U, d)
             /\ U[d].rreq_search = "SEARCH_FOUND"
             /\ U[d].expiration_thread = T[d].expiration_thread
             /\ U[d].active_route = T[d].active_route
      BY <3>1, <3>2, SetSearchEffect DEF Outcomes, RouteKept
    <3> QED
      BY <1>1, <2>1, <3>2, <3>3 DEF after_found
  <2>2. CASE ~search_ends(n, m)
    BY <1>1, <2>2 DEF after_found
  <2> QED
    BY <2>1, <2>2
<1>4. PICK H \in Table : H = previous_hop(F, m.from) /\ HopTaken(F, H, m.from)
  <2>1. HopTaken(F, previous_hop(F, m.from), m.from)
    BY <1>2, PreviousHopEffect
  <2> QED
    BY <2>1 DEF HopTaken
<1>5. PICK R \in Table :
         /\ R = after_forward(n, m)
         /\ RouteRenewed(H, R, m.dest, m.dest_seq, m.from)
         /\ R[m.dest].active_route = 1
  <2>1. /\ RouteRenewed(H, forward_route(H, m), m.dest, m.dest_seq, m.from)
        /\ forward_route(H, m)[m.dest].active_route = 1
    BY <1>2, ForwardRouteEffect
  <2> QED
    BY <1>3, <1>4, <2>1 DEF after_forward, RouteRenewed
<1> QED
  BY <1>1, <1>3, <1>4, <1>5

-----------------------------------------------------------------------------
(* Type correctness. One lemma for each kind of write, one per handler.    *)

\* The writes that handlers share keep the type of what they write.
LEMMA WriteTypes ==
    ASSUME TypeOK, NEW n \in Node
    PROVE  /\ \A T \in Table : set_table(n, T) => table' \in [Node -> Table]
           /\ \A routes \in SUBSET (Node \X Node) :
                 AddUnicastRoutingEntry(n, routes)
                    => kernel' \in [Node -> SUBSET (Node \X Node)]
           /\ \A a \in Nat : set_active(n, a) => active_routes' \in [Node -> Nat]
           /\ \A thread \in {"in", "out", "fwd"}, locked \in SUBSET Node :
                 hangs(n, thread, locked)
                    => /\ held' \in [Node -> SUBSET Node]
                       /\ hung' \in [Node -> SUBSET {"in", "out", "fwd"}]
           /\ \A d \in Node : DeleteEntry(n, d)
                                 => kernel' \in [Node -> SUBSET (Node \X Node)]
           /\ \A d \in Node : cancel_sender(n, d) => sender' \in [Node -> Thread]
<1>1. \A T \in Table : set_table(n, T) => table' \in [Node -> Table]
  BY DEF TypeOK, set_table
<1>2. \A routes \in SUBSET (Node \X Node) :
         AddUnicastRoutingEntry(n, routes)
            => kernel' \in [Node -> SUBSET (Node \X Node)]
  BY DEF TypeOK, AddUnicastRoutingEntry
<1>3. \A a \in Nat : set_active(n, a) => active_routes' \in [Node -> Nat]
  BY DEF TypeOK, set_active
<1>4. \A thread \in {"in", "out", "fwd"}, locked \in SUBSET Node :
         hangs(n, thread, locked)
            => /\ held' \in [Node -> SUBSET Node]
               /\ hung' \in [Node -> SUBSET {"in", "out", "fwd"}]
  BY DEF TypeOK, hangs
<1>5. \A d \in Node : DeleteEntry(n, d)
                         => kernel' \in [Node -> SUBSET (Node \X Node)]
  BY DEF TypeOK, DeleteEntry
<1>6. \A d \in Node : cancel_sender(n, d) => sender' \in [Node -> Thread]
  <2>1. NoThread \in Thread
    BY DEF NoThread, Thread, Addr
  <2> QED
    BY <2>1 DEF TypeOK, cancel_sender
<1> QED
  BY <1>1, <1>2, <1>3, <1>4, <1>5, <1>6

\* The numbers that are added to the count of active routes are 0 or 1.
LEMMA NewActiveType ==
    ASSUME NEW e \in Entry \cup {NoEntry}
    PROVE  new_active(e) \in Nat
<1>1. e # NoEntry => e.active_route \in {0, 1}
  BY DEF Entry
<1> QED
  BY <1>1 DEF new_active

LEMMA LostActiveType ==
    ASSUME TypeOK, NEW n \in Node, NEW e \in Entry
    PROVE  lost_active(n, e) \in Nat
<1>1. e.active_route \in {0, 1}
  BY DEF Entry
<1> QED
  BY <1>1 DEF lost_active, TypeOK

\* What recv_rreq sends has the type of a message.
LEMMA RreqMessages ==
    ASSUME TypeOK, NEW n \in Node, NEW m \in Rreq, NEW R \in Table
    PROVE  /\ reply_seq(n, m) \in Nat
           /\ [from |-> n, to |-> m.from, src |-> m.src, dest |-> n,
               dest_seq |-> reply_seq(n, m), hop_count |-> 0] \in Rrep
           /\ R[m.dest] # NoEntry => intermediate_rreps(n, R, m) \subseteq Rrep
           /\ m.ttl > 1 => rebroadcast(n, R, m) \in Rreq
<1>1. /\ m.src \in Node /\ m.from \in Node /\ m.dest \in Node
      /\ m.src_seq \in Nat /\ m.dest_seq \in Nat /\ m.hop_count \in Nat
      /\ m.ttl \in Nat
  BY DEF Rreq
<1>2. reply_seq(n, m) \in Nat
  BY <1>1 DEF reply_seq, TypeOK
<1>3. [from |-> n, to |-> m.from, src |-> m.src, dest |-> n,
       dest_seq |-> reply_seq(n, m), hop_count |-> 0] \in Rrep
  BY <1>1, <1>2 DEF Rrep, Addr
<1>4. ASSUME R[m.dest] # NoEntry
      PROVE  intermediate_rreps(n, R, m) \subseteq Rrep
  <2>1. PICK e \in Entry : e = R[m.dest]
    BY <1>1, <1>4, EntryOrNone
  <2>2. e.dest_seq \in Nat /\ e.hop_count \in Nat /\ e.next_hop \in Addr
    BY DEF Entry
  <2>3. [from |-> n, to |-> m.from, src |-> m.src, dest |-> m.dest,
         dest_seq |-> e.dest_seq, hop_count |-> e.hop_count] \in Rrep
    BY <1>1, <2>2 DEF Rrep, Addr
  <2>4. [from |-> n, to |-> e.next_hop, src |-> m.dest, dest |-> m.src,
         dest_seq |-> m.src_seq, hop_count |-> m.hop_count + 1] \in Rrep
    BY <1>1, <2>2 DEF Rrep, Addr
  <2> QED
    BY <2>1, <2>3, <2>4 DEF intermediate_rreps
<1>5. ASSUME m.ttl > 1
      PROVE  rebroadcast(n, R, m) \in Rreq
  <2> DEFINE known == /\ R[m.dest] # NoEntry
                      /\ R[m.dest].seq_valid = "SEQ_VALID"
                      /\ "UNKNOWN" \in m.flags \/ m.dest_seq < R[m.dest].dest_seq
  <2>1. PICK seq \in Nat : seq = IF known THEN R[m.dest].dest_seq ELSE m.dest_seq
    <3>1. R[m.dest] # NoEntry => R[m.dest].dest_seq \in Nat
      BY <1>1, EntryOrNone DEF Entry
    <3> QED
      BY <1>1, <3>1
  <2>2. rebroadcast(n, R, m) = [m EXCEPT !.from = n, !.ttl = m.ttl - 1,
                                         !.hop_count = m.hop_count + 1, !.dest_seq = seq]
    BY <2>1 DEF rebroadcast, Rreq
  <2>3. m.ttl - 1 \in Nat
    BY <1>1, <1>5
  <2> HIDE DEF known
  <2>4. PICK ttl \in Nat, hops \in Nat : ttl = m.ttl - 1 /\ hops = m.hop_count + 1
    BY <1>1, <2>3
  <2>5. [m EXCEPT !.from = n] \in Rreq
    BY DEF Rreq
  <2>6. [[m EXCEPT !.from = n] EXCEPT !.ttl = ttl] \in Rreq
    BY <2>5 DEF Rreq
  <2>7. [[[m EXCEPT !.from = n] EXCEPT !.ttl = ttl] EXCEPT !.hop_count = hops] \in Rreq
    BY <2>6 DEF Rreq
  <2>8. [[[[m EXCEPT !.from = n] EXCEPT !.ttl = ttl] EXCEPT !.hop_count = hops]
            EXCEPT !.dest_seq = seq] \in Rreq
    BY <2>7 DEF Rreq
  <2> QED
    BY <2>2, <2>4, <2>8
<1> QED
  BY <1>2, <1>3, <1>4, <1>5

LEMMA RecvRreqType ==
    ASSUME TypeOK, NEW n \in Node, NEW m \in rreqs, recv_rreq(n, m)
    PROVE  TypeOK'
<1>1. m \in Rreq
  BY DEF TypeOK
<1>2. m.src \in Node /\ m.from \in Node /\ m.dest \in Node /\ m.ttl \in Nat
  BY <1>1 DEF Rreq
<1>3. PICK T, H, R \in Table :
         /\ T = table[n]
         /\ H = after_hop(n, m)
         /\ R = after_reverse(n, m)
         /\ R[m.src] \in Entry
  BY <1>1, RreqTables DEF RouteRenewed
<1>4. /\ {<<m.from, m.from>>} \in SUBSET (Node \X Node)
      /\ reverse_routes(m) \in SUBSET (Node \X Node)
  BY <1>2 DEF reverse_routes
<1>5. PICK seen \in BOOLEAN :
         /\ \/ rreq_ignored(n, m, seen)
            \/ rreq_at_destination(n, m, seen)
            \/ rreq_answered(n, m, seen)
            \/ rreq_flooded(n, m, seen)
            \/ rreq_blocked(n, m, seen)
         /\ UNCHANGED <<outgoing, hello, rerrs, packets>>
  BY DEF recv_rreq
<1>6. CASE rreq_ignored(n, m, seen)
  <2>1. /\ table' \in [Node -> Table]
        /\ kernel' \in [Node -> SUBSET (Node \X Node)]
    BY <1>3, <1>4, <1>6, WriteTypes DEF rreq_ignored
  <2> QED
    BY <1>5, <1>6, <2>1 DEF rreq_ignored, TypeOK, numbers, locks
<1>7. CASE rreq_at_destination(n, m, seen)
  <2>1. PICK A \in Table : A = activate(R, m.src)
    BY <1>2, <1>3, ActivateEffect, NoEntryAssumption DEF RouteKept
  <2>2. PICK k \in Nat : k = active_routes[n] + new_active(R[m.src])
    <3>1. new_active(R[m.src]) \in Nat
      BY <1>3, NewActiveType
    <3> QED
      BY <3>1 DEF TypeOK
  <2>3. /\ set_table(n, A) /\ AddUnicastRoutingEntry(n, reverse_routes(m))
        /\ set_active(n, k)
    BY <1>3, <1>7, <2>1, <2>2 DEF rreq_at_destination
  <2>4. /\ table' \in [Node -> Table]
        /\ kernel' \in [Node -> SUBSET (Node \X Node)]
        /\ active_routes' \in [Node -> Nat]
    BY <1>4, <2>3, WriteTypes
  <2>5. sequence_num' \in [Node -> Nat] /\ rreps' \subseteq Rrep
    BY <1>1, <1>3, <1>7, RreqMessages DEF rreq_at_destination, TypeOK
  <2> QED
    BY <1>5, <1>7, <2>4, <2>5 DEF rreq_at_destination, TypeOK, locks
<1>8. CASE rreq_answered(n, m, seen)
  <2>1. R[m.dest] # NoEntry
    BY <1>2, <1>3, <1>8 DEF rreq_answered, can_answer, Valid, get_routing_entry
  <2>2. PICK hop \in Addr : hop = R[m.dest].next_hop
    BY <1>2, <2>1, EntryOrNone DEF Entry
  <2>3. PICK A \in Table : A = add_precursor(R, m.dest, m.from) /\ A[m.src] # NoEntry
    <3>1. m.from \in Addr
      BY <1>2 DEF Addr
    <3>2. PICK d \in Node, f \in Addr : d = m.dest /\ f = m.from
      BY <1>2, <3>1
    <3>3. RouteKept(R, add_precursor(R, d, f), d)
      BY <2>1, <3>2, AddPrecursorEffect
    <3>4. PICK A \in Table : A = add_precursor(R, d, f) /\ A[d] \in Entry
                             /\ \A x \in Node \ {d} : A[x] = R[x]
      BY <3>3 DEF RouteKept
    <3> QED
      BY <1>2, <1>3, <3>2, <3>4, NoEntryAssumption
  <2>4. PICK B \in Table : B = add_precursor(A, m.src, hop)
    BY <1>2, <2>3, AddPrecursorEffect DEF RouteKept
  <2>5. set_table(n, B) /\ AddUnicastRoutingEntry(n, reverse_routes(m))
    BY <1>3, <1>8, <2>2, <2>3, <2>4 DEF rreq_answered
  <2>6. /\ table' \in [Node -> Table]
        /\ kernel' \in [Node -> SUBSET (Node \X Node)]
    BY <1>4, <2>5, WriteTypes
  <2>7. rreps' \subseteq Rrep
    BY <1>1, <1>3, <1>8, <2>1, RreqMessages DEF rreq_answered, TypeOK
  <2> QED
    BY <1>5, <1>8, <2>6, <2>7 DEF rreq_answered, TypeOK, numbers, locks
<1>9. CASE rreq_flooded(n, m, seen)
  <2>1. /\ table' \in [Node -> Table]
        /\ kernel' \in [Node -> SUBSET (Node \X Node)]
    BY <1>3, <1>4, <1>9, WriteTypes DEF rreq_flooded
  <2>2. rreqs' \subseteq Rreq
    <3>1. rreqs' = IF m.ttl <= 1 THEN rreqs ELSE rreqs \cup {rebroadcast(n, R, m)}
      BY <1>3, <1>9 DEF rreq_flooded
    <3>2. m.ttl > 1 => rebroadcast(n, R, m) \in Rreq
      BY <1>1, RreqMessages
    <3> QED
      BY <1>2, <3>1, <3>2 DEF TypeOK
  <2> QED
    BY <1>5, <1>9, <2>1, <2>2 DEF rreq_flooded, TypeOK, numbers, locks
<1>10. CASE rreq_blocked(n, m, seen)
  <2>1. /\ table' \in [Node -> Table]
        /\ kernel' \in [Node -> SUBSET (Node \X Node)]
    BY <1>3, <1>4, <1>10, WriteTypes DEF rreq_blocked, TypeOK
  <2>2. /\ held' \in [Node -> SUBSET Node]
        /\ hung' \in [Node -> SUBSET {"in", "out", "fwd"}]
    BY <1>10, WriteTypes DEF rreq_blocked
  <2> QED
    BY <1>5, <1>10, <2>1, <2>2 DEF rreq_blocked, TypeOK, numbers
<1> QED
  BY <1>5, <1>6, <1>7, <1>8, <1>9, <1>10

LEMMA RecvRrepType ==
    ASSUME TypeOK, NEW n \in Node, NEW m \in rreps, recv_rrep(n, m)
    PROVE  TypeOK'
<1>1. m \in Rrep
  BY DEF TypeOK
<1>2. /\ m.src \in Addr /\ m.from \in Node /\ m.dest \in Node
      /\ m.dest_seq \in Nat /\ m.hop_count \in Nat
  BY <1>1 DEF Rrep
<1>3. PICK T, F, H, R \in Table :
         /\ T = table[n]
         /\ F = after_found(n, m)
         /\ ~search_ends(n, m) => F = T
         /\ H = previous_hop(F, m.from)
         /\ R = after_forward(n, m)
         /\ R[m.dest] \in Entry
  BY <1>1, RrepTables DEF RouteRenewed
<1>4. /\ {<<m.from, m.from>>} \in SUBSET (Node \X Node)
      /\ forward_routes(m) \in SUBSET (Node \X Node)
  BY <1>2 DEF forward_routes
<1>5. UNCHANGED <<numbers, outgoing, hello, rreqs, rerrs, packets>>
  BY DEF recv_rrep
<1>6. T[m.dest] \in Entry \cup {NoEntry}
  BY <1>2, EntryOrNone
<1>7. active_routes[n] + new_active(table[n][m.dest]) \in Nat
  <2>1. new_active(T[m.dest]) \in Nat
    BY <1>6, NewActiveType
  <2> QED
    BY <1>3, <2>1 DEF TypeOK
<1>8. cancel_found(n, m) => sender' \in [Node -> Thread]
  BY <1>2, WriteTypes DEF cancel_found, TypeOK
<1>9. CASE recv_hello(n, m)
  <2>1. PICK U \in Table : U = hello_route(T, m)
    BY <1>2, HelloRouteEffect DEF HelloTaken
  <2>2. table' \in [Node -> Table]
    BY <1>3, <1>9, <2>1, WriteTypes DEF recv_hello, TypeOK
  <2>3. /\ held' \in [Node -> SUBSET Node]
        /\ hung' \in [Node -> SUBSET {"in", "out", "fwd"}]
    BY <1>9, WriteTypes DEF recv_hello, TypeOK, locks
  <2> QED
    BY <1>5, <1>9, <2>2, <2>3 DEF recv_hello, TypeOK, numbers
<1>10. CASE rrep_consumed(n, m)
  <2>1. /\ table' \in [Node -> Table]
        /\ kernel' \in [Node -> SUBSET (Node \X Node)]
        /\ active_routes' \in [Node -> Nat]
        /\ sender' \in [Node -> Thread]
    BY <1>3, <1>4, <1>7, <1>8, <1>10, WriteTypes DEF rrep_consumed, rrep_installs
  <2> QED
    BY <1>5, <1>10, <2>1 DEF rrep_consumed, TypeOK, numbers, locks
<1>11. CASE rrep_forwarded(n, m)
  <2>1. PICK s \in Node : s = m.src /\ R[s] # NoEntry
    BY <1>2, <1>3, <1>11 DEF rrep_forwarded, rrep_installs, Addr
  <2>2. PICK d \in Node : d = m.dest /\ R[d] # NoEntry
    BY <1>2, <1>3, NoEntryAssumption
  <2>3. PICK hop, back \in Addr : hop = R[d].next_hop /\ back = R[s].next_hop
    BY <2>1, <2>2, EntryOrNone DEF Entry
  <2>4. PICK A \in Table : A = add_precursor(R, s, hop) /\ A[d] # NoEntry /\ A[s] # NoEntry
    <3>1. RouteKept(R, add_precursor(R, s, hop), s)
      BY <2>1, AddPrecursorEffect
    <3>2. PICK A \in Table : A = add_precursor(R, s, hop) /\ A[s] \in Entry
                             /\ \A x \in Node \ {s} : A[x] = R[x]
      BY <3>1 DEF RouteKept
    <3> QED
      BY <2>2, <3>2, NoEntryAssumption
  <2>5. PICK B \in Table : B = add_precursor(A, d, back) /\ B[s] # NoEntry
    <3>1. RouteKept(A, add_precursor(A, d, back), d)
      BY <2>4, AddPrecursorEffect
    <3>2. PICK B \in Table : B = add_precursor(A, d, back) /\ B[d] \in Entry
                             /\ \A x \in Node \ {d} : B[x] = A[x]
      BY <3>1 DEF RouteKept
    <3> QED
      BY <2>4, <3>2, NoEntryAssumption
  <2>6. PICK C \in Table : C = activate(B, s)
    BY <2>5, ActivateEffect DEF RouteKept
  <2>7. PICK k \in Nat : k = active_routes[n] + new_active(table[n][m.dest])
                                              + new_active(R[s])
    <3>1. new_active(R[s]) \in Nat
      BY EntryOrNone, NewActiveType
    <3> QED
      BY <1>7, <3>1
  <2>8. /\ set_table(n, C) /\ set_active(n, k)
        /\ AddUnicastRoutingEntry(n, forward_routes(m))
        /\ cancel_found(n, m)
    BY <1>3, <1>11, <2>1, <2>2, <2>3, <2>4, <2>5, <2>6, <2>7
       DEF rrep_forwarded, rrep_installs
  <2>9. /\ table' \in [Node -> Table]
        /\ kernel' \in [Node -> SUBSET (Node \X Node)]
        /\ active_routes' \in [Node -> Nat]
        /\ sender' \in [Node -> Thread]
    BY <1>4, <1>8, <2>8, WriteTypes
  <2>10. rreps' \subseteq Rrep
    <3>1. PICK hops \in Nat, to \in Addr \cup {Broadcast} :
             hops = m.hop_count + 1 /\ to = R[s].next_hop
      BY <1>2, <2>3
    <3>2. [[m EXCEPT !.from = n] EXCEPT !.to = to] \in Rrep
      <4>1. [m EXCEPT !.from = n] \in Rrep
        BY <1>1 DEF Rrep
      <4> QED
        BY <4>1 DEF Rrep
    <3>3. [[[m EXCEPT !.from = n] EXCEPT !.to = to] EXCEPT !.hop_count = hops] \in Rrep
      BY <3>2 DEF Rrep
    <3>4. rreps' = rreps \cup {[m EXCEPT !.from = n, !.to = to, !.hop_count = hops]}
      BY <1>1, <1>3, <1>11, <2>1, <3>1 DEF rrep_forwarded, Rrep
    <3> QED
      BY <3>3, <3>4 DEF TypeOK
  <2> QED
    BY <1>5, <1>11, <2>9, <2>10 DEF rrep_forwarded, TypeOK, numbers, locks
<1>12. CASE rrep_blocked(n, m)
  <2>2. \/ UNCHANGED <<table, kernel, active_routes, sender>>
        \/ /\ set_table(n, F) /\ cancel_found(n, m)
           /\ UNCHANGED <<kernel, active_routes>>
        \/ /\ set_table(n, previous_hop(table[n], m.from))
           /\ AddUnicastRoutingEntry(n, {<<m.from, m.from>>})
           /\ UNCHANGED <<active_routes, sender>>
        \/ /\ set_table(n, R) /\ AddUnicastRoutingEntry(n, forward_routes(m))
           /\ set_active(n, active_routes[n] + new_active(table[n][m.dest]))
           /\ UNCHANGED sender
    BY <1>3, <1>12 DEF rrep_blocked
  <2>3. previous_hop(table[n], m.from) \in Table
    BY <1>2, <1>3, PreviousHopEffect DEF HopTaken
  <2>4. /\ table' \in [Node -> Table]
        /\ kernel' \in [Node -> SUBSET (Node \X Node)]
        /\ active_routes' \in [Node -> Nat]
        /\ sender' \in [Node -> Thread]
    BY <1>3, <1>4, <1>7, <1>8, <2>2, <2>3, WriteTypes DEF TypeOK
  <2>5. /\ held' \in [Node -> SUBSET Node]
        /\ hung' \in [Node -> SUBSET {"in", "out", "fwd"}]
    BY <1>2, <1>12, WriteTypes DEF rrep_blocked
  <2> QED
    BY <1>5, <1>12, <2>4, <2>5 DEF rrep_blocked, TypeOK, numbers
<1> QED
  BY <1>9, <1>10, <1>11, <1>12 DEF recv_rrep

LEMMA RecvRerrType ==
    ASSUME TypeOK, NEW n \in Node, NEW m \in rerrs, recv_rerr(n, m)
    PROVE  TypeOK'
<1>1. m \in Rerr
  BY DEF TypeOK
<1>2. PICK d \in Node : d = m.dest /\ m.seq \in Nat
  BY <1>1 DEF Rerr
<1>3. PICK T \in Table : T = table[n] /\ T[d] # NoEntry
  BY <1>2 DEF TypeOK, recv_rerr, Valid, get_routing_entry
<1>4. PICK e \in Entry : e = T[d]
  BY <1>3, EntryOrNone
<1>5. PICK U \in Table : U = [T EXCEPT ![d].dest_seq = m.seq] /\ U[d] # NoEntry
  <2>1. [e EXCEPT !.dest_seq = m.seq] \in Entry
    BY <1>2 DEF Entry
  <2>2. [T EXCEPT ![d].dest_seq = m.seq] = [T EXCEPT ![d] = [e EXCEPT !.dest_seq = m.seq]]
    BY <1>4 DEF Table
  <2>3. PICK f \in Entry : f = [e EXCEPT !.dest_seq = m.seq]
    BY <2>1
  <2>4. [T EXCEPT ![d] = f] \in Table /\ [T EXCEPT ![d] = f][d] = f
    BY DEF Table
  <2> QED
    BY <2>2, <2>3, <2>4, NoEntryAssumption
<1>6. PICK V \in Table : V = invalidate(U, d)
  BY <1>5, InvalidateEffect
<1>7. e.precursor_list \in Precursors
  BY DEF Entry
<1>8. forwarded_rerr(n, m, e.precursor_list) \in Rerr
  <2>1. PICK to \in Addr \cup {Broadcast} :
           to = IF e.precursor_list.size = 1 /\ e.precursor_list.first # NoAddr
                THEN e.precursor_list.first ELSE Broadcast
    BY <1>7 DEF Precursors
  <2>2. [m EXCEPT !.from = n] \in Rerr
    BY <1>1 DEF Rerr
  <2>3. [[m EXCEPT !.from = n] EXCEPT !.to = to] \in Rerr
    BY <2>2 DEF Rerr
  <2> QED
    BY <2>1, <2>3 DEF forwarded_rerr
<1>9. /\ table' \in [Node -> Table]
      /\ kernel' \in [Node -> SUBSET (Node \X Node)]
      /\ active_routes' \in [Node -> Nat]
      /\ rerrs' \subseteq Rerr
      /\ held' \in [Node -> SUBSET Node]
      /\ hung' \in [Node -> SUBSET {"in", "out", "fwd"}]
  <2>1. CASE m.dest \in held[n]
    BY <2>1, WriteTypes DEF recv_rerr, TypeOK
  <2>2. CASE m.dest \notin held[n]
    <3>1. lost_active(n, e) \in Nat
      BY LostActiveType
    <3>2. /\ set_table(n, V) /\ DeleteEntry(n, d) /\ set_active(n, lost_active(n, e))
          /\ rerrs' \subseteq rerrs \cup {forwarded_rerr(n, m, e.precursor_list)}
          /\ UNCHANGED locks
      BY <2>2, <1>2, <1>3, <1>4, <1>5, <1>6 DEF recv_rerr
    <3> QED
      BY <1>8, <3>1, <3>2, WriteTypes DEF TypeOK, locks
  <2> QED
    BY <2>1, <2>2
<1> QED
  BY <1>9 DEF recv_rerr, TypeOK, numbers

\* Data packets are forwarded to nodes.
LEMMA RoutePacketType ==
    ASSUME TypeOK, NEW n \in Node, NEW s \in Node, NEW d \in Node, route_packet(n, s, d)
    PROVE  packets' \subseteq Packet
<1>1. CASE packets' = packets
  BY <1>1 DEF TypeOK
<1>2. CASE packets' # packets
  <2>1. PICK g \in Node : packets' = packets \cup {[src |-> s, dest |-> d, at |-> g]}
    BY <1>2 DEF route_packet, Gateways
  <2> QED
    BY <2>1 DEF TypeOK, Packet
<1> QED
  BY <1>1, <1>2

\* The table send_rreq starts from.
LEMMA BeforeSearch ==
    ASSUME TypeOK, NEW n \in Node, NEW d \in Node
    PROVE  /\ before_search(n, d) \in Table
           /\ established(n, d) => /\ table[n][d] \in Entry
                                   /\ lost_active(n, table[n][d]) \in Nat
<1>1. PICK T \in Table : T = table[n]
  BY DEF TypeOK
<1>2. CASE established(n, d)
  <2>1. T[d] # NoEntry
    BY <1>1, <1>2 DEF established, Valid, get_routing_entry
  <2>2. T[d] \in Entry
    BY <2>1, EntryOrNone
  <2>3. PICK U \in Table : U = invalidate(T, d)
    BY <2>1, InvalidateEffect
  <2> QED
    BY <1>1, <1>2, <2>2, <2>3, LostActiveType DEF before_search
<1>3. CASE ~established(n, d)
  BY <1>1, <1>3 DEF before_search
<1> QED
  BY <1>2, <1>3

LEMMA OutgoingType ==
    ASSUME TypeOK, LockedStays, NEW n \in Node, NEW d \in Node, outgoing_message(n, d)
    PROVE  TypeOK'
<1>1. PICK T \in Table : T = table[n]
  BY DEF TypeOK
<1>2. PICK B \in Table : B = before_search(n, d)
  BY BeforeSearch
<1>3. UNCHANGED <<numbers, hello, control>>
  BY DEF outgoing_message
<1>4. break_route(n, d) => /\ kernel' \in [Node -> SUBSET (Node \X Node)]
                           /\ active_routes' \in [Node -> Nat]
  BY BeforeSearch, WriteTypes DEF break_route, TypeOK
<1>5. CASE out_routed(n, d)
  <2>1. T[d] # NoEntry
    BY <1>1, <1>5 DEF out_routed, usable, established, Valid, get_routing_entry
  <2>2. PICK U \in Table : U = refresh(T, d)
    BY RefreshType DEF Addr
  <2>3. table' \in [Node -> Table]
    BY <1>1, <1>5, <2>2, WriteTypes DEF out_routed, TypeOK
  <2>4. packets' \subseteq Packet
    BY <1>5, RoutePacketType DEF out_routed
  <2> QED
    BY <1>3, <1>5, <2>3, <2>4 DEF out_routed, TypeOK, numbers, control, locks
<1>6. CASE out_dropped(n, d)
  <2>1. table' \in [Node -> Table]
    BY <1>2, <1>6, WriteTypes DEF out_dropped
  <2> QED
    BY <1>3, <1>4, <1>6, <2>1 DEF out_dropped, TypeOK, numbers, control, locks
<1>7. CASE out_searches(n, d)
  <2>1. PICK U \in Table : U = start_search(B, d)
    BY StartSearchEffect
  <2>2. table' \in [Node -> Table]
    BY <1>2, <1>7, <2>1, WriteTypes DEF out_searches
  <2>3. outgoing' \in [Node -> Call]
    BY <1>7 DEF out_searches, TypeOK, Call, Addr
  <2>4. sender' \in [Node -> Thread]
    <3>1. [NoThread EXCEPT !.dest = d, !.stage = "created"] \in Thread
      BY DEF NoThread, Thread, Addr
    <3> QED
      BY <1>7, <3>1 DEF out_searches, TypeOK
  <2> QED
    BY <1>3, <1>4, <1>7, <2>2, <2>3, <2>4
       DEF out_searches, TypeOK, numbers, control, locks
<1>8. CASE out_blocked(n, d)
  <2>1. table' \in [Node -> Table]
    <3>1. CASE established(n, d)
      BY <1>8, <3>1 DEF out_blocked, TypeOK
    <3>2. CASE ~established(n, d)
      <4>1. table' = [table EXCEPT ![n][d].expiration_thread = 0]
        BY <1>8, <3>2 DEF out_blocked
      <4>2. PICK e \in Entry : e = T[d]
        BY <1>1, <1>8, EntryOrNone DEF out_blocked, LockedStays
      <4>3. PICK f \in Entry : f = [e EXCEPT !.expiration_thread = 0]
        BY DEF Entry
      <4>4. PICK U \in Table : U = [T EXCEPT ![d] = f]
        BY UpdateEffect
      <4>5. table' = [table EXCEPT ![n] = U]
        BY <1>1, <4>1, <4>2, <4>3, <4>4 DEF TypeOK, Table
      <4> QED
        BY <4>5 DEF TypeOK
    <3> QED
      BY <3>1, <3>2
  <2>2. /\ held' \in [Node -> SUBSET Node]
        /\ hung' \in [Node -> SUBSET {"in", "out", "fwd"}]
    BY <1>8, WriteTypes DEF out_blocked
  <2> QED
    BY <1>3, <1>8, <2>1, <2>2 DEF out_blocked, TypeOK, numbers, control
<1> QED
  BY <1>5, <1>6, <1>7, <1>8 DEF outgoing_message

\* A send_rreq_thread searches for another node, and its rings have a radius.
SenderAimed ==
    \A n \in Node :
        sender[n].stage # "none" =>
            /\ sender[n].dest \in Node \ {n}
            /\ sender[n].stage = "sending" => sender[n].ttl >= 1

\* The entry that the callback polls, and that a thread searches for, exists.
LEMMA PolledEntry ==
    ASSUME TypeOK, SearchHasThread, SenderAimed, NEW n \in Node
    PROVE  /\ outgoing[n].dest # NoAddr /\ ~outgoing[n].freed
                 => /\ outgoing[n].dest \in Node
                    /\ table[n][outgoing[n].dest] \in Entry
           /\ sender[n].stage # "none"
                 => /\ sender[n].dest \in Node
                    /\ table[n][sender[n].dest] \in Entry
                    /\ outgoing[n] = [dest |-> sender[n].dest, freed |-> FALSE]
<1>1. /\ outgoing[n] \in Call /\ sender[n] \in Thread /\ table[n] \in Table
  BY DEF TypeOK
<1>2. /\ outgoing[n].dest \in Addr /\ outgoing[n].freed \in BOOLEAN
      /\ outgoing[n] = [dest |-> outgoing[n].dest, freed |-> outgoing[n].freed]
      /\ sender[n].dest \in Addr
  BY <1>1 DEF Call, Thread
<1>3. ASSUME outgoing[n].dest # NoAddr, ~outgoing[n].freed
      PROVE  outgoing[n].dest \in Node /\ table[n][outgoing[n].dest] \in Entry
  <2>1. PICK d \in Node : d = outgoing[n].dest
    BY <1>2, <1>3 DEF Addr
  <2>2. waits_for(n, d)
    BY <1>2, <1>3, <2>1 DEF waits_for
  <2>3. table[n][d] # NoEntry
    BY <2>2 DEF SearchHasThread
  <2> QED
    BY <1>1, <2>1, <2>3, EntryOrNone
<1>4. ASSUME sender[n].stage # "none"
      PROVE  /\ sender[n].dest \in Node
             /\ table[n][sender[n].dest] \in Entry
             /\ outgoing[n] = [dest |-> sender[n].dest, freed |-> FALSE]
  <2>1. outgoing[n] = [dest |-> sender[n].dest, freed |-> FALSE]
    BY <1>4 DEF SearchHasThread, waits_for
  <2>2. PICK d \in Node : d = sender[n].dest
    BY <1>4 DEF SenderAimed
  <2>3. table[n][d] # NoEntry
    BY <2>1, <2>2 DEF SearchHasThread, waits_for
  <2> QED
    BY <1>1, <2>1, <2>2, <2>3, EntryOrNone
<1> QED
  BY <1>3, <1>4

LEMMA ReturnsType ==
    ASSUME TypeOK, SearchHasThread, SenderAimed, NEW n \in Node,
           send_rreq_returns(n) \/ freed_wait_returns(n)
    PROVE  TypeOK'
<1>1. outgoing' \in [Node -> Call]
  <2>1. NoCall \in Call
    BY DEF NoCall, Call, Addr
  <2> QED
    BY <2>1 DEF send_rreq_returns, freed_wait_returns, TypeOK
<1>2. CASE send_rreq_returns(n)
  <2>1. PICK d \in Node, T \in Table :
           d = outgoing[n].dest /\ T = table[n] /\ T[d] \in Entry
    BY <1>2, PolledEntry DEF send_rreq_returns, TypeOK
  <2>2. PICK U \in Table : U = refresh(T, d)
    BY RefreshType DEF Addr
  <2>3. PICK V \in Table : V = set_search(T, d, "SEARCH_NONE")
    BY <2>1, SetSearchEffect, NoEntryAssumption DEF Outcomes, RouteKept
  <2>4. table' \in [Node -> Table] /\ packets' \subseteq Packet
    <3>1. \/ set_table(n, U) /\ UNCHANGED packets
          \/ set_table(n, V) /\ route_packet(n, n, d)
      BY <1>2, <2>1, <2>2, <2>3 DEF send_rreq_returns
    <3> QED
      BY <3>1, WriteTypes, RoutePacketType DEF TypeOK
  <2> QED
    BY <1>1, <1>2, <2>4 DEF send_rreq_returns, TypeOK, numbers, control, locks
<1>3. CASE freed_wait_returns(n)
  <2>1. packets' \subseteq Packet
    <3>1. CASE outgoing[n].dest \in Node
      BY <1>3, <3>1, RoutePacketType DEF freed_wait_returns
    <3>2. CASE outgoing[n].dest \notin Node
      <4>1. Gateways(n, outgoing[n].dest) = {}
        BY <3>2 DEF Gateways, TypeOK
      <4> QED
        BY <1>3, <4>1 DEF freed_wait_returns, route_packet, TypeOK
    <3> QED
      BY <3>1, <3>2
  <2> QED
    BY <1>1, <1>3, <2>1 DEF freed_wait_returns, TypeOK, numbers, control, locks
<1> QED
  BY <1>2, <1>3

\* A RREQ that send_rreq_thread broadcasts has the type of a RREQ.
LEMMA BroadcastRreqType ==
    ASSUME TypeOK, SenderAimed, NEW n \in Node, sender[n].stage # "none",
           NEW ttl \in Nat, broadcast_rreq(n, ttl)
    PROVE  rreq_id' \in [Node -> Nat] /\ rreqs' \subseteq Rreq
<1>1. sender[n] \in Thread
  BY DEF TypeOK
<1>2. /\ sender[n].dest \in Node /\ sender[n].src_seq \in Nat
      /\ sender[n].dest_seq \in Nat /\ sender[n].flags \in SUBSET Flags
  BY <1>1 DEF Thread, SenderAimed
<1>3. rreq_id[n] + 1 \in Nat
  BY DEF TypeOK
<1>4. [from |-> n, src |-> n, dest |-> sender[n].dest,
       src_seq |-> sender[n].src_seq, dest_seq |-> sender[n].dest_seq,
       flags |-> sender[n].flags, rreq_id |-> rreq_id[n] + 1,
       ttl |-> ttl, hop_count |-> 0] \in Rreq
  BY <1>2, <1>3 DEF Rreq
<1> QED
  BY <1>3, <1>4 DEF broadcast_rreq, TypeOK

LEMMA SenderType ==
    ASSUME TypeOK, SearchHasThread, SenderAimed, NEW n \in Node, send_rreq_thread(n)
    PROVE  TypeOK'
<1>1. PICK t \in Thread : t = sender[n] /\ t.stage # "none"
  BY DEF TypeOK, send_rreq_thread, rreq_thread_numbers, rreq_thread_reads,
         send_rreq_ring, send_rreq_full, send_rreq_fails, thread_is
<1>2. PICK d \in Node, T \in Table : d = t.dest /\ T = table[n] /\ T[d] \in Entry
  BY <1>1, PolledEntry DEF TypeOK
<1>3. CASE rreq_thread_numbers(n)
  <2>1. sequence_num[n] + 1 \in Nat
    BY DEF TypeOK
  <2>2. sender' \in [Node -> Thread]
    <3>1. [t EXCEPT !.stage = "numbered"] \in Thread
      BY DEF Thread
    <3>2. PICK k \in Nat : k = sequence_num[n] + 1
      BY <2>1
    <3>3. PICK u \in Thread : u = [t EXCEPT !.stage = "numbered", !.src_seq = k]
      BY <3>1 DEF Thread
    <3>4. sender' = [sender EXCEPT ![n] = u]
      BY <1>1, <1>3, <3>2, <3>3 DEF rreq_thread_numbers, TypeOK
    <3> QED
      BY <3>4 DEF TypeOK
  <2> QED
    BY <1>3, <2>1, <2>2 DEF rreq_thread_numbers, TypeOK, control, locks
<1>4. CASE rreq_thread_reads(n)
  <2>1. PICK e \in Entry : e = T[d]
    BY <1>2
  <2>2. e.dest_seq \in Nat /\ e.hop_count \in Nat
    BY DEF Entry
  <2>3. PICK k \in Nat : k = IF e.seq_valid = "SEQ_VALID" THEN e.dest_seq ELSE 0
    BY <2>2
  <2>4. PICK fl \in SUBSET Flags :
           fl = IF e.seq_valid = "SEQ_VALID" THEN {"GRAT"} ELSE {"GRAT", "UNKNOWN"}
    BY DEF Flags
  <2>5. PICK ttl \in Nat : ttl = first_ttl(e.hop_count)
    BY <2>2, ParameterAssumption DEF first_ttl
  <2>6. sender' \in [Node -> Thread]
    <3>1. [t EXCEPT !.stage = "sending"] \in Thread
      BY DEF Thread
    <3>2. [[t EXCEPT !.stage = "sending"] EXCEPT !.dest_seq = k] \in Thread
      BY <3>1 DEF Thread
    <3>3. [[[t EXCEPT !.stage = "sending"] EXCEPT !.dest_seq = k] EXCEPT !.flags = fl]
             \in Thread
      BY <3>2 DEF Thread
    <3>4. [[[[t EXCEPT !.stage = "sending"] EXCEPT !.dest_seq = k] EXCEPT !.flags = fl]
             EXCEPT !.ttl = ttl] \in Thread
      BY <3>3 DEF Thread
    <3>5. PICK u \in Thread : u = [t EXCEPT !.stage = "sending", !.dest_seq = k,
                                            !.flags = fl, !.ttl = ttl]
      BY <3>4
    <3>6. sender' = [sender EXCEPT ![n] = u]
      BY <1>1, <1>2, <1>4, <2>1, <2>3, <2>4, <2>5, <3>5 DEF rreq_thread_reads, TypeOK
    <3> QED
      BY <3>6 DEF TypeOK
  <2> QED
    BY <1>4, <2>6 DEF rreq_thread_reads, TypeOK, numbers, control, locks
<1>5. CASE send_rreq_ring(n)
  <2>1. t.ttl \in Nat
    BY DEF Thread
  <2>2. rreq_id' \in [Node -> Nat] /\ rreqs' \subseteq Rreq
    BY <1>1, <1>5, <2>1, BroadcastRreqType DEF send_rreq_ring
  <2>3. sender' \in [Node -> Thread]
    <3>1. PICK ttl \in Nat : ttl = t.ttl + TTL_INCREMENT
      BY <2>1, ParameterAssumption
    <3>2. PICK u \in Thread : u = [t EXCEPT !.ttl = ttl]
      BY DEF Thread
    <3>3. sender' = [sender EXCEPT ![n] = u]
      BY <1>1, <1>5, <3>1, <3>2 DEF send_rreq_ring, TypeOK, Thread
    <3> QED
      BY <3>3 DEF TypeOK
  <2> QED
    BY <1>5, <2>2, <2>3 DEF send_rreq_ring, broadcast_rreq, TypeOK, locks
<1>6. CASE send_rreq_full(n)
  <2>1. rreq_id' \in [Node -> Nat] /\ rreqs' \subseteq Rreq
    BY <1>1, <1>6, BroadcastRreqType, ParameterAssumption DEF send_rreq_full
  <2>2. sender' \in [Node -> Thread]
    <3>1. PICK k \in Nat : k = t.tries + 1
      BY DEF Thread
    <3>2. PICK u \in Thread : u = [t EXCEPT !.tries = k]
      BY DEF Thread
    <3>3. sender' = [sender EXCEPT ![n] = u]
      BY <1>1, <1>6, <3>1, <3>2 DEF send_rreq_full, TypeOK, Thread
    <3> QED
      BY <3>3 DEF TypeOK
  <2> QED
    BY <1>6, <2>1, <2>2 DEF send_rreq_full, broadcast_rreq, TypeOK, locks
<1>7. CASE send_rreq_fails(n)
  <2>1. PICK U \in Table : U = set_search(T, d, "SEARCH_FAILED")
    BY <1>2, SetSearchEffect, NoEntryAssumption DEF Outcomes, RouteKept
  <2>2. PICK V \in Table : V = refresh(U, d)
    BY RefreshType DEF Addr
  <2>3. set_table(n, V)
    BY <1>1, <1>2, <1>7, <2>1, <2>2 DEF send_rreq_fails, after_failure
  <2>4. NoThread \in Thread
    BY DEF NoThread, Thread, Addr
  <2> QED
    BY <1>7, <2>3, <2>4, WriteTypes DEF send_rreq_fails, TypeOK, numbers, control, locks
<1> QED
  BY <1>3, <1>4, <1>5, <1>6, <1>7 DEF send_rreq_thread

LEMMA ForwardedType ==
    ASSUME TypeOK, NEW n \in Node, NEW p \in packets, forwarded_messages(n, p)
    PROVE  TypeOK'
<1>1. PICK s, d \in Node : s = p.src /\ d = p.dest
  BY DEF TypeOK, Packet
<1>2. PICK T \in Table : T = table[n]
  BY DEF TypeOK
<1>3. UNCHANGED <<kernel, numbers, active_routes, outgoing, sender, hello, rreqs, rreps>>
  BY DEF forwarded_messages
<1>4. \A k \in Nat : rerr_for(n, p, k) \in Rerr
  BY <1>1 DEF rerr_for, Rerr
<1>5. T[d] # NoEntry => next_hop_of(n, d) \in Addr
  BY <1>2, EntryOrNone DEF next_hop_of, Entry
<1>6. CASE fwd_accepted(n, p)
  <2>1. PICK U \in Table : U = refresh(T, d)
    BY RefreshType DEF Addr
  <2>2. PICK V \in Table : V = refresh(U, s)
    BY RefreshType DEF Addr
  <2>3. set_table(n, V) /\ route_packet(n, s, d)
    BY <1>1, <1>2, <1>6, <2>1, <2>2 DEF fwd_accepted
  <2> QED
    BY <1>3, <1>6, <2>3, WriteTypes, RoutePacketType
       DEF fwd_accepted, TypeOK, numbers, locks
<1>7. CASE fwd_unknown(n, p)
  BY <1>3, <1>4, <1>7 DEF fwd_unknown, TypeOK, numbers, locks
<1>8. CASE fwd_unreachable(n, p)
  <2>1. rerrs' \subseteq Rerr
    <3>1. IpNumber[d] \in Nat
      BY NetworkAssumption
    <3> QED
      BY <1>1, <1>4, <1>8, <3>1 DEF fwd_unreachable, TypeOK
  <2>2. held' \in [Node -> SUBSET Node]
    <3> DEFINE hop == next_hop_of(n, p.dest)
    <3>1. get_routing_entry(table[n], hop) # NoEntry => hop \in Node
      BY DEF get_routing_entry
    <3>2. \/ held' = held
          \/ hop \in Node /\ held' = [held EXCEPT ![n] = @ \cup {hop}]
      BY <1>8, <3>1 DEF fwd_unreachable
    <3> QED
      BY <3>2 DEF TypeOK
  <2> QED
    BY <1>3, <1>8, <2>1, <2>2 DEF fwd_unreachable, TypeOK, numbers
<1>9. CASE fwd_broken(n, p)
  <2>1. next_hop_of(n, p.dest) \in Node
    BY <1>9 DEF fwd_broken, get_routing_entry
  <2>2. /\ held' \in [Node -> SUBSET Node]
        /\ hung' \in [Node -> SUBSET {"in", "out", "fwd"}]
    BY <1>1, <1>9, <2>1, WriteTypes DEF fwd_broken
  <2> QED
    BY <1>3, <1>9, <2>2 DEF fwd_broken, TypeOK, numbers
<1>10. CASE fwd_blocked(n, p)
  <2>1. /\ held' \in [Node -> SUBSET Node]
        /\ hung' \in [Node -> SUBSET {"in", "out", "fwd"}]
    BY <1>1, <1>10, WriteTypes DEF fwd_blocked
  <2> QED
    BY <1>3, <1>10, <2>1 DEF fwd_blocked, TypeOK, numbers
<1> QED
  BY <1>6, <1>7, <1>8, <1>9, <1>10 DEF forwarded_messages

LEMMA IncomingType ==
    ASSUME TypeOK, NEW n \in Node, NEW p \in packets, incoming_data_message(n, p)
    PROVE  TypeOK'
<1>1. PICK s \in Node, T \in Table : s = p.src /\ T = table[n]
  BY DEF TypeOK, Packet
<1>2. PICK U \in Table : U = refresh(T, s)
  BY RefreshType DEF Addr
<1>3. \/ hangs(n, "in", {}) /\ UNCHANGED table
      \/ set_table(n, U) /\ UNCHANGED locks
  BY <1>1, <1>2 DEF incoming_data_message
<1>4. /\ table' \in [Node -> Table]
      /\ held' \in [Node -> SUBSET Node]
      /\ hung' \in [Node -> SUBSET {"in", "out", "fwd"}]
  BY <1>3, WriteTypes DEF TypeOK, locks
<1> QED
  BY <1>4 DEF incoming_data_message, TypeOK, numbers, control

LEMMA TimerThreadsType ==
    ASSUME TypeOK, NEW n \in Node, NEW d \in Node,
           route_expires(n, d) \/ entry_deleted(n, d) \/ rreq_id_forgotten(n, d)
    PROVE  TypeOK'
<1>1. PICK T \in Table : T = table[n] /\ T[d] # NoEntry
  BY DEF TypeOK, route_expires, entry_deleted, rreq_id_forgotten, fires
<1>2. PICK e \in Entry : e = T[d]
  BY <1>1, EntryOrNone
<1>3. CASE route_expires(n, d)
  <2>1. PICK U \in Table : U = invalidate(T, d)
    BY <1>1, InvalidateEffect
  <2>2. PICK k \in Nat : k = IF e.seq_valid = "SEQ_VALID" THEN lost_active(n, e)
                             ELSE active_routes[n]
    BY LostActiveType DEF TypeOK
  <2>3. set_table(n, U) /\ DeleteEntry(n, d) /\ set_active(n, k)
    BY <1>1, <1>2, <1>3, <2>1, <2>2 DEF route_expires
  <2> QED
    BY <1>3, <2>3, WriteTypes DEF route_expires, TypeOK, numbers, control, locks
<1>4. CASE entry_deleted(n, d)
  <2>1. PICK U \in Table : U = [T EXCEPT ![d] = NoEntry]
    BY UpdateEffect
  <2>2. table' = [table EXCEPT ![n] = U]
    BY <1>1, <1>4, <2>1 DEF entry_deleted, TypeOK
  <2>3. table' \in [Node -> Table]
    BY <2>2 DEF TypeOK
  <2>4. outgoing' \in [Node -> Call]
    <3>1. PICK k \in Call : k = outgoing[n]
      BY DEF TypeOK
    <3>2. PICK b \in BOOLEAN : b = (k.freed \/ k.dest = d)
      OBVIOUS
    <3>3. PICK j \in Call : j = [k EXCEPT !.freed = b]
      BY DEF Call
    <3>4. outgoing' = [outgoing EXCEPT ![n] = j]
      BY <1>4, <3>1, <3>2, <3>3 DEF entry_deleted, TypeOK, Call
    <3> QED
      BY <3>4 DEF TypeOK
  <2> QED
    BY <1>4, <2>3, <2>4, WriteTypes DEF entry_deleted, TypeOK, numbers, control, locks
<1>5. CASE rreq_id_forgotten(n, d)
  <2>1. PICK f \in Entry : f = [e EXCEPT !.rreq_id = 0, !.rreq_id_thread = 0]
    <3>1. [e EXCEPT !.rreq_id = 0] \in Entry
      BY DEF Entry
    <3> QED
      BY <3>1 DEF Entry
  <2>2. PICK U \in Table : U = [T EXCEPT ![d] = f]
    BY UpdateEffect
  <2>3. table' = [table EXCEPT ![n] = U]
    BY <1>1, <1>2, <1>5, <2>1, <2>2 DEF rreq_id_forgotten, set_table
  <2>4. table' \in [Node -> Table]
    BY <2>3 DEF TypeOK
  <2> QED
    BY <1>5, <2>4 DEF rreq_id_forgotten, TypeOK, numbers, control, locks
<1> QED
  BY <1>3, <1>4, <1>5

LEMMA HelloType ==
    ASSUME TypeOK, NEW n \in Node, hello_wakes(n) \/ hello_sends(n)
    PROVE  TypeOK'
<1>1. CASE hello_wakes(n)
  BY <1>1 DEF hello_wakes, TypeOK, numbers, control, locks
<1>2. CASE hello_sends(n)
  <2>1. [from |-> n, to |-> Broadcast, src |-> NoAddr, dest |-> n,
         dest_seq |-> sequence_num[n], hop_count |-> 0] \in Rrep
    BY DEF Rrep, Addr, TypeOK
  <2> QED
    BY <1>2, <2>1 DEF hello_sends, TypeOK, numbers, locks
<1> QED
  BY <1>1, <1>2

\* No step breaks a type. A callback that polls an entry or waits for its mutex
\* needs that entry: this is why the other conjuncts are there.
LEMMA TypeStep ==
    ASSUME TypeOK, LockedStays, SearchHasThread, SenderAimed, [Next]_vars
    PROVE  TypeOK'
<1>1. CASE UNCHANGED vars
  BY <1>1 DEF vars, numbers, locks, control, TypeOK
<1>2. CASE Next
  BY <1>2, RecvRreqType, RecvRrepType, RecvRerrType, ForwardedType, IncomingType,
     ReturnsType, SenderType, HelloType, OutgoingType, TimerThreadsType DEF Next
<1> QED
  BY <1>1, <1>2
=============================================================================
