---------------------------- MODULE MessageProofs ----------------------------
(***************************************************************************)
(* What every message in the network satisfies, however it is repeated,    *)
(* delayed and handed on: floods stay within their ring, no RREQ or RREP   *)
(* has its originator as its destination, and no sequence number is        *)
(* invented.                                                               *)
(***************************************************************************)
EXTENDS RouteProofs

\* FloodBudget and EndpointsDiffer of one message.
Budgeted(m) ==
    /\ m.ttl >= 1
    /\ \/ m.hop_count + m.ttl <= NET_DIAMETER
       \/ m.hop_count + m.ttl <= TTL_THRESHOLD

Differs(m) == m.src # m.dest

MessageInv == SearchInv /\ FloodBudget /\ EndpointsDiffer

LEMMA PerMessage ==
    /\ FloodBudget <=> \A m \in rreqs : Budgeted(m)
    /\ EndpointsDiffer <=> (\A m \in rreqs : Differs(m)) /\ (\A m \in rreps : Differs(m))
BY DEF FloodBudget, EndpointsDiffer, Budgeted, Differs

\* A step whose new messages are within the budget and have two ends.
LEMMA SentMessages ==
    ASSUME MessageInv,
           \A r \in rreqs' : r \in rreqs \/ (Budgeted(r) /\ Differs(r)),
           \A r \in rreps' : r \in rreps \/ Differs(r)
    PROVE  FloodBudget' /\ EndpointsDiffer'
<1>1. /\ \A m \in rreqs : Budgeted(m) /\ Differs(m)
      /\ \A m \in rreps : Differs(m)
  BY PerMessage DEF MessageInv
<1>2. /\ \A m \in rreqs' : Budgeted(m) /\ Differs(m)
      /\ \A m \in rreps' : Differs(m)
  BY <1>1
<1> QED
  BY <1>2 DEF FloodBudget, EndpointsDiffer, Budgeted, Differs

LEMMA SilentStep ==
    ASSUME MessageInv, UNCHANGED <<rreqs, rreps>>
    PROVE  FloodBudget' /\ EndpointsDiffer'
<1>1. /\ \A r \in rreqs' : r \in rreqs \/ (Budgeted(r) /\ Differs(r))
      /\ \A r \in rreps' : r \in rreps \/ Differs(r)
  OBVIOUS
<1> QED
  BY <1>1, SentMessages

\* The copy that a node floods uses up the ttl by as much as it adds hops.
LEMMA RebroadcastBudget ==
    ASSUME NEW n \in Node, NEW m \in Rreq, NEW T, m.ttl > 1, Budgeted(m), Differs(m)
    PROVE  Budgeted(rebroadcast(n, T, m)) /\ Differs(rebroadcast(n, T, m))
<1>1. PICK r : r = rebroadcast(n, T, m)
  OBVIOUS
<1>2. /\ r.ttl = m.ttl - 1 /\ r.hop_count = m.hop_count + 1
      /\ r.src = m.src /\ r.dest = m.dest
  BY <1>1 DEF rebroadcast, Rreq
<1>3. m.ttl \in Nat /\ m.hop_count \in Nat
  BY DEF Rreq
<1>4. r.ttl >= 1 /\ r.hop_count + r.ttl = m.hop_count + m.ttl
  BY <1>2, <1>3
<1> QED
  BY <1>1, <1>2, <1>4 DEF Budgeted, Differs

LEMMA RecvRreqMessages ==
    ASSUME MessageInv, NEW n \in Node, NEW m \in rreqs, recv_rreq(n, m)
    PROVE  FloodBudget' /\ EndpointsDiffer'
<1>1. m \in Rreq /\ Budgeted(m) /\ Differs(m)
  BY PerMessage DEF MessageInv, SearchInv, TypeOK
<1>2. PICK seen \in BOOLEAN :
          \/ rreq_ignored(n, m, seen) \/ rreq_at_destination(n, m, seen)
          \/ rreq_answered(n, m, seen) \/ rreq_flooded(n, m, seen)
          \/ rreq_blocked(n, m, seen)
  BY DEF recv_rreq
<1>3. CASE rreq_ignored(n, m, seen) \/ rreq_blocked(n, m, seen)
  BY <1>3, SilentStep DEF rreq_ignored, rreq_blocked
<1>4. CASE rreq_at_destination(n, m, seen)
  <2>1. PICK r : r = [from |-> n, to |-> m.from, src |-> m.src, dest |-> n,
                      dest_seq |-> reply_seq(n, m), hop_count |-> 0]
    OBVIOUS
  <2>2. rreqs' = rreqs /\ rreps' = rreps \cup {r} /\ n = m.dest
    BY <1>4, <2>1 DEF rreq_at_destination
  <2>3. Differs(r)
    BY <1>1, <2>1, <2>2 DEF Differs
  <2>4. /\ \A x \in rreqs' : x \in rreqs \/ (Budgeted(x) /\ Differs(x))
        /\ \A x \in rreps' : x \in rreps \/ Differs(x)
    BY <2>2, <2>3
  <2> QED
    BY <2>4, SentMessages
<1>5. CASE rreq_answered(n, m, seen)
  <2>1. PICK T, P : T = after_reverse(n, m) /\ P = intermediate_rreps(n, T, m)
    OBVIOUS
  <2>2. rreqs' = rreqs /\ rreps' = rreps \cup P
    BY <1>5, <2>1 DEF rreq_answered
  <2>3. \A r \in P : Differs(r)
    BY <1>1, <2>1 DEF intermediate_rreps, Differs
  <2>4. /\ \A x \in rreqs' : x \in rreqs \/ (Budgeted(x) /\ Differs(x))
        /\ \A x \in rreps' : x \in rreps \/ Differs(x)
    BY <2>2, <2>3
  <2> QED
    BY <2>4, SentMessages
<1>6. CASE rreq_flooded(n, m, seen)
  <2>1. PICK T, r : T = after_reverse(n, m) /\ r = rebroadcast(n, T, m)
    OBVIOUS
  <2>2. CASE m.ttl <= 1
    BY <1>6, <2>2, SilentStep DEF rreq_flooded
  <2>3. CASE ~(m.ttl <= 1)
    <3>1. m.ttl > 1
      BY <1>1, <2>3 DEF Rreq
    <3>2. Budgeted(r) /\ Differs(r)
      BY <1>1, <2>1, <3>1, RebroadcastBudget
    <3>3. rreqs' = rreqs \cup {r} /\ rreps' = rreps
      BY <1>6, <2>1, <2>3 DEF rreq_flooded
    <3>4. /\ \A x \in rreqs' : x \in rreqs \/ (Budgeted(x) /\ Differs(x))
          /\ \A x \in rreps' : x \in rreps \/ Differs(x)
      BY <3>2, <3>3
    <3> QED
      BY <3>4, SentMessages
  <2> QED
    BY <2>2, <2>3
<1> QED
  BY <1>2, <1>3, <1>4, <1>5, <1>6

LEMMA RecvRrepMessages ==
    ASSUME MessageInv, NEW n \in Node, NEW m \in rreps, recv_rrep(n, m)
    PROVE  FloodBudget' /\ EndpointsDiffer'
<1>1. m \in Rrep /\ Differs(m)
  BY PerMessage DEF MessageInv, SearchInv, TypeOK
<1>2. rreqs' = rreqs
  BY DEF recv_rrep
<1>3. CASE recv_hello(n, m) \/ rrep_consumed(n, m) \/ rrep_blocked(n, m)
  BY <1>2, <1>3, SilentStep DEF recv_hello, rrep_consumed, rrep_blocked
<1>4. CASE rrep_forwarded(n, m)
  <2>1. PICK to, r : /\ to = after_forward(n, m)[m.src].next_hop
                     /\ r = [m EXCEPT !.from = n, !.to = to, !.hop_count = @ + 1]
    OBVIOUS
  <2>2. rreps' = rreps \cup {r}
    BY <1>4, <2>1 DEF rrep_forwarded
  <2>3. r.src = m.src /\ r.dest = m.dest
    BY <1>1, <2>1 DEF Rrep
  <2>4. Differs(r)
    BY <1>1, <2>3 DEF Differs
  <2>5. /\ \A x \in rreqs' : x \in rreqs \/ (Budgeted(x) /\ Differs(x))
        /\ \A x \in rreps' : x \in rreps \/ Differs(x)
    BY <1>2, <2>2, <2>4
  <2> QED
    BY <2>5, SentMessages
<1> QED
  BY <1>3, <1>4 DEF recv_rrep

\* The RREQ of a search that starts: for another node, within its ring.
LEMMA BroadcastRreqMessages ==
    ASSUME MessageInv, NEW n \in Node, sender[n].stage # "none",
           NEW ttl \in Nat, ttl >= 1, ttl <= NET_DIAMETER \/ ttl <= TTL_THRESHOLD,
           broadcast_rreq(n, ttl)
    PROVE  FloodBudget' /\ EndpointsDiffer'
<1>1. PICK r : r = [from |-> n, src |-> n, dest |-> sender[n].dest,
                    src_seq |-> sender[n].src_seq, dest_seq |-> sender[n].dest_seq,
                    flags |-> sender[n].flags, rreq_id |-> rreq_id[n] + 1,
                    ttl |-> ttl, hop_count |-> 0]
  OBVIOUS
<1>2. rreqs' = rreqs \cup {r} /\ rreps' = rreps
  BY <1>1 DEF broadcast_rreq
<1>3. sender[n].dest # n
  BY DEF MessageInv, SearchInv, SenderAimed
<1>4. r.src = n /\ r.dest = sender[n].dest /\ r.ttl = ttl /\ r.hop_count = 0
  BY <1>1
<1>5. Differs(r)
  BY <1>3, <1>4 DEF Differs
<1>6. Budgeted(r)
  BY <1>4, ParameterAssumption DEF Budgeted
<1>7. /\ \A x \in rreqs' : x \in rreqs \/ (Budgeted(x) /\ Differs(x))
      /\ \A x \in rreps' : x \in rreps \/ Differs(x)
  BY <1>2, <1>5, <1>6
<1> QED
  BY <1>7, SentMessages

LEMMA SenderMessages ==
    ASSUME MessageInv, NEW n \in Node, send_rreq_thread(n)
    PROVE  FloodBudget' /\ EndpointsDiffer'
<1>1. CASE rreq_thread_numbers(n) \/ rreq_thread_reads(n) \/ send_rreq_fails(n)
  BY <1>1, SilentStep DEF rreq_thread_numbers, rreq_thread_reads, send_rreq_fails, control
<1>2. CASE send_rreq_ring(n)
  <2>1. PICK t \in Thread : t = sender[n]
    BY DEF MessageInv, SearchInv, TypeOK
  <2>2. t.stage = "sending" /\ t.ttl <= TTL_THRESHOLD /\ broadcast_rreq(n, t.ttl)
    BY <1>2, <2>1 DEF send_rreq_ring, thread_is
  <2>3. t.ttl \in Nat /\ t.ttl >= 1
    BY <2>1, <2>2 DEF MessageInv, SearchInv, SenderAimed, Thread
  <2> QED
    BY <2>1, <2>2, <2>3, BroadcastRreqMessages
<1>3. CASE send_rreq_full(n)
  <2>1. sender[n].stage # "none" /\ broadcast_rreq(n, NET_DIAMETER)
    BY <1>3 DEF send_rreq_full, thread_is
  <2>2. NET_DIAMETER \in Nat /\ NET_DIAMETER >= 1 /\ NET_DIAMETER <= NET_DIAMETER
    BY ParameterAssumption
  <2> QED
    BY <2>1, <2>2, BroadcastRreqMessages
<1> QED
  BY <1>1, <1>2, <1>3 DEF send_rreq_thread

\* A HELLO is about its sender and for nobody.
LEMMA HelloMessages ==
    ASSUME MessageInv, NEW n \in Node, hello_wakes(n) \/ hello_sends(n)
    PROVE  FloodBudget' /\ EndpointsDiffer'
<1>1. CASE hello_wakes(n)
  BY <1>1, SilentStep DEF hello_wakes, control
<1>2. CASE hello_sends(n)
  <2>1. PICK r : r = [from |-> n, to |-> Broadcast, src |-> NoAddr, dest |-> n,
                      dest_seq |-> sequence_num[n], hop_count |-> 0]
    OBVIOUS
  <2>2. rreqs' = rreqs /\ rreps' = rreps \cup {r}
    BY <1>2, <2>1 DEF hello_sends
  <2>3. Differs(r)
    BY <2>1, AddressAssumption DEF Differs
  <2>4. /\ \A x \in rreqs' : x \in rreqs \/ (Budgeted(x) /\ Differs(x))
        /\ \A x \in rreps' : x \in rreps \/ Differs(x)
    BY <2>2, <2>3
  <2> QED
    BY <2>4, SentMessages
<1> QED
  BY <1>1, <1>2

\* Every other step sends neither a RREQ nor a RREP.
LEMMA OtherMessages ==
    ASSUME NEW n \in Node,
           \/ \E m \in rerrs : recv_rerr(n, m)
           \/ \E p \in packets : forwarded_messages(n, p)
           \/ \E p \in packets : incoming_data_message(n, p)
           \/ send_rreq_returns(n)
           \/ freed_wait_returns(n)
           \/ \E d \in Node : \/ outgoing_message(n, d) \/ route_expires(n, d)
                              \/ entry_deleted(n, d) \/ rreq_id_forgotten(n, d)
    PROVE  UNCHANGED <<rreqs, rreps>>
<1>1. \A m \in rerrs : recv_rerr(n, m) => UNCHANGED <<rreqs, rreps>>
  BY DEF recv_rerr
<1>2. \A p \in packets : forwarded_messages(n, p) => UNCHANGED <<rreqs, rreps>>
  BY DEF forwarded_messages
<1>3. \A p \in packets : incoming_data_message(n, p) => UNCHANGED <<rreqs, rreps>>
  BY DEF incoming_data_message, control
<1>4. send_rreq_returns(n) \/ freed_wait_returns(n) => UNCHANGED <<rreqs, rreps>>
  BY DEF send_rreq_returns, freed_wait_returns, control
<1>5. \A d \in Node : outgoing_message(n, d) => UNCHANGED <<rreqs, rreps>>
  BY DEF outgoing_message, control
<1>6. \A d \in Node : route_expires(n, d) \/ entry_deleted(n, d) \/ rreq_id_forgotten(n, d)
                         => UNCHANGED <<rreqs, rreps>>
  BY DEF route_expires, entry_deleted, rreq_id_forgotten, control
<1> QED
  BY <1>1, <1>2, <1>3, <1>4, <1>5, <1>6

LEMMA MessageInit ==
    ASSUME Init
    PROVE  MessageInv
<1>1. SearchInv
  BY SearchInit
<1>2. FloodBudget /\ EndpointsDiffer
  BY DEF Init, FloodBudget, EndpointsDiffer
<1> QED
  BY <1>1, <1>2 DEF MessageInv

LEMMA MessageNext ==
    ASSUME MessageInv, [Next]_vars
    PROVE  MessageInv'
<1>1. SearchInv'
  BY SearchNext DEF MessageInv
<1>2. CASE UNCHANGED vars
  BY <1>1, <1>2, SilentStep DEF vars, control, MessageInv
<1>3. CASE Next
  <2>1. FloodBudget' /\ EndpointsDiffer'
    BY <1>3, RecvRreqMessages, RecvRrepMessages, SenderMessages, HelloMessages,
       OtherMessages, SilentStep DEF Next
  <2> QED
    BY <1>1, <2>1 DEF MessageInv
<1> QED
  BY <1>2, <1>3

\* In every network a RREQ dies within the ring it was sent for. With the values
\* of AODV.h it travels at most 35 hops, so that the unsigned lifetime that
\* recv_rreq computes from its hop count does not wrap.
THEOREM FloodsEnd == Spec => []FloodBudget
<1>1. Init => MessageInv
  BY MessageInit
<1>2. MessageInv /\ [Next]_vars => MessageInv'
  BY MessageNext
<1>3. MessageInv => FloodBudget
  BY DEF MessageInv
<1> QED
  BY <1>1, <1>2, <1>3, PTL DEF Spec

\* In every network recv_rrep locks two different entries: no RREQ and no RREP,
\* a gratuitous one or a HELLO included, is about its own originator.
THEOREM TwoEntriesLocked == Spec => []EndpointsDiffer
<1>1. Init => MessageInv
  BY MessageInit
<1>2. MessageInv /\ [Next]_vars => MessageInv'
  BY MessageNext
<1>3. MessageInv => EndpointsDiffer
  BY DEF MessageInv
<1> QED
  BY <1>1, <1>2, <1>3, PTL DEF Spec

-----------------------------------------------------------------------------
(* Until a RERR is sent, every number in a table, in a message or in a     *)
(* send_rreq_thread is one that the node it is about has issued.           *)
(*                                                                         *)
(* The tables take their numbers from messages (NumberStep of              *)
(* RouteProofs), messages from tables, from the thread and from the        *)
(* sender's own number, the thread from the table: the invariant is about  *)
(* all of them together. Own numbers only grow.                            *)

\* Of a RREQ, a RREP and the thread of n, when N are the numbers of the nodes.
IssuedRreq(N, m) == m.src_seq <= N[m.src] /\ m.dest_seq <= N[m.dest]

IssuedRrep(N, m) == m.dest_seq <= N[m.dest]

IssuedThread(N, n, t) ==
    t.src_seq <= N[n] /\ (t.dest \in Node => t.dest_seq <= N[t.dest])

IssuedTable(N, T) == \A d \in Node : Numbered(T[d]) => T[d].dest_seq <= N[d]

\* Everything that carries a number.
AllIssued ==
    /\ \A n \in Node : IssuedTable(sequence_num, table[n])
    /\ \A m \in rreqs : IssuedRreq(sequence_num, m)
    /\ \A m \in rreps : IssuedRrep(sequence_num, m)
    /\ \A n \in Node : IssuedThread(sequence_num, n, sender[n])

\* The inductive invariant: SeqFromOwner, and the numbers that a thread keeps
\* from one of its steps to the next.
NumberInv == SearchInv /\ (rerrs = {} => AllIssued)

LEMMA NumberInvImplies == NumberInv => SeqFromOwner
BY DEF NumberInv, AllIssued, SeqFromOwner, IssuedRreq, IssuedRrep, IssuedTable, Numbered

LEMMA NumberInit == Init => NumberInv
<1> SUFFICES ASSUME Init PROVE NumberInv
  OBVIOUS
<1>1. \A n \in Node : IssuedTable(sequence_num, table[n])
  BY DEF Init, EmptyTable, IssuedTable, Numbered
<1>2. \A n \in Node : IssuedThread(sequence_num, n, sender[n])
  <2>1. NoThread.src_seq = 0 /\ NoThread.dest = NoAddr
    BY DEF NoThread
  <2> SUFFICES ASSUME NEW n \in Node PROVE IssuedThread(sequence_num, n, sender[n])
    OBVIOUS
  <2>2. PICK t, k : t = sender[n] /\ k = sequence_num[n] /\ t = NoThread /\ k = 0
    BY DEF Init
  <2>3. t.src_seq = 0 /\ t.dest \notin Node
    BY <2>1, <2>2, AddressAssumption
  <2>4. t.src_seq <= k
    BY <2>2, <2>3
  <2> QED
    BY <2>2, <2>3, <2>4 DEF IssuedThread
<1> QED
  BY <1>1, <1>2, SearchInit DEF Init, AllIssued, NumberInv

-----------------------------------------------------------------------------
(* Own numbers grow, and no RERR is taken back.                            *)

LEMMA ReplySeq ==
    ASSUME TypeOK, NEW n \in Node, NEW m \in Rreq
    PROVE  reply_seq(n, m) \in Nat /\ sequence_num[n] <= reply_seq(n, m)
<1>1. sequence_num[n] \in Nat /\ m.dest_seq \in Nat
  BY DEF TypeOK, Rreq
<1> QED
  BY <1>1 DEF reply_seq

\* The own number of n becomes k.
LEMMA OwnNumber ==
    ASSUME TypeOK, NEW n \in Node, NEW k \in Nat, sequence_num[n] <= k,
           sequence_num' = [sequence_num EXCEPT ![n] = k]
    PROVE  /\ \A x \in Node : sequence_num[x] <= sequence_num'[x]
           /\ sequence_num'[n] = k
<1>1. \A x \in Node : sequence_num[x] \in Nat
  BY DEF TypeOK
<1>2. \A x \in Node : sequence_num'[x] = IF x = n THEN k ELSE sequence_num[x]
  BY DEF TypeOK
<1> QED
  BY <1>1, <1>2

NumbersGrow == \A x \in Node : sequence_num[x] <= sequence_num'[x]

LEMMA NumbersSame ==
    ASSUME TypeOK, UNCHANGED sequence_num
    PROVE  NumbersGrow
<1>1. \A x \in Node : sequence_num[x] \in Nat
  BY DEF TypeOK
<1> QED
  BY <1>1 DEF NumbersGrow

LEMMA RecvRreqGrow ==
    ASSUME TypeOK, NEW n \in Node, NEW m \in rreqs, recv_rreq(n, m)
    PROVE  NumbersGrow /\ UNCHANGED rerrs
<1>1. m \in Rreq /\ UNCHANGED rerrs
  BY DEF TypeOK, recv_rreq
<1>2. CASE UNCHANGED sequence_num
  BY <1>1, <1>2, NumbersSame
<1>3. CASE \E seen \in BOOLEAN : rreq_at_destination(n, m, seen)
  <2>1. PICK k \in Nat : k = reply_seq(n, m) /\ sequence_num[n] <= k
    BY <1>1, ReplySeq
  <2>2. sequence_num' = [sequence_num EXCEPT ![n] = k]
    BY <1>3, <2>1 DEF rreq_at_destination
  <2> QED
    BY <1>1, <2>1, <2>2, OwnNumber DEF NumbersGrow
<1> QED
  BY <1>2, <1>3 DEF recv_rreq, rreq_ignored, rreq_answered, rreq_flooded, rreq_blocked, numbers

LEMMA SenderGrow ==
    ASSUME TypeOK, NEW n \in Node, send_rreq_thread(n)
    PROVE  NumbersGrow /\ UNCHANGED rerrs
<1>1. UNCHANGED rerrs
  BY DEF send_rreq_thread, rreq_thread_numbers, rreq_thread_reads, send_rreq_ring,
         send_rreq_full, send_rreq_fails, broadcast_rreq, control
<1>2. CASE rreq_thread_numbers(n)
  <2>1. PICK k \in Nat : k = sequence_num[n] + 1 /\ sequence_num[n] <= k
    BY DEF TypeOK
  <2>2. sequence_num' = [sequence_num EXCEPT ![n] = k]
    BY <1>2, <2>1 DEF rreq_thread_numbers
  <2> QED
    BY <1>1, <2>1, <2>2, OwnNumber DEF NumbersGrow
<1>3. CASE UNCHANGED sequence_num
  BY <1>1, <1>3, NumbersSame
<1> QED
  BY <1>2, <1>3 DEF send_rreq_thread, rreq_thread_reads, send_rreq_ring,
     send_rreq_full, send_rreq_fails, broadcast_rreq, numbers

\* The handlers that leave every own number alone.
LEMMA OtherGrow ==
    ASSUME TypeOK, NEW n \in Node,
           \/ \E m \in rreps : recv_rrep(n, m)
           \/ \E m \in rerrs : recv_rerr(n, m)
           \/ \E p \in packets : forwarded_messages(n, p)
           \/ \E p \in packets : incoming_data_message(n, p)
           \/ send_rreq_returns(n)
           \/ freed_wait_returns(n)
           \/ hello_wakes(n)
           \/ hello_sends(n)
           \/ \E d \in Node : \/ outgoing_message(n, d) \/ route_expires(n, d)
                              \/ entry_deleted(n, d) \/ rreq_id_forgotten(n, d)
    PROVE  NumbersGrow /\ rerrs \subseteq rerrs'
<1>1. ASSUME NEW m \in rreps, recv_rrep(n, m)
      PROVE  UNCHANGED <<sequence_num, rerrs>>
  BY <1>1 DEF recv_rrep, numbers
<1>2. ASSUME NEW m \in rerrs, recv_rerr(n, m)
      PROVE  UNCHANGED sequence_num /\ rerrs \subseteq rerrs'
  BY <1>2 DEF recv_rerr, numbers
<1>3. ASSUME NEW p \in packets, forwarded_messages(n, p)
      PROVE  UNCHANGED sequence_num /\ rerrs \subseteq rerrs'
  BY <1>3 DEF forwarded_messages, fwd_accepted, fwd_unknown, fwd_unreachable,
              fwd_broken, fwd_blocked, numbers
<1>4. ASSUME NEW p \in packets, incoming_data_message(n, p)
      PROVE  UNCHANGED <<sequence_num, rerrs>>
  BY <1>4 DEF incoming_data_message, numbers, control
<1>5. ASSUME send_rreq_returns(n) \/ freed_wait_returns(n) \/ hello_wakes(n) \/ hello_sends(n)
      PROVE  UNCHANGED <<sequence_num, rerrs>>
  BY <1>5 DEF send_rreq_returns, freed_wait_returns, hello_wakes, hello_sends, numbers, control
<1>6. ASSUME NEW d \in Node, \/ outgoing_message(n, d) \/ route_expires(n, d)
                             \/ entry_deleted(n, d) \/ rreq_id_forgotten(n, d)
      PROVE  UNCHANGED <<sequence_num, rerrs>>
  BY <1>6 DEF outgoing_message, route_expires, entry_deleted, rreq_id_forgotten,
              numbers, control
<1>7. UNCHANGED sequence_num /\ rerrs \subseteq rerrs'
  BY <1>1, <1>2, <1>3, <1>4, <1>5, <1>6
<1> QED
  BY <1>7, NumbersSame

LEMMA NextGrow ==
    ASSUME TypeOK, [Next]_vars
    PROVE  NumbersGrow /\ rerrs \subseteq rerrs'
<1>1. CASE UNCHANGED vars
  BY <1>1, NumbersSame DEF vars, numbers, control
<1>2. CASE Next
  BY <1>2, RecvRreqGrow, SenderGrow, OtherGrow DEF Next
<1> QED
  BY <1>1, <1>2

-----------------------------------------------------------------------------
(* What is sent and kept is issued.                                        *)

\* The new messages and the changed threads of a step.
SentIssued ==
    /\ \A m \in rreqs' : m \in rreqs \/ IssuedRreq(sequence_num', m)
    /\ \A m \in rreps' : m \in rreps \/ IssuedRrep(sequence_num', m)
    /\ \A n \in Node : sender'[n] = sender[n] \/ IssuedThread(sequence_num', n, sender'[n])

\* What was issued stays issued.
LEMMA StillIssued ==
    ASSUME TypeOK, TypeOK', NumbersGrow, NEW d \in Node, NEW k \in Nat, k <= sequence_num[d]
    PROVE  k <= sequence_num'[d]
<1>1. sequence_num[d] \in Nat /\ sequence_num'[d] \in Nat
  BY DEF TypeOK
<1>2. sequence_num[d] <= sequence_num'[d]
  BY DEF NumbersGrow
<1> QED
  BY <1>1, <1>2

\* A number that a table of n has after it has taken a RREQ.
LEMMA TableNumber ==
    ASSUME TypeOK, AllIssued, rerrs = {}, NEW n \in Node, NEW D, NEW T \in Table, T = table[n],
           NEW U \in Table, TableStep(n, D, T, U), NEW d \in Node, Numbered(U[d])
    PROVE  U[d].dest_seq \in Nat /\ U[d].dest_seq <= sequence_num[d]
<1>1. U[d].dest_seq \in Nat
  BY EntryOrNone DEF Entry, Numbered
<1>2. U[d] # NoEntry
  BY DEF Numbered
<1>3. \/ Numbered(T[d]) /\ U[d].dest_seq = T[d].dest_seq
      \/ Told(d, U[d].dest_seq)
  BY <1>2 DEF TableStep, NumberStep
<1>4. Numbered(T[d]) => T[d].dest_seq <= sequence_num[d]
  BY DEF AllIssued, IssuedTable
<1>5. Told(d, U[d].dest_seq) => U[d].dest_seq <= sequence_num[d]
  BY DEF Told, AllIssued, IssuedRreq, IssuedRrep
<1> QED
  BY <1>1, <1>3, <1>4, <1>5

\* The table out of which recv_rreq answers or floods.
LEMMA ReverseStep ==
    ASSUME TypeOK, NEW n \in Node, NEW m \in rreqs, recv_rreq(n, m)
    PROVE  \E T, R \in Table : \E D : /\ T = table[n] /\ R = after_reverse(n, m)
                                      /\ TableStep(n, D, T, R)
<1>1. m \in Rreq
  BY DEF TypeOK
<1>2. PICK s, f \in Node, seq \in Nat : s = m.src /\ f = m.from /\ seq = m.src_seq
  BY <1>1 DEF Rreq
<1>3. Neighbour(n, f) /\ Told(s, seq)
  BY <1>2 DEF recv_rreq, Hears, Neighbour, Told
<1>4. PICK T, H, R \in Table :
         /\ T = table[n] /\ H = after_hop(n, m) /\ R = after_reverse(n, m)
         /\ HopTaken(T, H, f) /\ RouteRenewed(H, R, s, seq, f)
  BY <1>1, <1>2, RreqTables
<1>5. TableStep(n, {f, s}, T, H)
  BY <1>3, <1>4, HopTakenStep
<1>6. TableStep(n, {f, s}, H, R)
  BY <1>3, <1>4, RenewedStep
<1>7. TableStep(n, {f, s}, T, R)
  BY <1>5, <1>6, TableStepTransitive
<1> QED
  BY <1>4, <1>7

\* The copy that a node floods: the number of the RREQ or of the node's entry.
LEMMA RebroadcastIssued ==
    ASSUME NEW n \in Node, NEW m \in Rreq, NEW T, NEW M, IssuedRreq(M, m),
           Numbered(T[m.dest]) => T[m.dest].dest_seq <= M[m.dest]
    PROVE  IssuedRreq(M, rebroadcast(n, T, m))
<1>1. PICK k : /\ k = m.dest_seq \/ (Numbered(T[m.dest]) /\ k = T[m.dest].dest_seq)
               /\ rebroadcast(n, T, m) = [m EXCEPT !.from = n, !.ttl = @ - 1,
                                                   !.hop_count = @ + 1, !.dest_seq = k]
  BY DEF rebroadcast, Numbered
<1>2. PICK r : r = rebroadcast(n, T, m)
  OBVIOUS
<1>3. r.src = m.src /\ r.dest = m.dest /\ r.src_seq = m.src_seq /\ r.dest_seq = k
  BY <1>1, <1>2 DEF Rreq
<1>4. IssuedRreq(M, r)
  BY <1>1, <1>3 DEF IssuedRreq
<1> QED
  BY <1>2, <1>4

\* A step that leaves the threads alone.
LEMMA ThreadsAlone ==
    ASSUME UNCHANGED sender,
           \A m \in rreqs' : m \in rreqs \/ IssuedRreq(sequence_num', m),
           \A m \in rreps' : m \in rreps \/ IssuedRrep(sequence_num', m)
    PROVE  SentIssued
BY DEF SentIssued

LEMMA RecvRreqIssued ==
    ASSUME TypeOK, TypeOK', AllIssued, rerrs = {}, NumbersGrow,
           NEW n \in Node, NEW m \in rreqs, recv_rreq(n, m)
    PROVE  SentIssued
<1>1. m \in Rreq
  BY DEF TypeOK
<1>2. PICK s, d \in Node, src_seq, dest_seq \in Nat :
         s = m.src /\ d = m.dest /\ src_seq = m.src_seq /\ dest_seq = m.dest_seq
  BY <1>1 DEF Rreq
<1>3. PICK M : M = sequence_num'
  OBVIOUS
<1>4. src_seq <= M[s] /\ dest_seq <= M[d] /\ IssuedRreq(M, m)
  <2>1. src_seq <= sequence_num[s] /\ dest_seq <= sequence_num[d]
    BY <1>2 DEF AllIssued, IssuedRreq
  <2> QED
    BY <1>2, <1>3, <2>1, StillIssued DEF IssuedRreq
<1>5. PICK T, R \in Table : \E D : /\ T = table[n] /\ R = after_reverse(n, m)
                                   /\ TableStep(n, D, T, R)
  BY ReverseStep
<1>6. Numbered(R[d]) => R[d].dest_seq <= M[d]
  BY <1>3, <1>5, TableNumber, StillIssued
<1>7. UNCHANGED sender
  BY DEF recv_rreq, rreq_ignored, rreq_at_destination, rreq_answered, rreq_flooded, rreq_blocked
<1>8. PICK seen \in BOOLEAN :
          \/ rreq_ignored(n, m, seen) \/ rreq_at_destination(n, m, seen)
          \/ rreq_answered(n, m, seen) \/ rreq_flooded(n, m, seen)
          \/ rreq_blocked(n, m, seen)
  BY DEF recv_rreq
<1>9. CASE rreq_ignored(n, m, seen) \/ rreq_blocked(n, m, seen)
  BY <1>7, <1>9, ThreadsAlone DEF rreq_ignored, rreq_blocked
<1>10. CASE rreq_at_destination(n, m, seen)
  <2>1. PICK k, r : /\ k \in Nat /\ k = reply_seq(n, m)
                            /\ r = [from |-> n, to |-> m.from, src |-> m.src, dest |-> n,
                                    dest_seq |-> k, hop_count |-> 0]
    BY <1>1, ReplySeq
  <2>2. rreqs' = rreqs /\ rreps' = rreps \cup {r} /\ M[n] = k
    BY <1>3, <1>10, <2>1 DEF rreq_at_destination, TypeOK
  <2>3. IssuedRrep(M, r)
    BY <2>1, <2>2 DEF IssuedRrep
  <2> QED
    BY <1>3, <1>7, <2>2, <2>3, ThreadsAlone
<1>11. CASE rreq_answered(n, m, seen)
  <2>1. PICK P : P = intermediate_rreps(n, R, m)
    OBVIOUS
  <2>2. rreqs' = rreqs /\ rreps' = rreps \cup P /\ can_answer(R, m)
    BY <1>5, <1>11, <2>1 DEF rreq_answered
  <2>3. R[d].dest_seq <= M[d]
    BY <1>2, <1>6, <2>2 DEF can_answer, Numbered, Valid, get_routing_entry
  <2>4. \A r \in P : \/ r.dest = d /\ r.dest_seq = R[d].dest_seq
                     \/ r.dest = s /\ r.dest_seq = src_seq
    BY <1>2, <2>1 DEF intermediate_rreps
  <2>5. \A r \in P : IssuedRrep(M, r)
    BY <1>4, <2>3, <2>4 DEF IssuedRrep
  <2> QED
    BY <1>3, <1>7, <2>2, <2>5, ThreadsAlone
<1>12. CASE rreq_flooded(n, m, seen)
  <2>1. PICK r : r = rebroadcast(n, R, m)
    OBVIOUS
  <2>2. IssuedRreq(M, r)
    BY <1>1, <1>2, <1>4, <1>6, <2>1, RebroadcastIssued
  <2>3. (rreqs' = rreqs \/ rreqs' = rreqs \cup {r}) /\ rreps' = rreps
    BY <1>5, <1>12, <2>1 DEF rreq_flooded
  <2> QED
    BY <1>3, <1>7, <2>2, <2>3, ThreadsAlone
<1> QED
  BY <1>8, <1>9, <1>10, <1>11, <1>12

\* The thread of n is unchanged, or one that has no numbers.
ThreadLost(n) ==
    \/ UNCHANGED sender
    \/ \E t : /\ sender' = [sender EXCEPT ![n] = t]
              /\ t = sender[n] \/ (t.src_seq = 0 /\ t.dest_seq = 0)

LEMMA ThreadLostIssued ==
    ASSUME TypeOK, TypeOK', NEW n \in Node, ThreadLost(n)
    PROVE  \A x \in Node : sender'[x] = sender[x] \/ IssuedThread(sequence_num', x, sender'[x])
<1>1. \A x \in Node : sequence_num'[x] \in Nat
  BY DEF TypeOK
<1>2. CASE UNCHANGED sender
  BY <1>2
<1>3. ASSUME NEW t, sender' = [sender EXCEPT ![n] = t],
             t = sender[n] \/ (t.src_seq = 0 /\ t.dest_seq = 0)
      PROVE  \A x \in Node : sender'[x] = sender[x] \/ IssuedThread(sequence_num', x, sender'[x])
  <2>1. \A x \in Node : sender'[x] = IF x = n THEN t ELSE sender[x]
    BY <1>3 DEF TypeOK
  <2> QED
    BY <1>1, <1>3, <2>1 DEF IssuedThread
<1> QED
  BY <1>2, <1>3 DEF ThreadLost

LEMMA CancelledThread ==
    ASSUME NEW n \in Node, NEW d, cancel_sender(n, d)
    PROVE  ThreadLost(n)
<1>1. NoThread.src_seq = 0 /\ NoThread.dest_seq = 0
  BY DEF NoThread
<1>2. PICK t : t = IF sender[n].dest = d THEN NoThread ELSE sender[n]
  OBVIOUS
<1>3. sender' = [sender EXCEPT ![n] = t]
  BY <1>2 DEF cancel_sender
<1> QED
  BY <1>1, <1>2, <1>3 DEF ThreadLost

LEMMA RecvRrepIssued ==
    ASSUME TypeOK, TypeOK', AllIssued, NumbersGrow,
           NEW n \in Node, NEW m \in rreps, recv_rrep(n, m)
    PROVE  SentIssued
<1>1. m \in Rrep /\ rreqs' = rreqs
  BY DEF TypeOK, recv_rrep
<1>2. ThreadLost(n)
  <2>1. UNCHANGED sender \/ cancel_found(n, m)
    BY DEF recv_rrep, recv_hello, rrep_consumed, rrep_forwarded, rrep_installs, rrep_blocked
  <2> QED
    BY <2>1, CancelledThread DEF cancel_found, ThreadLost
<1>3. \A r \in rreps' : r \in rreps \/ IssuedRrep(sequence_num', r)
  <2>1. CASE UNCHANGED rreps
    BY <2>1
  <2>2. CASE rrep_forwarded(n, m)
    <3>1. PICK to, r : /\ to = after_forward(n, m)[m.src].next_hop
                       /\ r = [m EXCEPT !.from = n, !.to = to, !.hop_count = @ + 1]
      OBVIOUS
    <3>2. rreps' = rreps \cup {r}
      BY <2>2, <3>1 DEF rrep_forwarded
    <3>3. r.dest = m.dest /\ r.dest_seq = m.dest_seq /\ m.dest \in Node /\ m.dest_seq \in Nat
      BY <1>1, <3>1 DEF Rrep
    <3>4. m.dest_seq <= sequence_num[m.dest]
      BY DEF AllIssued, IssuedRrep
    <3>5. IssuedRrep(sequence_num', r)
      BY <3>3, <3>4, StillIssued DEF IssuedRrep
    <3> QED
      BY <3>2, <3>5
  <2> QED
    BY <2>1, <2>2 DEF recv_rrep, recv_hello, rrep_consumed, rrep_blocked
<1> QED
  BY <1>1, <1>2, <1>3, ThreadLostIssued DEF SentIssued

\* A RREQ of the thread has the numbers of the thread.
LEMMA BroadcastIssued ==
    ASSUME TypeOK, TypeOK', AllIssued, NumbersGrow, NEW n \in Node, NEW ttl,
           broadcast_rreq(n, ttl), sender[n].dest \in Node
    PROVE  /\ \A m \in rreqs' : m \in rreqs \/ IssuedRreq(sequence_num', m)
           /\ UNCHANGED rreps /\ UNCHANGED sequence_num
<1>1. PICK r : r = [from |-> n, src |-> n, dest |-> sender[n].dest,
                    src_seq |-> sender[n].src_seq, dest_seq |-> sender[n].dest_seq,
                    flags |-> sender[n].flags, rreq_id |-> rreq_id[n] + 1,
                    ttl |-> ttl, hop_count |-> 0]
  OBVIOUS
<1>2. rreqs' = rreqs \cup {r} /\ UNCHANGED rreps /\ UNCHANGED sequence_num
  BY <1>1 DEF broadcast_rreq
<1>3. IssuedThread(sequence_num, n, sender[n])
  BY DEF AllIssued
<1>4. IssuedRreq(sequence_num, r)
  BY <1>1, <1>3 DEF IssuedThread, IssuedRreq
<1> QED
  BY <1>2, <1>4

\* A thread of n that has changed.
LEMMA OneThread ==
    ASSUME TypeOK, NEW n \in Node, NEW t, sender' = [sender EXCEPT ![n] = t],
           IssuedThread(sequence_num', n, t)
    PROVE  \A x \in Node : sender'[x] = sender[x] \/ IssuedThread(sequence_num', x, sender'[x])
<1>1. \A x \in Node : sender'[x] = IF x = n THEN t ELSE sender[x]
  BY DEF TypeOK
<1> QED
  BY <1>1

LEMMA SenderIssued ==
    ASSUME SearchInv, TypeOK', AllIssued, NumbersGrow, NEW n \in Node, send_rreq_thread(n)
    PROVE  SentIssued
<1>1. PICK t \in Thread : t = sender[n]
  BY DEF SearchInv, TypeOK
<1>2. TypeOK /\ IssuedThread(sequence_num, n, t)
  BY <1>1 DEF AllIssued, SearchInv
<1>3. t.stage # "none" => t.dest \in Node
  BY <1>1, <1>2, PolledEntry DEF SearchInv, TypeOK
<1>4. CASE rreq_thread_numbers(n)
  <2>1. PICK k \in Nat : k = sequence_num[n] + 1
    BY <1>2 DEF TypeOK
  <2>2. PICK u \in Thread : u = [t EXCEPT !.stage = "numbered", !.src_seq = k]
    BY DEF Thread
  <2>3. u.src_seq = k /\ u.dest = t.dest /\ u.dest_seq = t.dest_seq /\ t.dest_seq \in Nat
    BY <2>2 DEF Thread
  <2>4. /\ sender' = [sender EXCEPT ![n] = u]
        /\ sequence_num' = [sequence_num EXCEPT ![n] = k]
        /\ UNCHANGED <<rreqs, rreps>>
    BY <1>1, <1>2, <1>4, <2>1, <2>2 DEF rreq_thread_numbers, control, TypeOK
  <2>5. sequence_num'[n] = k
    BY <1>2, <2>4 DEF TypeOK
  <2>6. t.dest \in Node => t.dest_seq <= sequence_num'[t.dest]
    BY <1>2, <2>3, StillIssued DEF IssuedThread
  <2>7. IssuedThread(sequence_num', n, u)
    BY <2>1, <2>3, <2>5, <2>6 DEF IssuedThread
  <2> QED
    BY <1>2, <2>4, <2>7, OneThread DEF SentIssued
<1>5. CASE rreq_thread_reads(n)
  <2>1. PICK T \in Table, d \in Node : T = table[n] /\ d = t.dest /\ T[d] # NoEntry
    <3>1. t.stage # "none"
      BY <1>1, <1>5 DEF rreq_thread_reads, thread_is
    <3>2. table[n] \in Table /\ t.dest \in Node
      BY <1>2, <1>3, <3>1 DEF TypeOK
    <3>3. table[n][t.dest] \in Entry
      BY <1>1, <1>2, <3>1, PolledEntry DEF SearchInv
    <3> QED
      BY <3>2, <3>3, NoEntryAssumption
  <2>2. PICK k, f, ttl :
           /\ k = IF T[d].seq_valid = "SEQ_VALID" THEN T[d].dest_seq ELSE 0
           /\ sender' = [sender EXCEPT ![n].stage = "sending", ![n].dest_seq = k,
                                       ![n].flags = f, ![n].ttl = ttl]
    BY <1>1, <1>5, <2>1 DEF rreq_thread_reads
  <2>3. PICK u : u = [t EXCEPT !.stage = "sending", !.dest_seq = k, !.flags = f, !.ttl = ttl]
    OBVIOUS
  <2>4. u.src_seq = t.src_seq /\ u.dest = d /\ u.dest_seq = k
    BY <2>1, <2>3 DEF Thread
  <2>5. sender' = [sender EXCEPT ![n] = u]
    BY <1>1, <1>2, <2>2, <2>3 DEF TypeOK
  <2>6. k <= sequence_num[d]
    <3>1. sequence_num[d] \in Nat
      BY <1>2 DEF TypeOK
    <3>2. T[d].seq_valid = "SEQ_VALID" => T[d].dest_seq <= sequence_num[d]
      BY <2>1 DEF AllIssued, IssuedTable, Numbered
    <3> QED
      BY <2>2, <3>1, <3>2
  <2>7. UNCHANGED <<sequence_num, rreqs, rreps>>
    BY <1>5 DEF rreq_thread_reads, numbers, control
  <2>8. IssuedThread(sequence_num', n, u)
    BY <1>2, <2>4, <2>6, <2>7 DEF IssuedThread
  <2> QED
    BY <1>2, <2>7, <2>8, <2>5, OneThread DEF SentIssued
<1>6. CASE send_rreq_ring(n) \/ send_rreq_full(n)
  <2>1. PICK u \in Thread : /\ sender' = [sender EXCEPT ![n] = u] /\ u.src_seq = t.src_seq
                            /\ u.dest = t.dest /\ u.dest_seq = t.dest_seq
    <3>1. CASE send_rreq_ring(n)
      <4>1. [t EXCEPT !.ttl = @ + TTL_INCREMENT] \in Thread
        BY ParameterAssumption DEF Thread
      <4>2. sender' = [sender EXCEPT ![n] = [t EXCEPT !.ttl = @ + TTL_INCREMENT]]
        BY <1>1, <1>2, <3>1 DEF send_rreq_ring, TypeOK
      <4> QED
        BY <4>1, <4>2 DEF Thread
    <3>2. CASE send_rreq_full(n)
      <4>1. [t EXCEPT !.tries = @ + 1] \in Thread
        BY DEF Thread
      <4>2. sender' = [sender EXCEPT ![n] = [t EXCEPT !.tries = @ + 1]]
        BY <1>1, <1>2, <3>2 DEF send_rreq_full, TypeOK
      <4> QED
        BY <4>1, <4>2 DEF Thread
    <3> QED
      BY <1>6, <3>1, <3>2
  <2>2. t.dest \in Node /\ \E ttl : broadcast_rreq(n, ttl)
    BY <1>1, <1>3, <1>6 DEF send_rreq_ring, send_rreq_full, thread_is
  <2>3. /\ \A m \in rreqs' : m \in rreqs \/ IssuedRreq(sequence_num', m)
        /\ UNCHANGED rreps /\ UNCHANGED sequence_num
    BY <1>1, <1>2, <2>2, BroadcastIssued
  <2>4. IssuedThread(sequence_num', n, u)
    BY <1>2, <2>1, <2>3 DEF IssuedThread
  <2> QED
    BY <1>2, <2>1, <2>3, <2>4, OneThread DEF SentIssued
<1>7. CASE send_rreq_fails(n)
  <2>1. NoThread.src_seq = 0 /\ NoThread.dest_seq = 0
    BY DEF NoThread
  <2>2. ThreadLost(n) /\ UNCHANGED <<rreqs, rreps>>
    BY <1>7, <2>1 DEF send_rreq_fails, ThreadLost, control
  <2> QED
    BY <1>2, <2>2, ThreadLostIssued DEF SentIssued
<1> QED
  BY <1>4, <1>5, <1>6, <1>7 DEF send_rreq_thread

\* A HELLO carries the number its sender has.
LEMMA HelloIssued ==
    ASSUME TypeOK, NEW n \in Node, hello_wakes(n) \/ hello_sends(n)
    PROVE  SentIssued
<1>1. CASE hello_wakes(n)
  BY <1>1, ThreadsAlone DEF hello_wakes, control
<1>2. CASE hello_sends(n)
  <2>1. PICK k, r : /\ k \in Nat /\ k = sequence_num[n]
                            /\ r = [from |-> n, to |-> Broadcast, src |-> NoAddr, dest |-> n,
                                    dest_seq |-> k, hop_count |-> 0]
    BY DEF TypeOK
  <2>2. rreqs' = rreqs /\ rreps' = rreps \cup {r} /\ UNCHANGED <<sender, sequence_num>>
    BY <1>2, <2>1 DEF hello_sends, numbers
  <2>3. IssuedRrep(sequence_num', r)
    BY <2>1, <2>2 DEF IssuedRrep
  <2> QED
    BY <2>2, <2>3, ThreadsAlone
<1> QED
  BY <1>1, <1>2

\* Every other step sends neither a RREQ nor a RREP, and numbers no thread.
LEMMA OtherIssued ==
    ASSUME TypeOK, TypeOK', NEW n \in Node,
           \/ \E m \in rerrs : recv_rerr(n, m)
           \/ \E p \in packets : forwarded_messages(n, p)
           \/ \E p \in packets : incoming_data_message(n, p)
           \/ send_rreq_returns(n)
           \/ freed_wait_returns(n)
           \/ \E d \in Node : \/ outgoing_message(n, d) \/ route_expires(n, d)
                              \/ entry_deleted(n, d) \/ rreq_id_forgotten(n, d)
    PROVE  SentIssued
<1>1. UNCHANGED <<rreqs, rreps>>
  BY OtherMessages
<1>2. ThreadLost(n)
  <2>1. ASSUME NEW d \in Node, out_searches(n, d)
        PROVE  ThreadLost(n)
    <3>1. PICK t : t = [NoThread EXCEPT !.dest = d, !.stage = "created"]
      OBVIOUS
    <3>2. t.src_seq = 0 /\ t.dest_seq = 0
      BY <3>1 DEF NoThread
    <3>3. sender' = [sender EXCEPT ![n] = t]
      BY <2>1, <3>1 DEF out_searches
    <3> QED
      BY <3>2, <3>3 DEF ThreadLost
  <2>2. ASSUME NEW d \in Node, outgoing_message(n, d) PROVE ThreadLost(n)
    BY <2>1, <2>2 DEF outgoing_message, out_routed, out_dropped, out_blocked, ThreadLost
  <2>3. ASSUME NEW d \in Node, route_expires(n, d) \/ rreq_id_forgotten(n, d) PROVE ThreadLost(n)
    BY <2>3 DEF route_expires, rreq_id_forgotten, ThreadLost
  <2>4. ASSUME NEW d \in Node, entry_deleted(n, d) PROVE ThreadLost(n)
    BY <2>4, CancelledThread DEF entry_deleted
  <2>5. ASSUME \/ \E m \in rerrs : recv_rerr(n, m)
               \/ \E p \in packets : forwarded_messages(n, p)
               \/ \E p \in packets : incoming_data_message(n, p)
               \/ send_rreq_returns(n)
               \/ freed_wait_returns(n)
        PROVE  UNCHANGED sender
    BY <2>5 DEF recv_rerr, forwarded_messages, incoming_data_message, send_rreq_returns,
                freed_wait_returns
  <2> QED
    BY <2>2, <2>3, <2>4, <2>5 DEF ThreadLost
<1> QED
  BY <1>1, <1>2, ThreadLostIssued DEF SentIssued

LEMMA NextIssued ==
    ASSUME SearchInv, TypeOK', AllIssued, rerrs = {}, NumbersGrow, [Next]_vars
    PROVE  SentIssued
<1>1. TypeOK
  BY DEF SearchInv
<1>2. CASE UNCHANGED vars
  BY <1>2, ThreadsAlone DEF vars, control
<1>3. CASE Next
  BY <1>1, <1>3, RecvRreqIssued, RecvRrepIssued, SenderIssued, HelloIssued, OtherIssued DEF Next
<1> QED
  BY <1>2, <1>3

\* The tables after a step: their numbers are told by messages that were sent.
LEMMA TablesIssued ==
    ASSUME SearchInv, TypeOK', AllIssued, rerrs = {}, NumbersGrow, [Next]_vars
    PROVE  \A n \in Node : IssuedTable(sequence_num', table'[n])
<1> SUFFICES ASSUME NEW n \in Node, NEW d \in Node, Numbered(table'[n][d])
             PROVE  table'[n][d].dest_seq <= sequence_num'[d]
  BY DEF IssuedTable
<1>1. TypeOK
  BY DEF SearchInv
<1>2. PICK T, V \in Table : T = table[n] /\ V = table'[n]
  BY <1>1 DEF TypeOK
<1>3. V[d].dest_seq \in Nat
  BY <1>2, EntryOrNone DEF Entry, Numbered
<1>4. Numbered(T[d]) => T[d].dest_seq <= sequence_num[d]
  BY <1>2 DEF AllIssued, IssuedTable
<1>5. NumberStep(d, T[d], V[d])
  <2>1. CASE T = V
    BY <2>1 DEF NumberStep
  <2>2. ASSUME NEW x \in Node, RouteChange(x)
        PROVE  NumberStep(d, T[d], V[d])
    <3>1. PICK U \in Table : \E L : RouteChangeTo(x, U, L)
      BY <2>2 DEF RouteChange
    <3>2. PICK L : RouteChangeTo(x, U, L)
      BY <3>1
    <3>3. CASE x = n
      <4>1. V = U
        BY <1>1, <1>2, <3>2, <3>3 DEF RouteChangeTo, set_table, TypeOK
      <4>2. U[d] # NoEntry
        BY <1>2, <4>1 DEF Numbered
      <4> QED
        BY <1>2, <3>2, <3>3, <4>1, <4>2 DEF RouteChangeTo
    <3>4. CASE x # n
      <4>1. V = T
        BY <1>1, <1>2, <3>2, <3>4 DEF RouteChangeTo, set_table, TypeOK
      <4> QED
        BY <2>1, <4>1
    <3> QED
      BY <3>3, <3>4
  <2> QED
    BY <1>2, <2>1, <2>2, NextRoutes
<1>6. Told(d, V[d].dest_seq) => V[d].dest_seq <= sequence_num[d]
  BY DEF Told, AllIssued, IssuedRreq, IssuedRrep
<1>7. V[d].dest_seq <= sequence_num[d]
  BY <1>2, <1>4, <1>5, <1>6 DEF NumberStep
<1> QED
  BY <1>1, <1>2, <1>3, <1>7, StillIssued

LEMMA NumberNext ==
    ASSUME NumberInv, [Next]_vars
    PROVE  NumberInv'
<1>1. SearchInv /\ TypeOK
  BY DEF NumberInv, SearchInv
<1>2. SearchInv' /\ TypeOK'
  BY <1>1, SearchNext DEF SearchInv
<1>3. NumbersGrow /\ rerrs \subseteq rerrs'
  BY <1>1, NextGrow
<1>4. ASSUME rerrs' = {}
      PROVE  AllIssued'
  <2>1. rerrs = {} /\ AllIssued
    BY <1>3, <1>4 DEF NumberInv
  <2>2. SentIssued
    BY <1>1, <1>2, <1>3, <2>1, NextIssued
  <2>3. \A n \in Node : IssuedTable(sequence_num', table'[n])
    BY <1>1, <1>2, <1>3, <2>1, TablesIssued
  <2>4. \A m \in rreqs' : IssuedRreq(sequence_num', m)
    <3>1. ASSUME NEW m \in rreqs
          PROVE  IssuedRreq(sequence_num', m)
      <4>1. /\ m.src \in Node /\ m.dest \in Node
            /\ m.src_seq \in Nat /\ m.dest_seq \in Nat
        BY <1>1 DEF TypeOK, Rreq
      <4> QED
        BY <1>1, <1>2, <1>3, <2>1, <4>1, StillIssued DEF AllIssued, IssuedRreq
    <3> QED
      BY <2>2, <3>1 DEF SentIssued
  <2>5. \A m \in rreps' : IssuedRrep(sequence_num', m)
    <3>1. ASSUME NEW m \in rreps
          PROVE  IssuedRrep(sequence_num', m)
      <4>1. m.dest \in Node /\ m.dest_seq \in Nat
        BY <1>1 DEF TypeOK, Rrep
      <4> QED
        BY <1>1, <1>2, <1>3, <2>1, <4>1, StillIssued DEF AllIssued, IssuedRrep
    <3> QED
      BY <2>2, <3>1 DEF SentIssued
  <2>6. \A n \in Node : IssuedThread(sequence_num', n, sender'[n])
    <3>1. ASSUME NEW n \in Node
          PROVE  IssuedThread(sequence_num', n, sender[n])
      <4>1. sender[n].src_seq \in Nat /\ sender[n].dest_seq \in Nat
        BY <1>1 DEF TypeOK, Thread
      <4>2. IssuedThread(sequence_num, n, sender[n])
        BY <2>1 DEF AllIssued
      <4> QED
        BY <1>1, <1>2, <1>3, <4>1, <4>2, StillIssued DEF IssuedThread
    <3> QED
      BY <2>2, <3>1 DEF SentIssued
  <2> QED
    BY <2>3, <2>4, <2>5, <2>6 DEF AllIssued
<1> QED
  BY <1>2, <1>4 DEF NumberInv

\* Until a RERR is sent, every sequence number that is about a node was issued
\* by that node: recv_rreq, recv_rrep and send_rreq_thread hand numbers on and
\* compare them, and none of them invents one, in every network.
THEOREM NumbersCorrect == Spec => []SeqFromOwner
<1>1. NumberInv /\ [Next]_vars => NumberInv'
  BY NumberNext
<1> QED
  BY NumberInit, NumberInvImplies, <1>1, PTL DEF Spec
=============================================================================
