---------------------------- MODULE SearchProofs ----------------------------
(***************************************************************************)
(* The search for a route: the entry marked as searched for, the thread    *)
(* that searches and the callback that polls begin and end together.       *)
(* Type correctness is proved with it, for a daemon writes to the entries  *)
(* that it polls and that it searches for. At the end, that the network    *)
(* implements SearchContract.                                              *)
(***************************************************************************)
EXTENDS AodvTypeProofs

\* SearchHasThread at one node, of its table, its callback and its thread.
NodeSearch(T, o, s) ==
    /\ \A d \in Node : (T[d] # NoEntry /\ T[d].rreq_search = "SEARCH_SEARCHING")
                          <=> (s.stage # "none" /\ s.dest = d)
    /\ s.stage # "none" => o = [dest |-> s.dest, freed |-> FALSE]
    /\ \A d \in Node : o = [dest |-> d, freed |-> FALSE] => T[d] # NoEntry

LEMMA SearchAtNode ==
    SearchHasThread <=> \A n \in Node : NodeSearch(table[n], outgoing[n], sender[n])
BY DEF SearchHasThread, NodeSearch, waits_for

\* A step that changes one node only.
LEMMA OneNodeSearch ==
    ASSUME TypeOK, SearchHasThread, NEW n \in Node, NEW U, NEW o, NEW s,
           table' = [table EXCEPT ![n] = U],
           outgoing' = [outgoing EXCEPT ![n] = o],
           sender' = [sender EXCEPT ![n] = s],
           NodeSearch(U, o, s)
    PROVE  SearchHasThread'
<1>1. /\ table'[n] = U /\ outgoing'[n] = o /\ sender'[n] = s
      /\ \A x \in Node \ {n} : /\ table'[x] = table[x] /\ outgoing'[x] = outgoing[x]
                               /\ sender'[x] = sender[x]
  BY DEF TypeOK
<1>2. \A x \in Node : NodeSearch(table'[x], outgoing'[x], sender'[x])
  <2> TAKE x \in Node
  <2>1. CASE x = n
    BY <1>1, <2>1
  <2>2. CASE x # n
    BY <1>1, <2>2, SearchAtNode
  <2> QED
    BY <2>1, <2>2
<1> QED
  BY <1>2 DEF SearchHasThread, NodeSearch, waits_for

\* A step that changes one table and that no search notices.
LEMMA UnnoticedStep ==
    ASSUME TypeOK, SearchHasThread, NEW n \in Node, NEW U,
           set_table(n, U), SearchKept(table[n], U), UNCHANGED <<outgoing, sender>>
    PROVE  SearchHasThread'
<1>1. NodeSearch(U, outgoing[n], sender[n])
  BY SearchAtNode DEF NodeSearch, SearchKept
<1>2. /\ outgoing' = [outgoing EXCEPT ![n] = outgoing[n]]
      /\ sender' = [sender EXCEPT ![n] = sender[n]]
  BY DEF TypeOK
<1> QED
  BY <1>1, <1>2, OneNodeSearch DEF set_table

\* The mutexes that are locked for good stay those of entries there are.
LEMMA LockedStep ==
    ASSUME TypeOK, LockedStays, NEW n \in Node, NEW U,
           set_table(n, U),
           \A d \in Node : d \in held[n] /\ table[n][d] # NoEntry => U[d] # NoEntry,
           NEW locked \in SUBSET Node, \A d \in locked : U[d] # NoEntry,
           held' = [held EXCEPT ![n] = @ \cup locked]
    PROVE  LockedStays'
BY DEF TypeOK, LockedStays, set_table

\* The inductive invariant.
SearchInv == TypeOK /\ LockedStays /\ SearchHasThread /\ SenderAimed

-----------------------------------------------------------------------------
(* What a step of n does to the searches: the invariant is kept, nothing   *)
(* changes at the other nodes, and only the thread that gives up marks an  *)
(* entry as failed.                                                        *)

OnlyAt(n) ==
    \A x \in Node \ {n} : /\ table'[x] = table[x]
                          /\ outgoing'[x] = outgoing[x]
                          /\ sender'[x] = sender[x]

FailedMark(e) == e # NoEntry /\ e.rreq_search = "SEARCH_FAILED"

FailsInThread(n, U) ==
    \A d \in Node :
        FailedMark(U[d]) => \/ FailedMark(table[n][d])
                            \/ send_rreq_fails(n) /\ sender[n].dest = d

SearchGoesOn(n) ==
    /\ LockedStays' /\ SearchHasThread' /\ SenderAimed'
    /\ OnlyAt(n)
    /\ FailsInThread(n, table'[n])

\* A handler that begins and ends no search, and locks for good only entries that
\* there are.
LEMMA QuietStep ==
    ASSUME SearchInv, NEW n \in Node, NEW U,
           set_table(n, U), SearchKept(table[n], U), UNCHANGED <<outgoing, sender>>,
           NEW locked \in SUBSET Node, \A d \in locked : U[d] # NoEntry,
           held' = [held EXCEPT ![n] = @ \cup locked]
    PROVE  SearchGoesOn(n)
<1>1. SearchHasThread'
  BY UnnoticedStep DEF SearchInv
<1>2. LockedStays'
  BY LockedStep DEF SearchInv, SearchKept
<1>3. SenderAimed'
  BY DEF SearchInv, SenderAimed
<1>4. OnlyAt(n) /\ table'[n] = U
  BY DEF SearchInv, TypeOK, OnlyAt, set_table
<1>5. FailsInThread(n, U)
  BY DEF FailsInThread, FailedMark, SearchKept
<1> QED
  BY <1>1, <1>2, <1>3, <1>4, <1>5 DEF SearchGoesOn

\* Locking nothing more is locking the empty set more.
LEMMA NothingLocked ==
    ASSUME TypeOK, NEW n \in Node, UNCHANGED held
    PROVE  held' = [held EXCEPT ![n] = @ \cup {}]
BY DEF TypeOK

\* Leaving the tables alone is writing back one of them.
LEMMA NothingWritten ==
    ASSUME TypeOK, NEW n \in Node, UNCHANGED table
    PROVE  set_table(n, table[n]) /\ table[n] \in Table /\ SearchKept(table[n], table[n])
BY DEF TypeOK, set_table, SearchKept

\* A handler that begins and ends no search, and locks nothing for good.
LEMMA QuietUnlocked ==
    ASSUME SearchInv, NEW n \in Node, NEW T, T = table[n],
           \E U : set_table(n, U) /\ SearchKept(T, U),
           UNCHANGED <<outgoing, sender>>, held' = [held EXCEPT ![n] = @ \cup {}]
    PROVE  SearchGoesOn(n)
<1>1. PICK U : set_table(n, U) /\ SearchKept(table[n], U)
  OBVIOUS
<1>2. PICK locked \in SUBSET Node : locked = {}
  OBVIOUS
<1>3. held' = [held EXCEPT ![n] = @ \cup locked] /\ \A d \in locked : U[d] # NoEntry
  BY <1>2
<1> QED
  BY <1>1, <1>3, QuietStep

LEMMA RecvRreqSearch ==
    ASSUME SearchInv, NEW n \in Node, NEW m \in rreqs, recv_rreq(n, m)
    PROVE  SearchGoesOn(n)
<1>1. TypeOK /\ m \in Rreq
  BY DEF SearchInv, TypeOK
<1>2. PICK s, d \in Node, f \in Addr : s = m.src /\ d = m.dest /\ f = m.from /\ f \in Node
  BY <1>1 DEF Rreq, Addr
<1>3. PICK T, H, R \in Table :
         /\ T = table[n] /\ H = after_hop(n, m) /\ R = after_reverse(n, m)
         /\ HopTaken(T, H, f) /\ RouteRenewed(H, R, s, m.src_seq, m.from)
  BY <1>1, <1>2, RreqTables
<1>4. SearchKept(T, T) /\ SearchKept(T, H) /\ SearchKept(H, R) /\ R[s] # NoEntry
  <2>1. SearchKept(T, T)
    BY <1>2, SearchKeepers
  <2>2. SearchKept(T, H)
    BY <1>2, <1>3, SearchKeepers
  <2>3. SearchKept(H, R)
    BY <1>2, <1>3, SearchKeepers
  <2>4. R[s] # NoEntry
    BY <1>3, NoEntryAssumption DEF RouteRenewed
  <2> QED
    BY <2>1, <2>2, <2>3, <2>4
<1>5. SearchKept(T, R)
  BY <1>4, SearchKeptTransitive
<1>6. UNCHANGED <<outgoing, sender>>
  BY DEF recv_rreq, rreq_ignored, rreq_at_destination, rreq_answered, rreq_flooded,
         rreq_blocked
<1>7. held' = [held EXCEPT ![n] = @ \cup {}]
  BY <1>1, NothingLocked DEF recv_rreq, rreq_ignored, rreq_at_destination,
     rreq_answered, rreq_flooded, rreq_blocked, locks, hangs
<1>8. \E U : set_table(n, U) /\ SearchKept(T, U)
  <2>1. PICK seen \in BOOLEAN :
           \/ rreq_ignored(n, m, seen)
           \/ rreq_at_destination(n, m, seen)
           \/ rreq_answered(n, m, seen)
           \/ rreq_flooded(n, m, seen)
           \/ rreq_blocked(n, m, seen)
    BY DEF recv_rreq
  <2>2. CASE rreq_ignored(n, m, seen)
    BY <1>3, <1>4, <2>2 DEF rreq_ignored
  <2>3. CASE rreq_at_destination(n, m, seen)
    <3>1. PICK A \in Table : /\ A = activate(R, s)
                             /\ RouteKept(R, A, s) /\ A[s].rreq_search = R[s].rreq_search
      BY <1>4, ActivateEffect DEF RouteKept
    <3>2. SearchKept(T, A)
      BY <1>4, <1>5, <3>1, SearchKeepers, SearchKeptTransitive
    <3> QED
      BY <1>2, <1>3, <2>3, <3>1, <3>2 DEF rreq_at_destination
  <2>4. CASE rreq_answered(n, m, seen)
    <3>1. R[d] # NoEntry
      BY <1>2, <1>3, <2>4 DEF rreq_answered, can_answer, Valid, get_routing_entry
    <3>2. PICK hop \in Addr : hop = R[d].next_hop
      BY <3>1, EntryOrNone DEF Entry
    <3>3. PICK A \in Table : /\ A = add_precursor(R, d, f)
                             /\ RouteKept(R, A, d) /\ A[d].rreq_search = R[d].rreq_search
      BY <3>1, AddPrecursorEffect DEF RouteKept
    <3>4. SearchKept(R, A)
      BY <3>1, <3>3, SearchKeepers
    <3>5. A[s] # NoEntry
      BY <1>4, <3>4 DEF SearchKept
    <3>6. PICK B \in Table : /\ B = add_precursor(A, s, hop)
                             /\ RouteKept(A, B, s) /\ B[s].rreq_search = A[s].rreq_search
      BY <3>5, AddPrecursorEffect DEF RouteKept
    <3>7. SearchKept(A, B)
      BY <3>5, <3>6, SearchKeepers
    <3>8. SearchKept(T, B)
      BY <1>5, <3>4, <3>7, SearchKeptTransitive
    <3> QED
      BY <1>2, <1>3, <2>4, <3>2, <3>3, <3>6, <3>8 DEF rreq_answered
  <2>5. CASE rreq_flooded(n, m, seen)
    BY <1>3, <1>5, <2>5 DEF rreq_flooded
  <2>6. CASE rreq_blocked(n, m, seen)
    <3>1. UNCHANGED table \/ set_table(n, H) \/ set_table(n, R)
      BY <1>3, <2>6 DEF rreq_blocked
    <3> QED
      BY <1>1, <1>3, <1>4, <1>5, <3>1, NothingWritten
  <2> QED
    BY <2>1, <2>2, <2>3, <2>4, <2>5, <2>6
<1> QED
  BY <1>3, <1>6, <1>7, <1>8, QuietUnlocked

\* A step of one node that may begin or end a search there: what the table, the
\* callback and the thread of n become.
SearchStepOf(n, U, o, s) ==
    /\ set_table(n, U)
    /\ outgoing' = [outgoing EXCEPT ![n] = o]
    /\ sender' = [sender EXCEPT ![n] = s]
    /\ NodeSearch(U, o, s)
    /\ s.stage # "none" => /\ s.dest \in Node \ {n}
                           /\ s.stage = "sending" => s.ttl >= 1
    /\ \A d \in Node : d \in held[n] /\ table[n][d] # NoEntry => U[d] # NoEntry
    /\ FailsInThread(n, U)
    /\ held' = held

LEMMA SearchStep ==
    ASSUME SearchInv, NEW n \in Node, NEW U, NEW o, NEW s, SearchStepOf(n, U, o, s)
    PROVE  SearchGoesOn(n)
<1>1. SearchHasThread'
  BY OneNodeSearch DEF SearchInv, set_table, SearchStepOf
<1>2. LockedStays'
  BY DEF SearchInv, LockedStays, TypeOK, set_table, SearchStepOf
<1>3. SenderAimed'
  BY DEF SearchInv, SenderAimed, TypeOK, SearchStepOf
<1>4. OnlyAt(n) /\ table'[n] = U
  BY DEF SearchInv, TypeOK, OnlyAt, set_table, SearchStepOf
<1> QED
  BY <1>1, <1>2, <1>3, <1>4 DEF SearchGoesOn, SearchStepOf

\* A RREP that ends the search for d ends its thread.
LEMMA FoundSearch ==
    ASSUME NEW T, NEW F, NEW U, NEW o, NEW s, NEW d \in Node,
           NodeSearch(T, o, s), T[d] # NoEntry,
           \A x \in Node \ {d} : F[x] = T[x],
           F[d] # NoEntry, F[d].rreq_search = "SEARCH_FOUND",
           SearchKept(F, U)
    PROVE  NodeSearch(U, o, IF s.dest = d THEN NoThread ELSE s)
<1>1. \A x \in Node : /\ T[x] # NoEntry => U[x] # NoEntry
                      /\ x # d => ((U[x] # NoEntry /\ U[x].rreq_search = "SEARCH_SEARCHING")
                            <=> (T[x] # NoEntry /\ T[x].rreq_search = "SEARCH_SEARCHING"))
  BY DEF SearchKept
<1>2. U[d].rreq_search = "SEARCH_FOUND"
  BY DEF SearchKept
<1>3. CASE s.dest = d
  <2>1. \A x \in Node : ~(U[x] # NoEntry /\ U[x].rreq_search = "SEARCH_SEARCHING")
    BY <1>1, <1>2, <1>3 DEF NodeSearch
  <2> QED
    BY <1>1, <1>3, <2>1 DEF NodeSearch, NoThread
<1>4. CASE s.dest # d
  BY <1>1, <1>2, <1>4 DEF NodeSearch
<1> QED
  BY <1>3, <1>4

\* A RREP handler that goes beyond the end of the search.
LEMMA RrepEndsSearch ==
    ASSUME SearchInv, NEW n \in Node, NEW m \in Rrep, NEW F, F = after_found(n, m),
           NEW U, set_table(n, U), SearchKept(F, U),
           cancel_found(n, m), UNCHANGED <<outgoing, held>>
    PROVE  SearchGoesOn(n)
<1>1. TypeOK /\ NodeSearch(table[n], outgoing[n], sender[n])
  BY SearchAtNode DEF SearchInv
<1>2. PICK d \in Node : d = m.dest
  BY DEF Rrep
<1>3. PICK T \in Table :
         /\ T = table[n]
         /\ ~search_ends(n, m) => F = T
         /\ search_ends(n, m) => /\ RouteKept(T, F, d)
                                 /\ F[d].rreq_search = "SEARCH_FOUND"
  BY <1>1, <1>2, RrepTables
<1>4. CASE ~search_ends(n, m)
  <2>1. UNCHANGED sender
    BY <1>4 DEF cancel_found
  <2>2. SearchKept(T, U) /\ set_table(n, U)
    BY <1>3, <1>4
  <2> QED
    BY <1>1, <1>3, <2>1, <2>2, QuietUnlocked, NothingLocked
<1>5. CASE search_ends(n, m)
  <2>1. T[d] # NoEntry
    BY <1>2, <1>3, <1>5 DEF search_ends
  <2>2. /\ \A x \in Node \ {d} : F[x] = T[x]
        /\ F[d] # NoEntry /\ F[d].rreq_search = "SEARCH_FOUND"
    BY <1>3, <1>5, NoEntryAssumption DEF RouteKept
  <2>3. PICK o, s : o = outgoing[n] /\ s = sender[n]
    OBVIOUS
  <2>4. PICK r : r = IF s.dest = d THEN NoThread ELSE s
    OBVIOUS
  <2>5. NodeSearch(U, o, r)
    BY <1>1, <1>3, <2>1, <2>2, <2>3, <2>4, FoundSearch
  <2>6. /\ sender' = [sender EXCEPT ![n] = r]
        /\ outgoing' = [outgoing EXCEPT ![n] = o]
    BY <1>1, <1>2, <1>5, <2>3, <2>4 DEF cancel_found, cancel_sender, TypeOK
  <2>7. r.stage # "none" => /\ r.dest \in Node \ {n}
                            /\ r.stage = "sending" => r.ttl >= 1
    BY <2>3, <2>4 DEF SearchInv, SenderAimed, NoThread
  <2>8. \A x \in Node : x \in held[n] /\ table[n][x] # NoEntry => U[x] # NoEntry
    BY <1>3, <2>2 DEF SearchKept
  <2>9. FailsInThread(n, U)
    BY <1>3, <2>1, <2>2 DEF FailsInThread, FailedMark, SearchKept
  <2>10. SearchStepOf(n, U, o, r)
    BY <2>5, <2>6, <2>7, <2>8, <2>9 DEF SearchStepOf
  <2> QED
    BY <2>10, SearchStep
<1> QED
  BY <1>4, <1>5

LEMMA RecvRrepSearch ==
    ASSUME SearchInv, NEW n \in Node, NEW m \in rreps, recv_rrep(n, m)
    PROVE  SearchGoesOn(n)
<1>1. TypeOK /\ m \in Rrep
  BY DEF SearchInv, TypeOK
<1>2. PICK d, f \in Node, seq \in Nat : d = m.dest /\ f = m.from /\ seq = m.dest_seq
  BY <1>1 DEF Rrep
<1>3. PICK T, F, H, R \in Table :
         /\ T = table[n] /\ F = after_found(n, m) /\ H = previous_hop(F, f)
         /\ R = after_forward(n, m)
         /\ ~search_ends(n, m) => F = T
         /\ HopTaken(F, H, f) /\ RouteRenewed(H, R, d, seq, f)
  BY <1>1, <1>2, RrepTables
<1>4. SearchKept(T, T) /\ SearchKept(F, F) /\ SearchKept(F, H) /\ SearchKept(H, R)
      /\ R[d] # NoEntry
  BY <1>3, SearchKeepers, NoEntryAssumption DEF RouteRenewed
<1>5. SearchKept(F, R)
  BY <1>4, SearchKeptTransitive
<1>6. UNCHANGED outgoing
  BY DEF recv_rrep
<1>7. CASE recv_hello(n, m)
  <2>1. PICK U \in Table : /\ U = hello_route(T, m)
                           /\ HelloTaken(T, U, d, seq, f)
    <3>1. m.hop_count \in Nat
      BY <1>1 DEF Rrep
    <3> QED
      BY <1>2, <3>1, HelloRouteEffect DEF HelloTaken
  <2>2. SearchKept(T, U)
    BY <2>1, SearchKeepers
  <2>3. held' = [held EXCEPT ![n] = @ \cup {}]
    BY <1>1, <1>7, NothingLocked DEF recv_hello, hangs, locks
  <2>4. UNCHANGED table \/ set_table(n, U)
    BY <1>3, <1>7, <2>1 DEF recv_hello
  <2>5. \E V : set_table(n, V) /\ SearchKept(T, V)
    BY <1>1, <1>3, <2>2, <2>4, NothingWritten
  <2> QED
    BY <1>3, <1>6, <1>7, <2>3, <2>5, QuietUnlocked DEF recv_hello
<1>8. CASE rrep_consumed(n, m)
  BY <1>1, <1>3, <1>5, <1>6, <1>8, RrepEndsSearch DEF rrep_consumed, rrep_installs, locks
<1>9. CASE rrep_forwarded(n, m)
  <2>1. PICK s \in Node : s = m.src /\ R[s] # NoEntry
    BY <1>1, <1>3, <1>9 DEF rrep_forwarded, rrep_installs, Addr, Rrep
  <2>2. PICK hop, back \in Addr : hop = R[d].next_hop /\ back = R[s].next_hop
    BY <1>4, <2>1, EntryOrNone DEF Entry
  <2>3. PICK A \in Table : /\ A = add_precursor(R, s, hop) /\ RouteKept(R, A, s)
                           /\ A[s].rreq_search = R[s].rreq_search
    BY <2>1, AddPrecursorEffect DEF RouteKept
  <2>4. SearchKept(R, A)
    BY <2>1, <2>3, SearchKeepers
  <2>5. A[d] # NoEntry
    BY <1>4, <2>4 DEF SearchKept
  <2>6. PICK B \in Table : /\ B = add_precursor(A, d, back) /\ RouteKept(A, B, d)
                           /\ B[d].rreq_search = A[d].rreq_search
    BY <2>5, AddPrecursorEffect DEF RouteKept
  <2>7. SearchKept(A, B)
    BY <2>5, <2>6, SearchKeepers
  <2>8. B[s] # NoEntry
    BY <2>1, <2>4, <2>7 DEF SearchKept
  <2>9. PICK C \in Table : /\ C = activate(B, s) /\ RouteKept(B, C, s)
                           /\ C[s].rreq_search = B[s].rreq_search
    BY <2>8, ActivateEffect DEF RouteKept
  <2>10. SearchKept(B, C)
    BY <2>8, <2>9, SearchKeepers
  <2>11. SearchKept(F, C)
    BY <1>5, <2>4, <2>7, <2>10, SearchKeptTransitive
  <2>12. set_table(n, C) /\ cancel_found(n, m) /\ UNCHANGED held
    BY <1>2, <1>3, <1>9, <2>1, <2>2, <2>3, <2>6, <2>9
       DEF rrep_forwarded, rrep_installs, locks
  <2> QED
    BY <1>1, <1>3, <1>6, <2>11, <2>12, RrepEndsSearch
<1>10. CASE rrep_blocked(n, m)
  <2>1. CASE m.src = n /\ m.dest \in held[n]
    <3>1. UNCHANGED <<table, sender>> /\ held' = [held EXCEPT ![n] = @ \cup {}]
      BY <1>10, <2>1 DEF rrep_blocked, hangs
    <3>2. \E U : set_table(n, U) /\ SearchKept(T, U)
      BY <1>1, <1>3, <3>1, NothingWritten
    <3> QED
      BY <1>3, <1>6, <3>1, <3>2, QuietUnlocked
  <2>2. CASE ~(m.src = n /\ m.dest \in held[n]) /\ m.from \in held[n]
    <3>1. /\ set_table(n, F) /\ cancel_found(n, m)
          /\ held' = [held EXCEPT ![n] = @ \cup {}]
      BY <1>3, <1>10, <2>2 DEF rrep_blocked, hangs
    <3>2. UNCHANGED held
      BY <1>1, <3>1 DEF TypeOK
    <3> QED
      BY <1>1, <1>3, <1>4, <1>6, <3>1, <3>2, RrepEndsSearch
  <2>3. CASE m.src # n /\ m.from \notin held[n]
    <3>1. F = T
      BY <1>3, <2>3 DEF search_ends
    <3>2. /\ UNCHANGED sender
          /\ \/ set_table(n, H) /\ held' = [held EXCEPT ![n] = @ \cup {}]
             \/ set_table(n, R) /\ held' = [held EXCEPT ![n] = @ \cup {d}]
      BY <1>2, <1>3, <1>10, <2>3, <3>1 DEF rrep_blocked, hangs
    <3>3. CASE set_table(n, H) /\ held' = [held EXCEPT ![n] = @ \cup {}]
      BY <1>3, <1>4, <1>6, <3>1, <3>2, <3>3, QuietUnlocked
    <3>4. CASE set_table(n, R) /\ held' = [held EXCEPT ![n] = @ \cup {d}]
      <4>1. PICK locked \in SUBSET Node : locked = {d}
        OBVIOUS
      <4>2. SearchKept(table[n], R)
        BY <1>3, <1>5, <3>1
      <4>3. /\ held' = [held EXCEPT ![n] = @ \cup locked]
            /\ \A x \in locked : R[x] # NoEntry
        BY <1>4, <3>4, <4>1
      <4>4. UNCHANGED <<outgoing, sender>>
        BY <1>6, <3>2
      <4> QED
        BY <3>4, <4>2, <4>3, <4>4, QuietStep
    <3> QED
      BY <3>2, <3>3, <3>4
  <2>4. m.src = n /\ m.dest \notin held[n] => m.from \in held[n]
    BY <1>10 DEF rrep_blocked
  <2> QED
    BY <2>1, <2>2, <2>3, <2>4
<1> QED
  BY <1>7, <1>8, <1>9, <1>10 DEF recv_rrep

\* An entry is replaced by one with the same search.
LEMMA SearchKeptByEntry ==
    ASSUME NEW T \in Table, NEW d \in Node, T[d] # NoEntry,
           NEW f \in Entry, f.rreq_search = T[d].rreq_search
    PROVE  \E U \in Table : /\ U = [T EXCEPT ![d] = f] /\ SearchKept(T, U)
                            /\ U[d] # NoEntry
<1>1. PICK U \in Table : /\ U = [T EXCEPT ![d] = f] /\ U[d] = f
                         /\ \A x \in Node \ {d} : U[x] = T[x]
  BY UpdateEffect
<1> QED
  BY <1>1, NoEntryAssumption DEF SearchKept

LEMMA RecvRerrSearch ==
    ASSUME SearchInv, NEW n \in Node, NEW m \in rerrs, recv_rerr(n, m)
    PROVE  SearchGoesOn(n)
<1>1. TypeOK /\ m \in Rerr
  BY DEF SearchInv, TypeOK
<1>2. PICK d \in Node, seq \in Nat : d = m.dest /\ seq = m.seq
  BY <1>1 DEF Rerr
<1>3. PICK T \in Table : T = table[n]
  BY <1>1 DEF TypeOK
<1>4. PICK e \in Entry : e = T[d] /\ e # NoEntry
  BY <1>2, <1>3, EntryOrNone DEF recv_rerr, Valid, get_routing_entry
<1>5. PICK f \in Entry : f = [e EXCEPT !.dest_seq = seq]
  BY DEF Entry
<1>6. f # NoEntry /\ f.rreq_search = e.rreq_search
  BY <1>5, NoEntryAssumption DEF Entry
<1>7. PICK U \in Table : /\ U = [T EXCEPT ![d] = f] /\ SearchKept(T, U)
                         /\ U[d] # NoEntry
  BY <1>4, <1>6, SearchKeptByEntry
<1>8. U = [table[n] EXCEPT ![m.dest].dest_seq = m.seq]
  BY <1>2, <1>3, <1>4, <1>5, <1>7 DEF Table
<1>10. SearchKept(T, invalidate(U, d))
  BY <1>7, TimersKeepSearch, SearchKeptTransitive
<1>11. UNCHANGED table \/ set_table(n, invalidate(U, d))
  BY <1>2, <1>8 DEF recv_rerr
<1>12. \E V : set_table(n, V) /\ SearchKept(T, V)
  BY <1>1, <1>3, <1>10, <1>11, NothingWritten
<1>13. UNCHANGED <<outgoing, sender>> /\ held' = [held EXCEPT ![n] = @ \cup {}]
  BY <1>1, NothingLocked DEF recv_rerr, hangs, locks
<1> QED
  BY <1>3, <1>12, <1>13, QuietUnlocked

\* Breaking a route keeps the searches.
LEMMA BeforeSearchKept ==
    ASSUME TypeOK, NEW n \in Node, NEW d \in Node
    PROVE  \E T, B \in Table : /\ T = table[n] /\ B = before_search(n, d)
                               /\ SearchKept(T, B)
<1>1. PICK T \in Table : T = table[n]
  BY DEF TypeOK
<1>2. established(n, d) => T[d] # NoEntry
  BY <1>1 DEF established, Valid, get_routing_entry
<1> QED
  BY <1>1, <1>2, TimersKeepSearch, SearchKeepers DEF before_search

LEMMA OutgoingSearch ==
    ASSUME SearchInv, NEW n \in Node, NEW d \in Node, outgoing_message(n, d)
    PROVE  SearchGoesOn(n)
<1>1. TypeOK /\ NodeSearch(table[n], outgoing[n], sender[n])
  BY SearchAtNode DEF SearchInv
<1>2. PICK T, B \in Table : T = table[n] /\ B = before_search(n, d) /\ SearchKept(T, B)
  BY <1>1, BeforeSearchKept
<1>3. CASE out_routed(n, d)
  <2>1. SearchKept(T, refresh(T, d))
    BY TimersKeepSearch
  <2>2. \E U : set_table(n, U) /\ SearchKept(T, U)
    BY <1>1, <1>2, <1>3, <2>1, NothingWritten DEF out_routed
  <2>3. UNCHANGED <<outgoing, sender>> /\ held' = [held EXCEPT ![n] = @ \cup {}]
    BY <1>1, <1>3, NothingLocked DEF out_routed, locks
  <2> QED
    BY <1>2, <2>2, <2>3, QuietUnlocked
<1>4. CASE out_dropped(n, d)
  <2>1. UNCHANGED <<outgoing, sender>> /\ held' = [held EXCEPT ![n] = @ \cup {}]
    BY <1>1, <1>4, NothingLocked DEF out_dropped, locks
  <2>2. \E U : set_table(n, U) /\ SearchKept(T, U)
    BY <1>2, <1>4 DEF out_dropped
  <2> QED
    BY <1>2, <2>1, <2>2, QuietUnlocked
<1>5. CASE out_searches(n, d)
  <2>1. PICK U \in Table : /\ U = start_search(B, d)
                           /\ \A x \in Node \ {d} : U[x] = B[x]
                           /\ U[d] # NoEntry /\ U[d].rreq_search = "SEARCH_SEARCHING"
    BY StartSearchEffect, NoEntryAssumption
  <2>2. PICK o, s : /\ o = [dest |-> d, freed |-> FALSE]
                    /\ s = [NoThread EXCEPT !.dest = d, !.stage = "created"]
    OBVIOUS
  <2>3. s.dest = d /\ s.stage = "created"
    BY <2>2 DEF NoThread
  <2>4. sender[n].stage = "none"
    <3>1. outgoing[n] = [dest |-> NoAddr, freed |-> FALSE]
      BY DEF outgoing_message, can_call, NoCall
    <3>2. sender[n].stage # "none" => sender[n].dest = NoAddr
      BY <1>1, <3>1 DEF NodeSearch
    <3> QED
      BY <3>2, AddressAssumption DEF SearchInv, SenderAimed
  <2>5. \A x \in Node : ~(T[x] # NoEntry /\ T[x].rreq_search = "SEARCH_SEARCHING")
    BY <1>1, <1>2, <2>4 DEF NodeSearch
  <2>6. \A x \in Node \ {d} : ~(U[x] # NoEntry /\ U[x].rreq_search = "SEARCH_SEARCHING")
    <3>1. ASSUME NEW x \in Node \ {d}, U[x] # NoEntry
          PROVE  U[x].rreq_search # "SEARCH_SEARCHING"
      <4>1. B[x] # NoEntry /\ U[x] = B[x]
        BY <2>1, <3>1
      <4>2. T[x] # NoEntry => B[x].rreq_search = T[x].rreq_search
        BY <1>2 DEF SearchKept
      <4>3. T[x] = NoEntry => B[x].rreq_search = "SEARCH_NONE"
        BY <1>2, <4>1 DEF SearchKept
      <4> QED
        BY <2>5, <4>1, <4>2, <4>3
    <3> QED
      BY <3>1
  <2>7. NodeSearch(U, o, s)
    BY <2>1, <2>2, <2>3, <2>6 DEF NodeSearch
  <2>8. d # n
    BY DEF outgoing_message, can_call
  <2>9. /\ set_table(n, U) /\ UNCHANGED held
        /\ outgoing' = [outgoing EXCEPT ![n] = o] /\ sender' = [sender EXCEPT ![n] = s]
    BY <1>2, <1>5, <2>1, <2>2 DEF out_searches, locks
  <2>10. \A x \in Node : x \in held[n] /\ table[n][x] # NoEntry => U[x] # NoEntry
    BY <1>2, <2>1 DEF SearchKept
  <2>11. s.stage # "none" => /\ s.dest \in Node \ {n}
                             /\ s.stage = "sending" => s.ttl >= 1
    BY <2>3, <2>8
  <2>12. FailsInThread(n, U)
    BY <1>2, <2>1 DEF FailsInThread, FailedMark, SearchKept
  <2>13. SearchStepOf(n, U, o, s)
    BY <2>7, <2>9, <2>10, <2>11, <2>12 DEF SearchStepOf
  <2> QED
    BY <2>13, SearchStep
<1>6. CASE out_blocked(n, d)
  <2>1. UNCHANGED <<outgoing, sender>> /\ held' = [held EXCEPT ![n] = @ \cup {}]
    BY <1>6 DEF out_blocked, hangs
  <2>2. PICK e \in Entry : e = T[d] /\ e # NoEntry
    BY <1>2, <1>6, EntryOrNone DEF out_blocked, SearchInv, LockedStays
  <2>3. PICK f \in Entry : f = [e EXCEPT !.expiration_thread = 0]
    BY DEF Entry
  <2>4. f # NoEntry /\ f.rreq_search = e.rreq_search
    BY <2>3, NoEntryAssumption DEF Entry
  <2>5. PICK U \in Table : U = [T EXCEPT ![d] = f] /\ SearchKept(T, U)
    BY <2>2, <2>4, SearchKeptByEntry
  <2>7. UNCHANGED table \/ table' = [table EXCEPT ![n][d].expiration_thread = 0]
    BY <1>6 DEF out_blocked
  <2>8. UNCHANGED table \/ set_table(n, U)
    BY <1>1, <1>2, <2>2, <2>3, <2>5, <2>7 DEF set_table, TypeOK, Table
  <2>9. \E V : set_table(n, V) /\ SearchKept(T, V)
    BY <1>1, <1>2, <2>5, <2>8, NothingWritten
  <2> QED
    BY <1>2, <2>1, <2>9, QuietUnlocked
<1> QED
  BY <1>3, <1>4, <1>5, <1>6 DEF outgoing_message

\* Where no thread searches and nothing is marked, the callback may go on.
LEMMA IdleSearch ==
    ASSUME NEW U, NEW s, s.stage = "none",
           \A x \in Node : U[x] # NoEntry => U[x].rreq_search # "SEARCH_SEARCHING"
    PROVE  NodeSearch(U, NoCall, s)
BY AddressAssumption DEF NodeSearch, NoCall

LEMMA ReturnsSearch ==
    ASSUME SearchInv, NEW n \in Node, send_rreq_returns(n) \/ freed_wait_returns(n)
    PROVE  SearchGoesOn(n)
<1>1. TypeOK /\ NodeSearch(table[n], outgoing[n], sender[n])
  BY SearchAtNode DEF SearchInv
<1>2. PICK T \in Table : T = table[n]
  BY <1>1 DEF TypeOK
<1>3. PICK s, o : s = sender[n] /\ o = NoCall
  OBVIOUS
<1>4. s.stage = "none"
  <2>1. CASE send_rreq_returns(n)
    <3>1. outgoing[n].dest # NoAddr /\ ~outgoing[n].freed
          /\ table[n][outgoing[n].dest].rreq_search # "SEARCH_SEARCHING"
      BY <2>1 DEF send_rreq_returns
    <3>2. s.stage # "none" => outgoing[n].dest = s.dest /\ s.dest \in Node
      BY <1>1, <1>3 DEF NodeSearch, SearchInv, SenderAimed
    <3> QED
      BY <1>1, <1>3, <3>1, <3>2 DEF NodeSearch
  <2>2. CASE freed_wait_returns(n)
    <3>1. s.stage # "none" => ~outgoing[n].freed
      BY <1>1, <1>3 DEF NodeSearch
    <3> QED
      BY <2>2, <3>1 DEF freed_wait_returns
  <2> QED
    BY <2>1, <2>2
<1>5. \A x \in Node : T[x] # NoEntry => T[x].rreq_search # "SEARCH_SEARCHING"
  BY <1>1, <1>2, <1>3, <1>4 DEF NodeSearch
<1>6. \E U : /\ set_table(n, U)
             /\ \A x \in Node : T[x] # NoEntry => U[x] # NoEntry
             /\ \A x \in Node : U[x] # NoEntry => U[x].rreq_search # "SEARCH_SEARCHING"
             /\ FailsInThread(n, U)
  <2>1. CASE send_rreq_returns(n)
    <3>1. PICK d \in Node : d = outgoing[n].dest /\ T[d] # NoEntry
      BY <1>1, <1>2, <2>1, PolledEntry, NoEntryAssumption DEF SearchInv, send_rreq_returns
    <3>2. SearchKept(T, refresh(T, d))
      BY TimersKeepSearch
    <3>3. PICK U \in Table : /\ U = set_search(T, d, "SEARCH_NONE")
                             /\ \A x \in Node \ {d} : U[x] = T[x]
                             /\ U[d] # NoEntry /\ U[d].rreq_search = "SEARCH_NONE"
      BY <3>1, SetSearchEffect, NoEntryAssumption DEF Outcomes, RouteKept
    <3>4. set_table(n, refresh(T, d)) \/ set_table(n, U)
      BY <1>2, <2>1, <3>1, <3>3 DEF send_rreq_returns
    <3>5. \A x \in Node : U[x] # NoEntry => U[x].rreq_search # "SEARCH_SEARCHING"
      BY <1>5, <3>3
    <3>6. \A x \in Node : T[x] # NoEntry => U[x] # NoEntry
      BY <3>3
    <3>7. PICK V : V = refresh(T, d) /\ SearchKept(T, V)
      BY <3>2
    <3>8. \A x \in Node : T[x] # NoEntry => V[x] # NoEntry
      BY <3>7 DEF SearchKept
    <3>9. \A x \in Node : V[x] # NoEntry => V[x].rreq_search # "SEARCH_SEARCHING"
      BY <1>5, <3>7 DEF SearchKept
    <3>10. FailsInThread(n, U)
      BY <1>2, <3>3 DEF FailsInThread, FailedMark
    <3>11. FailsInThread(n, V)
      BY <1>2, <3>7 DEF FailsInThread, FailedMark, SearchKept
    <3> QED
      BY <3>4, <3>5, <3>6, <3>7, <3>8, <3>9, <3>10, <3>11
  <2>2. CASE freed_wait_returns(n)
    <3>1. set_table(n, T)
      BY <1>1, <1>2, <2>2, NothingWritten DEF freed_wait_returns
    <3>2. FailsInThread(n, T)
      BY <1>2 DEF FailsInThread
    <3> QED
      BY <1>5, <3>1, <3>2
  <2> QED
    BY <2>1, <2>2
<1>7. PICK U : /\ set_table(n, U)
               /\ \A x \in Node : T[x] # NoEntry => U[x] # NoEntry
               /\ NodeSearch(U, o, s)
               /\ FailsInThread(n, U)
  BY <1>3, <1>4, <1>6, IdleSearch
<1>8. /\ UNCHANGED held
      /\ outgoing' = [outgoing EXCEPT ![n] = o] /\ sender' = [sender EXCEPT ![n] = s]
  BY <1>1, <1>3 DEF send_rreq_returns, freed_wait_returns, locks, TypeOK
<1>9. /\ \A x \in Node : x \in held[n] /\ table[n][x] # NoEntry => U[x] # NoEntry
      /\ s.stage # "none" => /\ s.dest \in Node \ {n}
                             /\ s.stage = "sending" => s.ttl >= 1
  BY <1>2, <1>4, <1>7
<1>10. SearchStepOf(n, U, o, s)
  BY <1>7, <1>8, <1>9 DEF SearchStepOf
<1> QED
  BY <1>10, SearchStep

\* A thread that goes on searching for the same destination.
LEMMA ThreadGoesOn ==
    ASSUME SearchInv, NEW n \in Node, NEW t, t = sender[n], t.stage # "none",
           NEW u, u.stage # "none", u.dest = t.dest,
           u.stage = "sending" => u.ttl >= 1,
           sender' = [sender EXCEPT ![n] = u], UNCHANGED <<table, outgoing, held>>
    PROVE  SearchGoesOn(n)
<1>1. TypeOK /\ NodeSearch(table[n], outgoing[n], t)
  BY SearchAtNode DEF SearchInv
<1>2. PICK T, o : T = table[n] /\ o = outgoing[n]
  OBVIOUS
<1>3. NodeSearch(T, o, u)
  BY <1>1, <1>2 DEF NodeSearch
<1>4. set_table(n, T) /\ outgoing' = [outgoing EXCEPT ![n] = o]
  BY <1>1, <1>2 DEF TypeOK, set_table
<1>5. u.dest \in Node \ {n}
  BY DEF SearchInv, SenderAimed
<1>6. FailsInThread(n, T)
  BY <1>2 DEF FailsInThread
<1>7. SearchStepOf(n, T, o, u)
  BY <1>2, <1>3, <1>4, <1>5, <1>6 DEF SearchStepOf
<1> QED
  BY <1>7, SearchStep

LEMMA SenderSearch ==
    ASSUME SearchInv, NEW n \in Node, send_rreq_thread(n)
    PROVE  SearchGoesOn(n)
<1>1. TypeOK /\ NodeSearch(table[n], outgoing[n], sender[n])
  BY SearchAtNode DEF SearchInv
<1>2. PICK t \in Thread : t = sender[n] /\ t.stage # "none"
  BY <1>1 DEF TypeOK, send_rreq_thread, rreq_thread_numbers, rreq_thread_reads,
         send_rreq_ring, send_rreq_full, send_rreq_fails, thread_is
<1>3. PICK d \in Node, T \in Table : d = t.dest /\ T = table[n] /\ T[d] \in Entry
  BY <1>1, <1>2, PolledEntry DEF SearchInv, TypeOK
<1>4. CASE rreq_thread_numbers(n)
  <2>1. PICK u : u = [t EXCEPT !.stage = "numbered", !.src_seq = sequence_num[n] + 1]
    OBVIOUS
  <2>2. u.stage = "numbered" /\ u.dest = t.dest
    BY <2>1 DEF Thread
  <2>3. sender' = [sender EXCEPT ![n] = u] /\ UNCHANGED <<table, outgoing, held>>
    BY <1>1, <1>2, <1>4, <2>1 DEF rreq_thread_numbers, TypeOK, locks
  <2> QED
    BY <1>2, <2>2, <2>3, ThreadGoesOn
<1>5. CASE rreq_thread_reads(n)
  <2>1. PICK ttl \in Nat : ttl = first_ttl(T[d].hop_count) /\ ttl >= 1
    <3>1. T[d].hop_count \in Nat
      BY <1>3 DEF Entry
    <3> QED
      BY <3>1, ParameterAssumption DEF first_ttl
  <2>2. PICK k, fl : sender' = [sender EXCEPT ![n].stage = "sending", ![n].dest_seq = k,
                                              ![n].flags = fl, ![n].ttl = ttl]
    BY <1>2, <1>3, <1>5, <2>1 DEF rreq_thread_reads
  <2>3. PICK u : u = [t EXCEPT !.stage = "sending", !.dest_seq = k,
                                !.flags = fl, !.ttl = ttl]
    OBVIOUS
  <2>4. u.stage = "sending" /\ u.dest = t.dest /\ u.ttl >= 1
    BY <2>1, <2>3 DEF Thread
  <2>5. sender' = [sender EXCEPT ![n] = u] /\ UNCHANGED <<table, outgoing, held>>
    BY <1>1, <1>2, <1>5, <2>2, <2>3 DEF rreq_thread_reads, TypeOK, locks
  <2> QED
    BY <1>2, <2>4, <2>5, ThreadGoesOn
<1>6. CASE send_rreq_ring(n)
  <2>1. t.stage = "sending" /\ t.ttl \in Nat /\ t.ttl >= 1
    BY <1>2, <1>6 DEF send_rreq_ring, thread_is, Thread, SearchInv, SenderAimed
  <2>2. PICK ttl \in Nat : ttl = t.ttl + TTL_INCREMENT /\ ttl >= 1
    BY <2>1, ParameterAssumption
  <2>3. PICK u : u = [t EXCEPT !.ttl = ttl]
    OBVIOUS
  <2>4. u.stage = "sending" /\ u.dest = t.dest /\ u.ttl >= 1
    BY <2>1, <2>2, <2>3 DEF Thread
  <2>5. sender' = [sender EXCEPT ![n] = u] /\ UNCHANGED <<table, outgoing, held>>
    BY <1>1, <1>2, <1>6, <2>2, <2>3
       DEF send_rreq_ring, broadcast_rreq, TypeOK, Thread, locks
  <2> QED
    BY <1>2, <2>4, <2>5, ThreadGoesOn
<1>7. CASE send_rreq_full(n)
  <2>1. t.stage = "sending" /\ t.ttl >= 1
    BY <1>2, <1>7 DEF send_rreq_full, thread_is, SearchInv, SenderAimed
  <2>2. PICK u : u = [t EXCEPT !.tries = t.tries + 1]
    OBVIOUS
  <2>3. u.stage = "sending" /\ u.dest = t.dest /\ u.ttl >= 1
    BY <2>1, <2>2 DEF Thread
  <2>4. sender' = [sender EXCEPT ![n] = u] /\ UNCHANGED <<table, outgoing, held>>
    BY <1>1, <1>2, <1>7, <2>2 DEF send_rreq_full, broadcast_rreq, TypeOK, Thread, locks
  <2> QED
    BY <1>2, <2>3, <2>4, ThreadGoesOn
<1>8. CASE send_rreq_fails(n)
  <2>1. PICK U \in Table : /\ U = set_search(T, d, "SEARCH_FAILED")
                           /\ \A x \in Node \ {d} : U[x] = T[x]
                           /\ U[d] # NoEntry /\ U[d].rreq_search = "SEARCH_FAILED"
    BY <1>3, SetSearchEffect, NoEntryAssumption DEF Outcomes, RouteKept
  <2>2. PICK V \in Table : V = refresh(U, d) /\ SearchKept(U, V)
    BY TimersKeepSearch
  <2>3. set_table(n, V)
    BY <1>2, <1>3, <1>8, <2>1, <2>2 DEF send_rreq_fails, after_failure
  <2>4. PICK o, s : o = outgoing[n] /\ s = NoThread
    OBVIOUS
  <2>5. /\ outgoing' = [outgoing EXCEPT ![n] = o] /\ UNCHANGED held
        /\ sender' = [sender EXCEPT ![n] = s]
    BY <1>1, <1>8, <2>4 DEF send_rreq_fails, TypeOK, locks
  <2>6. \A x \in Node : T[x] # NoEntry => V[x] # NoEntry
    BY <2>1, <2>2 DEF SearchKept
  <2>7. NodeSearch(V, o, s)
    <3>1. \A x \in Node \ {d} : ~(T[x] # NoEntry /\ T[x].rreq_search = "SEARCH_SEARCHING")
      BY <1>1, <1>2, <1>3 DEF NodeSearch
    <3>2. \A x \in Node : ~(U[x] # NoEntry /\ U[x].rreq_search = "SEARCH_SEARCHING")
      BY <2>1, <3>1
    <3>3. \A x \in Node : ~(V[x] # NoEntry /\ V[x].rreq_search = "SEARCH_SEARCHING")
      BY <2>2, <3>2 DEF SearchKept
    <3> QED
      BY <1>1, <1>3, <2>4, <2>6, <3>3 DEF NodeSearch, NoThread
  <2>8. s.stage = "none"
    BY <2>4 DEF NoThread
  <2>9. /\ \A x \in Node : x \in held[n] /\ table[n][x] # NoEntry => V[x] # NoEntry
        /\ s.stage # "none" => /\ s.dest \in Node \ {n}
                               /\ s.stage = "sending" => s.ttl >= 1
    BY <1>3, <2>6, <2>8
  <2>10. FailsInThread(n, V)
    BY <1>2, <1>3, <1>8, <2>1, <2>2 DEF FailsInThread, FailedMark, SearchKept
  <2>11. SearchStepOf(n, V, o, s)
    BY <2>3, <2>5, <2>7, <2>9, <2>10 DEF SearchStepOf
  <2> QED
    BY <2>11, SearchStep
<1> QED
  BY <1>4, <1>5, <1>6, <1>7, <1>8 DEF send_rreq_thread

LEMMA ForwardedSearch ==
    ASSUME SearchInv, NEW n \in Node, NEW p \in packets, forwarded_messages(n, p)
    PROVE  SearchGoesOn(n)
<1>1. TypeOK /\ p \in Packet
  BY DEF SearchInv, TypeOK
<1>2. PICK d, s \in Node, T \in Table : d = p.dest /\ s = p.src /\ T = table[n]
  BY <1>1 DEF Packet, TypeOK
<1>3. UNCHANGED <<outgoing, sender>>
  BY DEF forwarded_messages
<1>4. CASE fwd_accepted(n, p)
  <2>1. PICK U \in Table : U = refresh(T, d) /\ SearchKept(T, U)
    BY TimersKeepSearch
  <2>2. PICK V \in Table : V = refresh(U, s) /\ SearchKept(U, V)
    BY TimersKeepSearch
  <2>3. SearchKept(T, V)
    BY <2>1, <2>2, SearchKeptTransitive
  <2>4. set_table(n, V) /\ held' = [held EXCEPT ![n] = @ \cup {}]
    BY <1>1, <1>2, <1>4, <2>1, <2>2, NothingLocked DEF fwd_accepted, locks
  <2> QED
    BY <1>2, <1>3, <2>3, <2>4, QuietUnlocked
<1>5. CASE ~fwd_accepted(n, p)
  \* Nothing is written. What is locked for good are entries of the table.
  <2>1. UNCHANGED table
    BY <1>5 DEF forwarded_messages, fwd_unknown, fwd_unreachable, fwd_broken, fwd_blocked
  <2>3. \E locked \in SUBSET Node : /\ \A x \in locked : T[x] # NoEntry
                                    /\ held' = [held EXCEPT ![n] = @ \cup locked]
    <3>1. held' = [held EXCEPT ![n] = @ \cup {}] \/ UNCHANGED held =>
             \E locked \in SUBSET Node : /\ \A x \in locked : T[x] # NoEntry
                                         /\ held' = [held EXCEPT ![n] = @ \cup locked]
      <4>1. PICK locked \in SUBSET Node : locked = {}
        OBVIOUS
      <4> QED
        BY <1>1, <4>1, NothingLocked
    <3>2. PICK hop : hop = next_hop_of(n, d)
      OBVIOUS
    <3>3. get_routing_entry(table[n], hop) # NoEntry => hop \in Node /\ T[hop] # NoEntry
      BY <1>2 DEF get_routing_entry
    <3>4. CASE fwd_unknown(n, p)
      BY <3>1, <3>4 DEF fwd_unknown, locks
    <3>5. CASE fwd_unreachable(n, p)
      <4>1. \/ UNCHANGED held
            \/ /\ held' = [held EXCEPT ![n] = @ \cup {hop}]
               /\ get_routing_entry(table[n], hop) # NoEntry
        BY <1>2, <3>2, <3>5 DEF fwd_unreachable
      <4> QED
        BY <3>1, <3>3, <4>1
    <3>6. CASE fwd_broken(n, p)
      <4>1. /\ held' = [held EXCEPT ![n] = @ \cup {d, hop}]
            /\ get_routing_entry(table[n], hop) # NoEntry /\ T[d] # NoEntry
        BY <1>2, <3>2, <3>6 DEF fwd_broken, hangs, Valid, get_routing_entry
      <4>2. PICK locked \in SUBSET Node : locked = {d, hop}
        BY <3>3, <4>1
      <4> QED
        BY <3>3, <4>1, <4>2
    <3>7. CASE fwd_blocked(n, p)
      <4>1. /\ T[d] # NoEntry
            /\ \/ held' = [held EXCEPT ![n] = @ \cup {}]
               \/ held' = [held EXCEPT ![n] = @ \cup {d}]
        BY <1>2, <3>7 DEF fwd_blocked, hangs
      <4> QED
        BY <3>1, <4>1
    <3> QED
      BY <1>5, <3>4, <3>5, <3>6, <3>7 DEF forwarded_messages
  <2>4. PICK locked \in SUBSET Node : /\ \A x \in locked : T[x] # NoEntry
                                      /\ held' = [held EXCEPT ![n] = @ \cup locked]
    BY <2>3
  <2>5. LockedStays'
    BY <1>1, <1>2, <2>1, <2>4 DEF SearchInv, LockedStays, TypeOK
  <2>6. SearchHasThread' /\ SenderAimed'
    BY <1>3, <2>1 DEF SearchInv, SearchHasThread, waits_for, SenderAimed
  <2>7. OnlyAt(n) /\ FailsInThread(n, table'[n])
    BY <1>3, <2>1 DEF OnlyAt, FailsInThread
  <2> QED
    BY <2>5, <2>6, <2>7 DEF SearchGoesOn
<1> QED
  BY <1>4, <1>5

LEMMA IncomingSearch ==
    ASSUME SearchInv, NEW n \in Node, NEW p \in packets, incoming_data_message(n, p)
    PROVE  SearchGoesOn(n)
<1>1. TypeOK /\ p \in Packet
  BY DEF SearchInv, TypeOK
<1>2. PICK s \in Node, T \in Table : s = p.src /\ T = table[n]
  BY <1>1 DEF Packet, TypeOK
<1>3. SearchKept(T, refresh(T, s))
  BY TimersKeepSearch
<1>4. UNCHANGED table \/ set_table(n, refresh(T, s))
  BY <1>2 DEF incoming_data_message
<1>5. \E U : set_table(n, U) /\ SearchKept(T, U)
  BY <1>1, <1>2, <1>3, <1>4, NothingWritten
<1>6. UNCHANGED <<outgoing, sender>> /\ held' = [held EXCEPT ![n] = @ \cup {}]
  BY <1>1, NothingLocked DEF incoming_data_message, hangs, locks
<1> QED
  BY <1>2, <1>5, <1>6, QuietUnlocked

\* The deletion of an entry ends its search and tells the callback, and it keeps
\* the entries that are locked for good.
LEMMA TimersSearch ==
    ASSUME SearchInv, NEW n \in Node, NEW d \in Node,
           route_expires(n, d) \/ entry_deleted(n, d) \/ rreq_id_forgotten(n, d)
    PROVE  SearchGoesOn(n)
<1>1. TypeOK /\ NodeSearch(table[n], outgoing[n], sender[n])
  BY SearchAtNode DEF SearchInv
<1>2. PICK T \in Table : T = table[n] /\ T[d] # NoEntry
  BY <1>1 DEF TypeOK, route_expires, entry_deleted, rreq_id_forgotten, fires
<1>3. CASE route_expires(n, d)
  <2>1. SearchKept(T, invalidate(T, d))
    BY <1>2, TimersKeepSearch
  <2>2. /\ set_table(n, invalidate(T, d)) /\ UNCHANGED <<outgoing, sender>>
        /\ held' = [held EXCEPT ![n] = @ \cup {}]
    BY <1>1, <1>2, <1>3, NothingLocked DEF route_expires, locks
  <2> QED
    BY <1>2, <2>1, <2>2, QuietUnlocked
<1>4. CASE entry_deleted(n, d)
  <2>1. PICK U \in Table : /\ U = [T EXCEPT ![d] = NoEntry] /\ U[d] = NoEntry
                           /\ \A x \in Node \ {d} : U[x] = T[x]
    BY UpdateEffect
  <2>2. PICK o \in Call, s \in Thread : o = outgoing[n] /\ s = sender[n]
    BY <1>1 DEF TypeOK
  <2>3. PICK b \in BOOLEAN : b = (o.freed \/ o.dest = d)
    OBVIOUS
  <2>4. PICK c \in Call, r \in Thread : /\ c = [o EXCEPT !.freed = b]
                                        /\ r = IF s.dest = d THEN NoThread ELSE s
    BY DEF Call, Thread, NoThread, Addr
  <2>5. NodeSearch(U, c, r)
    <3>1. NodeSearch(T, o, s)
      BY <1>1, <1>2, <2>2
    <3>2. c.freed = b /\ c.dest = o.dest
      BY <2>4 DEF Call
    <3>3. ASSUME NEW x \in Node, c = [dest |-> x, freed |-> FALSE]
          PROVE  U[x] # NoEntry
      <4>1. o.dest = x /\ o.dest # d /\ o.freed = FALSE
        BY <2>3, <3>2, <3>3 DEF Call
      <4>2. o = [dest |-> x, freed |-> FALSE]
        BY <4>1 DEF Call
      <4> QED
        BY <2>1, <3>1, <4>1, <4>2 DEF NodeSearch
    <3>4. r.stage # "none" => c = [dest |-> r.dest, freed |-> FALSE]
      <4> SUFFICES ASSUME r.stage # "none"
                   PROVE  c = [dest |-> r.dest, freed |-> FALSE]
        OBVIOUS
      <4>1. r = s /\ s.dest # d
        BY <2>4 DEF NoThread
      <4>2. o.dest = s.dest /\ o.freed = FALSE
        BY <3>1, <4>1 DEF NodeSearch
      <4> QED
        BY <2>3, <3>2, <4>1, <4>2 DEF Call
    <3>5. \A x \in Node : (U[x] # NoEntry /\ U[x].rreq_search = "SEARCH_SEARCHING")
                              <=> (r.stage # "none" /\ r.dest = x)
      BY <2>1, <2>4, <3>1 DEF NodeSearch, NoThread
    <3> QED
      BY <3>3, <3>4, <3>5 DEF NodeSearch
  <2>6. set_table(n, U) /\ UNCHANGED held
    BY <1>1, <1>2, <1>4, <2>1 DEF entry_deleted, set_table, TypeOK, locks
  <2>7. sender' = [sender EXCEPT ![n] = r]
    BY <1>1, <1>4, <2>2, <2>3, <2>4 DEF entry_deleted, cancel_sender, TypeOK
  <2>8. outgoing' = [outgoing EXCEPT ![n] = c]
    BY <1>1, <1>4, <2>2, <2>3, <2>4 DEF entry_deleted, TypeOK, Call
  <2>9. r.stage # "none" => /\ r.dest \in Node \ {n}
                            /\ r.stage = "sending" => r.ttl >= 1
    BY <2>2, <2>3, <2>4 DEF SearchInv, SenderAimed, NoThread
  <2>10. \A x \in Node : x \in held[n] /\ table[n][x] # NoEntry => U[x] # NoEntry
    BY <1>2, <1>4, <2>1 DEF entry_deleted, fires
  <2>11. FailsInThread(n, U)
    BY <1>2, <2>1 DEF FailsInThread, FailedMark
  <2>12. SearchStepOf(n, U, c, r)
    BY <2>5, <2>6, <2>7, <2>8, <2>9, <2>10, <2>11 DEF SearchStepOf
  <2> QED
    BY <2>12, SearchStep
<1>5. CASE rreq_id_forgotten(n, d)
  <2>1. PICK e \in Entry : e = T[d]
    BY <1>2, EntryOrNone
  <2>2. PICK f \in Entry : f = [e EXCEPT !.rreq_id = 0, !.rreq_id_thread = 0]
    <3>1. [e EXCEPT !.rreq_id = 0] \in Entry
      BY DEF Entry
    <3> QED
      BY <3>1 DEF Entry
  <2>3. f.rreq_search = e.rreq_search
    BY <2>2 DEF Entry
  <2>4. PICK U \in Table : U = [T EXCEPT ![d] = f] /\ SearchKept(T, U)
    BY <1>2, <2>1, <2>3, SearchKeptByEntry
  <2>5. set_table(n, U)
    BY <1>2, <1>5, <2>1, <2>2, <2>4 DEF rreq_id_forgotten
  <2>6. /\ UNCHANGED <<outgoing, sender>>
        /\ held' = [held EXCEPT ![n] = @ \cup {}]
    BY <1>1, <1>5, NothingLocked DEF rreq_id_forgotten, locks
  <2> QED
    BY <1>2, <2>4, <2>5, <2>6, QuietUnlocked
<1> QED
  BY <1>3, <1>4, <1>5

\* What leaves the searches, the tables and the mutexes alone.
LEMMA ElsewhereSearch ==
    ASSUME SearchInv, UNCHANGED <<table, outgoing, sender, held>>
    PROVE  /\ LockedStays' /\ SearchHasThread' /\ SenderAimed'
           /\ \A n \in Node : SearchGoesOn(n)
<1>1. LockedStays' /\ SearchHasThread' /\ SenderAimed'
  BY DEF SearchInv, LockedStays, SearchHasThread, waits_for, SenderAimed
<1>2. \A n \in Node : OnlyAt(n) /\ FailsInThread(n, table'[n])
  BY DEF OnlyAt, FailsInThread
<1> QED
  BY <1>1, <1>2 DEF SearchGoesOn

\* At the start there is nothing to search for.
LEMMA SearchInit ==
    ASSUME Init
    PROVE  SearchInv
<1>1. EmptyTable \in Table
  BY DEF EmptyTable, Table
<1>2. NoThread \in Thread /\ NoCall \in Call
  BY DEF NoThread, Thread, NoCall, Call, Addr
<1>3. TypeOK
  BY <1>1, <1>2 DEF Init, TypeOK
<1>4. \A n \in Node : NodeSearch(table[n], outgoing[n], sender[n])
  BY AddressAssumption DEF Init, NodeSearch, EmptyTable, NoThread, NoCall
<1>5. SearchHasThread
  BY <1>4, SearchAtNode
<1>6. LockedStays /\ SenderAimed
  BY DEF Init, LockedStays, SenderAimed, NoThread
<1> QED
  BY <1>3, <1>5, <1>6 DEF SearchInv

\* The invariant is inductive.
LEMMA SearchNext ==
    ASSUME SearchInv, [Next]_vars
    PROVE  SearchInv'
<1>1. TypeOK'
  BY TypeStep DEF SearchInv
<1>2. CASE UNCHANGED vars
  BY <1>1, <1>2, ElsewhereSearch DEF vars, locks, SearchInv
<1>3. CASE Next
  <2>1. \A n \in Node : hello_wakes(n) \/ hello_sends(n)
                            => UNCHANGED <<table, outgoing, sender, held>>
    BY DEF hello_wakes, hello_sends, locks
  <2>2. \E n \in Node : SearchGoesOn(n)
    BY <1>3, <2>1, RecvRreqSearch, RecvRrepSearch, RecvRerrSearch, ForwardedSearch,
       IncomingSearch, ReturnsSearch, SenderSearch, OutgoingSearch, TimersSearch,
       ElsewhereSearch DEF Next
  <2> QED
    BY <1>1, <2>2 DEF SearchInv, SearchGoesOn
<1> QED
  BY <1>2, <1>3

\* Every reachable state has the types of the C declarations, whatever messages
\* are lost, repeated or reordered: no handler writes to an entry that is not
\* there and the active_routes count never goes below zero.
THEOREM TypeCorrect == Spec => []TypeOK
<1>1. Init => SearchInv
  BY SearchInit
<1>2. SearchInv /\ [Next]_vars => SearchInv'
  BY SearchNext
<1>3. SearchInv => TypeOK
  BY DEF SearchInv
<1> QED
  BY <1>1, <1>2, <1>3, PTL DEF Spec

\* An entry is marked SEARCH_SEARCHING exactly while a send_rreq_thread searches
\* for it and the outgoing callback polls it, in every network.
THEOREM SearchCorrect == Spec => []SearchHasThread
<1>1. Init => SearchInv
  BY SearchInit
<1>2. SearchInv /\ [Next]_vars => SearchInv'
  BY SearchNext
<1>3. SearchInv => SearchHasThread
  BY DEF SearchInv
<1> QED
  BY <1>1, <1>2, <1>3, PTL DEF Spec

\* An entry whose mutex a hung or careless handler never releases is never freed.
THEOREM LockedCorrect == Spec => []LockedStays
<1>1. Init => SearchInv
  BY SearchInit
<1>2. SearchInv /\ [Next]_vars => SearchInv'
  BY SearchNext
<1>3. SearchInv => LockedStays
  BY DEF SearchInv
<1> QED
  BY <1>1, <1>2, <1>3, PTL DEF Spec

-----------------------------------------------------------------------------
(* The network implements SearchContract: its initial states map to        *)
(* initial states of the contract, and every step of a node is one step of *)
(* the contract at that node, or none at all.                              *)
(*                                                                         *)
(* What a step does to the call and to the thread of a node (CallStep) and *)
(* that only the thread that gives up marks an entry as failed             *)
(* (SearchGoesOn) determine the step of the contract. The one fact that is *)
(* missing is that a thread has not flooded the network too often, for the *)
(* contract counts the floods (FloodsCounted).                             *)

\* The floods of the contract.
flood_count(n) == IF search_phase(n) = "searching" THEN sender[n].tries ELSE 0

\* A step of the contract at one node, from phase p with f floods to q with g.
Moves(p, f, q, g) ==
    \/ p = q /\ f = g
    \/ p = "idle" /\ q = "searching" /\ g = 0
    \/ p = "searching" /\ f <= RREQ_RETRIES /\ q = "searching" /\ g = f + 1
    \/ p = "searching" /\ f = RREQ_RETRIES + 1 /\ q = "failed" /\ g = 0
    \/ p \in {"searching", "failed"} /\ q = "found" /\ g = 0
    \/ p \in {"searching", "found", "failed"} /\ q = "lost" /\ g = 0
    \/ p \in {"found", "failed", "lost"} /\ q = "idle" /\ g = 0

\* A step at one node is a step of the contract.
LEMMA ContractStep ==
    ASSUME NEW n \in Node,
           \A x \in Node \ {n} : /\ search_phase(x)' = search_phase(x)
                                 /\ flood_count(x)' = flood_count(x),
           Moves(search_phase(n), flood_count(n), search_phase(n)', flood_count(n)')
    PROVE  [Contract!Next]_(Contract!vars)
<1>1. PICK P, F, Q, G : /\ P = [x \in Node |-> search_phase(x)]
                        /\ F = [x \in Node |-> flood_count(x)]
                        /\ Q = [x \in Node |-> search_phase(x)']
                        /\ G = [x \in Node |-> flood_count(x)']
  OBVIOUS
<1>2. PICK p, f, q, g : /\ p = search_phase(n) /\ f = flood_count(n)
                        /\ q = search_phase(n)' /\ g = flood_count(n)'
  OBVIOUS
<1>3. P[n] = p /\ F[n] = f /\ Q = [P EXCEPT ![n] = q] /\ G = [F EXCEPT ![n] = g]
  BY <1>1, <1>2
<1>4. CASE p = q /\ f = g
  <2>1. P = Q /\ F = G
    BY <1>1, <1>3, <1>4
  <2> QED
    BY <1>1, <2>1 DEF Contract!vars, flood_count
<1>5. CASE p = "idle" /\ q = "searching" /\ g = 0
  <2>1. Contract!Ask(n)
    BY <1>1, <1>3, <1>5 DEF Contract!Ask, Contract!Becomes, flood_count
  <2> QED
    BY <2>1 DEF Contract!Next
<1>6. CASE p = "searching" /\ f <= RREQ_RETRIES /\ q = "searching" /\ g = f + 1
  <2>1. Contract!Flood(n)
    BY <1>1, <1>3, <1>6 DEF Contract!Flood, Contract!Becomes, flood_count
  <2> QED
    BY <2>1 DEF Contract!Next
<1>7. CASE p = "searching" /\ f = RREQ_RETRIES + 1 /\ q = "failed" /\ g = 0
  <2>1. Contract!GiveUp(n)
    BY <1>1, <1>3, <1>7 DEF Contract!GiveUp, Contract!Becomes, flood_count
  <2> QED
    BY <2>1 DEF Contract!Next
<1>8. CASE p \in {"searching", "failed"} /\ q = "found" /\ g = 0
  <2>1. Contract!Answer(n)
    BY <1>1, <1>3, <1>8 DEF Contract!Answer, Contract!Becomes, flood_count
  <2> QED
    BY <2>1 DEF Contract!Next
<1>9. CASE p \in {"searching", "found", "failed"} /\ q = "lost" /\ g = 0
  <2>1. Contract!Lose(n)
    BY <1>1, <1>3, <1>9 DEF Contract!Lose, Contract!Becomes, flood_count
  <2> QED
    BY <2>1 DEF Contract!Next
<1>10. CASE p \in {"found", "failed", "lost"} /\ q = "idle" /\ g = 0
  <2>1. Contract!Return(n)
    BY <1>1, <1>3, <1>10 DEF Contract!Return, Contract!Becomes, flood_count
  <2> QED
    BY <2>1 DEF Contract!Next
<1> QED
  BY <1>2, <1>4, <1>5, <1>6, <1>7, <1>8, <1>9, <1>10 DEF Moves

-----------------------------------------------------------------------------
(* The phase that the contract sees.                                       *)

\* search_phase, of the table and the call of a node.
PhaseIn(T, o) ==
    IF o.dest = NoAddr THEN "idle"
    ELSE IF o.freed THEN "lost"
    ELSE IF T[o.dest].rreq_search = "SEARCH_SEARCHING" THEN "searching"
    ELSE IF T[o.dest].rreq_search = "SEARCH_FAILED" THEN "failed" ELSE "found"

LEMMA PhaseHere ==
    ASSUME NEW n \in Node
    PROVE  /\ search_phase(n) = PhaseIn(table[n], outgoing[n])
           /\ search_phase(n)' = PhaseIn(table'[n], outgoing'[n])
BY DEF search_phase, PhaseIn

\* The callback waits for the search of an entry that was not freed.
Polls(o) == o.dest # NoAddr /\ ~o.freed

\* The phase tells whether the thread runs, and the mark why it does not.
LEMMA PhaseOfThread ==
    ASSUME NEW T, NEW o \in Call, NEW s, NodeSearch(T, o, s), s.stage # "none" => s.dest \in Node
    PROVE  /\ s.stage # "none" => Polls(o) /\ PhaseIn(T, o) = "searching"
           /\ s.stage = "none" /\ Polls(o) =>
                 /\ o.dest \in Node
                 /\ FailedMark(T[o.dest]) => PhaseIn(T, o) = "failed"
                 /\ ~FailedMark(T[o.dest]) => PhaseIn(T, o) = "found"
<1>1. ASSUME s.stage # "none"
      PROVE  Polls(o) /\ PhaseIn(T, o) = "searching"
  <2>1. PICK d \in Node : d = s.dest /\ o.dest = d /\ o.freed = FALSE
    BY <1>1 DEF NodeSearch
  <2>2. d # NoAddr
    BY AddressAssumption
  <2>3. T[d].rreq_search = "SEARCH_SEARCHING"
    BY <1>1, <2>1 DEF NodeSearch
  <2> QED
    BY <2>1, <2>2, <2>3 DEF Polls, PhaseIn
<1>2. ASSUME s.stage = "none", Polls(o)
      PROVE  /\ o.dest \in Node
             /\ FailedMark(T[o.dest]) => PhaseIn(T, o) = "failed"
             /\ ~FailedMark(T[o.dest]) => PhaseIn(T, o) = "found"
  <2>1. PICK d \in Node : d = o.dest /\ o = [dest |-> d, freed |-> FALSE] /\ o.freed = FALSE
    BY <1>2 DEF Polls, Call, Addr
  <2>2. T[d] # NoEntry /\ T[d].rreq_search # "SEARCH_SEARCHING" /\ d # NoAddr
    BY <1>2, <2>1, AddressAssumption DEF NodeSearch
  <2> QED
    BY <2>1, <2>2 DEF FailedMark, PhaseIn
<1> QED
  BY <1>1, <1>2

-----------------------------------------------------------------------------
(* What a step does to the call o and the thread s of a node.              *)

\* The call is kept. The thread is kept, floods once more, or ends.
CallKept(o, s, c, r) ==
    /\ c = o
    /\ r.stage # "none" =>
          /\ s.stage # "none"
          /\ \/ r.tries = s.tries
             \/ s.tries <= RREQ_RETRIES /\ r.tries = s.tries + 1

CallBegins(o, s, c, r) == o.dest = NoAddr /\ r.stage # "none" /\ r.tries = 0

CallFreed(o, s, c, r) == o.dest # NoAddr /\ c.dest = o.dest /\ c.freed = TRUE

CallReturns(o, s, c, r) == s.stage = "none" /\ c = NoCall

CallStep(o, s, c, r) ==
    \/ CallKept(o, s, c, r)
    \/ CallBegins(o, s, c, r)
    \/ CallFreed(o, s, c, r)
    \/ CallReturns(o, s, c, r)

\* The floods of a thread that runs are at most those it may make.
Counted(s) == s.stage # "none" => s.tries \in Nat /\ s.tries <= RREQ_RETRIES + 1

CountIn(T, o, s) == IF PhaseIn(T, o) = "searching" THEN s.tries ELSE 0

\* The step is one of the contract, and the floods stay counted.
LEMMA MoveOfCall ==
    ASSUME NEW T, NEW U, NEW o \in Call, NEW c \in Call, NEW s, NEW r,
           NodeSearch(T, o, s), s.stage # "none" => s.dest \in Node,
           NodeSearch(U, c, r), r.stage # "none" => r.dest \in Node,
           Counted(s),
           \A d \in Node : FailedMark(U[d]) =>
               FailedMark(T[d]) \/ (s.stage # "none" /\ s.tries > RREQ_RETRIES),
           CallStep(o, s, c, r)
    PROVE  Moves(PhaseIn(T, o), CountIn(T, o, s), PhaseIn(U, c), CountIn(U, c, r)) /\ Counted(r)
<1>1. /\ s.stage # "none" => Polls(o) /\ PhaseIn(T, o) = "searching"
      /\ s.stage = "none" /\ Polls(o) =>
            /\ o.dest \in Node
            /\ FailedMark(T[o.dest]) => PhaseIn(T, o) = "failed"
            /\ ~FailedMark(T[o.dest]) => PhaseIn(T, o) = "found"
  BY PhaseOfThread
<1>2. /\ r.stage # "none" => Polls(c) /\ PhaseIn(U, c) = "searching"
      /\ r.stage = "none" /\ Polls(c) =>
            /\ c.dest \in Node
            /\ FailedMark(U[c.dest]) => PhaseIn(U, c) = "failed"
            /\ ~FailedMark(U[c.dest]) => PhaseIn(U, c) = "found"
  BY PhaseOfThread
<1>3. /\ o.dest = NoAddr => PhaseIn(T, o) = "idle"
      /\ o.dest # NoAddr /\ ~Polls(o) => PhaseIn(T, o) = "lost"
      /\ c.dest = NoAddr => PhaseIn(U, c) = "idle"
      /\ c.dest # NoAddr /\ ~Polls(c) => PhaseIn(U, c) = "lost"
  BY DEF PhaseIn, Polls
<1>4. RREQ_RETRIES \in Nat
  BY ParameterAssumption
<1>5. CASE CallKept(o, s, c, r)
  <2>1. CASE ~Polls(o)
    <3>1. PhaseIn(U, c) = PhaseIn(T, o) /\ s.stage = "none" /\ r.stage = "none"
      BY <1>1, <1>2, <1>3, <1>5, <2>1 DEF CallKept
    <3>2. CountIn(T, o, s) = 0 /\ CountIn(U, c, r) = 0
      BY <1>3, <1>5, <2>1, <3>1 DEF CountIn
    <3> QED
      BY <3>1, <3>2 DEF Moves, Counted
  <2>2. CASE Polls(o) /\ r.stage # "none"
    <3>1. /\ PhaseIn(T, o) = "searching" /\ PhaseIn(U, c) = "searching"
          /\ CountIn(T, o, s) = s.tries /\ CountIn(U, c, r) = r.tries
          /\ \/ r.tries = s.tries
             \/ s.tries <= RREQ_RETRIES /\ r.tries = s.tries + 1
          /\ s.tries \in Nat /\ s.tries <= RREQ_RETRIES + 1
      BY <1>1, <1>2, <1>5, <2>2 DEF CallKept, CountIn, Counted
    <3>2. r.tries \in Nat /\ r.tries <= RREQ_RETRIES + 1
      BY <1>4, <3>1
    <3> QED
      BY <3>1, <3>2 DEF Moves, Counted
  <2>3. CASE Polls(o) /\ r.stage = "none"
    <3>1. PICK d \in Node : d = o.dest /\ d = c.dest
      BY <1>2, <1>5, <2>3 DEF CallKept
    <3>2. CASE FailedMark(U[d])
      <4>1. PhaseIn(U, c) = "failed" /\ CountIn(U, c, r) = 0
        BY <1>2, <1>5, <2>3, <3>1, <3>2 DEF CallKept, CountIn
      <4>2. CASE s.stage # "none" /\ s.tries > RREQ_RETRIES
        <5>1. PhaseIn(T, o) = "searching" /\ CountIn(T, o, s) = s.tries
          BY <1>1, <4>2 DEF CountIn
        <5>2. s.tries = RREQ_RETRIES + 1
          BY <1>4, <4>2 DEF Counted
        <5> QED
          BY <2>3, <4>1, <5>1, <5>2 DEF Moves, Counted
      <4>3. CASE s.stage = "none" /\ FailedMark(T[d])
        <5>1. PhaseIn(T, o) = "failed" /\ CountIn(T, o, s) = 0
          BY <1>1, <2>3, <3>1, <4>3 DEF CountIn
        <5> QED
          BY <2>3, <4>1, <5>1 DEF Moves, Counted
      <4>4. FailedMark(T[d]) => s.stage = "none"
        <5>1. s.stage # "none" => s.dest = d
          <6> HAVE s.stage # "none"
          <6>1. PICK e \in Node : e = s.dest
            OBVIOUS
          <6>2. o = [dest |-> e, freed |-> FALSE]
            BY <6>1 DEF NodeSearch
          <6>3. o.dest = e
            BY <6>2
          <6> QED
            BY <3>1, <6>1, <6>3
        <5>2. s.stage # "none" => T[d].rreq_search = "SEARCH_SEARCHING"
          BY <5>1 DEF NodeSearch
        <5> QED
          BY <5>2 DEF FailedMark
      <4> QED
        BY <3>2, <4>2, <4>3, <4>4
    <3>3. CASE ~FailedMark(U[d])
      <4>1. PhaseIn(U, c) = "found" /\ CountIn(U, c, r) = 0
        BY <1>2, <1>5, <2>3, <3>1, <3>3 DEF CallKept, CountIn
      <4>2. \/ PhaseIn(T, o) = "searching"
            \/ PhaseIn(T, o) \in {"failed", "found"} /\ CountIn(T, o, s) = 0
        BY <1>1, <2>3 DEF CountIn
      <4> QED
        BY <2>3, <4>1, <4>2 DEF Moves, Counted
    <3> QED
      BY <3>2, <3>3
  <2> QED
    BY <2>1, <2>2, <2>3
<1>6. CASE CallBegins(o, s, c, r)
  <2>1. PhaseIn(T, o) = "idle" /\ PhaseIn(U, c) = "searching" /\ CountIn(U, c, r) = 0
    BY <1>2, <1>3, <1>6 DEF CallBegins, CountIn
  <2>2. Counted(r)
    BY <1>4, <1>6 DEF CallBegins, Counted
  <2> QED
    BY <2>1, <2>2 DEF Moves
<1>7. CASE CallFreed(o, s, c, r)
  <2>1. ~Polls(c) /\ c.dest # NoAddr
    BY <1>7 DEF CallFreed, Polls
  <2>2. PhaseIn(U, c) = "lost" /\ CountIn(U, c, r) = 0 /\ r.stage = "none"
    BY <1>2, <1>3, <2>1 DEF CountIn
  <2>3. \/ PhaseIn(T, o) = "lost" /\ CountIn(T, o, s) = 0
        \/ PhaseIn(T, o) \in {"searching", "found", "failed"}
    BY <1>1, <1>3, <1>7 DEF CallFreed, CountIn
  <2> QED
    BY <2>2, <2>3 DEF Moves, Counted
<1>8. CASE CallReturns(o, s, c, r)
  <2>1. c.dest = NoAddr
    BY <1>8 DEF CallReturns, NoCall
  <2>2. PhaseIn(U, c) = "idle" /\ CountIn(U, c, r) = 0 /\ r.stage = "none"
    BY <1>2, <1>3, <2>1 DEF CountIn, Polls
  <2>3. \/ PhaseIn(T, o) \in {"found", "failed", "lost"}
        \/ PhaseIn(T, o) = "idle" /\ CountIn(T, o, s) = 0
    BY <1>1, <1>3, <1>8 DEF CallReturns, CountIn
  <2> QED
    BY <2>2, <2>3 DEF Moves, Counted
<1> QED
  BY <1>5, <1>6, <1>7, <1>8 DEF CallStep

-----------------------------------------------------------------------------
(* Every step of a daemon is one of these.                                 *)

CallStepAt(n) == CallStep(outgoing[n], sender[n], outgoing'[n], sender'[n])

LEMMA CallUntouched ==
    ASSUME UNCHANGED <<outgoing, sender>>
    PROVE  \A n \in Node : CallStepAt(n)
BY DEF CallStepAt, CallStep, CallKept

\* The thread goes on, and may flood once more.
LEMMA ThreadKept ==
    ASSUME TypeOK, NEW n \in Node, NEW u, sender' = [sender EXCEPT ![n] = u], UNCHANGED outgoing,
           sender[n].stage # "none",
           \/ u.tries = sender[n].tries
           \/ sender[n].tries <= RREQ_RETRIES /\ u.tries = sender[n].tries + 1
    PROVE  CallStepAt(n)
<1>1. sender'[n] = u
  BY DEF TypeOK
<1> QED
  BY <1>1 DEF CallStepAt, CallStep, CallKept

\* The thread ends.
LEMMA ThreadEnds ==
    ASSUME TypeOK, NEW n \in Node, NEW d, UNCHANGED outgoing,
           sender' = [sender EXCEPT ![n] = NoThread] \/ cancel_sender(n, d)
    PROVE  CallStepAt(n)
<1>1. sender'[n] = NoThread \/ sender'[n] = sender[n]
  BY DEF TypeOK, cancel_sender
<1>2. NoThread.stage = "none"
  BY DEF NoThread
<1> QED
  BY <1>1, <1>2 DEF CallStepAt, CallStep, CallKept

LEMMA SenderCall ==
    ASSUME TypeOK, NEW n \in Node, send_rreq_thread(n)
    PROVE  CallStepAt(n)
<1>1. PICK t \in Thread : t = sender[n]
  BY DEF TypeOK
<1>2. UNCHANGED outgoing
  BY DEF send_rreq_thread, rreq_thread_numbers, rreq_thread_reads, send_rreq_ring,
         send_rreq_full, send_rreq_fails, broadcast_rreq
<1>3. CASE rreq_thread_numbers(n)
  <2>1. PICK u : u = [t EXCEPT !.stage = "numbered", !.src_seq = sequence_num[n] + 1]
    OBVIOUS
  <2>2. u.tries = t.tries
    BY <2>1 DEF Thread
  <2>3. sender' = [sender EXCEPT ![n] = u] /\ t.stage = "created"
    BY <1>1, <1>3, <2>1 DEF rreq_thread_numbers, thread_is, TypeOK
  <2> QED
    BY <1>1, <1>2, <2>2, <2>3, ThreadKept
<1>4. CASE rreq_thread_reads(n)
  <2>1. PICK k, f, ttl :
           sender' = [sender EXCEPT ![n].stage = "sending", ![n].dest_seq = k,
                                    ![n].flags = f, ![n].ttl = ttl]
    BY <1>4 DEF rreq_thread_reads
  <2>2. PICK u : u = [t EXCEPT !.stage = "sending", !.dest_seq = k, !.flags = f, !.ttl = ttl]
    OBVIOUS
  <2>3. u.tries = t.tries
    BY <2>2 DEF Thread
  <2>4. sender' = [sender EXCEPT ![n] = u]
    BY <1>1, <2>1, <2>2 DEF TypeOK
  <2>5. t.stage = "numbered"
    BY <1>1, <1>4 DEF rreq_thread_reads, thread_is
  <2> QED
    BY <1>1, <1>2, <2>3, <2>4, <2>5, ThreadKept
<1>5. CASE send_rreq_ring(n)
  <2>1. PICK u : u = [t EXCEPT !.ttl = @ + TTL_INCREMENT]
    OBVIOUS
  <2>2. u.tries = t.tries
    BY <2>1 DEF Thread
  <2>3. sender' = [sender EXCEPT ![n] = u] /\ t.stage = "sending"
    BY <1>1, <1>5, <2>1 DEF send_rreq_ring, thread_is, TypeOK
  <2> QED
    BY <1>1, <1>2, <2>2, <2>3, ThreadKept
<1>6. CASE send_rreq_full(n)
  <2>1. PICK u : u = [t EXCEPT !.tries = @ + 1]
    OBVIOUS
  <2>2. u.tries = t.tries + 1
    BY <2>1 DEF Thread
  <2>3. /\ sender' = [sender EXCEPT ![n] = u] /\ t.stage = "sending"
        /\ t.tries <= RREQ_RETRIES
    BY <1>1, <1>6, <2>1 DEF send_rreq_full, thread_is, TypeOK
  <2> QED
    BY <1>1, <1>2, <2>2, <2>3, ThreadKept
<1>7. CASE send_rreq_fails(n)
  BY <1>2, <1>7, ThreadEnds DEF send_rreq_fails
<1> QED
  BY <1>3, <1>4, <1>5, <1>6, <1>7 DEF send_rreq_thread

LEMMA RecvRrepCall ==
    ASSUME TypeOK, NEW n \in Node, NEW m \in rreps, recv_rrep(n, m)
    PROVE  CallStepAt(n)
<1>1. UNCHANGED outgoing
  BY DEF recv_rrep
<1>2. UNCHANGED sender \/ cancel_found(n, m)
  BY DEF recv_rrep, recv_hello, rrep_consumed, rrep_forwarded, rrep_installs, rrep_blocked
<1>3. UNCHANGED sender \/ cancel_sender(n, m.dest)
  BY <1>2 DEF cancel_found
<1> QED
  BY <1>1, <1>3, CallUntouched, ThreadEnds

LEMMA OutgoingCall ==
    ASSUME TypeOK, NEW n \in Node, NEW d \in Node, outgoing_message(n, d)
    PROVE  CallStepAt(n)
<1>1. CASE out_searches(n, d)
  <2>1. PICK t : t = [NoThread EXCEPT !.dest = d, !.stage = "created"]
    OBVIOUS
  <2>2. t.stage = "created" /\ t.tries = 0
    BY <2>1 DEF NoThread
  <2>3. sender'[n] = t /\ outgoing[n].dest = NoAddr
    BY <1>1, <2>1 DEF out_searches, outgoing_message, can_call, NoCall, TypeOK
  <2> QED
    BY <2>2, <2>3 DEF CallStepAt, CallStep, CallBegins
<1>2. CASE ~out_searches(n, d)
  <2>1. UNCHANGED <<outgoing, sender>>
    BY <1>2 DEF outgoing_message, out_routed, out_dropped, out_blocked
  <2> QED
    BY <2>1, CallUntouched
<1> QED
  BY <1>1, <1>2

LEMMA DeletedCall ==
    ASSUME TypeOK, NEW n \in Node, NEW d \in Node, entry_deleted(n, d)
    PROVE  CallStepAt(n)
<1>1. PICK o \in Call : o = outgoing[n]
  BY DEF TypeOK
<1>2. /\ outgoing' = [outgoing EXCEPT ![n] = [o EXCEPT !.freed = @ \/ o.dest = d]]
      /\ cancel_sender(n, d)
  BY <1>1 DEF entry_deleted, TypeOK
<1>3. CASE o.dest = d
  <2>1. outgoing'[n] = [o EXCEPT !.freed = TRUE]
    BY <1>2, <1>3 DEF TypeOK, Call
  <2>2. outgoing'[n].dest = o.dest /\ outgoing'[n].freed = TRUE
    BY <2>1 DEF Call
  <2>3. o.dest # NoAddr
    BY <1>3, AddressAssumption
  <2> QED
    BY <1>1, <2>2, <2>3 DEF CallStepAt, CallStep, CallFreed
<1>4. CASE o.dest # d
  <2>1. UNCHANGED outgoing
    BY <1>1, <1>2, <1>4 DEF TypeOK, Call
  <2> QED
    BY <1>2, <2>1, ThreadEnds
<1> QED
  BY <1>3, <1>4

LEMMA ReturnsCall ==
    ASSUME SearchInv, NEW n \in Node, send_rreq_returns(n) \/ freed_wait_returns(n)
    PROVE  CallStepAt(n)
<1>1. TypeOK /\ NodeSearch(table[n], outgoing[n], sender[n])
  BY SearchAtNode DEF SearchInv
<1>2. outgoing'[n] = NoCall
  BY <1>1 DEF send_rreq_returns, freed_wait_returns, TypeOK
<1>3. sender[n].stage # "none" =>
         /\ sender[n].dest \in Node /\ outgoing[n].dest = sender[n].dest
         /\ outgoing[n].freed = FALSE
         /\ table[n][sender[n].dest].rreq_search = "SEARCH_SEARCHING"
  BY <1>1 DEF NodeSearch, SearchInv, SenderAimed
<1>4. sender[n].stage = "none"
  BY <1>3 DEF send_rreq_returns, freed_wait_returns
<1> QED
  BY <1>2, <1>4 DEF CallStepAt, CallStep, CallReturns

\* The handlers that neither begin nor end a search.
LEMMA OtherCall ==
    ASSUME NEW n \in Node,
           \/ \E m \in rreqs : recv_rreq(n, m)
           \/ \E m \in rerrs : recv_rerr(n, m)
           \/ \E p \in packets : forwarded_messages(n, p)
           \/ \E p \in packets : incoming_data_message(n, p)
           \/ hello_wakes(n)
           \/ hello_sends(n)
           \/ \E d \in Node : route_expires(n, d) \/ rreq_id_forgotten(n, d)
    PROVE  CallStepAt(n)
<1>1. ASSUME NEW m \in rreqs, recv_rreq(n, m)
      PROVE  UNCHANGED <<outgoing, sender>>
  BY <1>1 DEF recv_rreq, rreq_ignored, rreq_at_destination, rreq_answered, rreq_flooded,
              rreq_blocked
<1>2. ASSUME NEW m \in rerrs, recv_rerr(n, m)
      PROVE  UNCHANGED <<outgoing, sender>>
  BY <1>2 DEF recv_rerr
<1>3. ASSUME NEW p \in packets, forwarded_messages(n, p) \/ incoming_data_message(n, p)
      PROVE  UNCHANGED <<outgoing, sender>>
  BY <1>3 DEF forwarded_messages, incoming_data_message
<1>4. ASSUME hello_wakes(n) \/ hello_sends(n)
      PROVE  UNCHANGED <<outgoing, sender>>
  BY <1>4 DEF hello_wakes, hello_sends
<1>5. ASSUME NEW d \in Node, route_expires(n, d) \/ rreq_id_forgotten(n, d)
      PROVE  UNCHANGED <<outgoing, sender>>
  BY <1>5 DEF route_expires, rreq_id_forgotten
<1> QED
  BY <1>1, <1>2, <1>3, <1>4, <1>5, CallUntouched

LEMMA NextCall ==
    ASSUME SearchInv, Next
    PROVE  \E n \in Node : SearchGoesOn(n) /\ CallStepAt(n)
<1>1. TypeOK
  BY DEF SearchInv
<1>2. \A n \in Node : hello_wakes(n) \/ hello_sends(n) => SearchGoesOn(n)
  BY ElsewhereSearch DEF hello_wakes, hello_sends, locks
<1>3. ASSUME NEW n \in Node,
             \/ \E m \in rreqs : recv_rreq(n, m)
             \/ \E m \in rreps : recv_rrep(n, m)
             \/ \E m \in rerrs : recv_rerr(n, m)
             \/ \E p \in packets : forwarded_messages(n, p)
             \/ \E p \in packets : incoming_data_message(n, p)
             \/ send_rreq_returns(n)
             \/ freed_wait_returns(n)
             \/ send_rreq_thread(n)
             \/ hello_wakes(n)
             \/ hello_sends(n)
      PROVE  SearchGoesOn(n) /\ CallStepAt(n)
  <2>1. SearchGoesOn(n)
    BY <1>2, <1>3, RecvRreqSearch, RecvRrepSearch, RecvRerrSearch, ForwardedSearch,
       IncomingSearch, ReturnsSearch, SenderSearch
  <2>2. CallStepAt(n)
    BY <1>1, <1>3, RecvRrepCall, ReturnsCall, SenderCall, OtherCall
  <2> QED
    BY <2>1, <2>2
<1>4. ASSUME NEW n \in Node, NEW d \in Node,
             \/ outgoing_message(n, d)
             \/ route_expires(n, d)
             \/ entry_deleted(n, d)
             \/ rreq_id_forgotten(n, d)
      PROVE  SearchGoesOn(n) /\ CallStepAt(n)
  <2>1. SearchGoesOn(n)
    BY <1>4, OutgoingSearch, TimersSearch
  <2>2. CallStepAt(n)
    BY <1>1, <1>4, OutgoingCall, DeletedCall, OtherCall
  <2> QED
    BY <2>1, <2>2
<1> QED
  BY <1>3, <1>4 DEF Next

-----------------------------------------------------------------------------
(* The refinement.                                                         *)

\* No thread floods the whole network more than RREQ_RETRIES + 1 times.
FloodsCounted == \A n \in Node : Counted(sender[n])

ContractInv == SearchInv /\ FloodsCounted

LEMMA ContractInit == Init => ContractInv /\ Contract!Init
<1> SUFFICES ASSUME Init PROVE ContractInv /\ Contract!Init
  OBVIOUS
<1>1. SearchInv
  BY SearchInit
<1>2. NoThread.stage = "none" /\ NoCall.dest = NoAddr
  BY DEF NoThread, NoCall
<1>3. FloodsCounted
  BY <1>2 DEF Init, FloodsCounted, Counted
<1>4. \A n \in Node : search_phase(n) = "idle"
  BY <1>2 DEF Init, search_phase
<1>5. Contract!Init
  BY <1>4 DEF Contract!Init
<1> QED
  BY <1>1, <1>3, <1>5 DEF ContractInv

\* A node at which nothing changes.
LEMMA SameNode ==
    ASSUME NEW x \in Node, table'[x] = table[x], outgoing'[x] = outgoing[x],
           sender'[x] = sender[x]
    PROVE  search_phase(x)' = search_phase(x) /\ flood_count(x)' = flood_count(x)
BY PhaseHere DEF flood_count

LEMMA ContractNext ==
    ASSUME ContractInv, [Next]_vars
    PROVE  ContractInv' /\ [Contract!Next]_(Contract!vars)
<1>1. SearchInv /\ TypeOK /\ FloodsCounted
  BY DEF ContractInv, SearchInv
<1>2. SearchInv' /\ TypeOK'
  BY <1>1, SearchNext DEF SearchInv
<1>3. CASE UNCHANGED vars
  <2>1. UNCHANGED <<table, outgoing, sender>>
    BY <1>3 DEF vars
  <2>2. \A x \in Node : search_phase(x)' = search_phase(x) /\ flood_count(x)' = flood_count(x)
    BY <2>1, SameNode
  <2>3. UNCHANGED Contract!vars
    BY <2>2 DEF Contract!vars, flood_count
  <2> QED
    BY <1>1, <1>2, <2>1, <2>3 DEF ContractInv, FloodsCounted
<1>4. CASE Next
  <2>1. PICK n \in Node : SearchGoesOn(n) /\ CallStepAt(n)
    BY <1>1, <1>4, NextCall
  <2>2. PICK T, U, s, r : /\ T = table[n] /\ U = table'[n]
                          /\ s = sender[n] /\ r = sender'[n]
    OBVIOUS
  <2>3. PICK o, c \in Call : o = outgoing[n] /\ c = outgoing'[n]
    BY <1>1, <1>2 DEF TypeOK
  <2>4. NodeSearch(T, o, s) /\ NodeSearch(U, c, r)
    BY <1>1, <1>2, <2>2, <2>3 DEF SearchInv, SearchHasThread, waits_for, NodeSearch
  <2>5. /\ s.stage # "none" => s.dest \in Node
        /\ r.stage # "none" => r.dest \in Node
    BY <1>1, <1>2, <2>2 DEF SearchInv, SenderAimed
  <2>6. \A d \in Node : FailedMark(U[d]) =>
            FailedMark(T[d]) \/ (s.stage # "none" /\ s.tries > RREQ_RETRIES)
    BY <2>1, <2>2 DEF SearchGoesOn, FailsInThread, send_rreq_fails, thread_is
  <2>7. CallStep(o, s, c, r) /\ Counted(s)
    BY <1>1, <2>1, <2>2, <2>3 DEF CallStepAt, FloodsCounted
  <2>8. Moves(PhaseIn(T, o), CountIn(T, o, s), PhaseIn(U, c), CountIn(U, c, r)) /\ Counted(r)
    BY <2>4, <2>5, <2>6, <2>7, MoveOfCall
  <2>9. /\ PhaseIn(T, o) = search_phase(n) /\ CountIn(T, o, s) = flood_count(n)
        /\ PhaseIn(U, c) = search_phase(n)' /\ CountIn(U, c, r) = flood_count(n)'
    BY <2>2, <2>3, PhaseHere DEF CountIn, flood_count
  <2>10. \A x \in Node \ {n} : /\ search_phase(x)' = search_phase(x)
                               /\ flood_count(x)' = flood_count(x)
    BY <2>1, SameNode DEF SearchGoesOn, OnlyAt
  <2>11. [Contract!Next]_(Contract!vars)
    BY <2>8, <2>9, <2>10, ContractStep
  <2>12. FloodsCounted'
    BY <1>1, <2>1, <2>2, <2>8 DEF FloodsCounted, SearchGoesOn, OnlyAt
  <2> QED
    BY <1>2, <2>11, <2>12 DEF ContractInv
<1> QED
  BY <1>3, <1>4

\* The callback, the entry and the send_rreq_thread of every daemon implement the
\* contract of send_rreq: a search fails only after RREQ_RETRIES + 1 floods, is
\* not restarted while it runs, and ends once, in every network.
THEOREM SearchRefines == Spec => ImplementsSearch
<1>1. Init => ContractInv /\ Contract!Init
  BY ContractInit
<1>2. ContractInv /\ [Next]_vars => ContractInv' /\ [Contract!Next]_(Contract!vars)
  BY ContractNext
<1> QED
  BY <1>1, <1>2, PTL DEF Spec, ImplementsSearch, Contract!Spec
=============================================================================
