----------------------------- MODULE RouteProofs -----------------------------
(***************************************************************************)
(* The routes of a daemon, in every network: whom they lead through, what  *)
(* the kernel has for them, which timer ends them and how fresh they are.  *)
(*                                                                         *)
(* TableStep and TimedStep say what a write to a table may do, whichever   *)
(* handler makes it; both are transitive, so that a handler which makes    *)
(* several writes is treated write by write. RouteChange(n) is the same of *)
(* a whole step of n. Every step is a RouteChange of some node, or leaves  *)
(* the routes alone; the theorems follow from that alone.                  *)
(***************************************************************************)
EXTENDS SearchProofs

Neighbour(n, hop) == hop \in Node /\ hop # n /\ <<hop, n>> \in Link

\* A message in the network says that k is a number of d.
Told(d, k) ==
    \/ \E m \in rreqs : m.src = d /\ m.src_seq = k
    \/ \E m \in rreps : m.dest = d /\ m.dest_seq = k
    \/ \E m \in rerrs : m.dest = d /\ m.seq = k

\* A RERR that n hears says that k is the number of d.
ToldByRerr(n, d, k) ==
    \E m \in rerrs : Hears(n, m.from, m.to) /\ m.dest = d /\ m.seq = k

\* The next hop of an entry is one of before, a neighbour or none.
HopStep(n, e, f) ==
    \/ f.next_hop = NoAddr
    \/ Neighbour(n, f.next_hop)
    \/ e # NoEntry /\ f.next_hop = e.next_hop

ValidEntry(e) == e # NoEntry /\ e.status = "ROUTE_VALID"

Numbered(e) == e # NoEntry /\ e.seq_valid = "SEQ_VALID"

\* A valid number is one of before, or one that a message told.
NumberStep(d, e, f) ==
    Numbered(f) => \/ Numbered(e) /\ f.dest_seq = e.dest_seq
                   \/ Told(d, f.dest_seq)

\* A valid number stays valid and does not shrink.
FreshStep(e, f) ==
    Numbered(e) => Numbered(f) /\ f.dest_seq >= e.dest_seq

\* What a write to the table of n may do to the routes: no entry goes, and only
\* entries of D become valid.
TableStep(n, D, T, U) ==
    \A d \in Node :
        /\ T[d] # NoEntry => U[d] # NoEntry
        /\ U[d] # NoEntry => /\ HopStep(n, T[d], U[d])
                             /\ ValidEntry(U[d]) => ValidEntry(T[d]) \/ d \in D
                             /\ NumberStep(d, T[d], U[d])
                             /\ FreshStep(T[d], U[d])

Untimed(e) ==
    e # NoEntry /\ e.expiration_thread = 0 /\ e.rreq_search # "SEARCH_SEARCHING"

\* What a write may do to the timers: none is left off but those that were.
TimedStep(T, U) == \A d \in Node : Untimed(U[d]) => Untimed(T[d])

LEMMA TableStepReflexive ==
    ASSUME NEW n, NEW D, NEW T \in Table
    PROVE  TableStep(n, D, T, T) /\ TimedStep(T, T)
<1>1. \A d \in Node : T[d] # NoEntry => T[d].dest_seq \in Nat
  BY EntryOrNone DEF Entry
<1>2. \A d \in Node : FreshStep(T[d], T[d])
  BY <1>1 DEF FreshStep, Numbered
<1> QED
  BY <1>2 DEF TableStep, TimedStep, HopStep, NumberStep

LEMMA TableStepTransitive ==
    ASSUME NEW n, NEW D, NEW T \in Table, NEW U \in Table, NEW V \in Table,
           TableStep(n, D, T, U), TableStep(n, D, U, V)
    PROVE  TableStep(n, D, T, V)
<1> SUFFICES ASSUME NEW d \in Node
             PROVE  /\ T[d] # NoEntry => V[d] # NoEntry
                    /\ V[d] # NoEntry =>
                          /\ HopStep(n, T[d], V[d])
                          /\ ValidEntry(V[d]) => ValidEntry(T[d]) \/ d \in D
                          /\ NumberStep(d, T[d], V[d])
                          /\ FreshStep(T[d], V[d])
  BY DEF TableStep
<1>1. PICK e, f, g : /\ e = T[d] /\ f = U[d] /\ g = V[d]
                     /\ e # NoEntry => e.dest_seq \in Nat
                     /\ f # NoEntry => f.dest_seq \in Nat
                     /\ g # NoEntry => g.dest_seq \in Nat
  BY EntryOrNone DEF Entry
<1>2. /\ e # NoEntry => f # NoEntry
      /\ f # NoEntry => /\ HopStep(n, e, f)
                        /\ ValidEntry(f) => ValidEntry(e) \/ d \in D
                        /\ NumberStep(d, e, f)
                        /\ FreshStep(e, f)
  BY <1>1 DEF TableStep
<1>3. /\ f # NoEntry => g # NoEntry
      /\ g # NoEntry => /\ HopStep(n, f, g)
                        /\ ValidEntry(g) => ValidEntry(f) \/ d \in D
                        /\ NumberStep(d, f, g)
                        /\ FreshStep(f, g)
  BY <1>1 DEF TableStep
<1>4. g # NoEntry => HopStep(n, e, g)
  BY <1>2, <1>3 DEF HopStep
<1>5. g # NoEntry /\ ValidEntry(g) => ValidEntry(e) \/ d \in D
  BY <1>2, <1>3 DEF ValidEntry
<1>6. g # NoEntry => NumberStep(d, e, g)
  BY <1>2, <1>3 DEF NumberStep, Numbered
<1>7. g # NoEntry => FreshStep(e, g)
  BY <1>1, <1>2, <1>3 DEF FreshStep, Numbered
<1> QED
  BY <1>1, <1>2, <1>3, <1>4, <1>5, <1>6, <1>7

LEMMA TimedStepTransitive ==
    ASSUME NEW T, NEW U, NEW V, TimedStep(T, U), TimedStep(U, V)
    PROVE  TimedStep(T, V)
BY DEF TimedStep

\* A write to one entry need only be judged by that entry.
LEMMA OneEntryStep ==
    ASSUME NEW n, NEW D, NEW T \in Table, NEW U \in Table, NEW d \in Node,
           \A x \in Node \ {d} : U[x] = T[x],
           U[d] # NoEntry,
           HopStep(n, T[d], U[d]),
           ValidEntry(U[d]) => ValidEntry(T[d]) \/ d \in D,
           NumberStep(d, T[d], U[d]),
           FreshStep(T[d], U[d])
    PROVE  TableStep(n, D, T, U)
<1> SUFFICES ASSUME NEW x \in Node
             PROVE  /\ T[x] # NoEntry => U[x] # NoEntry
                    /\ U[x] # NoEntry =>
                          /\ HopStep(n, T[x], U[x])
                          /\ ValidEntry(U[x]) => ValidEntry(T[x]) \/ x \in D
                          /\ NumberStep(x, T[x], U[x])
                          /\ FreshStep(T[x], U[x])
  BY DEF TableStep
<1>1. CASE x = d
  BY <1>1
<1>2. CASE x # d
  BY <1>2, TableStepReflexive DEF TableStep
<1> QED
  BY <1>1, <1>2

LEMMA OneEntryTimed ==
    ASSUME NEW T, NEW U, NEW d \in Node, \A x \in Node \ {d} : U[x] = T[x],
           Untimed(U[d]) => Untimed(T[d])
    PROVE  TimedStep(T, U)
BY DEF TimedStep

-----------------------------------------------------------------------------
(* The writes of the handlers are such steps.                              *)

LEMMA HopTakenStep ==
    ASSUME NEW n \in Node, NEW D, NEW T \in Table, NEW U \in Table, NEW s \in D, s \in Node,
           HopTaken(T, U, s), Neighbour(n, s)
    PROVE  TableStep(n, D, T, U) /\ TimedStep(T, U)
<1>1. /\ \A d \in Node \ {s} : U[d] = T[d]
      /\ U[s] # NoEntry /\ U[s].expiration_thread = 1
      /\ U[s].next_hop = IF T[s] = NoEntry THEN s ELSE T[s].next_hop
      /\ U[s].seq_valid = IF T[s] = NoEntry THEN "SEQ_INVALID" ELSE T[s].seq_valid
      /\ U[s].dest_seq = IF T[s] = NoEntry THEN 0 ELSE T[s].dest_seq
  BY NoEntryAssumption DEF HopTaken
<1>2. T[s] # NoEntry => T[s].dest_seq \in Nat
  BY EntryOrNone DEF Entry
<1>3. HopStep(n, T[s], U[s])
  BY <1>1 DEF HopStep
<1>4. NumberStep(s, T[s], U[s])
  BY <1>1 DEF NumberStep, Numbered
<1>5. FreshStep(T[s], U[s])
  BY <1>1, <1>2 DEF FreshStep, Numbered
<1>6. Untimed(U[s]) => Untimed(T[s])
  BY <1>1 DEF Untimed
<1>7. TableStep(n, D, T, U)
  BY <1>1, <1>3, <1>4, <1>5, OneEntryStep
<1> QED
  BY <1>1, <1>6, <1>7, OneEntryTimed

LEMMA RenewedStep ==
    ASSUME NEW n \in Node, NEW D, NEW T \in Table, NEW U \in Table, NEW d \in D, d \in Node,
           NEW seq, NEW hop, RouteRenewed(T, U, d, seq, hop),
           Neighbour(n, hop), Told(d, seq)
    PROVE  TableStep(n, D, T, U) /\ TimedStep(T, U)
<1>1. /\ \A x \in Node \ {d} : U[x] = T[x]
      /\ U[d] # NoEntry /\ U[d].expiration_thread = 1 /\ U[d].seq_valid = "SEQ_VALID"
      /\ \/ U[d].dest_seq = seq /\ U[d].next_hop = hop
         \/ /\ T[d] # NoEntry /\ T[d].seq_valid = "SEQ_VALID"
            /\ U[d].dest_seq = T[d].dest_seq /\ U[d].next_hop = T[d].next_hop
      /\ T[d] # NoEntry /\ T[d].seq_valid = "SEQ_VALID" => U[d].dest_seq >= T[d].dest_seq
  BY NoEntryAssumption DEF RouteRenewed
<1>2. HopStep(n, T[d], U[d])
  BY <1>1 DEF HopStep
<1>3. NumberStep(d, T[d], U[d])
  BY <1>1 DEF NumberStep, Numbered
<1>4. FreshStep(T[d], U[d])
  BY <1>1 DEF FreshStep, Numbered
<1>5. Untimed(U[d]) => Untimed(T[d])
  BY <1>1 DEF Untimed
<1>6. TableStep(n, D, T, U)
  BY <1>1, <1>2, <1>3, <1>4, OneEntryStep
<1> QED
  BY <1>1, <1>5, <1>6, OneEntryTimed

LEMMA HelloTakenStep ==
    ASSUME NEW n \in Node, NEW D, NEW T \in Table, NEW U \in Table, NEW d \in Node,
           NEW seq, NEW hop, HelloTaken(T, U, d, seq, hop),
           Neighbour(n, hop), Told(d, seq)
    PROVE  TableStep(n, D, T, U) /\ TimedStep(T, U)
<1>1. CASE U = T
  BY <1>1, TableStepReflexive
<1>2. CASE U # T
  <2>1. /\ \A x \in Node \ {d} : U[x] = T[x]
        /\ U[d] # NoEntry /\ U[d].expiration_thread = 1
        /\ U[d].seq_valid = "SEQ_VALID" /\ U[d].dest_seq = seq
        /\ T[d] # NoEntry => U[d].status = T[d].status /\ U[d].next_hop = T[d].next_hop
        /\ T[d] = NoEntry => U[d].status = "ROUTE_INVALID" /\ U[d].next_hop = hop
        /\ T[d] # NoEntry /\ T[d].seq_valid = "SEQ_VALID" => U[d].dest_seq >= T[d].dest_seq
    BY <1>2, NoEntryAssumption DEF HelloTaken
  <2>2. HopStep(n, T[d], U[d])
    BY <2>1 DEF HopStep
  <2>3. NumberStep(d, T[d], U[d])
    BY <2>1 DEF NumberStep
  <2>4. FreshStep(T[d], U[d])
    BY <2>1 DEF FreshStep, Numbered
  <2>5. Untimed(U[d]) => Untimed(T[d])
    BY <2>1 DEF Untimed
  <2>6. ValidEntry(U[d]) => ValidEntry(T[d])
    BY <2>1 DEF ValidEntry
  <2>7. TableStep(n, D, T, U)
    BY <2>1, <2>2, <2>3, <2>4, <2>6, OneEntryStep
  <2> QED
    BY <2>1, <2>5, <2>7, OneEntryTimed
<1> QED
  BY <1>1, <1>2

\* A write that keeps the route of d; its timer must run, or be as it was.
LEMMA RouteKeptStep ==
    ASSUME NEW n, NEW D, NEW T \in Table, NEW U \in Table, NEW d \in Node,
           T[d] # NoEntry, RouteKept(T, U, d)
    PROVE  /\ TableStep(n, D, T, U)
           /\ U[d].expiration_thread = 1 => TimedStep(T, U)
           /\ /\ U[d].expiration_thread = T[d].expiration_thread
              /\ T[d].rreq_search # "SEARCH_SEARCHING" \/ U[d].rreq_search = T[d].rreq_search
              => TimedStep(T, U)
<1>1. /\ \A x \in Node \ {d} : U[x] = T[x]
      /\ U[d] # NoEntry
      /\ U[d].status = T[d].status /\ U[d].next_hop = T[d].next_hop
      /\ U[d].seq_valid = T[d].seq_valid /\ U[d].dest_seq = T[d].dest_seq
  BY NoEntryAssumption DEF RouteKept, SameRoute
<1>2. T[d].dest_seq \in Nat
  BY EntryOrNone DEF Entry
<1>3. HopStep(n, T[d], U[d])
  BY <1>1 DEF HopStep
<1>4. NumberStep(d, T[d], U[d])
  BY <1>1 DEF NumberStep, Numbered
<1>5. FreshStep(T[d], U[d])
  BY <1>1, <1>2 DEF FreshStep, Numbered
<1>6. ValidEntry(U[d]) => ValidEntry(T[d])
  BY <1>1 DEF ValidEntry
<1>7. TableStep(n, D, T, U)
  BY <1>1, <1>3, <1>4, <1>5, <1>6, OneEntryStep
<1>8. U[d].expiration_thread = 1 => TimedStep(T, U)
  BY <1>1, OneEntryTimed DEF Untimed
<1>9. /\ U[d].expiration_thread = T[d].expiration_thread
      /\ T[d].rreq_search # "SEARCH_SEARCHING" \/ U[d].rreq_search = T[d].rreq_search
      => TimedStep(T, U)
  BY <1>1, OneEntryTimed DEF Untimed
<1> QED
  BY <1>7, <1>8, <1>9

LEMMA RefreshStep ==
    ASSUME NEW n, NEW D, NEW T \in Table, NEW d \in Node
    PROVE  \E U \in Table : /\ U = refresh(T, d)
                            /\ TableStep(n, D, T, U) /\ TimedStep(T, U)
<1>1. CASE T[d] = NoEntry
  BY <1>1, RefreshEffect, TableStepReflexive
<1>2. CASE T[d] # NoEntry
  <2>1. PICK U \in Table : /\ U = refresh(T, d) /\ RouteKept(T, U, d)
                           /\ U[d].expiration_thread = 1
    BY <1>2, RefreshEffect DEF RouteKept
  <2> QED
    BY <1>2, <2>1, RouteKeptStep
<1> QED
  BY <1>1, <1>2

LEMMA InvalidateStep ==
    ASSUME NEW n, NEW D, NEW T \in Table, NEW d \in Node, T[d] # NoEntry
    PROVE  \E U \in Table : /\ U = invalidate(T, d)
                            /\ TableStep(n, D, T, U) /\ TimedStep(T, U)
                            /\ ~ValidEntry(U[d])
<1>1. PICK U \in Table : /\ U = invalidate(T, d)
                         /\ \A x \in Node \ {d} : U[x] = T[x]
                         /\ U[d] # NoEntry
                         /\ U[d].status = "ROUTE_INVALID"
                         /\ U[d].next_hop = T[d].next_hop
                         /\ U[d].seq_valid = T[d].seq_valid /\ U[d].dest_seq = T[d].dest_seq
                         /\ U[d].expiration_thread = 1
  BY InvalidateEffect, NoEntryAssumption
<1>2. T[d].dest_seq \in Nat
  BY EntryOrNone DEF Entry
<1>3. HopStep(n, T[d], U[d])
  BY <1>1 DEF HopStep
<1>4. NumberStep(d, T[d], U[d])
  BY <1>1 DEF NumberStep, Numbered
<1>5. FreshStep(T[d], U[d])
  BY <1>1, <1>2 DEF FreshStep, Numbered
<1>6. ~ValidEntry(U[d]) /\ ~Untimed(U[d])
  BY <1>1 DEF ValidEntry, Untimed
<1>7. TableStep(n, D, T, U)
  BY <1>1, <1>3, <1>4, <1>5, <1>6, OneEntryStep
<1>8. TimedStep(T, U)
  BY <1>1, <1>6, OneEntryTimed
<1> QED
  BY <1>1, <1>6, <1>7, <1>8

LEMMA StartSearchStep ==
    ASSUME NEW n, NEW D, NEW T \in Table, NEW d \in Node
    PROVE  \E U \in Table : /\ U = start_search(T, d)
                            /\ TableStep(n, D, T, U) /\ TimedStep(T, U)
                            /\ ValidEntry(U[d]) => ValidEntry(T[d])
<1>1. PICK U \in Table : /\ U = start_search(T, d)
                         /\ \A x \in Node \ {d} : U[x] = T[x]
                         /\ U[d] # NoEntry
                         /\ T[d] # NoEntry => SameRoute(T[d], U[d])
                         /\ T[d] = NoEntry => /\ U[d].status = "ROUTE_INVALID"
                                              /\ U[d].seq_valid = "SEQ_INVALID"
                                              /\ U[d].next_hop = NoAddr
                         /\ U[d].rreq_search = "SEARCH_SEARCHING"
  BY StartSearchEffect, NoEntryAssumption
<1>2. T[d] # NoEntry => T[d].dest_seq \in Nat
  BY EntryOrNone DEF Entry
<1>3. HopStep(n, T[d], U[d])
  BY <1>1 DEF HopStep, SameRoute
<1>4. NumberStep(d, T[d], U[d])
  BY <1>1 DEF NumberStep, Numbered, SameRoute
<1>5. FreshStep(T[d], U[d])
  BY <1>1, <1>2 DEF FreshStep, Numbered, SameRoute
<1>6. ValidEntry(U[d]) => ValidEntry(T[d])
  BY <1>1 DEF ValidEntry, SameRoute
<1>7. ~Untimed(U[d])
  BY <1>1 DEF Untimed
<1>8. TableStep(n, D, T, U)
  BY <1>1, <1>3, <1>4, <1>5, <1>6, OneEntryStep
<1>9. TimedStep(T, U)
  BY <1>1, <1>7, OneEntryTimed
<1> QED
  BY <1>1, <1>6, <1>8, <1>9

-----------------------------------------------------------------------------
(* What a step of n may do to its routes.                                  *)

\* The kernel gets routes through neighbours only, and keeps one for every entry
\* that is valid.
KernelStep(n, T, K, U, L) ==
    /\ \A r \in L : r \in K \/ Neighbour(n, r[2])
    /\ \A d \in Node : ValidEntry(U[d]) =>
          \/ \E g \in Node : <<d, g>> \in L
          \/ ValidEntry(T[d]) /\ \A g \in Node : <<d, g>> \in K => <<d, g>> \in L

\* Threads that hang, hang for good.
HungGrows == \A x \in Node : hung[x] \subseteq hung'[x]

RouteChangeTo(n, U, L) ==
    /\ set_table(n, U)
    /\ kernel' = [kernel EXCEPT ![n] = L]
    /\ \A d \in Node : U[d] # NoEntry =>
          /\ HopStep(n, table[n][d], U[d])
          /\ NumberStep(d, table[n][d], U[d])
          /\ FreshStep(table[n][d], U[d]) \/ ToldByRerr(n, d, U[d].dest_seq)
    /\ KernelStep(n, table[n], kernel[n], U, L)
    /\ HungGrows
    /\ TimedStep(table[n], U) \/ hung'[n] # {}

RouteChange(n) == \E U \in Table : \E L : RouteChangeTo(n, U, L)

\* A handler that keeps its timers running or hangs.
TimedOrHung(n, T, U) == HungGrows /\ (TimedStep(T, U) \/ hung'[n] # {})

LEMMA HangsGrows ==
    ASSUME TypeOK, NEW n \in Node
    PROVE  /\ UNCHANGED hung => HungGrows
           /\ \A thread, locked : hangs(n, thread, locked) => HungGrows /\ hung'[n] # {}
BY DEF HungGrows, hangs, TypeOK

\* Entries of D become valid, and the kernel gets a route for each of them.
LEMMA RoutesAdded ==
    ASSUME TypeOK, NEW n \in Node, NEW U \in Table, NEW D, NEW R,
           set_table(n, U), TableStep(n, D, table[n], U),
           AddUnicastRoutingEntry(n, R), \A r \in R : Neighbour(n, r[2]),
           \A d \in D : \E g \in Node : <<d, g>> \in R,
           TimedOrHung(n, table[n], U)
    PROVE  RouteChange(n)
<1>1. PICK K, L : K = kernel[n] /\ L = K \cup R
  OBVIOUS
<1>2. kernel' = [kernel EXCEPT ![n] = L]
  BY <1>1 DEF AddUnicastRoutingEntry
<1>3. KernelStep(n, table[n], K, U, L)
  <2>1. \A r \in L : r \in K \/ Neighbour(n, r[2])
    BY <1>1
  <2>2. ASSUME NEW d \in Node, ValidEntry(U[d])
        PROVE  \/ \E g \in Node : <<d, g>> \in L
               \/ ValidEntry(table[n][d]) /\ \A g \in Node : <<d, g>> \in K => <<d, g>> \in L
    <3>1. ValidEntry(table[n][d]) \/ d \in D
      BY <2>2 DEF TableStep, ValidEntry
    <3> QED
      BY <1>1, <3>1
  <2> QED
    BY <2>1, <2>2 DEF KernelStep
<1>4. RouteChangeTo(n, U, L)
  BY <1>1, <1>2, <1>3 DEF RouteChangeTo, TableStep, TimedOrHung
<1> QED
  BY <1>4 DEF RouteChange

\* No entry becomes valid, and the kernel stays as it is.
LEMMA RoutesSame ==
    ASSUME TypeOK, NEW n \in Node, NEW U \in Table,
           set_table(n, U), TableStep(n, {}, table[n], U), UNCHANGED kernel,
           TimedOrHung(n, table[n], U)
    PROVE  RouteChange(n)
<1>1. PICK D, R : D = {} /\ R = {}
  OBVIOUS
<1>2. AddUnicastRoutingEntry(n, R)
  BY <1>1 DEF AddUnicastRoutingEntry, TypeOK
<1>3. /\ TableStep(n, D, table[n], U)
      /\ \A r \in R : Neighbour(n, r[2])
      /\ \A d \in D : \E g \in Node : <<d, g>> \in R
  BY <1>1
<1> QED
  BY <1>2, <1>3, RoutesAdded

\* Nothing is written.
LEMMA RoutesUntouched ==
    ASSUME TypeOK, NEW n \in Node, UNCHANGED <<table, kernel>>, HungGrows
    PROVE  RouteChange(n)
<1>1. PICK T \in Table : T = table[n]
  BY DEF TypeOK
<1>2. set_table(n, T) /\ TableStep(n, {}, T, T) /\ TimedStep(T, T)
  BY <1>1, TableStepReflexive DEF set_table, TypeOK
<1> QED
  BY <1>1, <1>2, RoutesSame DEF TimedOrHung

\* A route that is not valid any more leaves the kernel.
LEMMA RouteRemoved ==
    ASSUME TypeOK, NEW n \in Node, NEW U \in Table, NEW d \in Node, ~ValidEntry(U[d]),
           set_table(n, U), DeleteEntry(n, d),
           \A x \in Node : U[x] # NoEntry =>
               /\ HopStep(n, table[n][x], U[x])
               /\ ValidEntry(U[x]) => ValidEntry(table[n][x])
               /\ NumberStep(x, table[n][x], U[x])
               /\ FreshStep(table[n][x], U[x]) \/ ToldByRerr(n, x, U[x].dest_seq),
           TimedOrHung(n, table[n], U)
    PROVE  RouteChange(n)
<1>1. PICK K, L, hop : K = kernel[n] /\ hop = table[n][d].next_hop /\ L = K \ {<<d, hop>>}
  OBVIOUS
<1>2. kernel' = [kernel EXCEPT ![n] = L]
  BY <1>1 DEF DeleteEntry
<1>3. KernelStep(n, table[n], K, U, L)
  <2>1. \A r \in L : r \in K
    BY <1>1
  <2>2. ASSUME NEW x \in Node, ValidEntry(U[x])
        PROVE  ValidEntry(table[n][x]) /\ \A g \in Node : <<x, g>> \in K => <<x, g>> \in L
    <3>1. x # d /\ ValidEntry(table[n][x])
      BY <2>2 DEF ValidEntry
    <3> QED
      BY <1>1, <3>1
  <2> QED
    BY <2>1, <2>2 DEF KernelStep
<1>4. RouteChangeTo(n, U, L)
  BY <1>1, <1>2, <1>3 DEF RouteChangeTo, TimedOrHung
<1> QED
  BY <1>4 DEF RouteChange

-----------------------------------------------------------------------------
(* One lemma per handler.                                                  *)

LEMMA RecvRreqRoutes ==
    ASSUME TypeOK, NEW n \in Node, NEW m \in rreqs, recv_rreq(n, m)
    PROVE  RouteChange(n)
<1>1. m \in Rreq
  BY DEF TypeOK
<1>2. PICK s, d, f \in Node, seq \in Nat :
         s = m.src /\ d = m.dest /\ f = m.from /\ seq = m.src_seq
  BY <1>1 DEF Rreq
<1>3. Neighbour(n, f) /\ Told(s, seq)
  BY <1>2 DEF recv_rreq, Hears, Neighbour, Told
<1>4. PICK T, H, R \in Table :
         /\ T = table[n] /\ H = after_hop(n, m) /\ R = after_reverse(n, m)
         /\ HopTaken(T, H, f) /\ RouteRenewed(H, R, s, seq, f)
  BY <1>1, <1>2, RreqTables
<1>5. TableStep(n, {f}, T, H) /\ TableStep(n, {f, s}, T, H) /\ TimedStep(T, H)
  BY <1>3, <1>4, HopTakenStep
<1>6. TableStep(n, {f, s}, H, R) /\ TimedStep(H, R)
  BY <1>3, <1>4, RenewedStep
<1>7. TableStep(n, {f, s}, T, R) /\ TimedStep(T, R)
  BY <1>5, <1>6, TableStepTransitive, TimedStepTransitive
<1>8. ASSUME NEW U \in Table, set_table(n, U), TimedOrHung(n, T, U),
             \/ /\ TableStep(n, {f}, T, U)
                /\ AddUnicastRoutingEntry(n, {<<m.from, m.from>>})
             \/ /\ TableStep(n, {f, s}, T, U)
                /\ AddUnicastRoutingEntry(n, reverse_routes(m))
      PROVE  RouteChange(n)
  <2>1. CASE /\ TableStep(n, {f}, T, U)
             /\ AddUnicastRoutingEntry(n, {<<m.from, m.from>>})
    <3>1. PICK D, P : D = {f} /\ P = {<<f, f>>}
      OBVIOUS
    <3>2. /\ AddUnicastRoutingEntry(n, P) /\ TableStep(n, D, table[n], U)
          /\ \A r \in P : Neighbour(n, r[2])
          /\ \A x \in D : \E g \in Node : <<x, g>> \in P
          /\ TimedOrHung(n, table[n], U)
      BY <1>2, <1>3, <1>4, <1>8, <2>1, <3>1
    <3> QED
      BY <1>8, <3>2, RoutesAdded
  <2>2. CASE /\ TableStep(n, {f, s}, T, U)
             /\ AddUnicastRoutingEntry(n, reverse_routes(m))
    <3>1. PICK D, P : D = {f, s} /\ P = {<<f, f>>, <<s, f>>}
      OBVIOUS
    <3>2. /\ AddUnicastRoutingEntry(n, P) /\ TableStep(n, D, table[n], U)
          /\ \A r \in P : Neighbour(n, r[2])
          /\ \A x \in D : \E g \in Node : <<x, g>> \in P
          /\ TimedOrHung(n, table[n], U)
      BY <1>2, <1>3, <1>4, <1>8, <2>2, <3>1 DEF reverse_routes
    <3> QED
      BY <1>8, <3>2, RoutesAdded
  <2> QED
    BY <1>8, <2>1, <2>2
<1>9. PICK seen \in BOOLEAN :
         \/ rreq_ignored(n, m, seen)
         \/ rreq_at_destination(n, m, seen)
         \/ rreq_answered(n, m, seen)
         \/ rreq_flooded(n, m, seen)
         \/ rreq_blocked(n, m, seen)
  BY DEF recv_rreq
<1>10. CASE rreq_ignored(n, m, seen)
  <2>1. /\ set_table(n, H) /\ AddUnicastRoutingEntry(n, {<<m.from, m.from>>})
        /\ UNCHANGED hung
    BY <1>4, <1>10 DEF rreq_ignored, locks
  <2>2. TimedOrHung(n, T, H)
    BY <1>5, <2>1, HangsGrows DEF TimedOrHung
  <2> QED
    BY <1>5, <1>8, <2>1, <2>2
<1>11. CASE rreq_at_destination(n, m, seen)
  <2>1. R[s] # NoEntry
    BY <1>4, NoEntryAssumption DEF RouteRenewed
  <2>2. PICK A \in Table : /\ A = activate(R, s) /\ RouteKept(R, A, s)
                           /\ A[s].rreq_search = R[s].rreq_search
                           /\ A[s].expiration_thread = R[s].expiration_thread
    BY <2>1, ActivateEffect DEF RouteKept
  <2>3. TableStep(n, {f, s}, R, A) /\ TimedStep(R, A)
    BY <2>1, <2>2, RouteKeptStep
  <2>4. TableStep(n, {f, s}, T, A) /\ TimedStep(T, A)
    BY <1>7, <2>3, TableStepTransitive, TimedStepTransitive
  <2>5. /\ set_table(n, A) /\ AddUnicastRoutingEntry(n, reverse_routes(m))
        /\ UNCHANGED hung
    BY <1>2, <1>4, <1>11, <2>2 DEF rreq_at_destination, locks
  <2>6. TimedOrHung(n, T, A)
    BY <2>4, <2>5, HangsGrows DEF TimedOrHung
  <2> QED
    BY <1>8, <2>4, <2>5, <2>6
<1>12. CASE rreq_answered(n, m, seen)
  <2>1. R[d] # NoEntry /\ R[s] # NoEntry
    BY <1>2, <1>4, <1>12, NoEntryAssumption
       DEF rreq_answered, can_answer, Valid, get_routing_entry, RouteRenewed
  <2>2. PICK hop, a \in Addr : hop = R[d].next_hop /\ a = f
    BY <2>1, EntryOrNone DEF Entry, Addr
  <2>3. PICK A \in Table : /\ A = add_precursor(R, d, a) /\ RouteKept(R, A, d)
                           /\ A[d].rreq_search = R[d].rreq_search
                           /\ A[d].expiration_thread = R[d].expiration_thread
    BY <2>1, AddPrecursorEffect DEF RouteKept
  <2>4. TableStep(n, {f, s}, R, A) /\ TimedStep(R, A)
    BY <2>1, <2>3, RouteKeptStep
  <2>5. A[s] # NoEntry
    BY <2>1, <2>4 DEF TableStep
  <2>6. PICK B \in Table : /\ B = add_precursor(A, s, hop) /\ RouteKept(A, B, s)
                           /\ B[s].rreq_search = A[s].rreq_search
                           /\ B[s].expiration_thread = A[s].expiration_thread
    BY <2>5, AddPrecursorEffect DEF RouteKept
  <2>7. TableStep(n, {f, s}, A, B) /\ TimedStep(A, B)
    BY <2>5, <2>6, RouteKeptStep
  <2>8. TableStep(n, {f, s}, T, A) /\ TimedStep(T, A)
    BY <1>7, <2>4, TableStepTransitive, TimedStepTransitive
  <2>9. TableStep(n, {f, s}, T, B) /\ TimedStep(T, B)
    BY <2>7, <2>8, TableStepTransitive, TimedStepTransitive
  <2>10. /\ set_table(n, B) /\ AddUnicastRoutingEntry(n, reverse_routes(m))
         /\ UNCHANGED hung
    BY <1>2, <1>4, <1>12, <2>2, <2>3, <2>6 DEF rreq_answered, locks
  <2>11. TimedOrHung(n, T, B)
    BY <2>9, <2>10, HangsGrows DEF TimedOrHung
  <2> QED
    BY <1>8, <2>9, <2>10, <2>11
<1>13. CASE rreq_flooded(n, m, seen)
  <2>1. /\ set_table(n, R) /\ AddUnicastRoutingEntry(n, reverse_routes(m))
        /\ UNCHANGED hung
    BY <1>4, <1>13 DEF rreq_flooded, locks
  <2>2. TimedOrHung(n, T, R)
    BY <1>7, <2>1, HangsGrows DEF TimedOrHung
  <2> QED
    BY <1>7, <1>8, <2>1, <2>2
<1>14. CASE rreq_blocked(n, m, seen)
  <2>1. /\ HungGrows /\ TimedOrHung(n, T, H) /\ TimedOrHung(n, T, R)
    BY <1>14, HangsGrows DEF rreq_blocked, TimedOrHung
  <2>2. \/ UNCHANGED <<table, kernel>>
        \/ set_table(n, H) /\ AddUnicastRoutingEntry(n, {<<m.from, m.from>>})
        \/ set_table(n, R) /\ AddUnicastRoutingEntry(n, reverse_routes(m))
    BY <1>4, <1>14 DEF rreq_blocked
  <2>3. CASE UNCHANGED <<table, kernel>>
    BY <2>1, <2>3, RoutesUntouched
  <2>4. CASE set_table(n, H) /\ AddUnicastRoutingEntry(n, {<<m.from, m.from>>})
    BY <1>5, <1>8, <2>1, <2>4
  <2>5. CASE set_table(n, R) /\ AddUnicastRoutingEntry(n, reverse_routes(m))
    BY <1>7, <1>8, <2>1, <2>5
  <2> QED
    BY <2>2, <2>3, <2>4, <2>5
<1> QED
  BY <1>9, <1>10, <1>11, <1>12, <1>13, <1>14

\* The RREP that ends a search leaves the timer of its destination off, and the
\* forward route starts it again before the handler returns.
LEMMA FoundStep ==
    ASSUME NEW n \in Node, NEW T \in Table, NEW F \in Table, NEW R \in Table, NEW d \in Node,
           F = T \/ (T[d] # NoEntry /\ RouteKept(T, F, d)),
           TimedStep(F, R), R[d].expiration_thread = 1
    PROVE  (\A D : TableStep(n, D, T, F)) /\ TimedStep(T, R)
<1>1. \A D : TableStep(n, D, T, F)
  BY TableStepReflexive, RouteKeptStep
<1>2. \A x \in Node \ {d} : F[x] = T[x]
  BY DEF RouteKept
<1>3. ~Untimed(R[d])
  BY DEF Untimed
<1>4. TimedStep(T, R)
  BY <1>2, <1>3 DEF TimedStep
<1> QED
  BY <1>1, <1>4

LEMMA RecvRrepRoutes ==
    ASSUME TypeOK, NEW n \in Node, NEW m \in rreps, recv_rrep(n, m)
    PROVE  RouteChange(n)
<1>1. m \in Rrep
  BY DEF TypeOK
<1>2. PICK d, f \in Node, seq \in Nat : d = m.dest /\ f = m.from /\ seq = m.dest_seq
  BY <1>1 DEF Rrep
<1>3. Neighbour(n, f) /\ Told(d, seq)
  BY <1>2 DEF recv_rrep, Hears, Neighbour, Told
<1>4. PICK T, F, H, R \in Table :
         /\ T = table[n] /\ F = after_found(n, m) /\ H = previous_hop(F, f)
         /\ R = after_forward(n, m)
         /\ ~search_ends(n, m) => F = T
         /\ search_ends(n, m) => RouteKept(T, F, d)
         /\ HopTaken(F, H, f) /\ RouteRenewed(H, R, d, seq, f)
  BY <1>1, <1>2, RrepTables
<1>5. F = T \/ (T[d] # NoEntry /\ RouteKept(T, F, d))
  BY <1>2, <1>4 DEF search_ends
<1>6. TableStep(n, {f}, F, H) /\ TableStep(n, {f, d}, F, H) /\ TimedStep(F, H)
  BY <1>3, <1>4, HopTakenStep
<1>7. TableStep(n, {f, d}, H, R) /\ TimedStep(H, R)
  BY <1>3, <1>4, RenewedStep
<1>8. TableStep(n, {f, d}, F, R) /\ TimedStep(F, R)
  BY <1>6, <1>7, TableStepTransitive, TimedStepTransitive
<1>9. R[d] # NoEntry /\ R[d].expiration_thread = 1
  BY <1>4, NoEntryAssumption DEF RouteRenewed
<1>10. /\ TableStep(n, {}, T, F) /\ TableStep(n, {f, d}, T, F)
       /\ TimedStep(T, R)
  BY <1>5, <1>8, <1>9, FoundStep
<1>11. TableStep(n, {f, d}, T, R)
  BY <1>8, <1>10, TableStepTransitive
<1>12. ASSUME NEW U \in Table, set_table(n, U), TimedOrHung(n, T, U),
              TableStep(n, {f, d}, T, U), AddUnicastRoutingEntry(n, forward_routes(m))
       PROVE  RouteChange(n)
  <2>1. PICK D, P : D = {f, d} /\ P = {<<f, f>>, <<d, f>>}
    OBVIOUS
  <2>2. /\ AddUnicastRoutingEntry(n, P) /\ TableStep(n, D, table[n], U)
        /\ \A r \in P : Neighbour(n, r[2])
        /\ \A x \in D : \E g \in Node : <<x, g>> \in P
        /\ TimedOrHung(n, table[n], U)
    BY <1>2, <1>3, <1>4, <1>12, <2>1 DEF forward_routes
  <2> QED
    BY <1>12, <2>2, RoutesAdded
<1>13. CASE recv_hello(n, m)
  <2>1. PICK U \in Table : U = hello_route(T, m) /\ HelloTaken(T, U, d, seq, f)
    <3>1. m.hop_count \in Nat
      BY <1>1 DEF Rrep
    <3> QED
      BY <1>2, <3>1, HelloRouteEffect DEF HelloTaken
  <2>2. TableStep(n, {}, T, U) /\ TimedStep(T, U)
    BY <1>3, <2>1, HelloTakenStep
  <2>3. CASE UNCHANGED table
    BY <1>13, <2>3, HangsGrows, RoutesUntouched DEF recv_hello, locks
  <2>4. CASE set_table(n, U)
    <3>1. UNCHANGED kernel /\ HungGrows
      BY <1>13, HangsGrows DEF recv_hello, locks
    <3>2. TimedOrHung(n, table[n], U) /\ TableStep(n, {}, table[n], U)
      BY <1>4, <2>2, <3>1 DEF TimedOrHung
    <3> QED
      BY <2>4, <3>1, <3>2, RoutesSame
  <2> QED
    BY <1>4, <1>13, <2>1, <2>3, <2>4 DEF recv_hello
<1>14. CASE rrep_consumed(n, m)
  <2>1. /\ set_table(n, R) /\ AddUnicastRoutingEntry(n, forward_routes(m))
        /\ UNCHANGED hung
    BY <1>4, <1>14 DEF rrep_consumed, rrep_installs, locks
  <2>2. TimedOrHung(n, T, R)
    BY <1>10, <2>1, HangsGrows DEF TimedOrHung
  <2> QED
    BY <1>11, <1>12, <2>1, <2>2
<1>15. CASE rrep_forwarded(n, m)
  <2>1. PICK s \in Node : s = m.src /\ R[s] # NoEntry
    BY <1>1, <1>4, <1>15 DEF rrep_forwarded, rrep_installs, Addr, Rrep
  <2>2. PICK hop, back \in Addr : hop = R[d].next_hop /\ back = R[s].next_hop
    BY <1>9, <2>1, EntryOrNone DEF Entry
  <2>3. PICK A \in Table : /\ A = add_precursor(R, s, hop) /\ RouteKept(R, A, s)
                           /\ A[s].rreq_search = R[s].rreq_search
                           /\ A[s].expiration_thread = R[s].expiration_thread
    BY <2>1, AddPrecursorEffect DEF RouteKept
  <2>4. TableStep(n, {f, d}, R, A) /\ TimedStep(R, A)
    BY <2>1, <2>3, RouteKeptStep
  <2>5. A[d] # NoEntry
    BY <1>9, <2>4 DEF TableStep
  <2>6. PICK B \in Table : /\ B = add_precursor(A, d, back) /\ RouteKept(A, B, d)
                           /\ B[d].rreq_search = A[d].rreq_search
                           /\ B[d].expiration_thread = A[d].expiration_thread
    BY <2>5, AddPrecursorEffect DEF RouteKept
  <2>7. TableStep(n, {f, d}, A, B) /\ TimedStep(A, B)
    BY <2>5, <2>6, RouteKeptStep
  <2>8. B[s] # NoEntry
    BY <2>1, <2>4, <2>7 DEF TableStep
  <2>9. PICK C \in Table : /\ C = activate(B, s) /\ RouteKept(B, C, s)
                           /\ C[s].rreq_search = B[s].rreq_search
                           /\ C[s].expiration_thread = B[s].expiration_thread
    BY <2>8, ActivateEffect DEF RouteKept
  <2>10. TableStep(n, {f, d}, B, C) /\ TimedStep(B, C)
    BY <2>8, <2>9, RouteKeptStep
  <2>11. TableStep(n, {f, d}, T, A) /\ TimedStep(T, A)
    BY <1>10, <1>11, <2>4, TableStepTransitive, TimedStepTransitive
  <2>12. TableStep(n, {f, d}, T, B) /\ TimedStep(T, B)
    BY <2>7, <2>11, TableStepTransitive, TimedStepTransitive
  <2>13. TableStep(n, {f, d}, T, C) /\ TimedStep(T, C)
    BY <2>10, <2>12, TableStepTransitive, TimedStepTransitive
  <2>14. /\ set_table(n, C) /\ AddUnicastRoutingEntry(n, forward_routes(m))
         /\ UNCHANGED hung
    BY <1>2, <1>4, <1>15, <2>1, <2>2, <2>3, <2>6, <2>9
       DEF rrep_forwarded, rrep_installs, locks
  <2>15. TimedOrHung(n, T, C)
    BY <2>13, <2>14, HangsGrows DEF TimedOrHung
  <2> QED
    BY <1>12, <2>13, <2>14, <2>15
<1>16. CASE rrep_blocked(n, m)
  <2>1. HungGrows /\ \A U : TimedOrHung(n, T, U)
    BY <1>16, HangsGrows DEF rrep_blocked, TimedOrHung
  <2>2. CASE m.src = n /\ m.dest \in held[n]
    <3>1. UNCHANGED <<table, kernel>>
      BY <1>16, <2>2 DEF rrep_blocked
    <3> QED
      BY <2>1, <3>1, RoutesUntouched
  <2>3. CASE ~(m.src = n /\ m.dest \in held[n]) /\ m.from \in held[n]
    <3>1. set_table(n, F) /\ UNCHANGED kernel
      BY <1>4, <1>16, <2>3 DEF rrep_blocked
    <3>2. TableStep(n, {}, table[n], F) /\ TimedOrHung(n, table[n], F)
      BY <1>4, <1>10, <2>1
    <3> QED
      BY <3>1, <3>2, RoutesSame
  <2>4. CASE m.src # n /\ m.from \notin held[n]
    <3>1. F = T
      BY <1>4, <2>4 DEF search_ends
    <3>2. \/ set_table(n, H) /\ AddUnicastRoutingEntry(n, {<<f, f>>})
          \/ set_table(n, R) /\ AddUnicastRoutingEntry(n, forward_routes(m))
      BY <1>2, <1>4, <1>16, <2>4, <3>1 DEF rrep_blocked
    <3>3. CASE set_table(n, H) /\ AddUnicastRoutingEntry(n, {<<f, f>>})
      <4>1. PICK D, P : D = {f} /\ P = {<<f, f>>}
        OBVIOUS
      <4>2. /\ AddUnicastRoutingEntry(n, P) /\ TableStep(n, D, table[n], H)
            /\ \A r \in P : Neighbour(n, r[2])
            /\ \A x \in D : \E g \in Node : <<x, g>> \in P
            /\ TimedOrHung(n, table[n], H)
        BY <1>3, <1>4, <1>6, <2>1, <3>1, <3>3, <4>1
      <4> QED
        BY <3>3, <4>2, RoutesAdded
    <3>4. CASE set_table(n, R) /\ AddUnicastRoutingEntry(n, forward_routes(m))
      BY <1>11, <1>12, <2>1, <3>4
    <3> QED
      BY <3>2, <3>3, <3>4
  <2>5. m.src = n /\ m.dest \notin held[n] => m.from \in held[n]
    BY <1>16 DEF rrep_blocked
  <2> QED
    BY <2>2, <2>3, <2>4, <2>5
<1> QED
  BY <1>13, <1>14, <1>15, <1>16 DEF recv_rrep

\* A RERR gives the route the number it says and ends it.
LEMMA RecvRerrRoutes ==
    ASSUME TypeOK, NEW n \in Node, NEW m \in rerrs, recv_rerr(n, m)
    PROVE  RouteChange(n)
<1>1. m \in Rerr
  BY DEF TypeOK
<1>2. PICK d \in Node, seq \in Nat : d = m.dest /\ seq = m.seq
  BY <1>1 DEF Rerr
<1>3. Told(d, seq) /\ ToldByRerr(n, d, seq)
  BY <1>2 DEF recv_rerr, Told, ToldByRerr
<1>4. PICK T \in Table : T = table[n]
  BY DEF TypeOK
<1>5. PICK e \in Entry : e = T[d] /\ e # NoEntry
  BY <1>2, <1>4, EntryOrNone DEF recv_rerr, Valid, get_routing_entry
<1>6. PICK g \in Entry : /\ g = [e EXCEPT !.dest_seq = seq]
                         /\ g.dest_seq = seq /\ g.next_hop = e.next_hop
                         /\ g.seq_valid = e.seq_valid
  <2>1. [e EXCEPT !.dest_seq = seq] \in Entry
    BY DEF Entry
  <2> QED
    BY <2>1 DEF Entry
<1>7. PICK U \in Table : /\ U = [T EXCEPT ![d] = g] /\ U[d] = g
                         /\ \A x \in Node \ {d} : U[x] = T[x]
  <2>1. PICK U : U = [T EXCEPT ![d] = g]
    OBVIOUS
  <2>2. U \in Table /\ U[d] = g /\ \A x \in Node \ {d} : U[x] = T[x]
    BY <2>1 DEF Table
  <2> QED
    BY <2>1, <2>2
<1>8. U = [table[n] EXCEPT ![m.dest].dest_seq = m.seq]
  BY <1>2, <1>4, <1>5, <1>6, <1>7 DEF Table
<1>9. PICK V \in Table : /\ V = invalidate(U, d)
                         /\ \A x \in Node \ {d} : V[x] = T[x]
                         /\ V[d] # NoEntry
                         /\ V[d].status = "ROUTE_INVALID"
                         /\ V[d].next_hop = e.next_hop
                         /\ V[d].seq_valid = e.seq_valid
                         /\ V[d].dest_seq = seq /\ V[d].expiration_thread = 1
  <2>1. U[d] # NoEntry
    BY <1>7, NoEntryAssumption
  <2>2. PICK V \in Table : /\ V = invalidate(U, d)
                           /\ \A x \in Node \ {d} : V[x] = U[x]
                           /\ V[d] \in Entry
                           /\ V[d].status = "ROUTE_INVALID"
                           /\ V[d].next_hop = U[d].next_hop
                           /\ V[d].seq_valid = U[d].seq_valid
                           /\ V[d].dest_seq = U[d].dest_seq /\ V[d].expiration_thread = 1
    BY <2>1, InvalidateEffect
  <2>3. V[d] # NoEntry
    BY <2>2, NoEntryAssumption
  <2>4. /\ \A x \in Node \ {d} : V[x] = T[x]
        /\ V[d].next_hop = e.next_hop /\ V[d].seq_valid = e.seq_valid
        /\ V[d].dest_seq = seq
    BY <1>6, <1>7, <2>2
  <2> QED
    BY <2>2, <2>3, <2>4
<1>10. CASE m.dest \in held[n]
  <2>1. UNCHANGED <<table, kernel>> /\ HungGrows
    BY <1>10, HangsGrows DEF recv_rerr
  <2> QED
    BY <2>1, RoutesUntouched
<1>11. CASE m.dest \notin held[n]
  <2>1. set_table(n, V) /\ DeleteEntry(n, d) /\ UNCHANGED hung
    BY <1>2, <1>8, <1>9, <1>11 DEF recv_rerr, locks
  <2>2. ~ValidEntry(V[d]) /\ ~Untimed(V[d])
    BY <1>9 DEF ValidEntry, Untimed
  <2>3. TimedOrHung(n, table[n], V)
    BY <1>4, <1>9, <2>1, <2>2, HangsGrows, OneEntryTimed DEF TimedOrHung
  <2>4. ASSUME NEW x \in Node, V[x] # NoEntry
        PROVE  /\ HopStep(n, table[n][x], V[x])
               /\ ValidEntry(V[x]) => ValidEntry(table[n][x])
               /\ NumberStep(x, table[n][x], V[x])
               /\ FreshStep(table[n][x], V[x]) \/ ToldByRerr(n, x, V[x].dest_seq)
    <3>1. CASE x = d
      <4>1. HopStep(n, T[d], V[d])
        BY <1>5, <1>9 DEF HopStep
      <4>2. NumberStep(d, T[d], V[d])
        BY <1>3, <1>9 DEF NumberStep
      <4>3. ToldByRerr(n, d, V[d].dest_seq)
        BY <1>3, <1>9
      <4> QED
        BY <1>4, <2>2, <3>1, <4>1, <4>2, <4>3
    <3>2. CASE x # d
      <4>1. V[x] = T[x]
        BY <1>9, <3>2
      <4>2. TableStep(n, {}, T, T)
        BY TableStepReflexive
      <4> QED
        BY <1>4, <2>4, <4>1, <4>2 DEF TableStep
    <3> QED
      BY <3>1, <3>2
  <2> QED
    BY <2>1, <2>2, <2>3, <2>4, RouteRemoved
<1> QED
  BY <1>10, <1>11

LEMMA ForwardedRoutes ==
    ASSUME TypeOK, NEW n \in Node, NEW p \in packets, forwarded_messages(n, p)
    PROVE  RouteChange(n)
<1>1. PICK d, s \in Node, T \in Table : d = p.dest /\ s = p.src /\ T = table[n]
  BY DEF TypeOK, Packet
<1>2. UNCHANGED kernel
  BY DEF forwarded_messages
<1>3. CASE fwd_accepted(n, p)
  <2>1. PICK U \in Table : /\ U = refresh(T, d)
                           /\ TableStep(n, {}, T, U) /\ TimedStep(T, U)
    BY RefreshStep
  <2>2. PICK V \in Table : /\ V = refresh(U, s)
                           /\ TableStep(n, {}, U, V) /\ TimedStep(U, V)
    BY RefreshStep
  <2>3. TableStep(n, {}, table[n], V) /\ TimedStep(table[n], V)
    BY <1>1, <2>1, <2>2, TableStepTransitive, TimedStepTransitive
  <2>4. set_table(n, V) /\ HungGrows
    BY <1>1, <1>3, <2>1, <2>2, HangsGrows DEF fwd_accepted, locks
  <2> QED
    BY <1>2, <2>3, <2>4, RoutesSame DEF TimedOrHung
<1>4. CASE ~fwd_accepted(n, p)
  <2>1. UNCHANGED table /\ HungGrows
    BY <1>4, HangsGrows DEF forwarded_messages, fwd_unknown, fwd_unreachable, fwd_broken,
       fwd_blocked, locks
  <2> QED
    BY <1>2, <2>1, RoutesUntouched
<1> QED
  BY <1>3, <1>4

LEMMA IncomingRoutes ==
    ASSUME TypeOK, NEW n \in Node, NEW p \in packets, incoming_data_message(n, p)
    PROVE  RouteChange(n)
<1>1. PICK s \in Node, T \in Table : s = p.src /\ T = table[n]
  BY DEF TypeOK, Packet
<1>2. UNCHANGED kernel /\ HungGrows
  BY HangsGrows DEF incoming_data_message, locks
<1>3. PICK U \in Table : /\ U = refresh(T, s)
                         /\ TableStep(n, {}, T, U) /\ TimedStep(T, U)
  BY RefreshStep
<1>4. CASE UNCHANGED table
  BY <1>2, <1>4, RoutesUntouched
<1>5. CASE set_table(n, U)
  BY <1>1, <1>2, <1>3, <1>5, RoutesSame DEF TimedOrHung
<1> QED
  BY <1>1, <1>3, <1>4, <1>5 DEF incoming_data_message

\* The callback that returns from a search: with the mark it reads, an entry that
\* is not timed was not searched for.
LEMMA ReturnsRoutes ==
    ASSUME SearchInv, NEW n \in Node, send_rreq_returns(n) \/ freed_wait_returns(n)
    PROVE  RouteChange(n)
<1>1. TypeOK
  BY DEF SearchInv
<1>2. UNCHANGED kernel /\ HungGrows
  BY <1>1, HangsGrows DEF send_rreq_returns, freed_wait_returns, locks
<1>3. CASE freed_wait_returns(n)
  BY <1>1, <1>2, <1>3, RoutesUntouched DEF freed_wait_returns
<1>4. CASE send_rreq_returns(n)
  <2>1. PICK d \in Node, T \in Table : d = outgoing[n].dest /\ T = table[n] /\ T[d] # NoEntry
    BY <1>1, <1>4, PolledEntry, NoEntryAssumption DEF SearchInv, send_rreq_returns, TypeOK
  <2>2. T[d].rreq_search # "SEARCH_SEARCHING"
    BY <1>4, <2>1 DEF send_rreq_returns
  <2>3. PICK U \in Table : /\ U = refresh(T, d)
                           /\ TableStep(n, {}, T, U) /\ TimedStep(T, U)
    BY RefreshStep
  <2>4. PICK V \in Table : /\ V = set_search(T, d, "SEARCH_NONE") /\ RouteKept(T, V, d)
                           /\ V[d].expiration_thread = T[d].expiration_thread
    BY <2>1, SetSearchEffect DEF Outcomes, RouteKept
  <2>5. TableStep(n, {}, T, V) /\ TimedStep(T, V)
    BY <2>1, <2>2, <2>4, RouteKeptStep
  <2>6. set_table(n, U) \/ set_table(n, V)
    BY <1>4, <2>1, <2>3, <2>4 DEF send_rreq_returns
  <2>7. CASE set_table(n, U)
    BY <1>1, <1>2, <2>1, <2>3, <2>7, RoutesSame DEF TimedOrHung
  <2>8. CASE set_table(n, V)
    BY <1>1, <1>2, <2>1, <2>5, <2>8, RoutesSame DEF TimedOrHung
  <2> QED
    BY <2>6, <2>7, <2>8
<1> QED
  BY <1>3, <1>4

\* The thread that gives up starts the timer of the entry again.
LEMMA SenderRoutes ==
    ASSUME SearchInv, NEW n \in Node, send_rreq_thread(n)
    PROVE  RouteChange(n)
<1>1. TypeOK
  BY DEF SearchInv
<1>2. UNCHANGED kernel /\ HungGrows
  BY <1>1, HangsGrows DEF send_rreq_thread, rreq_thread_numbers, rreq_thread_reads,
     send_rreq_ring, send_rreq_full, send_rreq_fails, broadcast_rreq, locks
<1>3. CASE send_rreq_fails(n)
  <2>1. PICK d \in Node, T \in Table : d = sender[n].dest /\ T = table[n] /\ T[d] # NoEntry
    BY <1>1, <1>3, PolledEntry, NoEntryAssumption
       DEF SearchInv, TypeOK, send_rreq_fails, thread_is
  <2>2. PICK U \in Table : U = set_search(T, d, "SEARCH_FAILED") /\ RouteKept(T, U, d)
    BY <2>1, SetSearchEffect DEF Outcomes, RouteKept
  <2>3. U[d] # NoEntry
    BY <2>2, NoEntryAssumption DEF RouteKept
  <2>4. PICK V \in Table : /\ V = refresh(U, d) /\ RouteKept(U, V, d)
                           /\ V[d].expiration_thread = 1
    BY <2>3, RefreshEffect DEF RouteKept
  <2>5. TableStep(n, {}, T, U) /\ TableStep(n, {}, U, V)
    BY <2>1, <2>2, <2>3, <2>4, RouteKeptStep
  <2>6. TableStep(n, {}, table[n], V)
    BY <2>1, <2>5, TableStepTransitive
  <2>7. TimedStep(table[n], V)
    <3>1. \A x \in Node \ {d} : V[x] = T[x]
      BY <2>2, <2>4 DEF RouteKept
    <3>2. ~Untimed(V[d])
      BY <2>4 DEF Untimed
    <3> QED
      BY <2>1, <3>1, <3>2 DEF TimedStep
  <2>8. set_table(n, V)
    BY <1>3, <2>1, <2>2, <2>4 DEF send_rreq_fails, after_failure
  <2> QED
    BY <1>1, <1>2, <2>6, <2>7, <2>8, RoutesSame DEF TimedOrHung
<1>4. CASE ~send_rreq_fails(n)
  <2>1. UNCHANGED table
    BY <1>4 DEF send_rreq_thread, rreq_thread_numbers, rreq_thread_reads,
       send_rreq_ring, send_rreq_full, broadcast_rreq
  <2> QED
    BY <1>1, <1>2, <2>1, RoutesUntouched
<1> QED
  BY <1>3, <1>4

\* A route whose next hop is gone is broken: it leaves the kernel with its status.
LEMMA BrokenRoute ==
    ASSUME TypeOK, NEW n \in Node, NEW d \in Node, NEW B \in Table, B = before_search(n, d),
           NEW U \in Table, TableStep(n, {}, B, U), TimedStep(B, U),
           ValidEntry(U[d]) => ValidEntry(B[d]),
           set_table(n, U), break_route(n, d), HungGrows
    PROVE  RouteChange(n)
<1>1. PICK T \in Table : T = table[n]
  BY DEF TypeOK
<1>2. CASE established(n, d)
  <2>1. T[d] # NoEntry
    BY <1>1, <1>2 DEF established, Valid, get_routing_entry
  <2>2. /\ TableStep(n, {}, T, B) /\ TimedStep(T, B) /\ ~ValidEntry(B[d])
    <3>1. B = invalidate(T, d)
      BY <1>1, <1>2 DEF before_search
    <3> QED
      BY <2>1, <3>1, InvalidateStep
  <2>3. TableStep(n, {}, T, U) /\ TimedStep(T, U)
    BY <2>2, TableStepTransitive, TimedStepTransitive
  <2>4. DeleteEntry(n, d) /\ ~ValidEntry(U[d])
    BY <1>2, <2>2 DEF break_route
  <2>5. \A x \in Node : U[x] # NoEntry =>
            /\ HopStep(n, table[n][x], U[x])
            /\ ValidEntry(U[x]) => ValidEntry(table[n][x])
            /\ NumberStep(x, table[n][x], U[x])
            /\ FreshStep(table[n][x], U[x]) \/ ToldByRerr(n, x, U[x].dest_seq)
    BY <1>1, <2>3 DEF TableStep
  <2>6. TimedOrHung(n, table[n], U)
    BY <1>1, <2>3 DEF TimedOrHung
  <2> QED
    BY <2>4, <2>5, <2>6, RouteRemoved
<1>3. CASE ~established(n, d)
  <2>1. B = T /\ UNCHANGED kernel
    BY <1>1, <1>3 DEF before_search, break_route
  <2> QED
    BY <1>1, <2>1, RoutesSame DEF TimedOrHung
<1> QED
  BY <1>2, <1>3

LEMMA OutgoingRoutes ==
    ASSUME SearchInv, NEW n \in Node, NEW d \in Node, outgoing_message(n, d)
    PROVE  RouteChange(n)
<1>1. TypeOK
  BY DEF SearchInv
<1>2. PICK T, B \in Table : T = table[n] /\ B = before_search(n, d)
  BY <1>1, BeforeSearchKept
<1>3. CASE out_routed(n, d)
  <2>1. PICK U \in Table : /\ U = refresh(T, d)
                           /\ TableStep(n, {}, T, U) /\ TimedStep(T, U)
    BY RefreshStep
  <2>2. UNCHANGED kernel /\ HungGrows
    BY <1>1, <1>3, HangsGrows DEF out_routed, locks
  <2>3. CASE set_table(n, U)
    BY <1>1, <1>2, <2>1, <2>2, <2>3, RoutesSame DEF TimedOrHung
  <2>4. CASE UNCHANGED table
    BY <1>1, <2>2, <2>4, RoutesUntouched
  <2> QED
    BY <1>2, <1>3, <2>1, <2>3, <2>4 DEF out_routed
<1>4. CASE out_dropped(n, d)
  <2>1. set_table(n, B) /\ break_route(n, d) /\ HungGrows
    BY <1>1, <1>2, <1>4, HangsGrows DEF out_dropped, locks
  <2>2. TableStep(n, {}, B, B) /\ TimedStep(B, B)
    BY TableStepReflexive
  <2> QED
    BY <1>1, <1>2, <2>1, <2>2, BrokenRoute
<1>5. CASE out_searches(n, d)
  <2>1. PICK U \in Table : /\ U = start_search(B, d)
                           /\ TableStep(n, {}, B, U) /\ TimedStep(B, U)
                           /\ ValidEntry(U[d]) => ValidEntry(B[d])
    BY StartSearchStep
  <2>2. set_table(n, U) /\ break_route(n, d) /\ HungGrows
    BY <1>1, <1>2, <1>5, <2>1, HangsGrows DEF out_searches, locks
  <2> QED
    BY <1>1, <1>2, <2>1, <2>2, BrokenRoute
<1>6. CASE out_blocked(n, d)
  <2>1. UNCHANGED kernel /\ HungGrows /\ hung'[n] # {}
    BY <1>1, <1>6, HangsGrows DEF out_blocked
  <2>2. PICK e \in Entry : e = T[d] /\ e # NoEntry
    BY <1>2, <1>6, EntryOrNone DEF out_blocked, SearchInv, LockedStays
  <2>3. PICK f \in Entry : f = [e EXCEPT !.expiration_thread = 0] /\ SameRoute(e, f)
    <3>1. [e EXCEPT !.expiration_thread = 0] \in Entry
      BY DEF Entry
    <3> QED
      BY <3>1 DEF Entry, SameRoute
  <2>4. PICK U : U = [T EXCEPT ![d] = f]
    OBVIOUS
  <2>5. U \in Table /\ U[d] = f /\ \A x \in Node \ {d} : U[x] = T[x]
    BY <2>4 DEF Table
  <2>6. TableStep(n, {}, T, U)
    BY <2>2, <2>3, <2>5, RouteKeptStep DEF RouteKept
  <2>7. UNCHANGED table \/ table' = [table EXCEPT ![n][d].expiration_thread = 0]
    BY <1>6 DEF out_blocked
  <2>8. UNCHANGED table \/ set_table(n, U)
    BY <1>1, <1>2, <2>2, <2>3, <2>4, <2>7 DEF set_table, TypeOK, Table
  <2>9. CASE UNCHANGED table
    BY <1>1, <2>1, <2>9, RoutesUntouched
  <2>10. CASE set_table(n, U)
    BY <1>1, <1>2, <2>1, <2>5, <2>6, <2>10, RoutesSame DEF TimedOrHung
  <2> QED
    BY <2>8, <2>9, <2>10
<1> QED
  BY <1>3, <1>4, <1>5, <1>6 DEF outgoing_message

LEMMA TimersRoutes ==
    ASSUME TypeOK, NEW n \in Node, NEW d \in Node,
           route_expires(n, d) \/ entry_deleted(n, d) \/ rreq_id_forgotten(n, d)
    PROVE  RouteChange(n)
<1>1. PICK T \in Table : T = table[n] /\ T[d] # NoEntry
  BY DEF TypeOK, route_expires, entry_deleted, rreq_id_forgotten, fires
<1>2. HungGrows
  BY HangsGrows DEF route_expires, entry_deleted, rreq_id_forgotten, locks
<1>3. CASE route_expires(n, d)
  <2>1. PICK U \in Table : /\ U = invalidate(T, d)
                           /\ TableStep(n, {}, T, U) /\ TimedStep(T, U)
                           /\ ~ValidEntry(U[d])
    BY <1>1, InvalidateStep
  <2>2. set_table(n, U) /\ DeleteEntry(n, d)
    BY <1>1, <1>3, <2>1 DEF route_expires
  <2>3. \A x \in Node : U[x] # NoEntry =>
            /\ HopStep(n, table[n][x], U[x])
            /\ ValidEntry(U[x]) => ValidEntry(table[n][x])
            /\ NumberStep(x, table[n][x], U[x])
            /\ FreshStep(table[n][x], U[x]) \/ ToldByRerr(n, x, U[x].dest_seq)
    BY <1>1, <2>1 DEF TableStep
  <2>4. TimedOrHung(n, table[n], U)
    BY <1>1, <1>2, <2>1 DEF TimedOrHung
  <2> QED
    BY <2>1, <2>2, <2>3, <2>4, RouteRemoved
<1>4. CASE entry_deleted(n, d)
  <2>1. PICK U \in Table : /\ U = [T EXCEPT ![d] = NoEntry] /\ U[d] = NoEntry
                           /\ \A x \in Node \ {d} : U[x] = T[x]
    BY UpdateEffect
  <2>2. set_table(n, U)
    BY <1>1, <1>4, <2>1 DEF entry_deleted, set_table, TypeOK
  <2>3. PICK K : K = kernel[n]
    OBVIOUS
  <2>4. kernel' = [kernel EXCEPT ![n] = K]
    BY <1>4, <2>3 DEF entry_deleted, TypeOK
  <2>5. TableStep(n, {}, T, T) /\ TimedStep(T, T)
    BY TableStepReflexive
  <2>6. \A x \in Node : U[x] # NoEntry =>
            /\ HopStep(n, T[x], U[x])
            /\ NumberStep(x, T[x], U[x])
            /\ FreshStep(T[x], U[x])
    BY <2>1, <2>5 DEF TableStep
  <2>7. KernelStep(n, T, K, U, K)
    <3>1. \A x \in Node : ValidEntry(U[x]) => ValidEntry(T[x])
      BY <2>1 DEF ValidEntry
    <3> QED
      BY <3>1 DEF KernelStep
  <2>8. TimedStep(T, U)
    <3>1. ~Untimed(U[d])
      BY <2>1 DEF Untimed
    <3> QED
      BY <2>1, <3>1 DEF TimedStep
  <2>9. RouteChangeTo(n, U, K)
    BY <1>1, <1>2, <2>2, <2>3, <2>4, <2>6, <2>7, <2>8 DEF RouteChangeTo
  <2> QED
    BY <2>9 DEF RouteChange
<1>5. CASE rreq_id_forgotten(n, d)
  <2>1. PICK e \in Entry : e = T[d]
    BY <1>1, EntryOrNone
  <2>2. PICK f \in Entry : /\ f = [e EXCEPT !.rreq_id = 0, !.rreq_id_thread = 0]
                           /\ SameRoute(e, f)
                           /\ f.rreq_search = e.rreq_search
                           /\ f.expiration_thread = e.expiration_thread
    <3>1. PICK g \in Entry : /\ g = [e EXCEPT !.rreq_id = 0] /\ SameRoute(e, g)
                             /\ g.rreq_search = e.rreq_search
                             /\ g.expiration_thread = e.expiration_thread
      <4>1. [e EXCEPT !.rreq_id = 0] \in Entry
        BY DEF Entry
      <4> QED
        BY <4>1 DEF Entry, SameRoute
    <3>2. PICK f \in Entry : f = [g EXCEPT !.rreq_id_thread = 0]
      BY DEF Entry
    <3> QED
      BY <3>1, <3>2 DEF Entry, SameRoute
  <2>3. PICK U : U = [T EXCEPT ![d] = f]
    OBVIOUS
  <2>4. U \in Table /\ U[d] = f /\ \A x \in Node \ {d} : U[x] = T[x]
    BY <2>3 DEF Table
  <2>5. TableStep(n, {}, T, U) /\ TimedStep(T, U)
    <3>1. RouteKept(T, U, d)
      BY <2>1, <2>2, <2>4 DEF RouteKept
    <3>2. /\ U[d].expiration_thread = T[d].expiration_thread
          /\ U[d].rreq_search = T[d].rreq_search
      BY <2>1, <2>2, <2>4
    <3> QED
      BY <1>1, <2>4, <3>1, <3>2, RouteKeptStep
  <2>6. set_table(n, U) /\ UNCHANGED kernel
    BY <1>1, <1>5, <2>1, <2>2, <2>3 DEF rreq_id_forgotten
  <2> QED
    BY <1>1, <1>2, <2>4, <2>5, <2>6, RoutesSame DEF TimedOrHung
<1> QED
  BY <1>3, <1>4, <1>5

\* Every step is a change of the routes of one node.
LEMMA NextRoutes ==
    ASSUME SearchInv, [Next]_vars
    PROVE  UNCHANGED <<table, kernel, hung>> \/ \E n \in Node : RouteChange(n)
<1>1. TypeOK
  BY DEF SearchInv
<1>2. CASE UNCHANGED vars
  BY <1>2 DEF vars, locks
<1>3. CASE Next
  <2>1. \A n \in Node : hello_wakes(n) \/ hello_sends(n) => UNCHANGED <<table, kernel, hung>>
    BY DEF hello_wakes, hello_sends, locks
  <2> QED
    BY <1>1, <1>3, <2>1, RecvRreqRoutes, RecvRrepRoutes, RecvRerrRoutes, ForwardedRoutes,
       IncomingRoutes, ReturnsRoutes, SenderRoutes, OutgoingRoutes, TimersRoutes DEF Next
<1> QED
  BY <1>2, <1>3

-----------------------------------------------------------------------------
(* The theorems.                                                           *)

\* RouteViaNeighbour, ValidRouteInKernel and EntryTimed at one node, of its
\* table, its kernel routes and its hung threads.
HopsNear(n, T) ==
    \A d \in Node : T[d] # NoEntry => \/ T[d].next_hop = NoAddr
                                      \/ T[d].next_hop # n /\ <<T[d].next_hop, n>> \in Link

GatewaysNear(n, K) == \A r \in K : r[2] # n /\ <<r[2], n>> \in Link

ValidInKernel(T, K) == \A d \in Node : ValidEntry(T[d]) => \E g \in Node : <<d, g>> \in K

TimedUnlessHung(T, hanging) == \A d \in Node : Untimed(T[d]) => hanging # {}

NodeRoutes(n, T, K, hanging) ==
    HopsNear(n, T) /\ GatewaysNear(n, K) /\ ValidInKernel(T, K) /\ TimedUnlessHung(T, hanging)

LEMMA RoutesAtNode ==
    RouteViaNeighbour /\ ValidRouteInKernel /\ EntryTimed
       <=> \A n \in Node : NodeRoutes(n, table[n], kernel[n], hung[n])
<1>1. \A n, d \in Node : Valid(table[n], d) <=> ValidEntry(table[n][d])
  BY DEF Valid, ValidEntry, get_routing_entry
<1>2. RouteViaNeighbour <=>
         \A n \in Node : HopsNear(n, table[n]) /\ GatewaysNear(n, kernel[n])
  BY DEF RouteViaNeighbour, HopsNear, GatewaysNear
<1>3. ValidRouteInKernel <=> \A n \in Node : ValidInKernel(table[n], kernel[n])
  BY <1>1 DEF ValidRouteInKernel, ValidInKernel
<1>4. EntryTimed <=> \A n \in Node : TimedUnlessHung(table[n], hung[n])
  BY DEF EntryTimed, Untimed, TimedUnlessHung
<1> QED
  BY <1>2, <1>3, <1>4 DEF NodeRoutes

\* A change of the routes keeps what is true of them at its node.
LEMMA NodeRoutesKept ==
    ASSUME NEW n \in Node, NEW T \in Table, NEW K, NEW H,
           NEW U \in Table, NEW L, NEW G,
           NodeRoutes(n, T, K, H),
           \A d \in Node : U[d] # NoEntry => HopStep(n, T[d], U[d]),
           KernelStep(n, T, K, U, L), H \subseteq G,
           TimedStep(T, U) \/ G # {}
    PROVE  NodeRoutes(n, U, L, G)
<1>1. HopsNear(n, U)
  <2> SUFFICES ASSUME NEW d \in Node, U[d] # NoEntry
               PROVE  \/ U[d].next_hop = NoAddr
                      \/ U[d].next_hop # n /\ <<U[d].next_hop, n>> \in Link
    BY DEF HopsNear
  <2>1. HopStep(n, T[d], U[d])
    OBVIOUS
  <2>2. T[d] # NoEntry => \/ T[d].next_hop = NoAddr
                          \/ T[d].next_hop # n /\ <<T[d].next_hop, n>> \in Link
    BY DEF NodeRoutes, HopsNear
  <2> QED
    BY <2>1, <2>2 DEF HopStep, Neighbour
<1>2. GatewaysNear(n, L)
  BY DEF NodeRoutes, GatewaysNear, KernelStep, Neighbour
<1>3. ValidInKernel(U, L)
  BY DEF NodeRoutes, ValidInKernel, KernelStep
<1>4. TimedUnlessHung(U, G)
  BY DEF NodeRoutes, TimedUnlessHung, TimedStep
<1> QED
  BY <1>1, <1>2, <1>3, <1>4 DEF NodeRoutes

\* The inductive invariant.
RouteInv == SearchInv /\ RouteViaNeighbour /\ ValidRouteInKernel /\ EntryTimed

LEMMA RouteInit == Init => RouteInv
<1> SUFFICES ASSUME Init PROVE RouteInv
  OBVIOUS
<1>1. SearchInv
  BY SearchInit
<1>2. ASSUME NEW n \in Node
      PROVE  NodeRoutes(n, table[n], kernel[n], hung[n])
  <2>1. kernel[n] = {} /\ \A d \in Node : table[n][d] = NoEntry
    BY DEF Init, EmptyTable
  <2> QED
    BY <2>1 DEF NodeRoutes, HopsNear, GatewaysNear, ValidInKernel, TimedUnlessHung,
                ValidEntry, Untimed
<1> QED
  BY <1>1, <1>2, RoutesAtNode DEF RouteInv

LEMMA RouteNext ==
    ASSUME RouteInv, [Next]_vars
    PROVE  RouteInv'
<1>1. SearchInv /\ TypeOK /\ \A x \in Node : NodeRoutes(x, table[x], kernel[x], hung[x])
  BY RoutesAtNode DEF RouteInv, SearchInv
<1>2. SearchInv'
  BY <1>1, SearchNext
<1>3. CASE UNCHANGED <<table, kernel, hung>>
  BY <1>2, <1>3 DEF RouteInv, RouteViaNeighbour, ValidRouteInKernel, EntryTimed
<1>4. ASSUME NEW n \in Node, RouteChange(n)
      PROVE  RouteInv'
  <2>1. PICK U \in Table : \E L : RouteChangeTo(n, U, L)
    BY <1>4 DEF RouteChange
  <2>2. PICK L : RouteChangeTo(n, U, L)
    BY <2>1
  <2>3. PICK T \in Table : T = table[n]
    BY <1>1 DEF TypeOK
  <2>4. PICK K, H, G : K = kernel[n] /\ H = hung[n] /\ G = hung'[n]
    OBVIOUS
  <2>5. NodeRoutes(n, U, L, G)
    <3>1. NodeRoutes(n, T, K, H)
      BY <1>1, <2>3, <2>4
    <3>2. \A d \in Node : U[d] # NoEntry => HopStep(n, T[d], U[d])
      BY <2>2, <2>3 DEF RouteChangeTo
    <3>3. /\ KernelStep(n, T, K, U, L) /\ H \subseteq G
          /\ TimedStep(T, U) \/ G # {}
      BY <2>2, <2>3, <2>4 DEF RouteChangeTo, HungGrows
    <3> QED
      BY <3>1, <3>2, <3>3, NodeRoutesKept
  <2>6. ASSUME NEW x \in Node
        PROVE  NodeRoutes(x, table'[x], kernel'[x], hung'[x])
    <3>1. CASE x = n
      <4>1. table'[n] = U /\ kernel'[n] = L
        BY <1>1, <2>2 DEF RouteChangeTo, set_table, TypeOK
      <4> QED
        BY <2>4, <2>5, <3>1, <4>1
    <3>2. CASE x # n
      <4>1. table'[x] = table[x] /\ kernel'[x] = kernel[x] /\ hung[x] \subseteq hung'[x]
        BY <1>1, <2>2, <3>2 DEF RouteChangeTo, set_table, TypeOK, HungGrows
      <4>2. NodeRoutes(x, table[x], kernel[x], hung[x])
        BY <1>1
      <4> QED
        BY <4>1, <4>2 DEF NodeRoutes, TimedUnlessHung
    <3> QED
      BY <3>1, <3>2
  <2>7. RouteViaNeighbour'
    BY <2>6 DEF NodeRoutes, HopsNear, GatewaysNear, RouteViaNeighbour
  <2>8. ValidRouteInKernel'
    BY <2>6 DEF NodeRoutes, ValidInKernel, ValidRouteInKernel, ValidEntry, Valid, get_routing_entry
  <2>9. EntryTimed'
    BY <2>6 DEF NodeRoutes, TimedUnlessHung, EntryTimed, Untimed
  <2> QED
    BY <1>2, <2>7, <2>8, <2>9 DEF RouteInv
<1> QED
  BY <1>1, <1>3, <1>4, NextRoutes

\* A route leads through a node that was heard, never through the node itself,
\* in the table and in the kernel, whatever RREQs and RREPs arrive.
THEOREM NeighbourCorrect == Spec => []RouteViaNeighbour
<1>1. RouteInv /\ [Next]_vars => RouteInv'
  BY RouteNext
<1>2. RouteInv => RouteViaNeighbour
  BY DEF RouteInv
<1> QED
  BY RouteInit, <1>1, <1>2, PTL DEF Spec

\* A route that the daemon calls valid is in the kernel: DeleteEntry takes only
\* routes of entries that recv_rerr, expiration_func or outgoing_message have
\* made invalid, in every network.
THEOREM KernelCorrect == Spec => []ValidRouteInKernel
<1>1. RouteInv /\ [Next]_vars => RouteInv'
  BY RouteNext
<1>2. RouteInv => ValidRouteInKernel
  BY DEF RouteInv
<1> QED
  BY RouteInit, <1>1, <1>2, PTL DEF Spec

\* An entry without expiration thread is being searched for, or a thread of its
\* daemon hangs: send_rreq's cancelled timer is always started again.
THEOREM TimedCorrect == Spec => []EntryTimed
<1>1. RouteInv /\ [Next]_vars => RouteInv'
  BY RouteNext
<1>2. RouteInv => EntryTimed
  BY DEF RouteInv
<1> QED
  BY RouteInit, <1>1, <1>2, PTL DEF Spec

\* What a step does to the freshness of one entry.
FreshnessStep ==
    \A n, d \in Node :
        /\ table[n][d] # NoEntry /\ table'[n][d] # NoEntry
        /\ table[n][d].seq_valid = "SEQ_VALID"
        /\ table'[n][d].dest_seq < table[n][d].dest_seq
        => \E m \in rerrs : /\ Hears(n, m.from, m.to)
                            /\ m.dest = d
                            /\ m.seq = table'[n][d].dest_seq

LEMMA FreshnessNext ==
    ASSUME SearchInv, [Next]_vars
    PROVE  FreshnessStep
<1>1. TypeOK
  BY DEF SearchInv
<1>2. TypeOK'
  BY SearchNext DEF SearchInv
<1> SUFFICES ASSUME NEW n \in Node, NEW d \in Node,
                    table[n][d] # NoEntry, table'[n][d] # NoEntry,
                    table[n][d].seq_valid = "SEQ_VALID",
                    table'[n][d].dest_seq < table[n][d].dest_seq
             PROVE  ToldByRerr(n, d, table'[n][d].dest_seq)
  BY DEF FreshnessStep, ToldByRerr
<1>3. PICK T, V \in Table : T = table[n] /\ V = table'[n]
  BY <1>1, <1>2 DEF TypeOK
<1>4. T[d].dest_seq \in Nat /\ V[d].dest_seq \in Nat
  BY <1>3, EntryOrNone DEF Entry
<1>5. T # V /\ ~FreshStep(T[d], V[d])
  BY <1>3, <1>4 DEF FreshStep, Numbered
<1>6. PICK x \in Node : RouteChange(x)
  BY <1>3, <1>5, NextRoutes
<1>7. PICK U \in Table : \E L : RouteChangeTo(x, U, L)
  BY <1>6 DEF RouteChange
<1>8. PICK L : RouteChangeTo(x, U, L)
  BY <1>7
<1>9. x = n /\ V = U
  BY <1>1, <1>3, <1>5, <1>8 DEF RouteChangeTo, set_table, TypeOK
<1>10. FreshStep(T[d], U[d]) \/ ToldByRerr(n, d, U[d].dest_seq)
  BY <1>3, <1>8, <1>9 DEF RouteChangeTo
<1> QED
  BY <1>3, <1>5, <1>9, <1>10

\* Reordered and repeated RREQs, RREPs and HELLOs never replace a valid number
\* by a smaller one: only recv_rerr does, in every network.
THEOREM FreshnessCorrect == Spec => FreshnessMonotone
<1>1. SearchInv /\ [Next]_vars => SearchInv'
  BY SearchNext
<1>2. SearchInv /\ [Next]_vars => [FreshnessStep]_vars
  BY FreshnessNext
<1>3. Spec => [][FreshnessStep]_vars
  BY SearchInit, <1>1, <1>2, PTL DEF Spec
<1> QED
  BY <1>3 DEF FreshnessStep, FreshnessMonotone
=============================================================================
