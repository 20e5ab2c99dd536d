---------------------------- MODULE StoreProofs -----------------------------
(***************************************************************************)
(* Proofs about EntryStore for every set of destinations and cells: the    *)
(* loop over next visits exactly the cells of a list, the list functions   *)
(* do to its sequence what their names say and leave other lists alone,    *)
(* and so the slots and cells implement a map of address lists.            *)
(***************************************************************************)
EXTENDS EntryStore, WellFoundedInduction, FiniteSetTheorems, SequenceTheorems, TLAPS

-----------------------------------------------------------------------------
(* Induction on numbers, by the least number that is an exception.         *)

Smaller == {p \in Nat \X Nat : p[1] < p[2]}

LEMMA SmallerWellFounded == IsWellFoundedOn(Smaller, Nat)
BY NatLessThanWellFounded DEF OpToRel, Smaller

LEMMA Least ==
    ASSUME NEW S \in SUBSET Nat, S # {}
    PROVE  \E n \in S : \A m \in S : n <= m
<1>1. \E n \in S : \A m \in S : ~ (<<m, n>> \in Smaller)
  BY SmallerWellFounded, WFMin
<1>2. PICK n \in S : \A m \in S : ~ (<<m, n>> \in Smaller)
  BY <1>1
<1>3. \A m \in S : ~ (m < n)
  BY <1>2 DEF Smaller
<1> QED
  BY <1>3

-----------------------------------------------------------------------------
(* Chains of cells.                                                        *)

\* s are the cells of list l, in both directions.
Chain(h, l, s) ==
    LET n == Len(s)
    IN  /\ s \in Seq(h.used)
        /\ \A i, j \in 1..n : s[i] = s[j] => i = j
        /\ l.first = IF n = 0 THEN NULL ELSE s[1]
        /\ l.last = IF n = 0 THEN NULL ELSE s[n]
        /\ \A i \in 1..n : /\ h.at[s[i]].next = IF i = n THEN NULL ELSE s[i + 1]
                           /\ h.at[s[i]].prev = IF i = 1 THEN NULL ELSE s[i - 1]

LEMMA ChainCells ==
    ASSUME NEW h \in Heap, NEW l, NEW s, Chain(h, l, s)
    PROVE  /\ Len(s) \in Nat /\ s \in [1..Len(s) -> h.used] /\ h.used \subseteq Cell
           /\ \A i \in 1..Len(s) : s[i] \in h.used /\ s[i] \in Cell /\ s[i] # NULL
           /\ Range(s) = {s[i] : i \in 1..Len(s)} /\ Range(s) \subseteq h.used
<1>1. s \in Seq(h.used) /\ h.used \subseteq Cell
  BY DEF Chain, Heap
<1>2. Len(s) \in Nat /\ s \in [1..Len(s) -> h.used]
  BY <1>1
<1> QED
  BY <1>1, <1>2, ListAssumption DEF Range

\* A chain has no more cells than there are.
LEMMA ChainLength ==
    ASSUME NEW h \in Heap, NEW l, NEW s, Chain(h, l, s)
    PROVE  /\ Len(s) <= Cardinality(Cell) /\ Cardinality(Cell) \in Nat
           /\ Cardinality(Range(s)) = Len(s)
<1>1. Len(s) \in Nat /\ s \in [1..Len(s) -> Cell] /\ IsFiniteSet(Cell)
  BY ChainCells, ListAssumption
<1>2. \A i, j \in 1..Len(s) : s[i] = s[j] => i = j
  BY DEF Chain
<1>3. s \in Injection(1..Len(s), Cell)
  BY <1>1, <1>2 DEF Injection, IsInjective
<1>4. IsFiniteSet(1..Len(s)) /\ Cardinality(1..Len(s)) = Len(s)
  BY <1>1, FS_Interval
<1>5. s \in Bijection(1..Len(s), Range(s))
  BY <1>1, <1>2 DEF Bijection, Injection, IsInjective, Surjection, Range
<1> QED
  BY <1>1, <1>3, <1>4, <1>5, FS_Injection, FS_CardinalityType, FS_CountingElements
     DEF ExistsBijection

-----------------------------------------------------------------------------
(* The loop over next.                                                     *)

Walked(h, c, f) ==
    f = [k \in 0..Cardinality(Cell) |->
           IF k = 0 THEN c ELSE IF f[k - 1] = NULL THEN NULL ELSE h.at[f[k - 1]].next]

LEMMA WalkDefined ==
    ASSUME NEW h, NEW c, NEW f, Walked(h, c, f)
    PROVE  Walked(h, c, walk(h, c))
BY Zenon DEF walk, Walked

\* Two walks from one cell are one.
LEMMA WalkUnique ==
    ASSUME NEW h, NEW c, NEW f, NEW g, Walked(h, c, f), Walked(h, c, g),
           Cardinality(Cell) \in Nat
    PROVE  f = g
<1> DEFINE N == Cardinality(Cell)
           S == {k \in 0..N : f[k] # g[k]}
<1> HIDE DEF N
<1>0. N \in Nat
  BY DEF N
<1>1. /\ DOMAIN f = 0..N /\ DOMAIN g = 0..N
      /\ f = [k \in 0..N |-> f[k]] /\ g = [k \in 0..N |-> g[k]]
  BY DEF Walked, N
<1>2. \A k \in 0..N :
         /\ f[k] = IF k = 0 THEN c ELSE IF f[k - 1] = NULL THEN NULL ELSE h.at[f[k - 1]].next
         /\ g[k] = IF k = 0 THEN c ELSE IF g[k - 1] = NULL THEN NULL ELSE h.at[g[k - 1]].next
  BY DEF Walked, N
<1>3. ASSUME S # {} PROVE FALSE
  <2>1. S \in SUBSET Nat
    BY <1>0
  <2>2. PICK n \in S : \A m \in S : n <= m
    BY <2>1, <1>3, Least
  <2>3. n \in 0..N /\ n # 0 /\ f[n] # g[n]
    BY <1>2
  <2>4. n - 1 \in 0..N /\ ~(n <= n - 1)
    BY <2>3, <1>0
  <2>5. f[n - 1] = g[n - 1]
    BY <2>2, <2>4
  <2> QED
    BY <2>3, <2>5, <1>2
<1>4. \A k \in 0..N : f[k] = g[k]
  BY <1>3
<1> QED
  BY <1>1, <1>4

\* The loop visits the cells of a chain, in their order, and ends.
LEMMA CellsOfChain ==
    ASSUME NEW h \in Heap, NEW l, NEW s, Chain(h, l, s)
    PROVE  cells(h, l) = s
<1> DEFINE N == Cardinality(Cell)
           n == Len(s)
           w == walk(h, l.first)
           g == [k \in 0..N |-> IF k < n THEN s[k + 1] ELSE NULL]
<1>1. n \in Nat /\ N \in Nat /\ n <= N
  BY ChainCells, ChainLength
<1>2. s \in [1..n -> h.used] /\ \A i \in 1..n : s[i] # NULL
  BY ChainCells
<1>3. Walked(h, l.first, g)
  <2> HIDE DEF N, n
  <2>1. \A k \in 0..N : g[k] = IF k = 0 THEN l.first
                               ELSE IF g[k - 1] = NULL THEN NULL ELSE h.at[g[k - 1]].next
    <3>1. l.first = IF n = 0 THEN NULL ELSE s[1]
      BY DEF Chain, n
    <3>2. \A i \in 1..n : h.at[s[i]].next = IF i = n THEN NULL ELSE s[i + 1]
      BY DEF Chain, n
    <3>3. TAKE k \in 0..N
    <3>4. CASE k = 0
      BY <3>1, <3>4, <1>1
    <3>5. CASE k # 0 /\ k - 1 < n
      <4>1. k \in 1..n /\ g[k - 1] = s[k] /\ g[k - 1] # NULL
        BY <3>5, <1>1, <1>2
      <4>2. h.at[s[k]].next = IF k = n THEN NULL ELSE s[k + 1]
        BY <4>1, <3>2
      <4> QED
        BY <4>1, <4>2, <1>1
    <3>6. CASE k # 0 /\ ~(k - 1 < n)
      BY <3>6, <1>1
    <3> QED
      BY <3>4, <3>5, <3>6
  <2> HIDE DEF g
  <2>2. g = [k \in 0..N |-> g[k]]
    BY DEF g
  <2> QED
    BY <2>1, <2>2 DEF Walked, N
<1>4. w = g
  BY <1>1, <1>3, WalkDefined, WalkUnique
<1>5. {k \in DOMAIN w : w[k] # NULL} = 0..(n - 1)
  <2> HIDE DEF w, n, N
  <2>1. \A k \in 0..N : w[k] # NULL <=> k < n
    BY <1>1, <1>2, <1>4
  <2>2. DOMAIN w = 0..N
    BY <1>4
  <2> QED
    BY <2>1, <2>2, <1>1
<1>6. Cardinality(0..(n - 1)) = n
  <2> HIDE DEF n, N
  <2>1. n - 1 \in Int /\ (IF 0 > n - 1 THEN 0 ELSE (n - 1) - 0 + 1) = n
    BY <1>1
  <2> QED
    BY <2>1, FS_Interval
<1>7. \A i \in 1..n : w[i - 1] = s[i]
  <2> HIDE DEF w, n, N
  <2> QED
    BY <1>1, <1>4
<1>8. cells(h, l) = [i \in 1..n |-> w[i - 1]]
  BY <1>5, <1>6 DEF cells, cells_from
<1> HIDE DEF w, n
<1> QED
  BY <1>2, <1>7, <1>8

-----------------------------------------------------------------------------
(* The list functions.                                                     *)

\* What an operation leaves of a cell outside the list it works on: all of it.
Outside(h, k, s) ==
    \A b \in h.used : b \notin Range(s) => b \in k.used /\ k.at[b] = h.at[b]

\* A list keeps its cells when only others change.
LEMMA ChainKept ==
    ASSUME NEW h \in Heap, NEW k \in Heap, NEW l, NEW s, Chain(h, l, s),
           \A b \in Range(s) : b \in k.used /\ k.at[b] = h.at[b]
    PROVE  Chain(k, l, s)
<1>1. /\ Len(s) \in Nat /\ s \in [1..Len(s) -> h.used]
      /\ \A i \in 1..Len(s) : s[i] \in Range(s)
  BY ChainCells
<1>2. s \in Seq(k.used)
  <2>1. \A i \in 1..Len(s) : s[i] \in k.used
    BY <1>1
  <2>2. s \in [1..Len(s) -> k.used]
    BY <1>1, <2>1
  <2> QED
    BY <1>1, <2>2
<1>3. \A i \in 1..Len(s) : k.at[s[i]] = h.at[s[i]]
  BY <1>1
<1> QED
  BY <1>2, <1>3 DEF Chain

LEMMA ChainEnds ==
    ASSUME NEW h \in Heap, NEW l \in List, NEW s, Chain(h, l, s)
    PROVE  /\ h.used \subseteq Cell /\ h.at \in [Cell -> Block] /\ NULL \notin Cell
           /\ l.first = NULL <=> Len(s) = 0
           /\ l.last = NULL <=> Len(s) = 0
           /\ l.first \in Pointer /\ l.last \in Pointer
           /\ Len(s) # 0 => l.first = s[1] /\ l.last = s[Len(s)]
<1>1. /\ h.used \subseteq Cell /\ h.at \in [Cell -> Block] /\ NULL \notin Cell
  BY ListAssumption DEF Heap
<1>2. Len(s) \in Nat /\ \A i \in 1..Len(s) : s[i] # NULL
  BY ChainCells
<1>3. /\ l.first = IF Len(s) = 0 THEN NULL ELSE s[1]
      /\ l.last = IF Len(s) = 0 THEN NULL ELSE s[Len(s)]
  BY DEF Chain
<1> QED
  BY <1>1, <1>2, <1>3 DEF List

LEMMA NextSet ==
    ASSUME NEW e \in Block, NEW c
    PROVE  /\ [e EXCEPT !.next = c].data = e.data
           /\ [e EXCEPT !.next = c].prev = e.prev
           /\ [e EXCEPT !.next = c].next = c
BY DEF Block

LEMMA AddedCells ==
    ASSUME NEW h \in Heap, NEW l \in List, NEW s, Chain(h, l, s),
           NEW c \in Cell \ h.used, NEW d \in Data, NEW r, r = add_entry_to_list(h, l, c, d)
    PROVE  /\ r.heap \in Heap /\ r.heap.used = h.used \cup {c}
           /\ r.heap.at[c] = [data |-> d, next |-> NULL, prev |-> l.last]
           /\ \A b \in Cell \ {c} :
                 r.heap.at[b] = IF b = l.last THEN [h.at[b] EXCEPT !.next = c] ELSE h.at[b]
           /\ r.list = [first |-> IF l.first = NULL THEN c ELSE l.first, last |-> c]
<1> DEFINE block == [data |-> d, next |-> NULL,
                     prev |-> IF l.first = NULL THEN NULL ELSE l.last]
           linked == IF l.first = NULL THEN h.at ELSE [h.at EXCEPT ![l.last].next = c]
           at == [linked EXCEPT ![c] = block]
<1>1. /\ h.used \subseteq Cell /\ h.at \in [Cell -> Block] /\ NULL \notin Cell
      /\ l.first = NULL <=> l.last = NULL
      /\ l.last \in Pointer
  BY ChainEnds
<1>2. block = [data |-> d, next |-> NULL, prev |-> l.last] /\ block \in Block
  BY <1>1 DEF Block, Pointer
<1>3. linked \in [Cell -> Block]
  BY <1>1 DEF Block, Pointer
<1>4. \A b \in Cell : linked[b] = IF b = l.last THEN [h.at[b] EXCEPT !.next = c] ELSE h.at[b]
  BY <1>1 DEF Pointer
<1>5. /\ r.heap = [used |-> h.used \cup {c}, at |-> at]
      /\ r.list = IF l.first = NULL THEN [first |-> c, last |-> c] ELSE [l EXCEPT !.last = c]
  BY DEF add_entry_to_list
<1> HIDE DEF block, linked
<1>6. /\ at \in [Cell -> Block] /\ at[c] = block
      /\ \A b \in Cell \ {c} : at[b] = linked[b]
  BY <1>2, <1>3
<1> HIDE DEF at
<1>7. r.heap \in Heap /\ r.heap.used = h.used \cup {c} /\ r.heap.at = at
  BY <1>1, <1>5, <1>6 DEF Heap
<1>8. r.list = [first |-> IF l.first = NULL THEN c ELSE l.first, last |-> c]
  BY <1>5 DEF List
<1> QED
  BY <1>2, <1>4, <1>6, <1>7, <1>8

\* add_entry_to_list puts its cell at the end.
LEMMA AddedChain ==
    ASSUME NEW h \in Heap, NEW l \in List, NEW s, Chain(h, l, s),
           NEW c \in Cell \ h.used, NEW d \in Data, NEW r, r = add_entry_to_list(h, l, c, d)
    PROVE  /\ r.heap \in Heap /\ r.list \in List
           /\ Chain(r.heap, r.list, Append(s, c))
           /\ r.heap.used = h.used \cup {c}
           /\ Outside(h, r.heap, s)
           /\ r.heap.at[c].data = d /\ \A b \in h.used : r.heap.at[b].data = h.at[b].data
<1> DEFINE n == Len(s)
           t == Append(s, c)
           k == r.heap
<1>1. /\ k \in Heap /\ k.used = h.used \cup {c}
      /\ k.at[c] = [data |-> d, next |-> NULL, prev |-> l.last]
      /\ \A b \in Cell \ {c} :
            k.at[b] = IF b = l.last THEN [h.at[b] EXCEPT !.next = c] ELSE h.at[b]
      /\ r.list = [first |-> IF l.first = NULL THEN c ELSE l.first, last |-> c]
  BY AddedCells
<1>2. /\ n \in Nat /\ s \in [1..n -> h.used] /\ s \in Seq(h.used) /\ h.used \subseteq Cell
      /\ \A i \in 1..n : s[i] \in h.used /\ s[i] \in Cell /\ s[i] # c /\ s[i] # NULL
                         /\ s[i] \in Range(s)
  BY ChainCells DEF Chain
<1>3. /\ h.at \in [Cell -> Block] /\ NULL \notin Cell
      /\ l.first = NULL <=> n = 0
      /\ l.last = NULL <=> n = 0
      /\ l.first \in Pointer /\ l.last \in Pointer
      /\ n # 0 => l.first = s[1] /\ l.last = s[n]
  BY ChainEnds
<1>4. /\ \A i, j \in 1..n : s[i] = s[j] => i = j
      /\ \A i \in 1..n : /\ h.at[s[i]].next = IF i = n THEN NULL ELSE s[i + 1]
                         /\ h.at[s[i]].prev = IF i = 1 THEN NULL ELSE s[i - 1]
  BY DEF Chain
<1>5. r.list \in List
  BY <1>1, <1>3 DEF List, Pointer
<1>6. /\ \A b \in h.used : b \in Cell \ {c} /\ h.at[b] \in Block
      /\ \A b \in h.used : k.at[b] = IF b = l.last THEN [h.at[b] EXCEPT !.next = c] ELSE h.at[b]
  BY <1>1, <1>2, <1>3
<1>7. /\ k.at[c].data = d
      /\ \A b \in h.used : /\ k.at[b].data = h.at[b].data
                          /\ k.at[b].prev = h.at[b].prev
                          /\ k.at[b].next = IF b = l.last THEN c ELSE h.at[b].next
  <2>1. k.at[c].data = d
    BY <1>1
  <2>2. ASSUME NEW b \in h.used
        PROVE  /\ k.at[b].data = h.at[b].data
               /\ k.at[b].prev = h.at[b].prev
               /\ k.at[b].next = IF b = l.last THEN c ELSE h.at[b].next
    <3>1. h.at[b] \in Block
      BY <1>6
    <3>2. CASE b = l.last
      <4>1. k.at[b] = [h.at[b] EXCEPT !.next = c]
        BY <1>6, <3>2
      <4> QED
        BY <3>1, <3>2, <4>1, NextSet
    <3>3. CASE b # l.last
      BY <1>6, <3>3
    <3> QED
      BY <3>2, <3>3
  <2> QED
    BY <2>1, <2>2
<1>8. Outside(h, k, s)
  <2>1. \A b \in h.used : b = l.last => n # 0 /\ b \in Range(s)
    BY <1>2, <1>3
  <2> QED
    BY <2>1, <1>1, <1>6 DEF Outside
<1>9. /\ t \in Seq(k.used) /\ Len(t) = n + 1 /\ t[n + 1] = c
      /\ \A i \in 1..n : t[i] = s[i]
  BY <1>1, <1>2
<1> HIDE DEF t, n, k
<1>10. \A i, j \in 1..(n + 1) : t[i] = t[j] => i = j
  BY <1>2, <1>4, <1>9
<1>11. ASSUME NEW i \in 1..(n + 1)
       PROVE  /\ k.at[t[i]].next = IF i = n + 1 THEN NULL ELSE t[i + 1]
              /\ k.at[t[i]].prev = IF i = 1 THEN NULL ELSE t[i - 1]
  <2>1. CASE i = n + 1
    BY <2>1, <1>1, <1>2, <1>3, <1>9
  <2>2. CASE i \in 1..n
    <3>1. /\ t[i] = s[i] /\ s[i] \in h.used
          /\ s[i] = l.last <=> i = n
      BY <2>2, <1>2, <1>3, <1>4, <1>9
    <3>3. /\ k.at[t[i]].next = IF i = n THEN c ELSE h.at[s[i]].next
          /\ k.at[t[i]].prev = h.at[s[i]].prev
      BY <3>1, <1>7
    <3>4. /\ h.at[s[i]].next = IF i = n THEN NULL ELSE s[i + 1]
          /\ h.at[s[i]].prev = IF i = 1 THEN NULL ELSE s[i - 1]
      BY <2>2, <1>4
    <3>5. /\ i # n => t[i + 1] = s[i + 1]
          /\ i # 1 => t[i - 1] = s[i - 1]
      BY <2>2, <1>2, <1>9
    <3> QED
      BY <2>2, <3>3, <3>4, <3>5, <1>2, <1>9
  <2> QED
    BY <2>1, <2>2, <1>2
<1>12. r.list.first = t[1] /\ r.list.last = t[n + 1]
  BY <1>1, <1>2, <1>3, <1>9
<1>13. Chain(k, r.list, t)
  BY <1>2, <1>9, <1>10, <1>11, <1>12 DEF Chain
<1> QED
  BY <1>1, <1>5, <1>7, <1>8, <1>13 DEF k, t

\* s without its k-th cell.
without(s, k) == [i \in 1..(Len(s) - 1) |-> IF i < k THEN s[i] ELSE s[i + 1]]

\* A pointer of one cell is set.
LEMMA PointerSet ==
    ASSUME NEW at \in [Cell -> Block], NEW p \in Cell, NEW q \in Pointer
    PROVE  /\ [at EXCEPT ![p].next = q] \in [Cell -> Block]
           /\ [at EXCEPT ![p].prev = q] \in [Cell -> Block]
           /\ \A x \in Cell :
                 /\ [at EXCEPT ![p].next = q][x] = IF x = p THEN [at[x] EXCEPT !.next = q] ELSE at[x]
                 /\ [at EXCEPT ![p].prev = q][x] = IF x = p THEN [at[x] EXCEPT !.prev = q] ELSE at[x]
BY DEF Block

LEMMA PrevSet ==
    ASSUME NEW e \in Block, NEW c
    PROVE  /\ [e EXCEPT !.prev = c].data = e.data
           /\ [e EXCEPT !.prev = c].next = e.next
           /\ [e EXCEPT !.prev = c].prev = c
BY DEF Block

LEMMA UnlinkedCells ==
    ASSUME NEW h \in Heap, NEW l, NEW c \in Cell, NEW r, r = unlink(h, l, c)
    PROVE  LET b == h.at[c]
           IN  /\ r.heap \in Heap /\ r.heap.used = h.used \ {c}
               /\ r.list = [first |-> IF c = l.first THEN b.next ELSE l.first,
                            last |-> IF b.next = NULL THEN b.prev ELSE l.last]
               /\ \A x \in Cell \ {c} :
                     /\ r.heap.at[x].data = h.at[x].data
                     /\ r.heap.at[x].next = IF x = b.prev THEN b.next ELSE h.at[x].next
                     /\ r.heap.at[x].prev = IF x = b.next THEN b.prev ELSE h.at[x].prev
                     /\ x \notin {b.prev, b.next} => r.heap.at[x] = h.at[x]
<1> DEFINE b == h.at[c]
           forward == IF b.prev = NULL THEN h.at ELSE [h.at EXCEPT ![b.prev].next = b.next]
           both == IF b.next = NULL THEN forward ELSE [forward EXCEPT ![b.next].prev = b.prev]
           freed == [x \in Cell |-> IF x \in {c} THEN FreeBlock ELSE both[x]]
<1>1. /\ h.used \subseteq Cell /\ h.at \in [Cell -> Block] /\ NULL \notin Cell
      /\ b \in Block /\ b.next \in Pointer /\ b.prev \in Pointer
      /\ b.next # NULL => b.next \in Cell
      /\ b.prev # NULL => b.prev \in Cell
      /\ FreeBlock \in Block
  BY ListAssumption DEF Heap, Block, Pointer, FreeBlock
<1>2. /\ r.heap = [used |-> h.used \ {c}, at |-> freed]
      /\ r.list = [first |-> IF c = l.first THEN b.next ELSE l.first,
                   last |-> IF b.next = NULL THEN b.prev ELSE l.last]
  <2>1. h = [used |-> h.used, at |-> h.at]
    BY DEF Heap
  <2> QED
    BY <2>1 DEF unlink, release
<1> HIDE DEF b
<1>3. /\ forward \in [Cell -> Block]
      /\ \A x \in Cell :
            /\ x = b.prev => forward[x] = [h.at[x] EXCEPT !.next = b.next]
            /\ x # b.prev => forward[x] = h.at[x]
  <2>1. CASE b.prev = NULL
    BY <2>1, <1>1
  <2>2. CASE b.prev # NULL
    BY <2>2, <1>1, PointerSet
  <2> QED
    BY <2>1, <2>2
<1> HIDE DEF forward
<1>4. /\ both \in [Cell -> Block]
      /\ \A x \in Cell :
            /\ x = b.next => both[x] = [forward[x] EXCEPT !.prev = b.prev]
            /\ x # b.next => both[x] = forward[x]
  <2>1. CASE b.next = NULL
    BY <2>1, <1>1, <1>3
  <2>2. CASE b.next # NULL
    <3> DEFINE p == b.next
               q == b.prev
               w == [forward EXCEPT ![p].prev = q]
    <3>1. p \in Cell /\ q \in Pointer /\ both = w
      BY <2>2, <1>1
    <3> HIDE DEF p, q, both
    <3>2. w \in [Cell -> Block]
      BY <3>1, <1>3, PointerSet
    <3>3. \A x \in Cell : w[x] = IF x = p THEN [forward[x] EXCEPT !.prev = q] ELSE forward[x]
      BY <3>1, <1>3, PointerSet
    <3> HIDE DEF w
    <3> QED
      BY <3>1, <3>2, <3>3 DEF p, q
  <2> QED
    BY <2>1, <2>2
<1> HIDE DEF both
<1>5. freed \in [Cell -> Block] /\ \A x \in Cell \ {c} : freed[x] = both[x]
  BY <1>1, <1>4
<1> HIDE DEF freed
<1>6. r.heap \in Heap /\ r.heap.used = h.used \ {c} /\ r.heap.at = freed
  BY <1>1, <1>2, <1>5 DEF Heap
<1>7. ASSUME NEW x \in Cell \ {c}
      PROVE  /\ freed[x].data = h.at[x].data
             /\ freed[x].next = IF x = b.prev THEN b.next ELSE h.at[x].next
             /\ freed[x].prev = IF x = b.next THEN b.prev ELSE h.at[x].prev
             /\ x \notin {b.prev, b.next} => freed[x] = h.at[x]
  <2>1. h.at[x] \in Block /\ forward[x] \in Block
    BY <1>1, <1>3
  <2>2. /\ forward[x].data = h.at[x].data /\ forward[x].prev = h.at[x].prev
        /\ forward[x].next = IF x = b.prev THEN b.next ELSE h.at[x].next
    <3>1. CASE x = b.prev
      <4>1. forward[x] = [h.at[x] EXCEPT !.next = b.next]
        BY <3>1, <1>3
      <4> QED
        BY <3>1, <2>1, <4>1, NextSet
    <3>2. CASE x # b.prev
      BY <3>2, <1>3
    <3> QED
      BY <3>1, <3>2
  <2>3. /\ both[x].data = forward[x].data /\ both[x].next = forward[x].next
        /\ both[x].prev = IF x = b.next THEN b.prev ELSE forward[x].prev
    <3>1. CASE x = b.next
      <4>1. both[x] = [forward[x] EXCEPT !.prev = b.prev]
        BY <3>1, <1>4
      <4> QED
        BY <3>1, <2>1, <4>1, PrevSet
    <3>2. CASE x # b.next
      BY <3>2, <1>4
    <3> QED
      BY <3>1, <3>2
  <2>4. x \notin {b.prev, b.next} => both[x] = h.at[x]
    BY <1>3, <1>4
  <2> QED
    BY <1>5, <2>2, <2>3, <2>4
<1> QED
  BY <1>2, <1>6, <1>7 DEF b

\* unlink takes one cell out of the chain, wherever it is.
LEMMA UnlinkedChain ==
    ASSUME NEW h \in Heap, NEW l \in List, NEW s, Chain(h, l, s),
           NEW k \in 1..Len(s), NEW r, r = unlink(h, l, s[k])
    PROVE  /\ r.heap \in Heap /\ r.list \in List
           /\ Chain(r.heap, r.list, without(s, k))
           /\ r.heap.used = h.used \ {s[k]}
           /\ Outside(h, r.heap, s)
           /\ \A b \in h.used \ {s[k]} : r.heap.at[b].data = h.at[b].data
<1> DEFINE n == Len(s)
           c == s[k]
           t == without(s, k)
           g == r.heap
<1>1. /\ n \in Nat /\ s \in [1..n -> h.used] /\ h.used \subseteq Cell
      /\ \A i \in 1..n : s[i] \in h.used /\ s[i] \in Cell /\ s[i] # NULL /\ s[i] \in Range(s)
  BY ChainCells
<1>2. /\ n # 0 => l.first = s[1] /\ l.last = s[n]
  BY ChainEnds
<1>3. /\ \A i, j \in 1..n : s[i] = s[j] => i = j
      /\ \A i \in 1..n : /\ h.at[s[i]].next = IF i = n THEN NULL ELSE s[i + 1]
                         /\ h.at[s[i]].prev = IF i = 1 THEN NULL ELSE s[i - 1]
  BY DEF Chain
<1>4. k \in 1..n /\ c \in Cell /\ c \in h.used /\ c \in Range(s)
  BY <1>1
<1>5. /\ h.at[c].next = IF k = n THEN NULL ELSE s[k + 1]
      /\ h.at[c].prev = IF k = 1 THEN NULL ELSE s[k - 1]
  BY <1>3, <1>4
<1> DEFINE b == h.at[c]
<1>6. /\ g \in Heap /\ g.used = h.used \ {c}
      /\ r.list = [first |-> IF c = l.first THEN b.next ELSE l.first,
                   last |-> IF b.next = NULL THEN b.prev ELSE l.last]
      /\ \A x \in Cell \ {c} :
            /\ g.at[x].data = h.at[x].data
            /\ g.at[x].next = IF x = b.prev THEN b.next ELSE h.at[x].next
            /\ g.at[x].prev = IF x = b.next THEN b.prev ELSE h.at[x].prev
            /\ x \notin {b.prev, b.next} => g.at[x] = h.at[x]
  BY <1>4, UnlinkedCells
<1>7. /\ t = [i \in 1..(n - 1) |-> IF i < k THEN s[i] ELSE s[i + 1]]
  BY DEF without
<1> HIDE DEF n, c, t, g, b
<1>0. c = s[k] /\ b = h.at[c]
  BY DEF c, b
<1>8. n - 1 \in Nat /\ Len(t) = n - 1 /\ t \in Seq(g.used)
  <2>1. n - 1 \in Nat
    BY <1>1, <1>4
  <2>2. \A i \in 1..(n - 1) : t[i] \in g.used
    BY <1>0, <1>1, <1>3, <1>4, <1>6, <1>7
  <2>3. t \in [1..(n - 1) -> g.used]
    BY <2>2, <1>7
  <2> QED
    BY <2>1, <2>3
<1>9. \A i \in 1..(n - 1) :
         /\ i < k => t[i] = s[i]
         /\ ~(i < k) => t[i] = s[i + 1]
  BY <1>7
<1>10. \A i, j \in 1..(n - 1) : t[i] = t[j] => i = j
  BY <1>1, <1>3, <1>4, <1>9
<1>11. /\ \A x \in Cell : x = b.prev <=> k # 1 /\ x = s[k - 1]
       /\ \A x \in Cell : x = b.next <=> k # n /\ x = s[k + 1]
       /\ NULL \notin Cell
  BY <1>0, <1>5, ListAssumption
<1>12. ASSUME NEW j \in 1..n, j # k
       PROVE  /\ g.at[s[j]].next = IF j = k - 1 THEN b.next ELSE h.at[s[j]].next
              /\ g.at[s[j]].prev = IF j = k + 1 THEN b.prev ELSE h.at[s[j]].prev
  <2>1. s[j] \in Cell \ {c}
    BY <1>0, <1>1, <1>3, <1>4, <1>12
  <2>2. s[j] = b.prev <=> j = k - 1
    BY <2>1, <1>1, <1>3, <1>4, <1>11
  <2>3. s[j] = b.next <=> j = k + 1
    BY <2>1, <1>1, <1>3, <1>4, <1>11
  <2> QED
    BY <2>1, <2>2, <2>3, <1>6
<1>13. ASSUME NEW i \in 1..(n - 1)
       PROVE  /\ g.at[t[i]].next = IF i = n - 1 THEN NULL ELSE t[i + 1]
              /\ g.at[t[i]].prev = IF i = 1 THEN NULL ELSE t[i - 1]
  <2>1. CASE i < k
    <3>1. i \in 1..n /\ i # k /\ t[i] = s[i] /\ i # k + 1
      BY <2>1, <1>1, <1>4, <1>9
    <3>2. /\ g.at[s[i]].next = IF i = k - 1 THEN b.next ELSE h.at[s[i]].next
          /\ g.at[s[i]].prev = h.at[s[i]].prev
      BY <3>1, <1>12
    <3>3. i # 1 => t[i - 1] = s[i - 1]
      BY <2>1, <1>1, <1>4, <1>9
    <3>4. i # n - 1 => t[i + 1] = IF i = k - 1 THEN s[k + 1] ELSE s[i + 1]
      <4>1. CASE i = k - 1
        BY <4>1, <1>1, <1>4, <1>9
      <4>2. CASE i # k - 1
        BY <4>2, <2>1, <1>1, <1>4, <1>9
      <4> QED
        BY <4>1, <4>2
    <3>5. /\ h.at[s[i]].next = s[i + 1]
          /\ h.at[s[i]].prev = IF i = 1 THEN NULL ELSE s[i - 1]
      BY <2>1, <3>1, <1>1, <1>3, <1>4
    <3>6. i = k - 1 => b.next = IF i = n - 1 THEN NULL ELSE s[k + 1]
      BY <1>0, <1>1, <1>4, <1>5
    <3>7. i = n - 1 => i = k - 1
      BY <2>1, <1>1, <1>4
    <3> QED
      BY <3>1, <3>2, <3>3, <3>4, <3>5, <3>6, <3>7
  <2>2. CASE ~(i < k)
    <3>1. i + 1 \in 1..n /\ i + 1 # k /\ t[i] = s[i + 1] /\ i + 1 # k - 1
      BY <2>2, <1>1, <1>4, <1>9
    <3>2. /\ g.at[s[i + 1]].next = h.at[s[i + 1]].next
          /\ g.at[s[i + 1]].prev = IF i + 1 = k + 1 THEN b.prev ELSE h.at[s[i + 1]].prev
      BY <3>1, <1>12
    <3>3. i # n - 1 => t[i + 1] = s[i + 2]
      BY <2>2, <1>1, <1>4, <1>9
    <3>4. i # 1 => t[i - 1] = IF i = k THEN s[k - 1] ELSE s[i]
      <4>1. CASE i = k
        BY <4>1, <1>1, <1>4, <1>9
      <4>2. CASE i # k
        <5>1. i # 1 => i - 1 \in 1..(n - 1) /\ ~(i - 1 < k) /\ (i - 1) + 1 = i
          BY <4>2, <2>2, <1>1, <1>4
        <5> QED
          BY <4>2, <5>1, <1>9
      <4> QED
        BY <4>1, <4>2
    <3>5. /\ h.at[s[i + 1]].next = IF i = n - 1 THEN NULL ELSE s[i + 2]
          /\ h.at[s[i + 1]].prev = s[i]
      <4>1. (i + 1) + 1 = i + 2 /\ (i + 1) - 1 = i /\ i + 1 # 1 /\ (i + 1 = n <=> i = n - 1)
        BY <1>1
      <4> QED
        BY <3>1, <4>1, <1>3
    <3>6. i = k => b.prev = IF i = 1 THEN NULL ELSE s[k - 1]
      BY <1>0, <1>5
    <3>7. i + 1 = k + 1 <=> i = k
      BY <1>1, <1>4
    <3>8. i = 1 => i = k
      BY <2>2, <1>1, <1>4
    <3> QED
      BY <3>1, <3>2, <3>3, <3>4, <3>5, <3>6, <3>7, <3>8
  <2> QED
    BY <2>1, <2>2
<1>14. r.list.first = IF n - 1 = 0 THEN NULL ELSE t[1]
  <2>1. l.first = s[1] /\ (c = l.first <=> k = 1)
    BY <1>0, <1>1, <1>2, <1>3, <1>4
  <2>2. r.list.first = IF k = 1 THEN b.next ELSE s[1]
    BY <2>1, <1>6
  <2>3. CASE k = 1
    BY <2>2, <2>3, <1>0, <1>1, <1>4, <1>5, <1>9
  <2>4. CASE k # 1
    BY <2>2, <2>4, <1>1, <1>4, <1>9
  <2> QED
    BY <2>3, <2>4
<1>15. r.list.last = IF n - 1 = 0 THEN NULL ELSE t[n - 1]
  <2>1. l.last = s[n] /\ (b.next = NULL <=> k = n)
    BY <1>0, <1>1, <1>2, <1>4, <1>5
  <2>2. r.list.last = IF k = n THEN b.prev ELSE s[n]
    BY <2>1, <1>6
  <2>3. CASE k = n
    BY <2>2, <2>3, <1>0, <1>1, <1>4, <1>5, <1>9
  <2>4. CASE k # n
    <3>1. n - 1 \in 1..(n - 1) /\ ~(n - 1 < k) /\ (n - 1) + 1 = n
      BY <2>4, <1>1, <1>4
    <3> QED
      BY <2>2, <2>4, <3>1, <1>1, <1>9
  <2> QED
    BY <2>3, <2>4
<1>16. Chain(g, r.list, t)
  BY <1>8, <1>10, <1>13, <1>14, <1>15 DEF Chain
<1>17. r.list \in List
  <2>1. b.next \in Pointer /\ b.prev \in Pointer
    BY <1>0, <1>4 DEF Heap, Block
  <2> QED
    BY <2>1, <1>6 DEF List
<1>18. Outside(h, g, s)
  <2>1. b.prev \in Range(s) \cup {NULL} /\ b.next \in Range(s) \cup {NULL}
    BY <1>0, <1>1, <1>4, <1>5
  <2> QED
    BY <2>1, <1>1, <1>4, <1>6, <1>11 DEF Outside
<1>19. \A x \in h.used \ {c} : g.at[x].data = h.at[x].data
  BY <1>1, <1>6
<1> QED
  BY <1>6, <1>16, <1>17, <1>18, <1>19 DEF c, g, t

LEMMA ReleasedCells ==
    ASSUME NEW h \in Heap, NEW S
    PROVE  /\ release(h, S) \in Heap /\ release(h, S).used = h.used \ S
           /\ \A b \in Cell \ S : release(h, S).at[b] = h.at[b]
BY ListAssumption DEF Heap, release, FreeBlock, Block, Pointer

\* What the cells of s hold.
held(h, s) == [i \in 1..Len(s) |-> h.at[s[i]].data]

LEMMA EntriesOfChain ==
    ASSUME NEW h \in Heap, NEW l, NEW s, Chain(h, l, s)
    PROVE  get_all_entries(h, l) = held(h, s)
<1>1. cells(h, l) = s
  BY CellsOfChain
<1>2. DOMAIN s = 1..Len(s)
  BY ChainCells
<1> QED
  BY <1>1, <1>2 DEF get_all_entries, held

-----------------------------------------------------------------------------
(* The invariant: every list of an entry is a chain of its own cells, and   *)
(* there are no other cells.                                               *)

\* A cell in use holds an address.
Filled(h) == \A b \in h.used : h.at[b].data \in Data

Chains == \A o \in owned : Chain(heap, list_of(o), cells_of(o))

Apart ==
    \A o, p \in owned : o # p => Range(cells_of(o)) \cap Range(cells_of(p)) = {}

StoreInv ==
    /\ heap \in Heap /\ Filled(heap)
    /\ slots \in [Slot -> Entry \cup {NULL}]
    /\ Chains
    /\ Apart
    /\ NoLostCell

LEMMA Slots ==
    /\ \A d \in Addr : Index[d] \in Slot
    /\ \A d, e \in Addr : Index[d] = Index[e] => d = e
    /\ NULL \notin Entry /\ NULL \notin [Field -> Seq(Data)]
BY SlotAssumption, NullAssumption DEF Slot

LEMMA EntryFields ==
    ASSUME NEW e \in Entry
    PROVE  /\ \A f \in Field : e[f] \in List
           /\ e.precursor_list = e["precursor_list"] /\ e.next_hop_for = e["next_hop_for"]
BY DEF Entry, Field

LEMMA FieldSet ==
    ASSUME NEW e \in Entry, NEW f \in Field, NEW l \in List
    PROVE  /\ [e EXCEPT ![f] = l] \in Entry
           /\ [e EXCEPT ![f] = l][f] = l
           /\ \A g \in Field \ {f} : [e EXCEPT ![f] = l][g] = e[g]
<1>1. CASE f = "precursor_list"
  BY <1>1 DEF Entry, Field
<1>2. CASE f = "next_hop_for"
  BY <1>2 DEF Entry, Field
<1> QED
  BY <1>1, <1>2 DEF Field

LEMMA OwnedList ==
    ASSUME StoreInv, NEW o \in owned
    PROVE  /\ o \in Addr \X Field /\ slots[Index[o[1]]] \in Entry
           /\ list_of(o) = slots[Index[o[1]]][o[2]] /\ list_of(o) \in List
           /\ Chain(heap, list_of(o), cells_of(o)) /\ heap \in Heap
<1>1. o \in Addr \X Field /\ slots[Index[o[1]]] # NULL
  BY DEF owned, find_entry_in_data_structure
<1>2. slots[Index[o[1]]] \in Entry
  BY <1>1, Slots DEF StoreInv
<1> QED
  BY <1>1, <1>2, EntryFields DEF list_of, find_entry_in_data_structure, StoreInv, Chains

LEMMA InvImpliesLinked == StoreInv => WellLinked
<1> SUFFICES ASSUME StoreInv PROVE WellLinked
  OBVIOUS
<1>1. ASSUME NEW o \in owned
      PROVE  LET s == cells_of(o)
                 n == Len(s)
             IN  /\ Range(s) \subseteq heap.used
                 /\ Cardinality(Range(s)) = n
                 /\ list_of(o).last = IF n = 0 THEN NULL ELSE s[n]
                 /\ \A i \in 1..n :
                       heap.at[s[i]].prev = IF i = 1 THEN NULL ELSE s[i - 1]
  <2>1. Chain(heap, list_of(o), cells_of(o)) /\ heap \in Heap
    BY OwnedList
  <2>2. Range(cells_of(o)) \subseteq heap.used
    BY <2>1, ChainCells
  <2>3. Cardinality(Range(cells_of(o))) = Len(cells_of(o))
    BY <2>1, ChainLength
  <2> QED
    BY <2>1, <2>2, <2>3 DEF Chain
<1> QED
  BY <1>1 DEF WellLinked, StoreInv, Apart

LEMMA InvImpliesSingle == StoreInv => SinglePrecursor
<1> SUFFICES ASSUME StoreInv, NEW d \in Addr, slots[Index[d]] # NULL
             PROVE  single_precursor(slots[Index[d]]) <=>
                        Len(cells(heap, slots[Index[d]].precursor_list)) = 1
  BY DEF SinglePrecursor, find_entry_in_data_structure
<1> DEFINE o == <<d, "precursor_list">>
           l == list_of(o)
           s == cells_of(o)
<1>1. o \in owned
  BY DEF owned, find_entry_in_data_structure, Field
<1>2. Chain(heap, l, s) /\ heap \in Heap /\ l \in List /\ slots[Index[d]] \in Entry
  BY <1>1, OwnedList
<1>3. l = slots[Index[d]].precursor_list /\ s = cells(heap, slots[Index[d]].precursor_list)
  BY <1>2, EntryFields DEF list_of, cells_of, find_entry_in_data_structure
<1>4. /\ Len(s) \in Nat /\ l.first = NULL <=> Len(s) = 0
      /\ Len(s) # 0 => l.first = s[1] /\ l.last = s[Len(s)]
  BY <1>2, ChainEnds, ChainCells
<1>5. \A i, j \in 1..Len(s) : s[i] = s[j] => i = j
  BY <1>2 DEF Chain
<1> HIDE DEF l, s
<1>6. l.first # NULL /\ l.first = l.last <=> Len(s) = 1
  <2>1. CASE Len(s) = 0
    BY <2>1, <1>4
  <2>2. CASE Len(s) # 0
    <3>1. 1 \in 1..Len(s) /\ Len(s) \in 1..Len(s) /\ l.first # NULL
      BY <2>2, <1>4
    <3>2. s[1] = s[Len(s)] <=> Len(s) = 1
      BY <3>1, <1>5
    <3> QED
      BY <2>2, <3>1, <3>2, <1>4
  <2> QED
    BY <2>1, <2>2
<1> QED
  BY <1>3, <1>6 DEF single_precursor

-----------------------------------------------------------------------------
(* What the steps change.                                                  *)

\* The addresses in a list.
listed(o) == get_all_entries(heap, list_of(o))

\* A list whose cells are left alone.
LEMMA Survives ==
    ASSUME StoreInv, NEW o \in owned, heap' \in Heap, list_of(o)' = list_of(o),
           \A b \in Range(cells_of(o)) : b \in heap'.used /\ heap'.at[b] = heap.at[b]
    PROVE  /\ Chain(heap', list_of(o)', cells_of(o)) /\ cells_of(o)' = cells_of(o)
           /\ listed(o)' = listed(o)
<1> DEFINE l == list_of(o)
           s == cells_of(o)
<1>1. Chain(heap, l, s) /\ heap \in Heap /\ Range(s) \subseteq heap.used
  BY OwnedList, ChainCells
<1>2. Chain(heap', l, s)
  BY <1>1, ChainKept
<1>3. cells(heap', l) = s
  BY <1>2, CellsOfChain
<1>4. get_all_entries(heap, l) = held(heap, s) /\ get_all_entries(heap', l) = held(heap', s)
  BY <1>1, <1>2, EntriesOfChain
<1>5. held(heap', s) = held(heap, s)
  <2>1. \A i \in 1..Len(s) : s[i] \in Range(s)
    BY <1>1, ChainCells
  <2> HIDE DEF s
  <2> QED
    BY <2>1 DEF held, s
<1> QED
  BY <1>2, <1>3, <1>4, <1>5 DEF cells_of, listed

\* A list as the step leaves it.
LEMMA BecomesChain ==
    ASSUME NEW o, NEW t, heap' \in Heap, Chain(heap', list_of(o)', t)
    PROVE  cells_of(o)' = t /\ listed(o)' = held(heap', t)
BY CellsOfChain, EntriesOfChain DEF cells_of, listed

\* One list is replaced, with cells of its own and new ones.
LEMMA UpdateKeeps ==
    ASSUME StoreInv, NEW d \in Addr, NEW f \in Field, <<d, f>> \in owned,
           NEW r, NEW t, update_list(d, f, r),
           r.heap \in Heap, r.list \in List, Filled(r.heap), Chain(r.heap, r.list, t),
           r.heap.used = (heap.used \ Range(cells_of(<<d, f>>))) \cup Range(t),
           Range(t) \cap (heap.used \ Range(cells_of(<<d, f>>))) = {},
           Outside(heap, r.heap, cells_of(<<d, f>>))
    PROVE  /\ StoreInv'
           /\ \A e \in Addr : slots[Index[e]]' = NULL <=> slots[Index[e]] = NULL
           /\ listed(<<d, f>>)' = held(r.heap, t)
           /\ \A p \in owned : p # <<d, f>> => listed(p)' = listed(p)
<1> DEFINE o == <<d, f>>
           s == cells_of(o)
           e == slots[Index[d]]
<1>1. o \in owned /\ o[1] = d /\ o[2] = f
  OBVIOUS
<1>2. /\ e \in Entry /\ e # NULL /\ slots \in [Slot -> Entry \cup {NULL}]
      /\ Index[d] \in Slot
  BY <1>1, OwnedList, Slots DEF StoreInv
<1>3. heap' = r.heap /\ slots' = [slots EXCEPT ![Index[d]] = [e EXCEPT ![f] = r.list]]
  BY DEF update_list
<1>4. /\ [e EXCEPT ![f] = r.list] \in Entry /\ [e EXCEPT ![f] = r.list][f] = r.list
      /\ \A g \in Field \ {f} : [e EXCEPT ![f] = r.list][g] = e[g]
  BY <1>2, FieldSet
<1>5. /\ slots' \in [Slot -> Entry \cup {NULL}]
      /\ slots'[Index[d]] = [e EXCEPT ![f] = r.list]
      /\ \A a \in Addr \ {d} : slots'[Index[a]] = slots[Index[a]]
  BY <1>2, <1>3, <1>4, Slots
<1>6. \A a \in Addr : slots'[Index[a]] = NULL <=> slots[Index[a]] = NULL
  BY <1>2, <1>4, <1>5, Slots
<1>7. owned' = owned
  BY <1>6 DEF owned, find_entry_in_data_structure
<1>8. list_of(o)' = r.list
  BY <1>1, <1>4, <1>5 DEF list_of, find_entry_in_data_structure
<1>9. ASSUME NEW p \in owned, p # o PROVE list_of(p)' = list_of(p)
  <2>1. p \in Addr \X Field
    BY OwnedList
  <2>2. CASE p[1] = d
    <3>1. p[2] # f /\ p[2] \in Field
      BY <2>1, <2>2, <1>9
    <3> QED
      BY <3>1, <2>2, <1>4, <1>5 DEF list_of, find_entry_in_data_structure
  <2>3. CASE p[1] # d
    BY <2>1, <2>3, <1>5 DEF list_of, find_entry_in_data_structure
  <2> QED
    BY <2>2, <2>3
<1>10. /\ cells_of(o)' = t /\ listed(o)' = held(r.heap, t)
  BY <1>3, <1>8, BecomesChain
<1>11. ASSUME NEW p \in owned, p # o
       PROVE  /\ Chain(heap', list_of(p)', cells_of(p)) /\ cells_of(p)' = cells_of(p)
              /\ listed(p)' = listed(p)
              /\ Range(cells_of(p)) \subseteq heap.used \ Range(s)
  <2>1. Range(cells_of(p)) \subseteq heap.used
    BY OwnedList, ChainCells
  <2>2. Range(cells_of(p)) \cap Range(s) = {}
    BY <1>1, <1>11 DEF StoreInv, Apart
  <2>3. \A b \in Range(cells_of(p)) : b \in heap'.used /\ heap'.at[b] = heap.at[b]
    BY <2>1, <2>2, <1>3 DEF Outside
  <2> QED
    BY <2>1, <2>2, <2>3, <1>3, <1>9, <1>11, Survives
<1> HIDE DEF o, s
<1>12. Chains'
  <2>1. Chain(heap', list_of(o)', cells_of(o)')
    BY <1>3, <1>8, <1>10
  <2>2. \A p \in owned : Chain(heap', list_of(p)', cells_of(p)')
    BY <2>1, <1>11
  <2> QED
    BY <2>2, <1>7 DEF Chains
<1>13. Apart'
  <2>1. \A p \in owned : p # o => Range(cells_of(p)') \cap Range(t) = {}
    BY <1>11 DEF s, o
  <2>2. \A p, q \in owned : p # q => Range(cells_of(p)') \cap Range(cells_of(q)') = {}
    <3>1. \A p, q \in owned : p # o /\ q # o /\ p # q =>
              Range(cells_of(p)') \cap Range(cells_of(q)') = {}
      BY <1>11 DEF StoreInv, Apart
    <3> QED
      BY <3>1, <2>1, <1>10
  <2> QED
    BY <2>2, <1>7 DEF Apart
<1>14. NoLostCell'
  <2>1. \A b : b \in heap.used <=> \E p \in owned : b \in Range(cells_of(p))
    BY DEF StoreInv, NoLostCell
  <2>2. \A b : b \in heap'.used <=> (b \in heap.used /\ b \notin Range(s)) \/ b \in Range(t)
    BY <1>3 DEF s, o
  <2>3. \A p \in owned : p # o => cells_of(p)' = cells_of(p) /\ Range(cells_of(p)) \cap Range(s) = {}
    BY <1>11
  <2>4. \A b : b \in heap'.used <=> \E p \in owned : b \in Range(cells_of(p)')
    <3> TAKE b
    <3>1. ASSUME b \in heap'.used PROVE \E p \in owned : b \in Range(cells_of(p)')
      <4>1. CASE b \in Range(t)
        BY <4>1, <1>1, <1>10
      <4>2. CASE b \in heap.used /\ b \notin Range(s)
        <5>1. PICK p \in owned : b \in Range(cells_of(p))
          BY <4>2, <2>1
        <5>2. p # o
          BY <4>2, <5>1 DEF s
        <5> QED
          BY <5>1, <5>2, <2>3
      <4> QED
        BY <3>1, <4>1, <4>2, <2>2
    <3>2. ASSUME NEW p \in owned, b \in Range(cells_of(p)') PROVE b \in heap'.used
      <4>1. CASE p = o
        BY <4>1, <3>2, <1>10, <2>2
      <4>2. CASE p # o
        BY <4>2, <3>2, <2>1, <2>2, <2>3
      <4> QED
        BY <4>1, <4>2
    <3> QED
      BY <3>1, <3>2
  <2> QED
    BY <2>4, <1>7 DEF NoLostCell
<1> QED
  BY <1>3, <1>5, <1>6, <1>10, <1>11, <1>12, <1>13, <1>14 DEF StoreInv, o

LEMMA HeldAddresses ==
    ASSUME StoreInv, NEW o \in owned
    PROVE  listed(o) = held(heap, cells_of(o)) /\ listed(o) \in Seq(Data)
<1> DEFINE s == cells_of(o)
<1>1. Chain(heap, list_of(o), s) /\ heap \in Heap
  BY OwnedList
<1>2. Len(s) \in Nat /\ \A i \in 1..Len(s) : s[i] \in heap.used
  BY <1>1, ChainCells
<1>3. listed(o) = held(heap, s)
  BY <1>1, EntriesOfChain DEF listed
<1> HIDE DEF s
<1>4. \A i \in 1..Len(s) : heap.at[s[i]].data \in Data
  BY <1>2 DEF StoreInv, Filled
<1>5. held(heap, s) \in [1..Len(s) -> Data]
  BY <1>4 DEF held
<1> QED
  BY <1>2, <1>3, <1>5 DEF s

\* add_entry_to_list appends the address to one list.
LEMMA AppendKeeps ==
    ASSUME StoreInv, NEW d \in Addr, NEW f \in Field, NEW x \in Data,
           slots[Index[d]] # NULL, append(d, f, x)
    PROVE  /\ StoreInv'
           /\ \A e \in Addr : slots[Index[e]]' = NULL <=> slots[Index[e]] = NULL
           /\ listed(<<d, f>>)' = Append(listed(<<d, f>>), x)
           /\ \A p \in owned : p # <<d, f>> => listed(p)' = listed(p)
<1> DEFINE o == <<d, f>>
           l == list_of(o)
           s == cells_of(o)
<1>1. o \in owned
  BY DEF owned, find_entry_in_data_structure
<1>2. /\ l \in List /\ Chain(heap, l, s) /\ heap \in Heap
      /\ l = slots[Index[d]][f]
  BY <1>1, OwnedList
<1>3. PICK c \in Cell \ heap.used :
          update_list(d, f, add_entry_to_list(heap, slots[Index[d]][f], c, x))
  BY DEF append, find_entry_in_data_structure
<1> DEFINE r == add_entry_to_list(heap, l, c, x)
           t == Append(s, c)
<1>4. update_list(d, f, r)
  BY <1>2, <1>3
<1> HIDE DEF l, r
<1>5. /\ r.heap \in Heap /\ r.list \in List
      /\ Chain(r.heap, r.list, t)
      /\ r.heap.used = heap.used \cup {c}
      /\ Outside(heap, r.heap, s)
      /\ r.heap.at[c].data = x /\ \A b \in heap.used : r.heap.at[b].data = heap.at[b].data
  BY <1>2, AddedChain DEF r
<1>6. Filled(r.heap)
  BY <1>5 DEF StoreInv, Filled
<1>7. /\ Len(s) \in Nat /\ s \in Seq(heap.used) /\ Range(s) \subseteq heap.used
      /\ Range(s) = {s[i] : i \in 1..Len(s)}
      /\ \A i \in 1..Len(s) : s[i] \in heap.used
  <2>1. s \in Seq(heap.used)
    BY <1>2 DEF Chain
  <2> HIDE DEF s
  <2> QED
    BY <2>1, <1>2, ChainCells
<1>8. Range(t) = Range(s) \cup {c}
  <2>1. Range(t) = {t[i] : i \in 1..Len(t)}
    <3> HIDE DEF t
    <3> QED
      BY <1>5, ChainCells
  <2> HIDE DEF s
  <2>2. Len(t) = Len(s) + 1 /\ t[Len(s) + 1] = c /\ \A i \in 1..Len(s) : t[i] = s[i]
    BY <1>7
  <2> HIDE DEF t
  <2> QED
    BY <2>1, <2>2, <1>7
<1>9. held(r.heap, t) = Append(held(heap, s), x)
  <2> DEFINE v == held(heap, s)
  <2> HIDE DEF s
  <2>1. Len(t) = Len(s) + 1 /\ t[Len(s) + 1] = c /\ \A i \in 1..Len(s) : t[i] = s[i]
    BY <1>7
  <2> HIDE DEF t
  <2>2. /\ held(r.heap, t) = [i \in 1..(Len(s) + 1) |-> IF i = Len(s) + 1 THEN x ELSE v[i]]
    BY <2>1, <1>5, <1>7 DEF held
  <2>3. v \in Seq(Data) /\ Len(v) = Len(s)
    <3>1. v \in [1..Len(s) -> Data]
      BY <1>7 DEF held, StoreInv, Filled
    <3> QED
      BY <3>1, <1>7
  <2> HIDE DEF v
  <2>4. Append(v, x) = [i \in 1..(Len(s) + 1) |-> IF i = Len(s) + 1 THEN x ELSE v[i]]
    <3>1. /\ Append(v, x) \in Seq(Data) /\ Len(Append(v, x)) = Len(s) + 1
          /\ Append(v, x)[Len(s) + 1] = x
          /\ \A i \in 1..Len(s) : Append(v, x)[i] = v[i]
      BY <2>3
    <3> DEFINE w == Append(v, x)
    <3> HIDE DEF w
    <3>2. w = [i \in 1..(Len(s) + 1) |-> w[i]]
      <4>1. w \in Seq(Data) /\ Len(w) = Len(s) + 1
        BY <3>1 DEF w
      <4>2. w \in [1..Len(w) -> Data]
        BY <4>1
      <4> QED
        BY <4>1, <4>2
    <3>3. \A i \in 1..(Len(s) + 1) : w[i] = IF i = Len(s) + 1 THEN x ELSE v[i]
      BY <3>1, <1>7 DEF w
    <3> QED
      BY <3>2, <3>3 DEF w
  <2> QED
    BY <2>2, <2>4 DEF v
<1>10. /\ r.heap.used = (heap.used \ Range(s)) \cup Range(t)
       /\ Range(t) \cap (heap.used \ Range(s)) = {}
  BY <1>5, <1>7, <1>8
<1> HIDE DEF t
<1>11. /\ StoreInv'
       /\ \A e \in Addr : slots[Index[e]]' = NULL <=> slots[Index[e]] = NULL
       /\ listed(o)' = held(r.heap, t)
       /\ \A p \in owned : p # o => listed(p)' = listed(p)
  BY <1>1, <1>4, <1>5, <1>6, <1>10, UpdateKeeps
<1>12. listed(o) = held(heap, s)
  BY <1>1, HeldAddresses
<1> QED
  BY <1>9, <1>11, <1>12

\* RemoveAt takes out one element.
LEMMA RemovedAt ==
    ASSUME NEW v \in Seq(Data), NEW k \in 1..Len(v)
    PROVE  Abstract!RemoveAt(v, k) = without(v, k)
<1> DEFINE n == Len(v)
           a == SubSeq(v, 1, k - 1)
           b == SubSeq(v, k + 1, n)
           w == a \o b
<1>1. n \in Nat /\ k \in 1..n
  OBVIOUS
<1>2. a \in Seq(Data) /\ Len(a) = k - 1 /\ \A i \in 1..(k - 1) : a[i] = v[i]
  BY <1>1
<1>3. b \in Seq(Data) /\ Len(b) = n - k /\ \A i \in 1..(n - k) : b[i] = v[k + i]
  BY <1>1
<1> HIDE DEF a, b
<1>4. /\ w \in Seq(Data) /\ Len(w) = Len(a) + Len(b)
      /\ \A i \in 1..(Len(a) + Len(b)) : w[i] = IF i <= Len(a) THEN a[i] ELSE b[i - Len(a)]
  BY <1>2, <1>3, ConcatProperties
<1>0. Len(a) + Len(b) = n - 1 /\ \A i \in 1..(n - 1) : i <= Len(a) <=> i < k
  BY <1>1, <1>2, <1>3
<1>5. \A i \in 1..(n - 1) : w[i] = IF i < k THEN a[i] ELSE b[i - (k - 1)]
  BY <1>0, <1>2, <1>4
<1>6. \A i \in 1..(n - 1) : w[i] = IF i < k THEN v[i] ELSE v[i + 1]
  <2> TAKE i \in 1..(n - 1)
  <2>1. CASE i < k
    BY <2>1, <1>1, <1>2, <1>5
  <2>2. CASE ~(i < k)
    <3>1. i - (k - 1) \in 1..(n - k) /\ k + (i - (k - 1)) = i + 1
      BY <2>2, <1>1
    <3> QED
      BY <2>2, <3>1, <1>3, <1>5
  <2> QED
    BY <2>1, <2>2
<1> HIDE DEF w
<1>7. w = [i \in 1..(n - 1) |-> w[i]]
  <2>1. w \in [1..Len(w) -> Data]
    BY <1>4
  <2> QED
    BY <2>1, <1>0, <1>4
<1>8. w = without(v, k)
  BY <1>6, <1>7 DEF without
<1> QED
  BY <1>8 DEF Abstract!RemoveAt, w, a, b

\* The index that CHOOSE picks.
LEMMA SmallestChosen ==
    ASSUME NEW S \in SUBSET Nat, S # {}, NEW k, k = CHOOSE i \in S : \A j \in S : i <= j
    PROVE  k \in S /\ \A j \in S : k <= j
<1>1. \E i \in S : \A j \in S : i <= j
  BY Least
<1> QED
  BY <1>1

\* RemoveFirst takes out the first of the elements that are x.
LEMMA RemovedFirst ==
    ASSUME NEW v \in Seq(Data), NEW x, NEW k \in 1..Len(v), v[k] = x,
           \A j \in 1..Len(v) : v[j] = x => k <= j
    PROVE  Abstract!RemoveFirst(v, x) = without(v, k)
<1> DEFINE I == {i \in 1..Len(v) : v[i] = x}
           m == CHOOSE i \in I : \A j \in I : i <= j
<1>1. I \in SUBSET Nat /\ k \in I
  OBVIOUS
<1>2. Abstract!SelectInSeq(v, LAMBDA u : u = x) = m
  BY <1>1 DEF Abstract!SelectInSeq, Abstract!Min
<1>3. m \in I /\ \A j \in I : m <= j
  <2> HIDE DEF I
  <2> QED
    BY <1>1, SmallestChosen
<1>4. m = k
  <2> HIDE DEF m
  <2> QED
    BY <1>1, <1>3
<1>5. Abstract!RemoveFirst(v, x) = Abstract!RemoveAt(v, k)
  BY <1>1, <1>2, <1>4 DEF Abstract!RemoveFirst
<1> QED
  BY <1>5, RemovedAt

\* The cells that are left, and what they hold.
LEMMA WithoutCell ==
    ASSUME StoreInv, NEW o \in owned, NEW k \in 1..Len(cells_of(o)), NEW g,
           \A b \in heap.used \ {cells_of(o)[k]} : g.at[b].data = heap.at[b].data
    PROVE  LET s == cells_of(o)
               t == without(s, k)
           IN  /\ {t[i] : i \in 1..Len(t)} = Range(s) \ {s[k]}
               /\ held(g, t) = without(held(heap, s), k)
               /\ s[k] \in Range(s)
<1> DEFINE s == cells_of(o)
           n == Len(s)
           t == without(s, k)
<1>1. Chain(heap, list_of(o), s) /\ heap \in Heap
  BY OwnedList
<1>2. /\ n \in Nat /\ Range(s) = {s[i] : i \in 1..n}
      /\ \A i \in 1..n : s[i] \in heap.used /\ s[i] \in Range(s)
  BY <1>1, ChainCells
<1>3. \A i, j \in 1..n : s[i] = s[j] => i = j
  BY <1>1 DEF Chain
<1> HIDE DEF s
<1>4. k \in 1..n /\ n - 1 \in Nat
  BY <1>2 DEF s
<1>5. t = [i \in 1..(n - 1) |-> IF i < k THEN s[i] ELSE s[i + 1]]
  BY DEF without
<1>6. Len(t) = n - 1 /\ \A i \in 1..(n - 1) : t[i] = IF i < k THEN s[i] ELSE s[i + 1]
  BY <1>4, <1>5
<1> HIDE DEF t, n
<1>7. \A i \in 1..(n - 1) : t[i] \in Range(s) /\ t[i] \in heap.used /\ t[i] # s[k]
  <2> TAKE i \in 1..(n - 1)
  <2>1. CASE i < k
    BY <2>1, <1>2, <1>3, <1>4, <1>6
  <2>2. CASE ~(i < k)
    <3>1. i + 1 \in 1..n /\ i + 1 # k
      BY <2>2, <1>2, <1>4
    <3> QED
      BY <3>1, <2>2, <1>2, <1>3, <1>4, <1>6
  <2> QED
    BY <2>1, <2>2
<1>8. ASSUME NEW b \in Range(s), b # s[k]
      PROVE  \E i \in 1..(n - 1) : t[i] = b
  <2>1. PICK j \in 1..n : b = s[j]
    BY <1>2
  <2>2. CASE j < k
    BY <2>1, <2>2, <1>2, <1>4, <1>6
  <2>3. CASE ~(j < k)
    <3>1. j - 1 \in 1..(n - 1) /\ ~(j - 1 < k) /\ (j - 1) + 1 = j
      BY <2>1, <2>3, <1>2, <1>4, <1>8
    <3> QED
      BY <3>1, <2>1, <1>6
  <2> QED
    BY <2>2, <2>3
<1>9. {t[i] : i \in 1..Len(t)} = Range(s) \ {s[k]}
  BY <1>6, <1>7, <1>8
<1>10. held(g, t) = without(held(heap, s), k)
  <2> DEFINE v == held(heap, s)
  <2>1. v = [i \in 1..n |-> heap.at[s[i]].data]
    BY DEF held, n
  <2>2. Len(v) = n /\ \A i \in 1..n : v[i] = heap.at[s[i]].data
    BY <2>1, <1>2
  <2> HIDE DEF v
  <2>3. held(g, t) = [i \in 1..(n - 1) |-> g.at[t[i]].data]
    BY <1>6 DEF held
  <2>4. without(v, k) = [i \in 1..(n - 1) |-> IF i < k THEN v[i] ELSE v[i + 1]]
    BY <2>2 DEF without
  <2>5. ASSUME NEW i \in 1..(n - 1)
        PROVE  g.at[t[i]].data = IF i < k THEN v[i] ELSE v[i + 1]
    <3>1. g.at[t[i]].data = heap.at[t[i]].data
      BY <1>7 DEF s
    <3>2. CASE i < k
      BY <3>1, <3>2, <2>2, <1>2, <1>4, <1>6
    <3>3. CASE ~(i < k)
      <4>1. i + 1 \in 1..n
        BY <1>2, <1>4
      <4> QED
        BY <4>1, <3>1, <3>3, <2>2, <1>6
    <3> QED
      BY <3>2, <3>3
  <2> QED
    BY <2>3, <2>4, <2>5 DEF v
<1> QED
  BY <1>2, <1>4, <1>9, <1>10 DEF s, t

\* remove_entry_from_list takes the first such address out of one list.
LEMMA RemoveKeeps ==
    ASSUME StoreInv, NEW d \in Addr, NEW f \in Field, NEW x \in Data, address_removed(d, f, x)
    PROVE  /\ StoreInv'
           /\ \A e \in Addr : slots[Index[e]]' = NULL <=> slots[Index[e]] = NULL
           /\ listed(<<d, f>>)' = Abstract!RemoveFirst(listed(<<d, f>>), x)
           /\ \A p \in owned : p # <<d, f>> => listed(p)' = listed(p)
<1> DEFINE o == <<d, f>>
           l == list_of(o)
           s == cells_of(o)
           v == listed(o)
           r == remove_entry_from_list(heap, l, x)
           hits == {i \in DOMAIN s : heap.at[s[i]].data = x}
<1>1. o \in owned
  BY DEF owned, find_entry_in_data_structure, address_removed
<1>2. l \in List /\ Chain(heap, l, s) /\ heap \in Heap /\ l = slots[Index[d]][f]
  BY <1>1, OwnedList
<1>3. update_list(d, f, r)
  BY <1>2 DEF address_removed, find_entry_in_data_structure
<1>4. /\ Len(s) \in Nat /\ DOMAIN s = 1..Len(s) /\ Range(s) \subseteq heap.used
      /\ Range(s) = {s[i] : i \in 1..Len(s)}
  BY <1>2, ChainCells
<1>5. v = held(heap, s) /\ v \in Seq(Data)
  BY <1>1, HeldAddresses
<1>6. Len(v) = Len(s) /\ \A i \in 1..Len(s) : v[i] = heap.at[s[i]].data
  <2> HIDE DEF s
  <2>1. v = [i \in 1..Len(s) |-> heap.at[s[i]].data]
    BY <1>5 DEF held
  <2> HIDE DEF v
  <2> QED
    BY <2>1, <1>4
<1>7. r = IF hits = {} THEN [heap |-> heap, list |-> l]
          ELSE unlink(heap, l, s[CHOOSE i \in hits : \A j \in hits : i <= j])
  BY DEF remove_entry_from_list, cells_of
<1> HIDE DEF l, s, v, r
<1>8. CASE hits = {}
  <2>1. r.heap = heap /\ r.list = l
    BY <1>7, <1>8
  <2>2. \A i \in 1..Len(v) : v[i] # x
    BY <1>4, <1>6, <1>8
  <2>3. Abstract!RemoveFirst(v, x) = v
    BY <2>2 DEF Abstract!RemoveFirst
  <2>4. /\ heap.used = (heap.used \ Range(s)) \cup Range(s)
        /\ Range(s) \cap (heap.used \ Range(s)) = {}
        /\ Outside(heap, heap, s)
    BY <1>4 DEF Outside
  <2>5. Filled(heap)
    BY DEF StoreInv
  <2> QED
    BY <1>1, <1>2, <1>3, <1>5, <2>1, <2>3, <2>4, <2>5, UpdateKeeps DEF s, v
<1>9. CASE hits # {}
  <2> DEFINE k == CHOOSE i \in hits : \A j \in hits : i <= j
             t == without(s, k)
  <2>1. k \in hits /\ \A j \in hits : k <= j
    <3>1. hits \in SUBSET Nat
      BY <1>4
    <3> HIDE DEF hits
    <3> QED
      BY <3>1, <1>9, SmallestChosen
  <2>2. r = unlink(heap, l, s[k])
    BY <1>7, <1>9
  <2> HIDE DEF k
  <2>3. k \in 1..Len(s) /\ v[k] = x /\ \A j \in 1..Len(s) : v[j] = x => k <= j
    BY <2>1, <1>4, <1>6
  <2>4. /\ r.heap \in Heap /\ r.list \in List
        /\ Chain(r.heap, r.list, t)
        /\ r.heap.used = heap.used \ {s[k]}
        /\ Outside(heap, r.heap, s)
        /\ \A b \in heap.used \ {s[k]} : r.heap.at[b].data = heap.at[b].data
    BY <2>2, <2>3, <1>2, UnlinkedChain
  <2>5. /\ {t[i] : i \in 1..Len(t)} = Range(s) \ {s[k]}
        /\ held(r.heap, t) = without(held(heap, s), k)
        /\ s[k] \in Range(s)
    BY <1>1, <2>3, <2>4, WithoutCell DEF s
  <2> HIDE DEF t
  <2>6. Range(t) = Range(s) \ {s[k]}
    BY <2>4, <2>5, ChainCells
  <2>7. /\ r.heap.used = (heap.used \ Range(s)) \cup Range(t)
        /\ Range(t) \cap (heap.used \ Range(s)) = {}
    BY <2>4, <2>5, <2>6, <1>4
  <2>8. Filled(r.heap)
    BY <2>4 DEF StoreInv, Filled
  <2>9. held(r.heap, t) = Abstract!RemoveFirst(v, x)
    BY <2>3, <2>5, <1>5, <1>6, RemovedFirst
  <2> QED
    BY <1>1, <1>3, <2>4, <2>7, <2>8, <2>9, UpdateKeeps DEF s, v
<1> QED
  BY <1>8, <1>9

LEMMA EmptyChain ==
    ASSUME NEW h \in Heap
    PROVE  /\ EmptyList \in List /\ Chain(h, EmptyList, <<>>) /\ held(h, <<>>) = <<>>
           /\ Range(<<>>) = {}
BY DEF EmptyList, List, Pointer, Chain, held, Range

\* A new entry has two empty lists.
LEMMA CreateKeeps ==
    ASSUME StoreInv, NEW d \in Addr, create_or_get_routing_entry(d)
    PROVE  /\ StoreInv' /\ slots[Index[d]] = NULL /\ slots[Index[d]]' # NULL
           /\ \A e \in Addr \ {d} : slots[Index[e]]' = slots[Index[e]]
           /\ \A f \in Field : listed(<<d, f>>)' = <<>>
           /\ \A p \in owned : listed(p)' = listed(p)
<1>1. /\ slots[Index[d]] = NULL /\ slots' = [slots EXCEPT ![Index[d]] = new_entry(d)]
      /\ heap' = heap /\ heap \in Heap /\ slots \in [Slot -> Entry \cup {NULL}]
      /\ Index[d] \in Slot
  BY Slots DEF create_or_get_routing_entry, add_entry_to_data_structure,
     find_entry_in_data_structure, StoreInv
<1>2. /\ new_entry(d) \in Entry
      /\ \A f \in Field : new_entry(d)[f] = EmptyList
  <2>1. EmptyList \in List
    BY <1>1, EmptyChain
  <2> QED
    BY <2>1 DEF new_entry, Entry, Field
<1>3. /\ slots' \in [Slot -> Entry \cup {NULL}]
      /\ slots'[Index[d]] = new_entry(d) /\ slots'[Index[d]] # NULL
      /\ \A a \in Addr \ {d} : slots'[Index[a]] = slots[Index[a]]
  BY <1>1, <1>2, Slots
<1>4. \A p \in owned : p \in Addr \X Field /\ p[1] # d /\ list_of(p)' = list_of(p)
  <2> TAKE p \in owned
  <2>1. p \in Addr \X Field /\ slots[Index[p[1]]] # NULL
    BY DEF owned, find_entry_in_data_structure
  <2>2. p[1] # d
    BY <1>1, <2>1
  <2> QED
    BY <1>3, <2>1, <2>2 DEF list_of, find_entry_in_data_structure
<1>5. \A p \in Addr \X Field : p \in owned' <=> p \in owned \/ p[1] = d
  BY <1>1, <1>3 DEF owned, find_entry_in_data_structure
<1>6. owned' \subseteq Addr \X Field
  BY DEF owned
<1>7. \A p \in owned : /\ Chain(heap', list_of(p)', cells_of(p)') /\ cells_of(p)' = cells_of(p)
                      /\ listed(p)' = listed(p)
  <2> TAKE p \in owned
  <2>1. Range(cells_of(p)) \subseteq heap.used
    BY OwnedList, ChainCells
  <2> QED
    BY <2>1, <1>1, <1>4, Survives
<1>8. \A p \in Addr \X Field : p[1] = d =>
         /\ Chain(heap', list_of(p)', cells_of(p)') /\ cells_of(p)' = <<>>
         /\ listed(p)' = <<>>
  <2> TAKE p \in Addr \X Field
  <2> HAVE p[1] = d
  <2>1. list_of(p)' = EmptyList
    BY <1>2, <1>3 DEF list_of, find_entry_in_data_structure
  <2>2. Chain(heap', list_of(p)', <<>>) /\ held(heap', <<>>) = <<>> /\ heap' \in Heap
    BY <2>1, <1>1, EmptyChain
  <2> QED
    BY <2>2, BecomesChain
<1>9. Chains'
  BY <1>5, <1>6, <1>7, <1>8 DEF Chains
<1>10. \A p \in owned' : Range(cells_of(p)') = IF p \in owned THEN Range(cells_of(p)) ELSE {}
  BY <1>1, <1>5, <1>6, <1>7, <1>8, EmptyChain
<1>11. Apart'
  <2>1. \A p, q \in owned' : p # q => Range(cells_of(p)') \cap Range(cells_of(q)') = {}
    BY <1>10 DEF StoreInv, Apart
  <2> QED
    BY <2>1 DEF Apart
<1>12. NoLostCell'
  <2>1. \A b : b \in heap.used <=> \E p \in owned : b \in Range(cells_of(p))
    BY DEF StoreInv, NoLostCell
  <2>2. owned \subseteq owned'
    BY <1>4, <1>5
  <2>3. \A b : b \in heap'.used <=> \E p \in owned' : b \in Range(cells_of(p)')
    BY <2>1, <2>2, <1>1, <1>10
  <2> QED
    BY <2>3 DEF NoLostCell
<1>13. Filled(heap')
  BY <1>1 DEF StoreInv
<1> QED
  <2>1. \A f \in Field : <<d, f>> \in Addr \X Field /\ <<d, f>>[1] = d
    OBVIOUS
  <2>2. StoreInv'
    BY <1>1, <1>3, <1>9, <1>11, <1>12, <1>13 DEF StoreInv
  <2> QED
    BY <2>1, <2>2, <1>1, <1>3, <1>7, <1>8

\* free_entry gives back the cells of both lists, and no others.
LEMMA FreedHeap ==
    ASSUME StoreInv, NEW d \in Addr, slots[Index[d]] # NULL
    PROVE  LET e == slots[Index[d]]
               g == free_linked_list(free_linked_list(heap, e.precursor_list), e.next_hop_for)
               S == Range(cells_of(<<d, "precursor_list">>)) \cup
                    Range(cells_of(<<d, "next_hop_for">>))
           IN  /\ g \in Heap /\ g.used = heap.used \ S
               /\ \A b \in Cell \ S : g.at[b] = heap.at[b]
<1> DEFINE e == slots[Index[d]]
           p == <<d, "precursor_list">>
           q == <<d, "next_hop_for">>
           h == free_linked_list(heap, e.precursor_list)
           g == free_linked_list(h, e.next_hop_for)
           P == Range(cells_of(p))
           Q == Range(cells_of(q))
<1>1. p \in owned /\ q \in owned /\ p # q
  BY DEF owned, find_entry_in_data_structure, Field
<1>2. /\ Chain(heap, list_of(p), cells_of(p)) /\ Chain(heap, list_of(q), cells_of(q))
      /\ heap \in Heap /\ e \in Entry
  BY <1>1, OwnedList
<1>3. list_of(p) = e.precursor_list /\ list_of(q) = e.next_hop_for
  BY <1>2, EntryFields DEF list_of, find_entry_in_data_structure
<1>4. P \cap Q = {} /\ P \subseteq heap.used /\ Q \subseteq heap.used /\ heap.used \subseteq Cell
  BY <1>1, <1>2, ChainCells DEF StoreInv, Apart
<1>5. h = release(heap, P)
  BY <1>3 DEF free_linked_list, cells_of
<1> HIDE DEF h, P, Q
<1>6. /\ h \in Heap /\ h.used = heap.used \ P
      /\ \A b \in Cell \ P : h.at[b] = heap.at[b]
  BY <1>2, <1>5, ReleasedCells
<1>7. Chain(h, list_of(q), cells_of(q))
  <2>1. \A b \in Range(cells_of(q)) : b \in h.used /\ h.at[b] = heap.at[b]
    BY <1>4, <1>6 DEF Q
  <2> QED
    BY <2>1, <1>2, <1>6, ChainKept
<1>8. cells(h, list_of(q)) = cells_of(q)
  BY <1>6, <1>7, CellsOfChain
<1>9. g = release(h, Q)
  BY <1>3, <1>8 DEF free_linked_list, Q
<1> HIDE DEF g
<1>10. /\ g \in Heap /\ g.used = h.used \ Q
       /\ \A b \in Cell \ Q : g.at[b] = h.at[b]
  BY <1>6, <1>9, ReleasedCells
<1>11. /\ g \in Heap /\ g.used = heap.used \ (P \cup Q)
       /\ \A b \in Cell \ (P \cup Q) : g.at[b] = heap.at[b]
  BY <1>6, <1>10
<1> QED
  BY <1>11 DEF g, h, P, Q

LEMMA FreeKeeps ==
    ASSUME StoreInv, NEW d \in Addr, free_entry(d)
    PROVE  /\ StoreInv' /\ slots[Index[d]] # NULL /\ slots[Index[d]]' = NULL
           /\ \A e \in Addr \ {d} : slots[Index[e]]' = slots[Index[e]]
           /\ \A p \in owned : p[1] # d => listed(p)' = listed(p)
<1> DEFINE e == slots[Index[d]]
           pr == <<d, "precursor_list">>
           nh == <<d, "next_hop_for">>
           S == Range(cells_of(pr)) \cup Range(cells_of(nh))
<1>1. /\ e # NULL /\ slots' = [slots EXCEPT ![Index[d]] = NULL]
      /\ heap' = free_linked_list(free_linked_list(heap, e.precursor_list), e.next_hop_for)
      /\ slots \in [Slot -> Entry \cup {NULL}] /\ Index[d] \in Slot
  BY Slots DEF free_entry, remove_entry_from_data_structure, find_entry_in_data_structure,
     StoreInv
<1>2. /\ heap' \in Heap /\ heap'.used = heap.used \ S
      /\ \A b \in Cell \ S : heap'.at[b] = heap.at[b]
  BY <1>1, FreedHeap
<1>3. /\ slots' \in [Slot -> Entry \cup {NULL}] /\ slots'[Index[d]] = NULL
      /\ \A a \in Addr \ {d} : slots'[Index[a]] = slots[Index[a]]
  BY <1>1, Slots
<1>4. /\ \A p \in owned : p \in Addr \X Field
      /\ owned' = {p \in owned : p[1] # d}
      /\ pr \in owned /\ nh \in owned
  <2>1. \A p \in Addr \X Field : p \in owned' <=> p \in owned /\ p[1] # d
    BY <1>3 DEF owned, find_entry_in_data_structure
  <2>2. owned \subseteq Addr \X Field /\ owned' \subseteq Addr \X Field
    BY DEF owned
  <2>3. pr \in owned /\ nh \in owned
    BY <1>1 DEF owned, find_entry_in_data_structure, Field
  <2> QED
    BY <2>1, <2>2, <2>3
<1>5. \A p \in owned' : list_of(p)' = list_of(p)
  BY <1>3, <1>4 DEF list_of, find_entry_in_data_structure
<1> HIDE DEF S
<1>6. ASSUME NEW p \in owned'
      PROVE  /\ Chain(heap', list_of(p)', cells_of(p)') /\ cells_of(p)' = cells_of(p)
             /\ listed(p)' = listed(p)
             /\ Range(cells_of(p)) \cap S = {}
  <2>1. p \in owned /\ p # pr /\ p # nh
    BY <1>4
  <2>2. Range(cells_of(p)) \subseteq heap.used /\ heap.used \subseteq Cell
    BY <2>1, OwnedList, ChainCells
  <2>3. Range(cells_of(p)) \cap S = {}
    BY <2>1, <1>4 DEF StoreInv, Apart, S
  <2>4. \A b \in Range(cells_of(p)) : b \in heap'.used /\ heap'.at[b] = heap.at[b]
    BY <2>2, <2>3, <1>2
  <2>5. /\ Chain(heap', list_of(p)', cells_of(p)) /\ cells_of(p)' = cells_of(p)
        /\ listed(p)' = listed(p)
    BY <2>1, <2>4, <1>2, <1>5, Survives
  <2> QED
    BY <2>3, <2>5
<1>7. Chains'
  BY <1>6 DEF Chains
<1>8. Apart'
  <2>1. \A p, q \in owned' : p # q => Range(cells_of(p)') \cap Range(cells_of(q)') = {}
    BY <1>4, <1>6 DEF StoreInv, Apart
  <2> QED
    BY <2>1 DEF Apart
<1>9. NoLostCell'
  <2>1. \A b : b \in heap.used <=> \E p \in owned : b \in Range(cells_of(p))
    BY DEF StoreInv, NoLostCell
  <2>2. \A p \in owned : p \in owned' \/ p = pr \/ p = nh
    BY <1>4 DEF Field
  <2>3. ASSUME NEW b
        PROVE  b \in heap'.used <=> \E p \in owned' : b \in Range(cells_of(p)')
    <3>1. ASSUME b \in heap'.used PROVE \E p \in owned' : b \in Range(cells_of(p)')
      <4>1. b \in heap.used /\ b \notin S
        BY <3>1, <1>2
      <4>2. PICK p \in owned : b \in Range(cells_of(p))
        BY <4>1, <2>1
      <4>3. p # pr /\ p # nh
        BY <4>1, <4>2 DEF S
      <4> QED
        BY <4>2, <4>3, <2>2, <1>6
    <3>2. ASSUME NEW p \in owned', b \in Range(cells_of(p)') PROVE b \in heap'.used
      BY <3>2, <2>1, <1>2, <1>4, <1>6
    <3> QED
      BY <3>1, <3>2
  <2> QED
    BY <2>3 DEF NoLostCell
<1>10. Filled(heap')
  BY <1>2 DEF StoreInv, Filled, Heap
<1>11. StoreInv'
  BY <1>2, <1>3, <1>7, <1>8, <1>9, <1>10 DEF StoreInv
<1> QED
  BY <1>1, <1>3, <1>4, <1>6, <1>11

-----------------------------------------------------------------------------
(* Init and Next.                                                          *)

LEMMA StoreInit == Init => StoreInv
<1> SUFFICES ASSUME Init PROVE StoreInv
  OBVIOUS
<1>1. heap = EmptyHeap /\ slots = [i \in Slot |-> NULL]
  BY DEF Init
<1>2. heap \in Heap /\ heap.used = {}
  BY <1>1 DEF EmptyHeap, Heap, FreeBlock, Block, Pointer
<1>3. owned = {}
  BY <1>1, Slots DEF owned, find_entry_in_data_structure
<1> QED
  BY <1>1, <1>2, <1>3 DEF StoreInv, Filled, Chains, Apart, NoLostCell

LEMMA StoreNext == StoreInv /\ [Next]_vars => StoreInv'
<1> SUFFICES ASSUME StoreInv, [Next]_vars PROVE StoreInv'
  OBVIOUS
<1>1. CASE UNCHANGED vars
  <2>1. heap' = heap /\ slots' = slots
    BY <1>1 DEF vars
  <2>2. owned' = owned
    BY <2>1 DEF owned, find_entry_in_data_structure
  <2>3. \A o \in owned : list_of(o)' = list_of(o) /\ cells_of(o)' = cells_of(o)
    BY <2>1 DEF list_of, cells_of, find_entry_in_data_structure
  <2>4. Chains' /\ Apart'
    BY <2>1, <2>2, <2>3 DEF StoreInv, Chains, Apart
  <2>5. NoLostCell'
    BY <2>1, <2>2, <2>3 DEF StoreInv, NoLostCell
  <2> QED
    BY <2>1, <2>4, <2>5 DEF StoreInv, Filled
<1>2. ASSUME NEW d \in Addr, create_or_get_routing_entry(d) PROVE StoreInv'
  BY <1>2, CreateKeeps
<1>3. ASSUME NEW d \in Addr, free_entry(d) PROVE StoreInv'
  BY <1>3, FreeKeeps
<1>4. ASSUME NEW d \in Addr, NEW x \in Data, precursor_added(d, x) \/ next_hop_noted(d, x)
      PROVE  StoreInv'
  <2>1. PICK f \in Field : slots[Index[d]] # NULL /\ append(d, f, x)
    BY <1>4 DEF precursor_added, next_hop_noted, find_entry_in_data_structure, Field
  <2> QED
    BY <2>1, AppendKeeps
<1>5. ASSUME NEW d \in Addr, NEW x \in Data, NEW f \in Field, address_removed(d, f, x)
      PROVE  StoreInv'
  BY <1>5, RemoveKeeps
<1> QED
  BY <1>1, <1>2, <1>3, <1>4, <1>5 DEF Next

LEMMA StoreAlways == Spec => []StoreInv
BY StoreInit, StoreNext, PTL DEF Spec

\* The lists of cells are chains both ways that never share a cell or lead to a
\* freed one, however entries and addresses come and go (linked_list.c,
\* routing_table.c free_entry).
THEOREM ListsLinked == Spec => []WellLinked
BY StoreAlways, InvImpliesLinked, PTL

\* free_linked_list and remove_entry_from_list give back every cell that no
\* list leads to any more.
THEOREM CellsFreed == Spec => []NoLostCell
<1>1. StoreInv => NoLostCell
  BY DEF StoreInv
<1> QED
  BY <1>1, StoreAlways, PTL

\* recv_rerr's test of first and last finds out whether an entry has exactly one
\* precursor.
THEOREM PrecursorTested == Spec => []SinglePrecursor
BY StoreAlways, InvImpliesSingle, PTL

-----------------------------------------------------------------------------
(* The slots and cells implement the map of address lists.                 *)

Shown(d) == IF slots[Index[d]] = NULL THEN NULL ELSE [f \in Field |-> listed(<<d, f>>)]

LEMMA ContentsShown == contents = [d \in Addr |-> Shown(d)]
BY DEF contents, Shown, listed, list_of, find_entry_in_data_structure

LEMMA ContentsShownNext == contents' = [d \in Addr |-> Shown(d)']
BY DEF contents, Shown, listed, list_of, find_entry_in_data_structure

\* What is shown of an entry is not NULL.
LEMMA EntryShown ==
    ASSUME StoreInv, NEW d \in Addr, slots[Index[d]] # NULL
    PROVE  /\ contents[d] = [f \in Field |-> listed(<<d, f>>)] /\ contents[d] # NULL
           /\ \A f \in Field : <<d, f>> \in owned
<1>1. \A f \in Field : <<d, f>> \in owned
  BY DEF owned, find_entry_in_data_structure
<1>2. \A f \in Field : listed(<<d, f>>) \in Seq(Data)
  BY <1>1, HeldAddresses
<1>3. [f \in Field |-> listed(<<d, f>>)] \in [Field -> Seq(Data)]
  BY <1>2
<1>4. contents[d] = [f \in Field |-> listed(<<d, f>>)]
  BY ContentsShown DEF Shown
<1> QED
  BY <1>1, <1>3, <1>4, Slots

\* One list of one entry is another.
LEMMA ListShown ==
    ASSUME StoreInv, NEW d \in Addr, NEW f \in Field, NEW y, slots[Index[d]] # NULL,
           \A e \in Addr : slots[Index[e]]' = NULL <=> slots[Index[e]] = NULL,
           listed(<<d, f>>)' = y,
           \A p \in owned : p # <<d, f>> => listed(p)' = listed(p)
    PROVE  contents' = [contents EXCEPT ![d] = [contents[d] EXCEPT ![f] = y]]
<1>1. ASSUME NEW e \in Addr, e # d PROVE Shown(e)' = contents[e]
  <2>1. CASE slots[Index[e]] = NULL
    BY <2>1, ContentsShown DEF Shown
  <2>2. CASE slots[Index[e]] # NULL
    <3>1. \A g \in Field : listed(<<e, g>>)' = listed(<<e, g>>)
      BY <2>2, <1>1, EntryShown
    <3>2. Shown(e)' = [g \in Field |-> listed(<<e, g>>)']
      BY <2>2 DEF Shown
    <3> QED
      BY <2>2, <3>1, <3>2, EntryShown
  <2> QED
    BY <2>1, <2>2
<1>2. Shown(d)' = [contents[d] EXCEPT ![f] = y]
  <2>1. \A g \in Field : listed(<<d, g>>)' = IF g = f THEN y ELSE listed(<<d, g>>)
    BY EntryShown
  <2>2. Shown(d)' = [g \in Field |-> listed(<<d, g>>)']
    BY DEF Shown
  <2>3. contents[d] = [g \in Field |-> listed(<<d, g>>)]
    BY EntryShown
  <2>4. Shown(d)' = [g \in Field |-> IF g = f THEN y ELSE listed(<<d, g>>)]
    BY <2>1, <2>2
  <2> DEFINE c == contents[d]
  <2>5. c = [g \in Field |-> c[g]] /\ \A g \in Field : c[g] = listed(<<d, g>>)
    BY <2>3
  <2> HIDE DEF c
  <2>6. [c EXCEPT ![f] = y] = [g \in Field |-> IF g = f THEN y ELSE c[g]]
    BY <2>5
  <2>7. [c EXCEPT ![f] = y] = [g \in Field |-> IF g = f THEN y ELSE listed(<<d, g>>)]
    BY <2>5, <2>6
  <2> QED
    BY <2>4, <2>7 DEF c
<1>3. contents' = [e \in Addr |-> Shown(e)'] /\ contents = [e \in Addr |-> contents[e]]
  BY ContentsShown, ContentsShownNext
<1> QED
  BY <1>1, <1>2, <1>3

\* One entry comes or goes.
LEMMA EntryReplaced ==
    ASSUME StoreInv, NEW d \in Addr,
           \A e \in Addr \ {d} : slots[Index[e]]' = slots[Index[e]],
           \A p \in owned : p[1] # d => listed(p)' = listed(p)
    PROVE  contents' = [contents EXCEPT ![d] = Shown(d)']
<1>1. ASSUME NEW e \in Addr, e # d PROVE Shown(e)' = contents[e]
  <2>1. CASE slots[Index[e]] = NULL
    BY <2>1, <1>1, ContentsShown DEF Shown
  <2>2. CASE slots[Index[e]] # NULL
    <3>1. \A g \in Field : listed(<<e, g>>)' = listed(<<e, g>>)
      BY <2>2, <1>1, EntryShown
    <3>2. Shown(e)' = [g \in Field |-> listed(<<e, g>>)']
      BY <2>2, <1>1 DEF Shown
    <3> QED
      BY <2>2, <3>1, <3>2, EntryShown
  <2> QED
    BY <2>1, <2>2
<1>2. contents' = [e \in Addr |-> Shown(e)'] /\ contents = [e \in Addr |-> contents[e]]
  BY ContentsShown, ContentsShownNext
<1> QED
  BY <1>1, <1>2

LEMMA ListsInit == Init => Abstract!Init
<1> SUFFICES ASSUME Init PROVE Abstract!Init
  OBVIOUS
<1>1. \A d \in Addr : Shown(d) = NULL
  BY Slots DEF Init, Shown
<1> QED
  BY <1>1, ContentsShown DEF Abstract!Init

LEMMA ListsNext == StoreInv /\ [Next]_vars => [Abstract!Next]_contents
<1> SUFFICES ASSUME StoreInv, [Next]_vars PROVE [Abstract!Next]_contents
  OBVIOUS
<1>1. CASE UNCHANGED vars
  BY <1>1 DEF vars, contents, find_entry_in_data_structure
<1>2. ASSUME NEW d \in Addr, create_or_get_routing_entry(d) PROVE Abstract!Next
  <2>1. /\ slots[Index[d]] = NULL /\ slots[Index[d]]' # NULL
        /\ \A e \in Addr \ {d} : slots[Index[e]]' = slots[Index[e]]
        /\ \A f \in Field : listed(<<d, f>>)' = <<>>
        /\ \A p \in owned : listed(p)' = listed(p)
    BY <1>2, CreateKeeps
  <2>2. contents' = [contents EXCEPT ![d] = Shown(d)']
    BY <2>1, EntryReplaced
  <2>3. Shown(d)' = [f \in Field |-> <<>>]
    BY <2>1 DEF Shown
  <2>4. contents[d] = NULL
    BY <2>1, ContentsShown DEF Shown
  <2>5. Abstract!Create(d)
    BY <2>2, <2>3, <2>4 DEF Abstract!Create
  <2> QED
    BY <2>5 DEF Abstract!Next
<1>3. ASSUME NEW d \in Addr, free_entry(d) PROVE Abstract!Next
  <2>1. /\ slots[Index[d]] # NULL /\ slots[Index[d]]' = NULL
        /\ \A e \in Addr \ {d} : slots[Index[e]]' = slots[Index[e]]
        /\ \A p \in owned : p[1] # d => listed(p)' = listed(p)
    BY <1>3, FreeKeeps
  <2>2. contents' = [contents EXCEPT ![d] = Shown(d)']
    BY <2>1, EntryReplaced
  <2>3. Shown(d)' = NULL /\ contents[d] # NULL
    BY <2>1, EntryShown DEF Shown
  <2>4. Abstract!Discard(d)
    BY <2>2, <2>3 DEF Abstract!Discard
  <2> QED
    BY <2>4 DEF Abstract!Next
<1>4. ASSUME NEW d \in Addr, NEW x \in Data, precursor_added(d, x) \/ next_hop_noted(d, x)
      PROVE  Abstract!Next
  <2>1. PICK f \in Field : slots[Index[d]] # NULL /\ append(d, f, x)
    BY <1>4 DEF precursor_added, next_hop_noted, find_entry_in_data_structure, Field
  <2>2. contents' = [contents EXCEPT ![d] =
                        [contents[d] EXCEPT ![f] = Append(listed(<<d, f>>), x)]]
    BY <2>1, AppendKeeps, ListShown
  <2>3. contents[d][f] = listed(<<d, f>>) /\ contents[d] # NULL
    BY <2>1, EntryShown
  <2>4. Abstract!Insert(d, f, x)
    BY <2>2, <2>3 DEF Abstract!Insert
  <2> QED
    BY <2>4 DEF Abstract!Next
<1>5. ASSUME NEW d \in Addr, NEW x \in Data, NEW f \in Field, address_removed(d, f, x)
      PROVE  Abstract!Next
  <2>1. slots[Index[d]] # NULL
    BY <1>5 DEF address_removed, find_entry_in_data_structure
  <2>2. contents' = [contents EXCEPT ![d] =
                [contents[d] EXCEPT ![f] = Abstract!RemoveFirst(listed(<<d, f>>), x)]]
    BY <1>5, <2>1, RemoveKeeps, ListShown
  <2>3. contents[d][f] = listed(<<d, f>>) /\ contents[d] # NULL
    BY <2>1, EntryShown
  <2>4. Abstract!Delete(d, f, x)
    BY <2>2, <2>3 DEF Abstract!Delete
  <2> QED
    BY <2>4 DEF Abstract!Next
<1> QED
  BY <1>1, <1>2, <1>3, <1>4, <1>5 DEF Next

\* The slot array and the cells of linked_list.c implement the map from
\* destinations to lists of addresses, for any number of either.
THEOREM ListsRefine == Spec => ImplementsLists
<1>1. Abstract!Spec <=> Abstract!Init /\ [][Abstract!Next]_contents
  BY DEF Abstract!Spec
<1> QED
  BY <1>1, ListsInit, ListsNext, StoreAlways, PTL DEF Spec, ImplementsLists
=============================================================================
