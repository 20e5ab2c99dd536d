----------------------------- MODULE LinkedList -----------------------------
(***************************************************************************)
(* DataStructures/linked_list.c: doubly linked lists of addresses. A heap  *)
(* is the memory all lists share: the cells in use and their fields. A     *)
(* list is its header, the pointers first and last. Operators return the   *)
(* heap and the header that the C functions leave.                         *)
(***************************************************************************)
EXTENDS Integers, Sequences, FiniteSets, Functions

CONSTANTS
    Cell,       \* addresses that malloc gives to linked_entry blocks
    Data,       \* what lists hold: addresses of nodes
    NULL

ASSUME ListAssumption == IsFiniteSet(Cell) /\ NULL \notin Cell \cup Data

Pointer == Cell \cup {NULL}

Block == [data : Data \cup {NULL}, next : Pointer, prev : Pointer]

Heap == [used : SUBSET Cell, at : [Cell -> Block]]

List == [first : Pointer, last : Pointer]

\* The fields of a free cell are unspecified; no list may lead to one.
FreeBlock == [data |-> NULL, next |-> NULL, prev |-> NULL]

EmptyHeap == [used |-> {}, at |-> [c \in Cell |-> FreeBlock]]

EmptyList == [first |-> NULL, last |-> NULL]

\* The pointer after k steps along next from c.
walk(h, c) ==
    LET step[k \in 0..Cardinality(Cell)] ==
          IF k = 0 THEN c
          ELSE IF step[k - 1] = NULL THEN NULL ELSE h.at[step[k - 1]].next
    IN  step

\* The cells from c on. A cycle shows as more cells than there are.
cells_from(h, c) ==
    LET step == walk(h, c)
        visited == {k \in DOMAIN step : step[k] # NULL}
    IN  [i \in 1..Cardinality(visited) |-> step[i - 1]]

cells(h, l) == cells_from(h, l.first)

\* free on a set of cells.
release(h, S) ==
    [used |-> h.used \ S,
     at |-> [c \in Cell |-> IF c \in S THEN FreeBlock ELSE h.at[c]]]

-----------------------------------------------------------------------------

\* Wrong on purpose: the new cell does not point back.
add_one_way(h, l, c, d) ==
    LET block == [data |-> d, next |-> NULL, prev |-> NULL]
        linked == IF l.first = NULL THEN h.at ELSE [h.at EXCEPT ![l.last].next = c]
    IN  [heap |-> [used |-> h.used \cup {c}, at |-> [linked EXCEPT ![c] = block]],
         list |-> IF l.first = NULL THEN [first |-> c, last |-> c]
                  ELSE [l EXCEPT !.last = c]]

\* c is the cell that malloc returns.
add_entry_to_list(h, l, c, d) ==
    LET block == [data |-> d, next |-> NULL,
                  prev |-> IF l.first = NULL THEN NULL ELSE l.last]
        linked == IF l.first = NULL THEN h.at ELSE [h.at EXCEPT ![l.last].next = c]
    IN  [heap |-> [used |-> h.used \cup {c}, at |-> [linked EXCEPT ![c] = block]],
         list |-> IF l.first = NULL THEN [first |-> c, last |-> c]
                  ELSE [l EXCEPT !.last = c]]

is_in_list(h, l, d) == \E c \in Range(cells(h, l)) : h.at[c].data = d

\* Wrong on purpose: the header keeps pointing at a removed last cell.
unlink_keeps_last(h, l, c) ==
    LET b == h.at[c]
        forward == IF b.prev = NULL THEN h.at ELSE [h.at EXCEPT ![b.prev].next = b.next]
        both == IF b.next = NULL THEN forward ELSE [forward EXCEPT ![b.next].prev = b.prev]
    IN  [heap |-> release([h EXCEPT !.at = both], {c}),
         list |-> [first |-> IF b.prev = NULL THEN b.next ELSE l.first,
                   last |-> IF b.prev = NULL /\ b.next = NULL THEN NULL ELSE l.last]]

\* The four cases of remove_entry_from_list: only, first, last, middle.
unlink(h, l, c) ==
    LET b == h.at[c]
        forward == IF b.prev = NULL THEN h.at ELSE [h.at EXCEPT ![b.prev].next = b.next]
        both == IF b.next = NULL THEN forward ELSE [forward EXCEPT ![b.next].prev = b.prev]
    IN  [heap |-> release([h EXCEPT !.at = both], {c}),
         list |-> [first |-> IF c = l.first THEN b.next ELSE l.first,
                   last |-> IF b.next = NULL THEN b.prev ELSE l.last]]

\* The first cell that holds d is removed, if there is one. The code reads
\* list->first->data before it knows that there is a first: not for empty lists.
remove_entry_from_list(h, l, d) ==
    LET s == cells(h, l)
        hits == {i \in DOMAIN s : h.at[s[i]].data = d}
    IN  IF hits = {} THEN [heap |-> h, list |-> l]
        ELSE unlink(h, l, s[CHOOSE i \in hits : \A j \in hits : i <= j])

get_all_entries(h, l) ==
    LET s == cells(h, l) IN [i \in DOMAIN s |-> h.at[s[i]].data]

\* Wrong on purpose: the last cell is not freed.
free_all_but_last(h, l) == release(h, Range(cells(h, l)) \ {l.last})

\* Every cell is freed (the header too, unless the list is empty).
free_linked_list(h, l) == release(h, Range(cells(h, l)))
=============================================================================
