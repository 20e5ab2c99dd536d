----------------------------- MODULE EntryStore -----------------------------
(***************************************************************************)
(* The memory behind the routing table: the slot array of data_structure.c *)
(* and the two linked lists of every entry, in one heap. The operations    *)
(* are those of routing_table.c and the list updates of the handlers.      *)
(***************************************************************************)
EXTENDS LinkedList

CONSTANTS
    Addr,       \* destinations
    Index       \* sort_variable >> 24: the last octet of an address

\* One network: no two addresses share their last octet.
ASSUME SlotAssumption ==
    /\ Index \in [Addr -> 0..255]
    /\ \A a, b \in Addr : Index[a] = Index[b] => a = b

VARIABLES
    heap,       \* the cells of every list
    slots       \* the array: an entry or NULL at each index

vars == <<heap, slots>>

Field == {"precursor_list", "next_hop_for"}

Entry == [dest_ip : Addr, precursor_list : List, next_hop_for : List]

\* NULL is no entry, and no pair of lists.
ASSUME NullAssumption == NULL \notin Entry \cup [Field -> Seq(Data)]

Slot == {Index[a] : a \in Addr}

\* create_data_header: an array of NULLs.
Init == heap = EmptyHeap /\ slots = [i \in Slot |-> NULL]

find_entry_in_data_structure(d) == slots[Index[d]]

add_entry_to_data_structure(e, d) == slots' = [slots EXCEPT ![Index[d]] = e]

remove_entry_from_data_structure(d) == slots' = [slots EXCEPT ![Index[d]] = NULL]

new_entry(d) ==
    [dest_ip |-> d, precursor_list |-> EmptyList, next_hop_for |-> EmptyList]

-----------------------------------------------------------------------------

create_or_get_routing_entry(d) ==
    /\ find_entry_in_data_structure(d) = NULL
    /\ add_entry_to_data_structure(new_entry(d), d)
    /\ UNCHANGED heap

\* r is what a list operation on field f of d's entry returned.
update_list(d, f, r) ==
    /\ heap' = r.heap
    /\ slots' = [slots EXCEPT ![Index[d]][f] = r.list]

append(d, f, x) ==
    \E c \in Cell \ heap.used :
        update_list(d, f,
            add_entry_to_list(heap, find_entry_in_data_structure(d)[f], c, x))

\* recv_rrep and send_rrep_intermediate: the same address may come again.
precursor_added(d, x) ==
    /\ find_entry_in_data_structure(d) # NULL
    /\ append(d, "precursor_list", x)

\* recv_rreq and recv_rrep: only what is not in the list yet.
next_hop_noted(d, x) ==
    LET e == find_entry_in_data_structure(d)
    IN  /\ e # NULL
        /\ ~is_in_list(heap, e.next_hop_for, x)
        /\ append(d, "next_hop_for", x)

address_removed(d, f, x) ==
    LET e == find_entry_in_data_structure(d)
    IN  /\ e # NULL
        /\ e[f] # EmptyList
        /\ update_list(d, f, remove_entry_from_list(heap, e[f], x))

\* remove_routing_entry and free_entry, when the entry's timer deletes it.
free_entry(d) ==
    LET e == find_entry_in_data_structure(d)
    IN  /\ e # NULL
        /\ remove_entry_from_data_structure(d)
        /\ heap' = free_linked_list(free_linked_list(heap, e.precursor_list),
                                    e.next_hop_for)

\* recv_rerr: the only precursor, told by first = last.
single_precursor(e) ==
    /\ e.precursor_list.first # NULL
    /\ e.precursor_list.first = e.precursor_list.last

Next ==
    \E d \in Addr :
        \/ create_or_get_routing_entry(d)
        \/ free_entry(d)
        \/ \E x \in Data : \/ precursor_added(d, x)
                           \/ next_hop_noted(d, x)
                           \/ \E f \in Field : address_removed(d, f, x)

Spec == Init /\ [][Next]_vars

-----------------------------------------------------------------------------
(* Properties.                                                             *)

\* The lists that entries own, by destination and field.
owned == {o \in Addr \X Field : find_entry_in_data_structure(o[1]) # NULL}

list_of(o) == find_entry_in_data_structure(o[1])[o[2]]

cells_of(o) == cells(heap, list_of(o))

\* Every list is a chain both ways: it ends at last, prev is the inverse of next,
\* it never leads to a freed cell, and lists of different entries share no cell.
\* The loops over next in the handlers rely on it to end.
WellLinked ==
    /\ \A o \in owned :
          LET s == cells_of(o)
              n == Len(s)
          IN  /\ Range(s) \subseteq heap.used
              /\ Cardinality(Range(s)) = n
              /\ list_of(o).last = IF n = 0 THEN NULL ELSE s[n]
              /\ \A i \in 1..n :
                    heap.at[s[i]].prev = IF i = 1 THEN NULL ELSE s[i - 1]
    /\ \A o, p \in owned :
          o # p => Range(cells_of(o)) \cap Range(cells_of(p)) = {}

\* No cell is lost: what is allocated belongs to a list of an entry that is in
\* the table, also after entries were deleted with the lists they own.
NoLostCell == heap.used = UNION {Range(cells_of(o)) : o \in owned}

\* recv_rerr sends a unicast exactly when the entry has one precursor in its
\* list: the pointer test agrees with the length.
SinglePrecursor ==
    \A d \in Addr :
        LET e == find_entry_in_data_structure(d)
        IN  e # NULL => (single_precursor(e) <=> Len(cells(heap, e.precursor_list)) = 1)

\* What the handlers see of the slots and the cells.
contents ==
    [d \in Addr |->
        LET e == find_entry_in_data_structure(d)
        IN  IF e = NULL THEN NULL
            ELSE [f \in Field |-> get_all_entries(heap, e[f])]]

Abstract == INSTANCE AddressLists WITH lists <- contents

\* The slot array and the linked cells implement the map of address lists: every
\* operation changes the lists of its destination as it should, and no other.
ImplementsLists == Abstract!Spec
=============================================================================
