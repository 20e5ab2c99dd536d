---------------------------- MODULE AddressLists ----------------------------
(***************************************************************************)
(* What the handlers rely on: a map from destinations to two lists of      *)
(* addresses, each kept in the order of insertion. EntryStore implements   *)
(* it with a slot array and linked cells.                                  *)
(***************************************************************************)
EXTENDS Sequences, SequencesExt

CONSTANTS Addr, Data, Field, NULL

VARIABLE lists      \* lists[d]: NULL, or the sequences of d's entry

Init == lists = [d \in Addr |-> NULL]

\* The entry of d appears with empty lists.
Create(d) ==
    /\ lists[d] = NULL
    /\ lists' = [lists EXCEPT ![d] = [f \in Field |-> <<>>]]

\* x goes to the end of one list of d.
Insert(d, f, x) ==
    /\ lists[d] # NULL
    /\ lists' = [lists EXCEPT ![d][f] = Append(@, x)]

\* The first x goes from one list of d.
Delete(d, f, x) ==
    /\ lists[d] # NULL
    /\ lists' = [lists EXCEPT ![d][f] = RemoveFirst(@, x)]

\* The entry of d disappears with its lists.
Discard(d) ==
    /\ lists[d] # NULL
    /\ lists' = [lists EXCEPT ![d] = NULL]

Next ==
    \E d \in Addr :
        \/ Create(d)
        \/ Discard(d)
        \/ \E f \in Field, x \in Data : Insert(d, f, x) \/ Delete(d, f, x)

Spec == Init /\ [][Next]_lists
=============================================================================
