---------------------------- MODULE EntryStoreMC ----------------------------
(* Two destinations and their lists in a heap of a few cells.              *)
EXTENDS EntryStore, TLC

CONSTANTS n1, n2

Addresses == {n1, n2}

LastOctet == (n1 :> 1) @@ (n2 :> 255)
=============================================================================
