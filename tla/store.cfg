SPECIFICATION Spec
CONSTANTS
    NULL = NULL
    n1 = n1
    n2 = n2
    Cell = {1, 2, 3, 4}
    Data <- Addresses
    Addr <- Addresses
    Index <- LastOctet
INVARIANTS WellLinked NoLostCell 
PROPERTY ImplementsLists
