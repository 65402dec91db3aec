CONSTANTS
    NULL = NULL
    n1 = n1
    n2 = n2
    n3 = n3
    n4 = n4
    low = low
    high = high
    also = also
    Nodes <- MCNodes
    Data <- MCData
    Rank <- MCRank
    MaxRank <- MCMaxRank
    Calls = {"head", "tail", "between", "delete", "sort", "reverse", "destroy"}
SPECIFICATION Spec
INVARIANTS WellFormed
PROPERTIES SeqSpec
SYMMETRY AnyAddress
