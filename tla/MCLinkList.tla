----------------------------- MODULE MCLinkList -----------------------------
(* Four nodes; three data of two ranks, so that two of them tie.            *)
EXTENDS LinkList, TLC

CONSTANTS n1, n2, n3, n4, low, high, also

MCNodes == {n1, n2, n3, n4}
MCData == {low, high, also}
MCRank == [d \in MCData |-> IF d = low THEN 1 ELSE 2]
MCMaxRank == 2
AnyAddress == Permutations(MCNodes)
=============================================================================
