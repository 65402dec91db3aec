------------------------------ MODULE LinkSeq -------------------------------
(***************************************************************************)
(* What include/linklist_interface.h promises of a list: a sequence of the *)
(* caller's data, with no nodes in sight.  LinkList is shown to implement  *)
(* it.                                                                     *)
(***************************************************************************)
EXTENDS Integers, Sequences, SequencesExt, Functions

CONSTANTS Data,      \* the caller's data pointers
          Rank,      \* what the caller's compare function looks at
          MaxRank    \* bound: the ranks are 1 .. MaxRank

VARIABLE seq

Put(d) == seq' \in {Append(seq, d), <<d>> \o seq}

\* After the i-th element, counting from 1 and never before the first; past
\* the end nothing is inserted.
PutAt(d, i) ==
    LET k == IF i < 1 THEN 1 ELSE i
    IN  /\ k <= Len(seq)
        /\ seq' = InsertAt(seq, k + 1, d)

\* The first element the key compares equal to.
Take(r) ==
    \E i \in DOMAIN seq : /\ Rank[seq[i]] = r
                          /\ \A j \in 1 .. i - 1 : Rank[seq[j]] # r
                          /\ seq' = RemoveAt(seq, i)

TakeAt(i) == i \in DOMAIN seq /\ seq' = RemoveAt(seq, i)

\* A stable sort: by rank, and those of one rank in the order they had.
Sort ==
    \E p \in Bijection(DOMAIN seq, DOMAIN seq) :
        /\ seq' = [i \in DOMAIN seq |-> seq[p[i]]]
        /\ \A i, j \in DOMAIN seq : i < j =>
              \/ Rank[seq[p[i]]] < Rank[seq[p[j]]]
              \/ Rank[seq[p[i]]] = Rank[seq[p[j]]] /\ p[i] < p[j]

Turn == seq' = Reverse(seq)

Clear == seq' = <<>>

Next == \/ \E d \in Data : Put(d)
        \/ \E d \in Data, i \in 0 .. Len(seq) : PutAt(d, i)
        \/ \E r \in 1 .. MaxRank : Take(r)
        \/ \E i \in DOMAIN seq : TakeAt(i)
        \/ Sort
        \/ Turn
        \/ Clear

SeqSpec == seq = <<>> /\ [][Next]_seq
=============================================================================
