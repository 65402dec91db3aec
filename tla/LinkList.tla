------------------------------ MODULE LinkList ------------------------------
(***************************************************************************)
(* src/molib/linklist.c on the nodes of the heap: a List is head, tail and *)
(* len, a node is next and data.  heap is the partial function from the    *)
(* nodes malloc has handed out to their contents, so that reading a freed  *)
(* node is an error of the model.  MusicListOps uses the list as a         *)
(* sequence; this module is where that is earned.                          *)
(*                                                                         *)
(* A list is the caller's: the code has no lock and no thread of its own,  *)
(* so every function is one step.  A struct list is the record             *)
(* [heap, head, tail, len]; Bug... operators are wrong variants.           *)
(***************************************************************************)
EXTENDS Integers, Sequences, SequencesExt, Functions, FiniteSets

CONSTANTS NULL,      \* the C null pointer
          Nodes,     \* bound: the addresses malloc may return
          Data,      \* the caller's data pointers
          Rank,      \* what the caller's compare function looks at
          MaxRank,   \* bound: the ranks are 1 .. MaxRank
          Calls      \* which functions the caller uses

ASSUME ConstantAssumption == /\ NULL \notin Nodes /\ IsFiniteSet(Nodes)
                             /\ Rank \in [Data -> 1 .. MaxRank] /\ MaxRank \in Nat

VARIABLE list

Empty == [heap |-> << >>, head |-> NULL, tail |-> NULL, len |-> 0]

Next_(l, n) == l.heap[n].next
Data_(l, n) == l.heap[n].data

\* Every loop that follows next from the head: the nodes it passes.
Chain(l) ==
    LET at[k \in 0 .. Cardinality(Nodes)] ==
            IF k = 0 THEN l.head
            ELSE IF at[k - 1] = NULL THEN NULL ELSE Next_(l, at[k - 1])
    IN  at

\* get_node: i steps from the head; a negative i takes none.
NodeAt(l, i) == Chain(l)[IF i < 0 THEN 0 ELSE i]

\* The nodes a walk visits, in order.
Walk(l) ==
    LET at == Chain(l)
    IN  [k \in 1 .. Cardinality({i \in DOMAIN at : at[i] # NULL}) |-> at[k - 1]]

Before(l, n) == CHOOSE p \in ToSet(Walk(l)) : Next_(l, p) = n

-----------------------------------------------------------------------------
(* The pieces the functions share.                                          *)

MakeNode(l, n, d) ==
    [l EXCEPT !.heap = [m \in DOMAIN @ \cup {n} |->
                           IF m = n THEN [next |-> NULL, data |-> d] ELSE @[m]]]

Free(l, n) == [l EXCEPT !.heap = Restrict(@, DOMAIN @ \ {n})]

\* The first branch of delete_node and list_delete leaves tail alone even when
\* the list becomes empty; every reader of tail looks at head first.
BugUnlink(l, n) ==      \* forgets the tail
    IF n = l.head
    THEN [l EXCEPT !.head = Next_(l, n), !.len = @ - 1]
    ELSE LET p == Before(l, n)
         IN  [l EXCEPT !.heap[p].next = Next_(l, n), !.len = @ - 1]

Unlink(l, n) ==
    IF n = l.head
    THEN [l EXCEPT !.head = Next_(l, n), !.len = @ - 1]
    ELSE LET p == Before(l, n)
         IN  [l EXCEPT !.heap[p].next = Next_(l, n),
                       !.tail = IF n = @ THEN p ELSE @,
                       !.len = @ - 1]

LinkLast(l, n) ==
    IF l.head = NULL
    THEN [l EXCEPT !.head = n, !.tail = n, !.len = @ + 1]
    ELSE [l EXCEPT !.heap[l.tail].next = n, !.tail = n, !.len = @ + 1]

LinkFirst(l, n) ==
    IF l.head = NULL
    THEN [l EXCEPT !.head = n, !.tail = n, !.len = @ + 1]
    ELSE [l EXCEPT !.heap[n].next = l.head, !.head = n, !.len = @ + 1]

LinkAfter(l, p, n) ==
    [l EXCEPT !.heap[n].next = Next_(l, p), !.heap[p].next = n, !.len = @ + 1]

\* find_min_node: the first of the smallest.
BugMinNode(l) ==        \* the last of the smallest
    LET w == Walk(l)
        k == CHOOSE i \in DOMAIN w : \A j \in DOMAIN w :
                 Rank[Data_(l, w[i])] <= Rank[Data_(l, w[j])] - (IF j > i THEN 1 ELSE 0)
    IN  w[k]

MinNode(l) ==
    LET w == Walk(l)
        k == CHOOSE i \in DOMAIN w : \A j \in DOMAIN w :
                 Rank[Data_(l, w[i])] <= Rank[Data_(l, w[j])] - (IF j < i THEN 1 ELSE 0)
    IN  w[k]

\* One round of list_sort: the smallest node leaves l and is appended to tmp.
\* Both lists live in the one heap; the node keeps its stale next until the
\* next round overwrites it.
SortRound(both) ==
    LET l == both[1]
        n == MinNode(l)
        rest == Unlink(l, n)
        tmp == LinkLast([both[2] EXCEPT !.heap = rest.heap], n)
    IN  <<[rest EXCEPT !.heap = tmp.heap], tmp>>

Sorted(l) ==
    LET after[i \in 0 .. Cardinality(Nodes)] ==
            IF i = 0 THEN <<l, [Empty EXCEPT !.heap = l.heap]>>
            ELSE IF after[i - 1][1].head = NULL THEN after[i - 1]
                 ELSE SortRound(after[i - 1])
    IN  after[Cardinality(Nodes)][2]

\* Every node points at the one before it; the old head is the tail.
Reversed(l) ==
    LET w == Walk(l)
    IN  [l EXCEPT !.head = IF w = <<>> THEN NULL ELSE Last(w),
                  !.tail = l.head,
                  !.heap = [n \in DOMAIN @ |->
                     IF n \notin ToSet(w) THEN @[n]
                     ELSE [next |-> IF n = l.head THEN NULL ELSE Before(l, n),
                           data |-> Data_(l, n)]]]

-----------------------------------------------------------------------------
(* The functions.                                                           *)

Fresh == Nodes \ DOMAIN list.heap

InsertAtHead(d) ==
    \E n \in Fresh : list' = LinkFirst(MakeNode(list, n, d), n)

InsertAtTail(d) ==
    \E n \in Fresh : list' = LinkLast(MakeNode(list, n, d), n)

\* Counts from 1, never updates tail, and makes no node past the end.
InsertAtIndex(d, index) ==
    LET p == NodeAt(list, index - 1)
    IN  /\ p # NULL
        /\ \E n \in Fresh : list' = LinkAfter(MakeNode(list, n, d), p, n)

Delete(r) ==
    LET w == Walk(list)
        Same(i) == Rank[Data_(list, w[i])] = r
    IN  /\ list.len # 0
        /\ \E i \in DOMAIN w : /\ Same(i) /\ \A j \in 1 .. i - 1 : ~Same(j)
                              /\ list' = Free(Unlink(list, w[i]), w[i])

\* Counts from 0, unlike the insertion.
DeleteAtIndex(idx) ==
    LET n == NodeAt(list, idx)
    IN  n # NULL /\ list' = Free(Unlink(list, n), n)

Destroy == list' = [Empty EXCEPT !.heap =
                       Restrict(list.heap, DOMAIN list.heap \ ToSet(Walk(list)))]

Init == list = Empty

Next == \/ "head" \in Calls /\ \E d \in Data : InsertAtHead(d)
        \/ "tail" \in Calls /\ \E d \in Data : InsertAtTail(d)
        \/ \E d \in Data, i \in 0 .. Cardinality(Nodes) :
              /\ "index" \in Calls \/ ("between" \in Calls /\ i < list.len /\ list.len > 1)
              /\ InsertAtIndex(d, i)
        \/ "delete" \in Calls /\ \E r \in 1 .. MaxRank : Delete(r)
        \/ "delete" \in Calls /\ \E i \in 0 .. Cardinality(Nodes) : DeleteAtIndex(i)
        \/ "sort" \in Calls /\ list' = Sorted(list)
        \/ "reverse" \in Calls /\ list' = Reversed(list)
        \/ "destroy" \in Calls /\ Destroy

Spec == Init /\ [][Next]_list

-----------------------------------------------------------------------------
(* A list is well formed: its pointers are null or addresses, and every     *)
(* next pointer is null or a node malloc has handed out.                    *)
TypeOK ==
    /\ DOMAIN list.heap \subseteq Nodes
    /\ list.head \in DOMAIN list.heap \cup {NULL}
    /\ list.tail \in Nodes \cup {NULL}
    /\ list.len \in 0 .. Cardinality(Nodes)
    /\ \A n \in DOMAIN list.heap :
          Next_(list, n) \in DOMAIN list.heap \cup {NULL} /\ Data_(list, n) \in Data

(* list_insert_at_tail trusts tail whenever head is not null: it must then  *)
(* be the last live node, after every deletion, sort and reversal.          *)
TailIsLast == list.head # NULL => list.tail = Last(Walk(list))

(* list_get_length, which bounds every index of the play list, counts the   *)
(* nodes a walk finds.                                                      *)
LenIsLength == list.len = Len(Walk(list))

(* Nothing leaks: every node not yet freed is on the list.                  *)
NoLeak == DOMAIN list.heap = ToSet(Walk(list))

(* All three at once: what the insertion at the tail, the index checks and  *)
(* the memory of the process rely on after any sequence of calls.           *)
WellFormed == TailIsLast /\ LenIsLength /\ NoLeak

(* On nodes the functions do what the interface says of the sequence.       *)
Contents == [i \in DOMAIN Walk(list) |-> Data_(list, Walk(list)[i])]
Abstract == INSTANCE LinkSeq WITH seq <- Contents
SeqSpec == Abstract!SeqSpec
=============================================================================
