--------------------------- MODULE LinkListProofs ---------------------------
(***************************************************************************)
(* For every finite set of addresses: as long as no list_insert_at_index   *)
(* goes behind the last node, which leaves tail where it was, a list is    *)
(* well formed after any sequence of calls and is the sequence the         *)
(* interface promises.                                                     *)
(***************************************************************************)
EXTENDS LinkList, FiniteSetTheorems, SequenceTheorems, WellFoundedInduction, TLAPS

-----------------------------------------------------------------------------
(* The invariant says which sequence of nodes a list is.                    *)

Cell == [next : Nodes \cup {NULL}, data : Data]
IsList(l) ==
    /\ l = [heap |-> l.heap, head |-> l.head, tail |-> l.tail, len |-> l.len]
    /\ DOMAIN l.heap \subseteq Nodes /\ l.heap \in [DOMAIN l.heap -> Cell]

Distinct(w) == \A i, j \in 1 .. Len(w) : w[i] = w[j] => i = j

\* The nodes of w, in this order, are the list; next of the last is anything.
Holds(l, w) ==
    /\ w \in Seq(Nodes) /\ Distinct(w)
    /\ \A i \in 1 .. Len(w) : w[i] \in DOMAIN l.heap
    /\ \A i \in 1 .. Len(w) - 1 : Next_(l, w[i]) = w[i + 1]
    /\ l.head = IF Len(w) = 0 THEN NULL ELSE w[1]
    /\ Len(w) > 0 => l.tail = w[Len(w)]
    /\ l.len = Len(w)
Ends(l, w) == Len(w) > 0 => Next_(l, w[Len(w)]) = NULL
Shows(l, w) == IsList(l) /\ Holds(l, w) /\ Ends(l, w)

\* No other node is allocated.
Whole(l, w) == \A m \in DOMAIN l.heap : \E i \in 1 .. Len(w) : w[i] = m

IInv == \E w \in Seq(Nodes) : Shows(list, w) /\ Whole(list, w)

-----------------------------------------------------------------------------
(* Numbers and sequences.                                                   *)

LEMMA LeastNat ==
    ASSUME NEW T \in SUBSET Nat, T # {}
    PROVE  \E n \in T : \A k \in T : n <= k
<1> DEFINE R == OpToRel(<, Nat)
<1>1. IsWellFoundedOn(R, Nat)
  BY NatLessThanWellFounded
<1>2. \A k \in T, n \in T : ~(<<k, n>> \in R) => n <= k
  BY DEF OpToRel
<1> HIDE DEF R
<1>3. PICK n \in T : \A k \in T : ~(<<k, n>> \in R)
  BY <1>1, WFMin
<1>4. \A k \in T : n <= k
  BY <1>2, <1>3
<1> QED
  BY <1>4

LEMMA Sizes == Cardinality(Nodes) \in Nat
  BY ConstantAssumption, FS_CardinalityType

LEMMA Counted ==
    ASSUME NEW n \in Nat
    PROVE  Cardinality(1 .. n) = n /\ Cardinality(0 .. n - 1) = n
<1>1. 1 \in Int /\ 0 \in Int /\ n \in Int /\ n - 1 \in Int
  OBVIOUS
<1>2. Cardinality(1 .. n) = IF 1 > n THEN 0 ELSE n - 1 + 1
  BY <1>1, FS_Interval
<1>3. Cardinality(0 .. n - 1) = IF 0 > n - 1 THEN 0 ELSE (n - 1) - 0 + 1
  BY <1>1, FS_Interval
<1> QED
  BY <1>2, <1>3

\* There is room for every list.
LEMMA Fits ==
    ASSUME NEW w \in Seq(Nodes), Distinct(w)
    PROVE  Len(w) <= Cardinality(Nodes)
<1>1. w \in [1 .. Len(w) -> Nodes] /\ Len(w) \in Nat
  OBVIOUS
<1>2. w \in Injection(1 .. Len(w), Nodes)
  BY <1>1 DEF Injection, IsInjective, Distinct
<1>3. Cardinality(1 .. Len(w)) <= Cardinality(Nodes)
  BY <1>2, FS_Injection, ConstantAssumption
<1> QED
  BY <1>1, <1>3, Counted

LEMMA Apart ==
    ASSUME NEW w \in Seq(Nodes), \A i, j \in 1 .. Len(w) : i < j => w[i] # w[j]
    PROVE  Distinct(w)
  BY DEF Distinct

LEMMA Appended ==
    ASSUME NEW S, NEW w \in Seq(S), NEW n \in S
    PROVE  /\ Append(w, n) \in Seq(S) /\ Len(Append(w, n)) = Len(w) + 1
           /\ \A i \in 1 .. Len(w) : Append(w, n)[i] = w[i]
           /\ Append(w, n)[Len(w) + 1] = n
  BY AppendProperties

LEMMA Prepended ==
    ASSUME NEW S, NEW w \in Seq(S), NEW n \in S
    PROVE  /\ <<n>> \o w \in Seq(S) /\ Len(<<n>> \o w) = Len(w) + 1
           /\ (<<n>> \o w)[1] = n
           /\ \A i \in 1 .. Len(w) : (<<n>> \o w)[i + 1] = w[i]
<1>1. <<n>> \in Seq(S) /\ Len(<<n>>) = 1 /\ <<n>>[1] = n /\ Len(w) \in Nat
  OBVIOUS
<1>2. /\ <<n>> \o w \in Seq(S) /\ Len(<<n>> \o w) = Len(<<n>>) + Len(w)
      /\ \A i \in 1 .. Len(<<n>>) + Len(w) :
            (<<n>> \o w)[i] = IF i <= Len(<<n>>) THEN <<n>>[i] ELSE w[i - Len(<<n>>)]
  BY <1>1, ConcatProperties
<1> QED
  BY <1>1, <1>2

LEMMA Removed ==
    ASSUME NEW S, NEW s \in Seq(S), NEW k \in 1 .. Len(s)
    PROVE  /\ RemoveAt(s, k) \in Seq(S) /\ Len(RemoveAt(s, k)) = Len(s) - 1
           /\ \A i \in 1 .. Len(s) - 1 :
                 RemoveAt(s, k)[i] = IF i < k THEN s[i] ELSE s[i + 1]
<1> DEFINE a == SubSeq(s, 1, k - 1)
           b == SubSeq(s, k + 1, Len(s))
<1>1. a \in Seq(S) /\ Len(a) = k - 1 /\ \A i \in 1 .. k - 1 : a[i] = s[i]
  OBVIOUS
<1>2. b \in Seq(S) /\ Len(b) = Len(s) - k /\ \A i \in 1 .. Len(s) - k : b[i] = s[k + i]
  OBVIOUS
<1>3. Len(s) \in Nat
  OBVIOUS
<1> HIDE DEF a, b
<1>4. /\ a \o b \in Seq(S) /\ Len(a \o b) = Len(a) + Len(b)
      /\ \A i \in 1 .. Len(a) + Len(b) :
            (a \o b)[i] = IF i <= Len(a) THEN a[i] ELSE b[i - Len(a)]
  BY <1>1, <1>2, ConcatProperties
<1>5. ASSUME NEW i \in 1 .. Len(s) - 1
      PROVE  (a \o b)[i] = IF i < k THEN s[i] ELSE s[i + 1]
  <2>1. CASE i < k
    BY <1>1, <1>2, <1>3, <1>4, <2>1
  <2>2. CASE i >= k
    <3>1. i - (k - 1) \in 1 .. Len(s) - k /\ k + (i - (k - 1)) = i + 1
      BY <1>3, <2>2
    <3>2. (a \o b)[i] = b[i - (k - 1)]
      BY <1>1, <1>2, <1>3, <1>4, <2>2
    <3> QED
      BY <1>2, <2>2, <3>1, <3>2
  <2>3. i < k \/ i >= k
    BY <1>3
  <2> QED
    BY <2>1, <2>2, <2>3
<1>6. RemoveAt(s, k) = a \o b
  BY DEF RemoveAt, a, b
<1>7. Len(a) + Len(b) = Len(s) - 1
  BY <1>1, <1>2, <1>3
<1> QED
  BY <1>4, <1>5, <1>6, <1>7

\* r is s with n put in at k.
Placed(r, S, s, k, n) ==
    /\ r \in Seq(S) /\ Len(r) = Len(s) + 1
    /\ \A i \in 1 .. Len(s) + 1 : r[i] = IF i < k THEN s[i] ELSE IF i = k THEN n ELSE s[i - 1]

LEMMA Inserted ==
    ASSUME NEW S, NEW s \in Seq(S), NEW k \in 1 .. Len(s) + 1, NEW n \in S
    PROVE  Placed(InsertAt(s, k, n), S, s, k, n)
<1> DEFINE a == SubSeq(s, 1, k - 1)
           b == SubSeq(s, k, Len(s))
           c == Append(a, n)
<1>1. a \in Seq(S) /\ Len(a) = k - 1 /\ \A i \in 1 .. k - 1 : a[i] = s[i]
  OBVIOUS
<1>2. b \in Seq(S) /\ Len(b) = Len(s) - k + 1 /\ \A i \in 1 .. Len(s) - k + 1 : b[i] = s[k - 1 + i]
  OBVIOUS
<1>3. Len(s) \in Nat
  OBVIOUS
<1>4. a \o <<n>> = c
  OBVIOUS
<1> HIDE DEF a, b
<1>5. c \in Seq(S) /\ Len(c) = k /\ c[k] = n /\ \A i \in 1 .. k - 1 : c[i] = s[i]
  BY <1>1, Appended
<1> HIDE DEF c
<1>6. /\ c \o b \in Seq(S) /\ Len(c \o b) = Len(c) + Len(b)
      /\ \A i \in 1 .. Len(c) + Len(b) :
            (c \o b)[i] = IF i <= Len(c) THEN c[i] ELSE b[i - Len(c)]
  BY <1>2, <1>5, ConcatProperties
<1>7. ASSUME NEW i \in 1 .. Len(s) + 1
      PROVE  (c \o b)[i] = IF i < k THEN s[i] ELSE IF i = k THEN n ELSE s[i - 1]
  <2>1. CASE i <= k
    BY <1>2, <1>3, <1>5, <1>6, <2>1
  <2>2. CASE i > k
    <3>1. i - k \in 1 .. Len(s) - k + 1 /\ k - 1 + (i - k) = i - 1
      BY <1>3, <2>2
    <3>2. (c \o b)[i] = b[i - k]
      BY <1>2, <1>3, <1>5, <1>6, <2>2
    <3> QED
      BY <1>2, <2>2, <3>1, <3>2
  <2>3. i <= k \/ i > k
    BY <1>3
  <2> QED
    BY <2>1, <2>2, <2>3
<1>8. InsertAt(s, k, n) = c \o b
  BY <1>4 DEF InsertAt, a, b
<1>9. c \o b \in Seq(S) /\ Len(c \o b) = Len(s) + 1
  BY <1>2, <1>3, <1>5, <1>6
<1> QED
  BY <1>7, <1>8, <1>9 DEF Placed

-----------------------------------------------------------------------------
(* Every loop finds the nodes of the list.                                  *)

LEMMA ChainIs ==
    ASSUME NEW l, NEW w, Shows(l, w)
    PROVE  /\ DOMAIN Chain(l) = 0 .. Cardinality(Nodes)
           /\ \A k \in 0 .. Cardinality(Nodes) :
                 Chain(l)[k] = IF k < Len(w) THEN w[k + 1] ELSE NULL
<1> DEFINE N == Cardinality(Nodes)
           D == 0 .. N
           at[k \in D] == IF k = 0 THEN l.head
                          ELSE IF at[k - 1] = NULL THEN NULL ELSE Next_(l, at[k - 1])
           f == [k \in D |-> IF k < Len(w) THEN w[k + 1] ELSE NULL]
<1>1. /\ w \in Seq(Nodes) /\ Len(w) \in Nat /\ N \in Nat
      /\ \A i \in 1 .. Len(w) : w[i] \in Nodes /\ w[i] # NULL
      /\ \A i \in 1 .. Len(w) - 1 : Next_(l, w[i]) = w[i + 1]
      /\ Len(w) > 0 => Next_(l, w[Len(w)]) = NULL
      /\ l.head = IF Len(w) = 0 THEN NULL ELSE w[1]
  BY Sizes, ConstantAssumption DEF Shows, Holds, Ends
<1>2. ASSUME NEW k \in D
      PROVE  f[k] = IF k = 0 THEN l.head
                    ELSE IF f[k - 1] = NULL THEN NULL ELSE Next_(l, f[k - 1])
  <2>1. CASE k = 0
    BY <1>1, <2>1
  <2>2. CASE k # 0
    <3>1. k - 1 \in D
      BY <1>1, <2>2
    <3>2. CASE k - 1 < Len(w)
      <4>1. k \in 1 .. Len(w)
        BY <1>1, <2>2, <3>2
      <4>2. f[k - 1] = w[k] /\ f[k - 1] # NULL
        BY <1>1, <3>1, <3>2, <4>1
      <4>3. CASE k < Len(w)
        <5>1. k \in 1 .. Len(w) - 1 /\ f[k] = w[k + 1]
          BY <1>1, <4>1, <4>3
        <5>2. Next_(l, w[k]) = w[k + 1]
          BY <1>1, <5>1
        <5> HIDE DEF f
        <5> QED
          BY <2>2, <4>2, <5>1, <5>2
      <4>4. CASE k = Len(w)
        <5>1. f[k] = NULL /\ Next_(l, w[k]) = NULL
          BY <1>1, <4>1, <4>4
        <5> HIDE DEF f
        <5> QED
          BY <2>2, <4>2, <5>1
      <4> QED
        BY <1>1, <4>1, <4>3, <4>4
    <3>3. CASE ~(k - 1 < Len(w))
      BY <1>1, <2>2, <3>1, <3>3
    <3> QED
      BY <3>2, <3>3
  <2> QED
    BY <2>1, <2>2
<1>3. f = [k \in D |-> IF k = 0 THEN l.head
                       ELSE IF f[k - 1] = NULL THEN NULL ELSE Next_(l, f[k - 1])]
  <2>1. f = [k \in D |-> f[k]]
    OBVIOUS
  <2> HIDE DEF f
  <2> QED
    BY <1>2, <2>1
<1>4. at = [k \in D |-> IF k = 0 THEN l.head
                        ELSE IF at[k - 1] = NULL THEN NULL ELSE Next_(l, at[k - 1])]
  <2>1. at = CHOOSE g : g = [k \in D |-> IF k = 0 THEN l.head
                                ELSE IF g[k - 1] = NULL THEN NULL ELSE Next_(l, g[k - 1])]
    BY DEF at
  <2> HIDE DEF at, f, D
  <2> QED
    BY <1>3, <2>1
<1>5. Chain(l) = at
  BY DEF Chain
<1> HIDE DEF at
<1>6. \A k \in D : at[k] = f[k]
  <2> DEFINE T == {k \in D : at[k] # f[k]}
  <2> SUFFICES ASSUME T # {} PROVE FALSE
    OBVIOUS
  <2>1. PICK k \in T : \A j \in T : k <= j
    <3>1. T \in SUBSET Nat
      BY <1>1
    <3> HIDE DEF T
    <3> QED
      BY <3>1, LeastNat
  <2>2. k \in D /\ at[k] # f[k]
    OBVIOUS
  <2>3. k # 0
    <3> HIDE DEF f, D
    <3> QED
      BY <1>2, <1>4, <2>2
  <2>4. k - 1 \in D /\ k - 1 \notin T
    BY <1>1, <2>1, <2>2, <2>3
  <2>5. at[k - 1] = f[k - 1]
    BY <2>4
  <2> HIDE DEF f, D
  <2> QED
    BY <1>2, <1>4, <2>2, <2>3, <2>5
<1>7. DOMAIN at = D
  <2> HIDE DEF D
  <2> QED
    BY <1>4
<1> QED
  BY <1>5, <1>6, <1>7

LEMMA WalkIs ==
    ASSUME NEW l, NEW w, Shows(l, w)
    PROVE  Walk(l) = w
<1> DEFINE N == Cardinality(Nodes)
           at == Chain(l)
<1>1. /\ w \in Seq(Nodes) /\ Len(w) \in Nat /\ N \in Nat /\ Len(w) <= N
      /\ \A i \in 1 .. Len(w) : w[i] # NULL
  BY Sizes, Fits, ConstantAssumption DEF Shows, Holds
<1>2. \A k \in 0 .. N : at[k] = IF k < Len(w) THEN w[k + 1] ELSE NULL
  BY ChainIs
<1>3. DOMAIN at = 0 .. N
  BY ChainIs
<1> HIDE DEF at
<1>4. {i \in DOMAIN at : at[i] # NULL} = 0 .. Len(w) - 1
  <2>1. ASSUME NEW i \in 0 .. N
        PROVE  at[i] # NULL <=> i \in 0 .. Len(w) - 1
    <3>1. at[i] = IF i < Len(w) THEN w[i + 1] ELSE NULL
      BY <1>2
    <3>2. i < Len(w) <=> i \in 0 .. Len(w) - 1
      BY <1>1
    <3>3. i < Len(w) => i + 1 \in 1 .. Len(w)
      BY <1>1
    <3> QED
      BY <1>1, <3>1, <3>2, <3>3
  <2>2. 0 .. Len(w) - 1 \subseteq 0 .. N
    BY <1>1
  <2> DEFINE D == 0 .. N
             E == 0 .. Len(w) - 1
  <2>3. DOMAIN at = D /\ E \subseteq D /\ \A i \in D : at[i] # NULL <=> i \in E
    BY <1>3, <2>1, <2>2
  <2> HIDE DEF D, E
  <2>4. {i \in DOMAIN at : at[i] # NULL} = E
    BY <2>3
  <2> QED
    BY <2>4 DEF E
<1>5. Cardinality(0 .. Len(w) - 1) = Len(w)
  BY <1>1, Counted
<1>6. Walk(l) = [k \in 1 .. Len(w) |-> at[k - 1]]
  BY <1>4, <1>5 DEF Walk, at
<1>7. \A k \in 1 .. Len(w) : at[k - 1] = w[k]
  BY <1>1, <1>2
<1>8. w = [k \in 1 .. Len(w) |-> w[k]]
  BY <1>1
<1> QED
  BY <1>6, <1>7, <1>8

-----------------------------------------------------------------------------
(* The pieces.  Each says which sequence the list has become and which of   *)
(* the nodes of the heap, which another list may share, it has written to.  *)

\* A pointer written in a heap.
Point(h, p, v) == [h EXCEPT ![p].next = v]

LEMMA Pointed ==
    ASSUME NEW h, DOMAIN h \subseteq Nodes, h \in [DOMAIN h -> Cell],
           NEW p \in DOMAIN h, NEW v \in Nodes \cup {NULL}
    PROVE  /\ DOMAIN Point(h, p, v) = DOMAIN h
           /\ Point(h, p, v) \in [DOMAIN h -> Cell]
           /\ \A x \in DOMAIN h : /\ Point(h, p, v)[x].data = h[x].data
                                  /\ x # p => Point(h, p, v)[x].next = h[x].next
           /\ Point(h, p, v)[p].next = v
<1>1. h[p] \in Cell
  OBVIOUS
<1>2. Point(h, p, v) = [h EXCEPT ![p] = [h[p] EXCEPT !.next = v]]
  BY DEF Point
<1> DEFINE c == [h[p] EXCEPT !.next = v]
<1>3. c \in Cell /\ c.next = v /\ c.data = h[p].data
  BY <1>1 DEF Cell
<1> HIDE DEF c
<1>4. Point(h, p, v) = [h EXCEPT ![p] = c]
  BY <1>2 DEF c
<1> QED
  BY <1>3, <1>4

\* The same cells, but for next of the nodes in P.
Touches(l, m, P) ==
    /\ DOMAIN m.heap = DOMAIN l.heap
    /\ \A x \in DOMAIN l.heap : /\ Data_(m, x) = Data_(l, x)
                                /\ x \notin P => Next_(m, x) = Next_(l, x)

LEMMA HoldsNodes ==
    ASSUME NEW l, NEW w, IsList(l), Holds(l, w)
    PROVE  /\ Len(w) \in Nat /\ w \in Seq(Nodes)
           /\ \A i \in 1 .. Len(w) : w[i] \in Nodes /\ w[i] \in DOMAIN l.heap /\ w[i] # NULL
           /\ \A i, j \in 1 .. Len(w) : w[i] = w[j] => i = j
           /\ NULL \notin Nodes
           /\ Len(w) = 0 <=> l.head = NULL
  BY ConstantAssumption DEF Holds, Distinct

LEMMA Made ==
    ASSUME NEW l, NEW w, Shows(l, w), NEW n \in Nodes, n \notin DOMAIN l.heap, NEW d \in Data
    PROVE  LET m == MakeNode(l, n, d)
           IN  /\ Shows(m, w) /\ DOMAIN m.heap = DOMAIN l.heap \cup {n}
               /\ Next_(m, n) = NULL /\ Data_(m, n) = d
               /\ \A x \in DOMAIN l.heap : Data_(m, x) = Data_(l, x)
               /\ \A i \in 1 .. Len(w) : w[i] # n
<1> DEFINE h == [x \in DOMAIN l.heap \cup {n} |->
                    IF x = n THEN [next |-> NULL, data |-> d] ELSE l.heap[x]]
           m == MakeNode(l, n, d)
<1>1. m = [heap |-> h, head |-> l.head, tail |-> l.tail, len |-> l.len]
  BY DEF MakeNode, Shows, IsList
<1>2. /\ DOMAIN h = DOMAIN l.heap \cup {n} /\ h[n] = [next |-> NULL, data |-> d]
      /\ \A x \in DOMAIN l.heap : h[x] = l.heap[x]
      /\ h \in [DOMAIN l.heap \cup {n} -> Cell] /\ DOMAIN h \subseteq Nodes
  <2>1. [next |-> NULL, data |-> d] \in Cell
    BY DEF Cell
  <2> QED
    BY <2>1 DEF Shows, IsList
<1> HIDE DEF h, m
<1>3. m.heap = h /\ m.head = l.head /\ m.tail = l.tail /\ m.len = l.len
      /\ m = [heap |-> m.heap, head |-> m.head, tail |-> m.tail, len |-> m.len]
  BY <1>1
<1>4. IsList(m)
  BY <1>2, <1>3 DEF IsList
<1>5. \A x \in DOMAIN l.heap : Next_(m, x) = Next_(l, x) /\ Data_(m, x) = Data_(l, x)
  BY <1>2, <1>3 DEF Next_, Data_
<1>6. Holds(m, w) /\ Ends(m, w)
  <2>1. IsList(l) /\ Holds(l, w) /\ Ends(l, w)
    BY DEF Shows
  <2>2. /\ Len(w) \in Nat /\ \A i \in 1 .. Len(w) : w[i] \in DOMAIN l.heap
    BY <2>1, HoldsNodes
  <2> QED
    BY <1>2, <1>3, <1>5, <2>1, <2>2 DEF Holds, Ends
<1>7. \A i \in 1 .. Len(w) : w[i] # n
  BY DEF Shows, Holds
<1>8. Next_(m, n) = NULL /\ Data_(m, n) = d
  BY <1>2, <1>3 DEF Next_, Data_
<1> QED
  BY <1>2, <1>3, <1>4, <1>5, <1>6, <1>7, <1>8 DEF Shows, m

\* insert_node: what the node points to is left alone.
LEMMA LinkedLast ==
    ASSUME NEW l, NEW w, IsList(l), Holds(l, w), NEW n \in DOMAIN l.heap,
           \A i \in 1 .. Len(w) : w[i] # n
    PROVE  LET m == LinkLast(l, n)
           IN  /\ IsList(m) /\ Holds(m, Append(w, n))
               /\ Touches(l, m, {x \in Nodes : Len(w) > 0 /\ x = w[Len(w)]})
<1> DEFINE m == LinkLast(l, n)
           h == IF Len(w) = 0 THEN l.heap ELSE Point(l.heap, w[Len(w)], n)
           u == Append(w, n)
<1>1. /\ Len(w) \in Nat /\ w \in Seq(Nodes) /\ n \in Nodes
      /\ \A i \in 1 .. Len(w) : w[i] \in Nodes /\ w[i] \in DOMAIN l.heap
      /\ \A i, j \in 1 .. Len(w) : w[i] = w[j] => i = j
      /\ Len(w) = 0 <=> l.head = NULL
  BY HoldsNodes DEF IsList
<1>2. m = [heap |-> h, head |-> IF Len(w) = 0 THEN n ELSE l.head, tail |-> n, len |-> l.len + 1]
  <2>1. Len(w) > 0 => l.tail = w[Len(w)]
    BY DEF Holds
  <2>2. l = [heap |-> l.heap, head |-> l.head, tail |-> l.tail, len |-> l.len]
    BY DEF IsList
  <2>3. CASE Len(w) = 0
    <3>1. m = [l EXCEPT !.head = n, !.tail = n, !.len = l.len + 1]
      BY <1>1, <2>3 DEF LinkLast
    <3> HIDE DEF m
    <3> QED
      BY <2>2, <2>3, <3>1
  <2>4. CASE Len(w) > 0
    <3>1. m = [l EXCEPT !.heap = Point(l.heap, l.tail, n), !.tail = n, !.len = l.len + 1]
      BY <1>1, <2>4 DEF LinkLast, Point
    <3>2. Point(l.heap, l.tail, n) = h
      BY <1>1, <2>1, <2>4
    <3> HIDE DEF m, h
    <3>3. m = [heap |-> h, head |-> l.head, tail |-> n, len |-> l.len + 1]
      BY <2>2, <3>1, <3>2
    <3> QED
      BY <1>1, <2>4, <3>3
  <2> QED
    BY <1>1, <2>3, <2>4
<1>3. /\ DOMAIN h = DOMAIN l.heap /\ h \in [DOMAIN l.heap -> Cell]
      /\ \A x \in DOMAIN l.heap : /\ h[x].data = l.heap[x].data
                                  /\ Len(w) = 0 \/ x # w[Len(w)] => h[x].next = l.heap[x].next
      /\ Len(w) > 0 => h[w[Len(w)]].next = n
  <2>1. CASE Len(w) = 0
    BY <2>1 DEF IsList
  <2>2. CASE Len(w) # 0
    <3>1. w[Len(w)] \in DOMAIN l.heap
      BY <1>1, <2>2
    <3> QED
      BY <1>1, <2>2, <3>1, Pointed DEF IsList
  <2> QED
    BY <2>1, <2>2
<1>4. /\ u \in Seq(Nodes) /\ Len(u) = Len(w) + 1 /\ u[Len(w) + 1] = n
      /\ \A i \in 1 .. Len(w) : u[i] = w[i]
  BY <1>1, Appended
<1> HIDE DEF m, h, u
<1>5. /\ m.heap = h /\ m.head = (IF Len(w) = 0 THEN n ELSE l.head) /\ m.tail = n
      /\ m.len = l.len + 1
      /\ m = [heap |-> m.heap, head |-> m.head, tail |-> m.tail, len |-> m.len]
  BY <1>2
<1>6. IsList(m)
  BY <1>3, <1>5 DEF IsList
<1>7. Touches(l, m, {x \in Nodes : Len(w) > 0 /\ x = w[Len(w)]})
  BY <1>1, <1>3, <1>5 DEF Touches, IsList, Next_, Data_
<1>8. Holds(m, u)
  <2>1. Distinct(u)
    BY <1>1, <1>4 DEF Distinct
  <2>2. \A i \in 1 .. Len(u) : u[i] \in DOMAIN m.heap
    BY <1>1, <1>3, <1>4, <1>5
  <2>3. ASSUME NEW i \in 1 .. Len(u) - 1
        PROVE  Next_(m, u[i]) = u[i + 1]
    <3>1. CASE i = Len(w)
      BY <1>1, <1>3, <1>4, <1>5, <3>1 DEF Next_
    <3>2. CASE i < Len(w)
      <4>1. i \in 1 .. Len(w) /\ i + 1 \in 1 .. Len(w) /\ i \in 1 .. Len(w) - 1
        BY <1>1, <1>4, <3>2
      <4>2. w[i] # w[Len(w)] /\ w[i] \in DOMAIN l.heap
        BY <1>1, <3>2, <4>1
      <4>3. h[w[i]].next = l.heap[w[i]].next
        BY <1>3, <4>2
      <4>4. l.heap[w[i]].next = w[i + 1]
        BY <4>1 DEF Holds, Next_
      <4> QED
        BY <1>4, <1>5, <4>1, <4>3, <4>4 DEF Next_
    <3> QED
      BY <1>1, <1>4, <3>1, <3>2
  <2>4. l.len = Len(w) /\ l.head = IF Len(w) = 0 THEN NULL ELSE w[1]
    BY DEF Holds
  <2>5. m.head = u[1] /\ m.tail = u[Len(u)] /\ m.len = Len(u) /\ Len(u) > 0
    BY <1>1, <1>4, <1>5, <2>4
  <2> QED
    BY <1>4, <2>1, <2>2, <2>3, <2>5 DEF Holds
<1> QED
  BY <1>6, <1>7, <1>8 DEF m, u

LEMMA LinkedFirst ==
    ASSUME NEW l, NEW w, Shows(l, w), NEW n \in DOMAIN l.heap, Next_(l, n) = NULL,
           \A i \in 1 .. Len(w) : w[i] # n
    PROVE  LET m == LinkFirst(l, n)
           IN  Shows(m, <<n>> \o w) /\ Touches(l, m, {n})
<1> DEFINE m == LinkFirst(l, n)
           h == IF Len(w) = 0 THEN l.heap ELSE Point(l.heap, n, l.head)
           u == <<n>> \o w
<1>0. IsList(l) /\ Holds(l, w) /\ Ends(l, w)
  BY DEF Shows
<1>1. /\ Len(w) \in Nat /\ w \in Seq(Nodes) /\ n \in Nodes
      /\ \A i \in 1 .. Len(w) : w[i] \in Nodes /\ w[i] \in DOMAIN l.heap
      /\ \A i, j \in 1 .. Len(w) : w[i] = w[j] => i = j
      /\ Len(w) = 0 <=> l.head = NULL
      /\ l.head = IF Len(w) = 0 THEN NULL ELSE w[1]
      /\ l.len = Len(w) /\ (Len(w) > 0 => l.tail = w[Len(w)])
      /\ Len(w) > 0 => l.head \in Nodes
  BY <1>0, HoldsNodes DEF IsList, Holds
<1>2. m = [heap |-> h, head |-> n, tail |-> IF Len(w) = 0 THEN n ELSE l.tail, len |-> l.len + 1]
  <2>1. l = [heap |-> l.heap, head |-> l.head, tail |-> l.tail, len |-> l.len]
    BY <1>0 DEF IsList
  <2>2. CASE Len(w) = 0
    <3>1. m = [l EXCEPT !.head = n, !.tail = n, !.len = l.len + 1]
      BY <1>1, <2>2 DEF LinkFirst
    <3> HIDE DEF m
    <3> QED
      BY <2>1, <2>2, <3>1
  <2>3. CASE Len(w) # 0
    <3>1. m = [l EXCEPT !.heap = Point(l.heap, n, l.head), !.head = n, !.len = l.len + 1]
      BY <1>1, <2>3 DEF LinkFirst, Point
    <3> HIDE DEF m
    <3> QED
      BY <2>1, <2>3, <3>1
  <2> QED
    BY <2>2, <2>3
<1>3. /\ DOMAIN h = DOMAIN l.heap /\ h \in [DOMAIN l.heap -> Cell]
      /\ \A x \in DOMAIN l.heap : /\ h[x].data = l.heap[x].data
                                  /\ x # n => h[x].next = l.heap[x].next
      /\ h[n].next = l.head
  <2>1. CASE Len(w) = 0
    BY <1>0, <1>1, <2>1 DEF IsList, Next_
  <2>2. CASE Len(w) # 0
    BY <1>0, <1>1, <2>2, Pointed DEF IsList
  <2> QED
    BY <2>1, <2>2
<1>4. /\ u \in Seq(Nodes) /\ Len(u) = Len(w) + 1 /\ u[1] = n
      /\ \A i \in 1 .. Len(w) : u[i + 1] = w[i]
  BY <1>1, Prepended
<1> HIDE DEF m, h, u
<1>5. /\ m.heap = h /\ m.head = n /\ m.tail = (IF Len(w) = 0 THEN n ELSE l.tail)
      /\ m.len = l.len + 1
      /\ m = [heap |-> m.heap, head |-> m.head, tail |-> m.tail, len |-> m.len]
  BY <1>2
<1>6. IsList(m)
  BY <1>0, <1>3, <1>5 DEF IsList
<1>7. Touches(l, m, {n})
  BY <1>3, <1>5 DEF Touches, Next_, Data_
<1>8. \A i \in 1 .. Len(u) : i = 1 \/ (i - 1 \in 1 .. Len(w) /\ u[i] = w[i - 1])
  BY <1>1, <1>4
<1>9. Distinct(u)
  <2>1. ASSUME NEW i \in 1 .. Len(u), NEW j \in 1 .. Len(u), i < j
        PROVE  u[i] # u[j]
    <3>1. j - 1 \in 1 .. Len(w) /\ u[j] = w[j - 1]
      BY <1>1, <1>4, <1>8, <2>1
    <3>2. i = 1 \/ (i - 1 \in 1 .. Len(w) /\ u[i] = w[i - 1] /\ i - 1 # j - 1)
      BY <1>1, <1>4, <1>8, <2>1
    <3> QED
      BY <1>1, <1>4, <3>1, <3>2
  <2> QED
    BY <1>4, <2>1, Apart
<1>10. \A i \in 1 .. Len(u) : u[i] \in DOMAIN m.heap
  BY <1>1, <1>3, <1>4, <1>5, <1>8
<1>11. ASSUME NEW i \in 1 .. Len(u)
       PROVE  Next_(m, u[i]) = IF i = Len(u) THEN NULL ELSE u[i + 1]
  <2>1. CASE i = 1
    <3>1. Next_(m, u[1]) = l.head
      BY <1>3, <1>4, <1>5 DEF Next_
    <3>2. Len(w) > 0 => u[2] = w[1]
      BY <1>1, <1>4
    <3> QED
      BY <1>1, <1>4, <2>1, <3>1, <3>2
  <2>2. CASE i # 1
    <3> DEFINE j == i - 1
    <3>1. j \in 1 .. Len(w) /\ u[i] = w[j] /\ w[j] # n /\ w[j] \in DOMAIN l.heap
      BY <1>1, <1>8, <2>2
    <3>2. Next_(m, w[j]) = Next_(l, w[j])
      BY <1>3, <1>5, <3>1 DEF Next_
    <3>3. CASE j = Len(w)
      BY <1>0, <1>1, <1>4, <3>1, <3>2, <3>3 DEF Ends
    <3>4. CASE j < Len(w)
      <4>1. j \in 1 .. Len(w) - 1 /\ j + 1 \in 1 .. Len(w) /\ i = j + 1 /\ i + 1 = (j + 1) + 1 /\ i # Len(u)
        BY <1>1, <1>4, <3>1, <3>4
      <4>2. Next_(l, w[j]) = w[j + 1] /\ u[i + 1] = w[j + 1]
        BY <1>0, <1>4, <4>1 DEF Holds
      <4> QED
        BY <3>1, <3>2, <4>1, <4>2
    <3> QED
      BY <1>1, <3>1, <3>3, <3>4
  <2> QED
    BY <2>1, <2>2
<1>12. m.head = u[1] /\ m.tail = u[Len(u)] /\ m.len = Len(u) /\ Len(u) > 0 /\ Len(u) \in Nat
  BY <1>1, <1>4, <1>5
<1>13. Holds(m, u) /\ Ends(m, u)
  BY <1>4, <1>9, <1>10, <1>11, <1>12 DEF Holds, Ends
<1> QED
  BY <1>6, <1>7, <1>13 DEF m, u, Shows

\* list_insert_at_index between two nodes.
LEMMA LinkedAfter ==
    ASSUME NEW l, NEW w, Shows(l, w), NEW n \in DOMAIN l.heap,
           \A i \in 1 .. Len(w) : w[i] # n, NEW k \in 1 .. Len(w) - 1
    PROVE  LET m == LinkAfter(l, w[k], n)
           IN  Shows(m, InsertAt(w, k + 1, n)) /\ Touches(l, m, {n, w[k]})
<1> DEFINE p == w[k]
           m == LinkAfter(l, p, n)
           g == Point(l.heap, n, w[k + 1])
           h == Point(g, p, n)
           u == InsertAt(w, k + 1, n)
<1>0. IsList(l) /\ Holds(l, w) /\ Ends(l, w)
  BY DEF Shows
<1>1. /\ Len(w) \in Nat /\ w \in Seq(Nodes) /\ n \in Nodes
      /\ \A i \in 1 .. Len(w) : w[i] \in Nodes /\ w[i] \in DOMAIN l.heap
      /\ \A i, j \in 1 .. Len(w) : w[i] = w[j] => i = j
      /\ l.head = w[1] /\ Len(w) > 1
      /\ l.len = Len(w) /\ l.tail = w[Len(w)]
      /\ \A i \in 1 .. Len(w) - 1 : Next_(l, w[i]) = w[i + 1]
      /\ Next_(l, w[Len(w)]) = NULL
      /\ k \in 1 .. Len(w) /\ k + 1 \in 1 .. Len(w) /\ k + 1 \in 1 .. Len(w) + 1 /\ k \in Nat
  <2>1. /\ Len(w) \in Nat /\ w \in Seq(Nodes) /\ n \in Nodes
        /\ \A i \in 1 .. Len(w) : w[i] \in Nodes /\ w[i] \in DOMAIN l.heap
        /\ \A i, j \in 1 .. Len(w) : w[i] = w[j] => i = j
    BY <1>0, HoldsNodes DEF IsList
  <2>2. Len(w) > 1 /\ k \in 1 .. Len(w) /\ k + 1 \in 1 .. Len(w) /\ k + 1 \in 1 .. Len(w) + 1 /\ k \in Nat
    BY <2>1
  <2>3. l.head = (IF Len(w) = 0 THEN NULL ELSE w[1]) /\ (Len(w) > 0 => l.tail = w[Len(w)])
        /\ l.len = Len(w) /\ \A i \in 1 .. Len(w) - 1 : Next_(l, w[i]) = w[i + 1]
    BY <1>0 DEF Holds
  <2>4. Len(w) > 0 => Next_(l, w[Len(w)]) = NULL
    BY <1>0 DEF Ends
  <2>5. Len(w) > 0 /\ Len(w) # 0
    BY <2>1, <2>2
  <2> QED
    BY <2>1, <2>2, <2>3, <2>4, <2>5
<1>2. /\ DOMAIN h = DOMAIN l.heap /\ h \in [DOMAIN l.heap -> Cell]
      /\ \A x \in DOMAIN l.heap : /\ h[x].data = l.heap[x].data
                                  /\ x # n /\ x # p => h[x].next = l.heap[x].next
      /\ h[n].next = w[k + 1] /\ h[p].next = n
  <2>1. /\ DOMAIN g = DOMAIN l.heap /\ g \in [DOMAIN l.heap -> Cell]
        /\ \A x \in DOMAIN l.heap : /\ g[x].data = l.heap[x].data
                                    /\ x # n => g[x].next = l.heap[x].next
        /\ g[n].next = w[k + 1]
    <3>1. w[k + 1] \in Nodes \cup {NULL}
      BY <1>1
    <3> QED
      BY <1>0, <3>1, Pointed DEF IsList
  <2>2. p \in DOMAIN g /\ p # n /\ DOMAIN g \subseteq Nodes
    BY <1>0, <1>1, <2>1 DEF IsList
  <2> HIDE DEF g, p
  <2>3. /\ DOMAIN h = DOMAIN g /\ h \in [DOMAIN g -> Cell]
        /\ \A x \in DOMAIN g : /\ h[x].data = g[x].data
                               /\ x # p => h[x].next = g[x].next
        /\ h[p].next = n
    <3>1. DOMAIN g \subseteq Nodes /\ g \in [DOMAIN g -> Cell] /\ p \in DOMAIN g /\ n \in Nodes \cup {NULL}
      BY <1>1, <2>1, <2>2
    <3> QED
      BY <3>1, Pointed
  <2> QED
    BY <2>1, <2>2, <2>3
<1>3. m = [heap |-> h, head |-> l.head, tail |-> l.tail, len |-> l.len + 1]
  <2>1. l = [heap |-> l.heap, head |-> l.head, tail |-> l.tail, len |-> l.len]
    BY <1>0 DEF IsList
  <2>2. Next_(l, p) = w[k + 1]
    BY <1>1
  <2>3. m = [l EXCEPT !.heap = h, !.len = l.len + 1]
    BY <2>1, <2>2 DEF LinkAfter, Point
  <2> HIDE DEF m, h
  <2> QED
    BY <2>1, <2>3
<1>4. /\ u \in Seq(Nodes) /\ Len(u) = Len(w) + 1
      /\ \A i \in 1 .. Len(w) + 1 :
            u[i] = IF i < k + 1 THEN w[i] ELSE IF i = k + 1 THEN n ELSE w[i - 1]
  <2>1. Placed(InsertAt(w, k + 1, n), Nodes, w, k + 1, n)
    <3>1. w \in Seq(Nodes) /\ k + 1 \in 1 .. Len(w) + 1 /\ n \in Nodes
      BY <1>1
    <3> QED
      BY <3>1, Inserted
  <2> QED
    BY <2>1 DEF Placed
<1>p. p = w[k] /\ p # n
  BY <1>1
<1> HIDE DEF m, h, u, p
<1>5. /\ m.heap = h /\ m.head = l.head /\ m.tail = l.tail /\ m.len = l.len + 1
      /\ m = [heap |-> m.heap, head |-> m.head, tail |-> m.tail, len |-> m.len]
  BY <1>3
<1>6. IsList(m)
  BY <1>0, <1>2, <1>5 DEF IsList
<1>7. Touches(l, m, {n, p})
  BY <1>2, <1>5 DEF Touches, Next_, Data_
<1>8. /\ \A i \in 1 .. k : u[i] = w[i]
      /\ u[k + 1] = n
      /\ \A i \in k + 2 .. Len(u) : u[i] = w[i - 1] /\ i - 1 \in 1 .. Len(w)
  BY <1>1, <1>4
<1>9. Distinct(u)
  <2>1. ASSUME NEW i \in 1 .. Len(u), NEW j \in 1 .. Len(u), i < j
        PROVE  u[i] # u[j]
    <3>1. i \in 1 .. k \/ i = k + 1 \/ i \in k + 2 .. Len(u)
      BY <1>1, <1>4
    <3>2. j \in 1 .. k \/ j = k + 1 \/ j \in k + 2 .. Len(u)
      BY <1>1, <1>4
    <3>3. \A x \in 1 .. k : x \in 1 .. Len(w)
      BY <1>1
    <3>4. k \in Nat /\ Len(u) \in Nat
      BY <1>1, <1>4
    <3>5. ASSUME i \in 1 .. k
          PROVE  u[i] # u[j]
      <4>1. u[i] = w[i] /\ i \in 1 .. Len(w) /\ u[i] # n
        BY <1>1, <1>8, <3>3, <3>5
      <4>2. CASE j \in 1 .. k
        BY <1>1, <1>8, <2>1, <3>3, <4>1, <4>2
      <4>3. CASE j = k + 1
        BY <1>8, <4>1, <4>3
      <4>4. CASE j \in k + 2 .. Len(u)
        <5>1. j - 1 \in 1 .. Len(w) /\ u[j] = w[j - 1] /\ i # j - 1
          BY <1>8, <3>4, <3>5, <4>4
        <5> QED
          BY <1>1, <4>1, <5>1
      <4> QED
        BY <3>2, <4>2, <4>3, <4>4
    <3>6. ASSUME i \notin 1 .. k
          PROVE  u[i] # u[j]
      <4>1. j \in k + 2 .. Len(u)
        BY <2>1, <3>1, <3>2, <3>4, <3>6
      <4>2. j - 1 \in 1 .. Len(w) /\ u[j] = w[j - 1] /\ u[j] # n
        BY <1>1, <1>8, <4>1
      <4>3. CASE i = k + 1
        BY <1>8, <4>2, <4>3
      <4>4. CASE i \in k + 2 .. Len(u)
        <5>1. i - 1 \in 1 .. Len(w) /\ u[i] = w[i - 1] /\ i - 1 # j - 1
          BY <1>8, <2>1, <3>4, <4>1, <4>4
        <5> QED
          BY <1>1, <4>2, <5>1
      <4> QED
        BY <3>1, <3>6, <4>3, <4>4
    <3> QED
      BY <3>5, <3>6
  <2> QED
    BY <1>4, <2>1, Apart
<1>10. \A i \in 1 .. Len(u) : u[i] \in DOMAIN m.heap
  <2>1. \A i \in 1 .. Len(u) : i \in 1 .. k \/ i = k + 1 \/ i \in k + 2 .. Len(u)
    BY <1>1, <1>4
  <2>2. \A i \in 1 .. k : i \in 1 .. Len(w)
    BY <1>1
  <2> QED
    BY <1>1, <1>2, <1>5, <1>8, <2>1, <2>2
<1>11. ASSUME NEW i \in 1 .. Len(u)
       PROVE  Next_(m, u[i]) = IF i = Len(u) THEN NULL ELSE u[i + 1]
  <2>1. CASE i = k
    <3>1. u[i] = p /\ u[i + 1] = n /\ i # Len(u)
      BY <1>1, <1>4, <1>8, <1>p, <2>1
    <3> QED
      BY <1>2, <1>5, <3>1 DEF Next_
  <2>2. CASE i = k + 1
    <3>1. u[i] = n /\ i # Len(u) /\ i + 1 \in k + 2 .. Len(u) /\ (i + 1) - 1 = k + 1
      BY <1>1, <1>4, <1>8, <2>2
    <3>2. u[i + 1] = w[k + 1]
      BY <1>8, <3>1
    <3> QED
      BY <1>2, <1>5, <3>1, <3>2 DEF Next_
  <2>3. CASE i < k
    <3>1. i \in 1 .. k /\ i + 1 \in 1 .. k /\ i # Len(u) /\ i \in 1 .. Len(w) - 1 /\ i \in 1 .. Len(w)
      BY <1>1, <1>4, <2>3
    <3>2. w[i] # p /\ w[i] # n /\ w[i] \in DOMAIN l.heap
      BY <1>1, <1>p, <2>3, <3>1
    <3>3. Next_(m, w[i]) = Next_(l, w[i])
      BY <1>2, <1>5, <3>2 DEF Next_
    <3>4. u[i] = w[i] /\ u[i + 1] = w[i + 1] /\ Next_(l, w[i]) = w[i + 1]
      BY <1>1, <1>8, <3>1
    <3> QED
      BY <3>1, <3>3, <3>4
  <2>4. CASE i > k + 1
    <3> DEFINE j == i - 1
    <3>1. i \in k + 2 .. Len(u) /\ j \in 1 .. Len(w) /\ j # k
      BY <1>1, <1>4, <2>4
    <3>2. u[i] = w[j] /\ w[j] # p /\ w[j] # n /\ w[j] \in DOMAIN l.heap
      BY <1>1, <1>8, <1>p, <3>1
    <3>3. Next_(m, w[j]) = Next_(l, w[j])
      BY <1>2, <1>5, <3>2 DEF Next_
    <3>4. CASE j = Len(w)
      BY <1>1, <1>4, <3>1, <3>2, <3>3, <3>4
    <3>5. CASE j < Len(w)
      <4>1. j \in 1 .. Len(w) - 1 /\ i + 1 \in k + 2 .. Len(u) /\ (i + 1) - 1 = j + 1 /\ i # Len(u)
        <5>1. Len(w) \in Nat /\ k \in Nat /\ Len(u) = Len(w) + 1 /\ i = j + 1 /\ j \in Int
          BY <1>1, <1>4, <3>1
        <5> HIDE DEF j
        <5> QED
          BY <2>4, <3>1, <3>5, <5>1
      <4>2. u[i + 1] = w[j + 1]
        BY <1>8, <4>1
      <4>3. Next_(l, w[j]) = w[j + 1]
        BY <1>1, <4>1
      <4> QED
        BY <3>2, <3>3, <4>1, <4>2, <4>3
    <3> QED
      BY <1>1, <3>1, <3>4, <3>5
  <2>5. i = k \/ i = k + 1 \/ i < k \/ i > k + 1
    BY <1>1, <1>4
  <2> QED
    BY <2>1, <2>2, <2>3, <2>4, <2>5
<1>12. m.head = u[1] /\ m.tail = u[Len(u)] /\ m.len = Len(u) /\ Len(u) > 0 /\ Len(u) \in Nat
  <2>1. 1 \in 1 .. k /\ Len(u) \in k + 2 .. Len(u) /\ Len(u) - 1 = Len(w)
    BY <1>1, <1>4
  <2>2. u[1] = w[1] /\ u[Len(u)] = w[Len(w)]
    BY <1>8, <2>1
  <2> QED
    BY <1>1, <1>4, <1>5, <2>2
<1>13. Holds(m, u) /\ Ends(m, u)
  BY <1>4, <1>9, <1>10, <1>11, <1>12 DEF Holds, Ends
<1> QED
  BY <1>6, <1>7, <1>13 DEF m, u, p, Shows

\* A node of a list and what it points to.
LEMMA Links ==
    ASSUME NEW l, NEW w, Shows(l, w)
    PROVE  \A i \in 1 .. Len(w) :
              /\ Next_(l, w[i]) = (IF i = Len(w) THEN NULL ELSE w[i + 1])
              /\ Next_(l, w[i]) \in Nodes \cup {NULL}
<1>1. IsList(l) /\ Holds(l, w) /\ Ends(l, w)
  BY DEF Shows
<1>2. Len(w) \in Nat /\ \A i \in 1 .. Len(w) : w[i] \in Nodes
  BY <1>1, HoldsNodes
<1> SUFFICES ASSUME NEW i \in 1 .. Len(w)
             PROVE  /\ Next_(l, w[i]) = (IF i = Len(w) THEN NULL ELSE w[i + 1])
                    /\ Next_(l, w[i]) \in Nodes \cup {NULL}
  OBVIOUS
<1>3. CASE i = Len(w)
  BY <1>1, <1>2, <1>3 DEF Ends
<1>4. CASE i # Len(w)
  <2>1. i \in 1 .. Len(w) - 1 /\ i + 1 \in 1 .. Len(w)
    BY <1>2, <1>4
  <2> QED
    BY <1>1, <1>2, <1>4, <2>1 DEF Holds
<1> QED
  BY <1>3, <1>4

\* delete_node looks for the node that points to the one it removes.
LEMMA BeforeIs ==
    ASSUME NEW l, NEW w, Shows(l, w), NEW k \in 2 .. Len(w)
    PROVE  Before(l, w[k]) = w[k - 1]
<1>1. /\ Len(w) \in Nat /\ w \in Seq(Nodes) /\ NULL \notin Nodes
      /\ \A i \in 1 .. Len(w) : w[i] \in Nodes
      /\ \A i, j \in 1 .. Len(w) : w[i] = w[j] => i = j
  BY HoldsNodes DEF Shows
<1>2. ToSet(Walk(l)) = {w[i] : i \in 1 .. Len(w)}
  <2>1. DOMAIN w = 1 .. Len(w)
    BY <1>1
  <2> QED
    BY <2>1, WalkIs DEF ToSet
<1>3. k \in 1 .. Len(w) /\ k - 1 \in 1 .. Len(w) /\ k - 1 # Len(w) /\ (k - 1) + 1 = k
  BY <1>1
<1>4. Next_(l, w[k - 1]) = w[k]
  BY <1>3, Links
<1>5. ASSUME NEW i \in 1 .. Len(w), Next_(l, w[i]) = w[k]
      PROVE  w[i] = w[k - 1]
  <2>1. Next_(l, w[i]) = (IF i = Len(w) THEN NULL ELSE w[i + 1])
    BY Links
  <2>2. i # Len(w) /\ w[i + 1] = w[k]
    <3>1. w[k] # NULL
      BY <1>1, <1>3
    <3>2. i # Len(w)
      BY <1>5, <2>1, <3>1
    <3> QED
      BY <1>5, <2>1, <3>2
  <2>3. i + 1 \in 1 .. Len(w)
    BY <1>1, <2>2
  <2>4. i = k - 1
    BY <1>1, <1>3, <2>2, <2>3
  <2> QED
    BY <2>4
<1>6. \A p \in ToSet(Walk(l)) : Next_(l, p) = w[k] <=> p = w[k - 1]
  BY <1>2, <1>4, <1>5
<1>7. w[k - 1] \in ToSet(Walk(l))
  BY <1>2, <1>3
<1> QED
  BY <1>6, <1>7 DEF Before

LEMMA Unlinked ==
    ASSUME NEW l, NEW w, Shows(l, w), NEW k \in 1 .. Len(w)
    PROVE  LET m == Unlink(l, w[k])
           IN  /\ Shows(m, RemoveAt(w, k))
               /\ Touches(l, m, {x \in Nodes : k > 1 /\ x = w[k - 1]})
<1> DEFINE m == Unlink(l, w[k])
           u == RemoveAt(w, k)
           z == IF k = Len(w) THEN NULL ELSE w[k + 1]
           h == IF k = 1 THEN l.heap ELSE Point(l.heap, w[k - 1], z)
           N == Len(w)
<1>0. IsList(l) /\ Holds(l, w) /\ Ends(l, w)
  BY DEF Shows
<1>1. /\ Len(w) \in Nat /\ w \in Seq(Nodes) /\ k \in Nat /\ NULL \notin Nodes
      /\ \A i \in 1 .. Len(w) : w[i] \in Nodes /\ w[i] \in DOMAIN l.heap
      /\ \A i, j \in 1 .. Len(w) : w[i] = w[j] => i = j
  BY <1>0, HoldsNodes
<1>2. /\ l.head = w[1] /\ l.len = Len(w) /\ l.tail = w[Len(w)]
  <2>1. Len(w) > 0 /\ Len(w) # 0
    BY <1>1
  <2> QED
    BY <1>0, <2>1 DEF Holds
<1>3. Next_(l, w[k]) = z /\ z \in Nodes \cup {NULL}
  BY Links
<1>4. k > 1 => k - 1 \in 1 .. Len(w) /\ w[k - 1] \in DOMAIN l.heap
  BY <1>1
<1>5. /\ DOMAIN h = DOMAIN l.heap /\ h \in [DOMAIN l.heap -> Cell]
      /\ \A x \in DOMAIN l.heap : /\ h[x].data = l.heap[x].data
                                  /\ k = 1 \/ x # w[k - 1] => h[x].next = l.heap[x].next
      /\ k > 1 => h[w[k - 1]].next = z
  <2>1. CASE k = 1
    BY <1>0, <2>1 DEF IsList
  <2>2. CASE k > 1
    <3> HIDE DEF z
    <3> QED
      BY <1>0, <1>3, <1>4, <2>2, Pointed DEF IsList
  <2> QED
    BY <1>1, <2>1, <2>2
<1>6. m = [heap |-> h, head |-> IF k = 1 THEN z ELSE l.head,
           tail |-> IF k > 1 /\ k = N THEN w[k - 1] ELSE l.tail, len |-> l.len - 1]
  <2>1. l = [heap |-> l.heap, head |-> l.head, tail |-> l.tail, len |-> l.len]
    BY <1>0 DEF IsList
  <2> HIDE DEF z
  <2>2. CASE k = 1
    <3>1. m = [l EXCEPT !.head = z, !.len = l.len - 1]
      BY <1>2, <1>3, <2>2 DEF Unlink
    <3>2. h = l.heap
      BY <2>2
    <3> HIDE DEF m, h
    <3>3. m = [heap |-> h, head |-> z, tail |-> l.tail, len |-> l.len - 1]
      BY <2>1, <3>1, <3>2
    <3> QED
      BY <2>2, <3>3
  <2>3. CASE k > 1
    <3>1. w[k] # l.head
      BY <1>1, <1>2, <2>3
    <3>2. Before(l, w[k]) = w[k - 1]
      BY <1>1, <2>3, BeforeIs
    <3>3. m = [l EXCEPT !.heap = Point(l.heap, w[k - 1], z),
                        !.tail = IF w[k] = l.tail THEN w[k - 1] ELSE l.tail,
                        !.len = l.len - 1]
      BY <1>3, <3>1, <3>2 DEF Unlink, Point
    <3>4. w[k] = l.tail <=> k = N
      BY <1>1, <1>2
    <3>5. h = Point(l.heap, w[k - 1], z) /\ k # 1
      BY <2>3
    <3> HIDE DEF m, h
    <3>6. m = [heap |-> h, head |-> l.head,
               tail |-> IF w[k] = l.tail THEN w[k - 1] ELSE l.tail, len |-> l.len - 1]
      BY <2>1, <3>3, <3>5
    <3> QED
      BY <2>3, <3>4, <3>5, <3>6
  <2> QED
    BY <1>1, <2>2, <2>3
<1>7. /\ u \in Seq(Nodes) /\ Len(u) = N - 1
      /\ \A i \in 1 .. N - 1 : u[i] = IF i < k THEN w[i] ELSE w[i + 1]
  BY <1>1, Removed
<1>z. z = IF k = N THEN NULL ELSE w[k + 1]
  OBVIOUS
<1> HIDE DEF m, h, u, z, N
<1>8. /\ m.heap = h /\ m.head = (IF k = 1 THEN z ELSE l.head)
      /\ m.tail = (IF k > 1 /\ k = N THEN w[k - 1] ELSE l.tail) /\ m.len = l.len - 1
      /\ m = [heap |-> m.heap, head |-> m.head, tail |-> m.tail, len |-> m.len]
  BY <1>6
<1>9. IsList(m)
  BY <1>0, <1>5, <1>8 DEF IsList
<1>10. Touches(l, m, {x \in Nodes : k > 1 /\ x = w[k - 1]})
  <2>1. ASSUME NEW x \in DOMAIN l.heap, x \notin {y \in Nodes : k > 1 /\ y = w[k - 1]}
        PROVE  k = 1 \/ x # w[k - 1]
    BY <1>0, <1>1, <2>1 DEF IsList
  <2> QED
    BY <1>5, <1>8, <2>1 DEF Touches, Next_, Data_
<1>11. N \in Nat /\ k \in 1 .. N /\ N = Len(w) /\ Len(u) \in Nat
  BY <1>1, <1>7 DEF N
<1>12. \A i \in 1 .. N - 1 : /\ i < k => i \in 1 .. N /\ u[i] = w[i]
                             /\ i >= k => i + 1 \in 1 .. N /\ u[i] = w[i + 1]
  BY <1>7, <1>11
<1>13. Distinct(u)
  <2>1. ASSUME NEW i \in 1 .. Len(u), NEW j \in 1 .. Len(u), i < j
        PROVE  u[i] # u[j]
    <3> DEFINE a == IF i < k THEN i ELSE i + 1
               b == IF j < k THEN j ELSE j + 1
    <3>1. a \in 1 .. N /\ b \in 1 .. N /\ a # b
      BY <1>7, <1>11, <2>1
    <3>2. u[i] = w[a] /\ u[j] = w[b]
      BY <1>7
    <3> HIDE DEF a, b
    <3> QED
      BY <1>1, <1>11, <3>1, <3>2
  <2> QED
    BY <1>7, <2>1, Apart
<1>14. \A i \in 1 .. Len(u) : u[i] \in DOMAIN m.heap
  BY <1>1, <1>5, <1>7, <1>8, <1>11, <1>12
<1>15. ASSUME NEW i \in 1 .. Len(u)
       PROVE  Next_(m, u[i]) = IF i = Len(u) THEN NULL ELSE u[i + 1]
  <2>1. CASE i < k
    <3>1. i \in 1 .. N /\ u[i] = w[i] /\ w[i] \in DOMAIN l.heap /\ i # N
      BY <1>1, <1>7, <1>11, <1>12, <2>1
    <3>2. CASE i = k - 1
      <4>1. k > 1 /\ w[i] = w[k - 1]
        BY <1>11, <3>2
      <4>2. Next_(m, u[i]) = z
        BY <1>5, <1>8, <3>1, <4>1 DEF Next_
      <4>3. CASE k = N
        BY <1>7, <1>11, <1>z, <3>2, <4>2, <4>3
      <4>4. CASE k # N
        <5>1. i + 1 \in 1 .. N - 1 /\ i + 1 >= k /\ i # Len(u) /\ (i + 1) + 1 = k + 1
          BY <1>7, <1>11, <3>2, <4>4
        <5>2. u[i + 1] = w[k + 1]
          BY <1>12, <5>1
        <5> QED
          BY <1>z, <4>2, <4>4, <5>1, <5>2
      <4> QED
        BY <4>3, <4>4
    <3>3. CASE i # k - 1
      <4>1. i + 1 \in 1 .. N - 1 /\ i + 1 < k /\ i # Len(u) /\ (k > 1 => k - 1 \in 1 .. N)
        BY <1>7, <1>11, <2>1, <3>3
      <4>2. w[i] # w[k - 1]
        BY <1>1, <1>11, <2>1, <3>1, <3>3, <4>1
      <4>3. Next_(m, u[i]) = Next_(l, w[i])
        BY <1>5, <1>8, <3>1, <4>2 DEF Next_
      <4>4. Next_(l, w[i]) = w[i + 1] /\ u[i + 1] = w[i + 1]
        BY <1>11, <1>12, <3>1, <4>1, Links
      <4> QED
        BY <4>1, <4>3, <4>4
    <3> QED
      BY <3>2, <3>3
  <2>2. CASE i >= k
    <3>1. i + 1 \in 1 .. N /\ u[i] = w[i + 1] /\ w[i + 1] \in DOMAIN l.heap /\ i + 1 # k - 1
          /\ (k > 1 => k - 1 \in 1 .. N)
      BY <1>1, <1>7, <1>11, <1>12, <2>2
    <3>2. k = 1 \/ w[i + 1] # w[k - 1]
      BY <1>1, <1>11, <3>1
    <3>3. Next_(m, u[i]) = Next_(l, w[i + 1])
      BY <1>5, <1>8, <3>1, <3>2 DEF Next_
    <3>4. Next_(l, w[i + 1]) = (IF i + 1 = N THEN NULL ELSE w[(i + 1) + 1])
      BY <1>11, <3>1, Links
    <3>5. CASE i + 1 = N
      BY <1>7, <1>11, <3>3, <3>4, <3>5
    <3>6. CASE i + 1 # N
      <4>1. i + 1 \in 1 .. N - 1 /\ i + 1 >= k /\ i # Len(u)
        BY <1>7, <1>11, <2>2, <3>6
      <4>2. u[i + 1] = w[(i + 1) + 1]
        BY <1>12, <4>1
      <4> QED
        BY <3>3, <3>4, <3>6, <4>1, <4>2
    <3> QED
      BY <3>5, <3>6
  <2>3. i < k \/ i >= k
    BY <1>7, <1>11
  <2> QED
    BY <2>1, <2>2, <2>3
<1>16. m.head = IF Len(u) = 0 THEN NULL ELSE u[1]
  <2>1. CASE k = 1
    <3>1. CASE N = 1
      BY <1>7, <1>8, <1>z, <2>1, <3>1
    <3>2. CASE N # 1
      <4>1. 1 \in 1 .. N - 1 /\ 1 >= k /\ Len(u) # 0
        BY <1>7, <1>11, <2>1, <3>2
      <4> QED
        BY <1>8, <1>12, <1>z, <2>1, <3>2, <4>1
    <3> QED
      BY <3>1, <3>2
  <2>2. CASE k > 1
    <3>1. 1 \in 1 .. N - 1 /\ 1 < k /\ Len(u) # 0 /\ k # 1
      BY <1>7, <1>11, <2>2
    <3> QED
      BY <1>2, <1>8, <1>12, <3>1
  <2> QED
    BY <1>11, <2>1, <2>2
<1>17. Len(u) > 0 => m.tail = u[Len(u)]
  <2> SUFFICES ASSUME Len(u) > 0 PROVE m.tail = u[Len(u)]
    OBVIOUS
  <2>1. N - 1 \in 1 .. N - 1 /\ N - 1 = Len(u) /\ (N - 1) + 1 = N
    BY <1>7, <1>11
  <2>2. CASE k = N
    <3>1. k > 1 /\ N - 1 < k
      BY <1>7, <1>11, <2>1, <2>2
    <3> QED
      BY <1>8, <1>12, <2>1, <2>2, <3>1
  <2>3. CASE k # N
    <3>1. N - 1 >= k
      BY <1>11, <2>3
    <3> QED
      BY <1>2, <1>8, <1>11, <1>12, <2>1, <2>3, <3>1
  <2> QED
    BY <2>2, <2>3
<1>18. Holds(m, u) /\ Ends(m, u)
  <2>1. m.len = Len(u)
    BY <1>2, <1>7, <1>8, <1>11
  <2>2. /\ \A i \in 1 .. Len(u) - 1 : Next_(m, u[i]) = u[i + 1]
        /\ Len(u) > 0 => Next_(m, u[Len(u)]) = NULL
    BY <1>11, <1>15
  <2> QED
    BY <1>7, <1>13, <1>14, <1>16, <1>17, <2>1, <2>2 DEF Holds, Ends
<1> QED
  BY <1>9, <1>10, <1>18 DEF m, u, Shows

LEMMA Freed ==
    ASSUME NEW l, NEW w, Shows(l, w), NEW n, \A i \in 1 .. Len(w) : w[i] # n
    PROVE  LET m == Free(l, n)
           IN  /\ Shows(m, w) /\ DOMAIN m.heap = DOMAIN l.heap \ {n}
               /\ \A x \in DOMAIN m.heap : Data_(m, x) = Data_(l, x)
<1> DEFINE h == [x \in DOMAIN l.heap \ {n} |-> l.heap[x]]
           m == Free(l, n)
<1>0. IsList(l) /\ Holds(l, w) /\ Ends(l, w)
  BY DEF Shows
<1>1. m = [heap |-> h, head |-> l.head, tail |-> l.tail, len |-> l.len]
  <2>1. l = [heap |-> l.heap, head |-> l.head, tail |-> l.tail, len |-> l.len]
    BY <1>0 DEF IsList
  <2> QED
    BY <2>1 DEF Free, Restrict
<1>2. /\ DOMAIN h = DOMAIN l.heap \ {n} /\ \A x \in DOMAIN h : h[x] = l.heap[x]
      /\ h \in [DOMAIN h -> Cell] /\ DOMAIN h \subseteq Nodes
  BY <1>0 DEF IsList
<1> HIDE DEF h, m
<1>3. /\ m.heap = h /\ m.head = l.head /\ m.tail = l.tail /\ m.len = l.len
      /\ m = [heap |-> m.heap, head |-> m.head, tail |-> m.tail, len |-> m.len]
  BY <1>1
<1>4. IsList(m)
  BY <1>2, <1>3 DEF IsList
<1>5. \A x \in DOMAIN h : Next_(m, x) = Next_(l, x) /\ Data_(m, x) = Data_(l, x)
  BY <1>2, <1>3 DEF Next_, Data_
<1>6. /\ Len(w) \in Nat /\ \A i \in 1 .. Len(w) : w[i] \in DOMAIN h
  BY <1>0, <1>2, HoldsNodes
<1>7. Holds(m, w) /\ Ends(m, w)
  BY <1>0, <1>3, <1>5, <1>6 DEF Holds, Ends
<1> QED
  BY <1>2, <1>3, <1>4, <1>5, <1>7 DEF Shows, m

LEMMA Turned ==
    ASSUME NEW l, NEW w, Shows(l, w)
    PROVE  LET m == Reversed(l)
           IN  Shows(m, Reverse(w)) /\ Touches(l, m, Nodes)
<1> DEFINE N == Len(w)
           u == Reverse(w)
           m == Reversed(l)
           S == {w[i] : i \in 1 .. N}
           h == [x \in DOMAIN l.heap |->
                    IF x \notin S THEN l.heap[x]
                    ELSE [next |-> IF x = l.head THEN NULL ELSE Before(l, x),
                          data |-> Data_(l, x)]]
<1>0. IsList(l) /\ Holds(l, w) /\ Ends(l, w)
  BY DEF Shows
<1>1. /\ N \in Nat /\ w \in Seq(Nodes) /\ NULL \notin Nodes
      /\ \A i \in 1 .. N : w[i] \in Nodes /\ w[i] \in DOMAIN l.heap
      /\ \A i, j \in 1 .. N : w[i] = w[j] => i = j
  BY <1>0, HoldsNodes
<1>2. /\ l.head = (IF N = 0 THEN NULL ELSE w[1]) /\ l.len = N
  BY <1>0 DEF Holds
<1>3. /\ u \in Seq(Nodes) /\ Len(u) = N /\ \A i \in 1 .. N : u[i] = w[N - i + 1]
  BY <1>1 DEF Reverse
<1>4. Walk(l) = w /\ ToSet(w) = S
  <2>1. DOMAIN w = 1 .. N
    BY <1>1
  <2> QED
    BY <2>1, WalkIs DEF ToSet
<1>5. m = [heap |-> h, head |-> IF N = 0 THEN NULL ELSE w[N], tail |-> l.head, len |-> N]
  <2>1. l = [heap |-> l.heap, head |-> l.head, tail |-> l.tail, len |-> l.len]
    BY <1>0 DEF IsList
  <2>2. w = <<>> <=> N = 0
    BY <1>1
  <2>3. m = [l EXCEPT !.head = IF N = 0 THEN NULL ELSE w[N], !.tail = l.head, !.heap = h]
    BY <1>4, <2>2 DEF Reversed, Last
  <2> HIDE DEF m, h, N
  <2> QED
    BY <1>2, <2>1, <2>3
<1>6. \A i \in 1 .. N : /\ h[w[i]].next = (IF i = 1 THEN NULL ELSE w[i - 1])
                        /\ h[w[i]].data = Data_(l, w[i]) /\ h[w[i]] \in Cell
  <2> SUFFICES ASSUME NEW i \in 1 .. N
               PROVE  /\ h[w[i]].next = (IF i = 1 THEN NULL ELSE w[i - 1])
                      /\ h[w[i]].data = Data_(l, w[i]) /\ h[w[i]] \in Cell
    OBVIOUS
  <2>1. h[w[i]] = [next |-> IF w[i] = l.head THEN NULL ELSE Before(l, w[i]), data |-> Data_(l, w[i])]
    BY <1>1
  <2>2. w[i] = l.head <=> i = 1
    <3>1. 1 \in 1 .. N /\ N # 0
      BY <1>1
    <3> QED
      BY <1>1, <1>2, <3>1
  <2>3. i # 1 => Before(l, w[i]) = w[i - 1] /\ w[i - 1] \in Nodes
    <3>1. i # 1 => i \in 2 .. N /\ i - 1 \in 1 .. N
      BY <1>1
    <3> QED
      BY <1>1, <3>1, BeforeIs
  <2>4. Data_(l, w[i]) \in Data
    BY <1>0, <1>1 DEF IsList, Cell, Data_
  <2> HIDE DEF h
  <2> QED
    BY <2>1, <2>2, <2>3, <2>4 DEF Cell
<1>7. /\ DOMAIN h = DOMAIN l.heap /\ \A x \in DOMAIN l.heap : x \notin S => h[x] = l.heap[x]
  OBVIOUS
<1>8. h \in [DOMAIN h -> Cell]
  <2>1. \A x \in DOMAIN h : h[x] \in Cell
    <3>1. \A x \in S : h[x] \in Cell
      BY <1>6
    <3>2. \A x \in DOMAIN h : x \notin S => h[x] \in Cell
      BY <1>0, <1>7 DEF IsList
    <3> QED
      BY <3>1, <3>2
  <2>2. h = [x \in DOMAIN h |-> h[x]]
    BY <1>7
  <2> HIDE DEF h
  <2> QED
    BY <2>1, <2>2
<1> HIDE DEF m, h, u
<1>9. /\ m.heap = h /\ m.head = (IF N = 0 THEN NULL ELSE w[N]) /\ m.tail = l.head /\ m.len = N
      /\ m = [heap |-> m.heap, head |-> m.head, tail |-> m.tail, len |-> m.len]
  BY <1>5
<1>10. IsList(m)
  BY <1>0, <1>7, <1>8, <1>9 DEF IsList
<1>11. Touches(l, m, Nodes)
  <2>1. \A x \in S : h[x].data = l.heap[x].data
    BY <1>6 DEF Data_
  <2>2. \A x \in DOMAIN l.heap : h[x].data = l.heap[x].data
    BY <1>7, <2>1
  <2> QED
    BY <1>0, <1>7, <1>9, <2>2 DEF Touches, Data_, IsList
<1>12. Distinct(u)
  <2>1. ASSUME NEW i \in 1 .. N, NEW j \in 1 .. N, i < j
        PROVE  u[i] # u[j]
    <3>1. N - i + 1 \in 1 .. N /\ N - j + 1 \in 1 .. N /\ N - i + 1 # N - j + 1
      BY <1>1, <2>1
    <3> QED
      BY <1>1, <1>3, <3>1
  <2> QED
    BY <1>3, <2>1, Apart
<1>13. ASSUME NEW i \in 1 .. N
       PROVE  /\ u[i] \in DOMAIN m.heap
              /\ Next_(m, u[i]) = IF i = N THEN NULL ELSE u[i + 1]
  <2> DEFINE j == N - i + 1
  <2>1. u[i] = w[j]
    BY <1>3
  <2>2. j \in 1 .. N /\ (j = 1 <=> i = N) /\ j - 1 = N - (i + 1) + 1
        /\ (i # N => i + 1 \in 1 .. N)
    <3> HIDE DEF N
    <3> QED
      BY <1>1
  <2>3. w[j] \in DOMAIN h /\ h[w[j]].next = (IF j = 1 THEN NULL ELSE w[j - 1])
    BY <1>1, <1>6, <1>7, <2>2
  <2>4. i # N => u[i + 1] = w[j - 1]
    BY <1>3, <2>2
  <2> HIDE DEF j, N
  <2>5. h[w[j]].next = (IF i = N THEN NULL ELSE u[i + 1])
    BY <2>2, <2>3, <2>4
  <2> QED
    BY <1>9, <2>1, <2>3, <2>5 DEF Next_
<1>14. N > 0 => 1 \in 1 .. N /\ N \in 1 .. N /\ N - 1 + 1 = N /\ N - N + 1 = 1 /\ N # 0
  BY <1>1
<1>15. m.head = (IF Len(u) = 0 THEN NULL ELSE u[1]) /\ (Len(u) > 0 => m.tail = u[Len(u)])
       /\ m.len = Len(u)
  <2>1. N > 0 => u[1] = w[N] /\ u[N] = w[1]
    BY <1>3, <1>14
  <2>2. N = 0 \/ N > 0
    BY <1>1
  <2> QED
    BY <1>2, <1>3, <1>9, <1>14, <2>1, <2>2
<1>16. /\ \A i \in 1 .. Len(u) : u[i] \in DOMAIN m.heap
       /\ \A i \in 1 .. Len(u) - 1 : Next_(m, u[i]) = u[i + 1]
       /\ Len(u) > 0 => Next_(m, u[Len(u)]) = NULL
  <2>1. \A i \in 1 .. N : u[i] \in DOMAIN m.heap
    BY <1>13
  <2>2. ASSUME NEW i \in 1 .. N - 1 PROVE Next_(m, u[i]) = u[i + 1]
    <3>1. i \in 1 .. N /\ i # N
      BY <1>1
    <3> QED
      BY <1>13, <3>1
  <2>3. N > 0 => Next_(m, u[N]) = NULL
    <3>1. N > 0 => N \in 1 .. N
      BY <1>1
    <3> QED
      BY <1>13, <3>1
  <2>4. Len(u) = N
    BY <1>3
  <2> QED
    BY <2>1, <2>2, <2>3, <2>4
<1> QED
  BY <1>3, <1>10, <1>11, <1>12, <1>15, <1>16 DEF m, u, Shows, Holds, Ends

\* A list whose nodes are in a heap that was written to elsewhere.
LEMMA Rehomed ==
    ASSUME NEW l, NEW w, IsList(l), Holds(l, w), NEW h,
           DOMAIN h = DOMAIN l.heap, h \in [DOMAIN h -> Cell],
           \A i \in 1 .. Len(w) : h[w[i]].next = Next_(l, w[i])
    PROVE  LET m == [l EXCEPT !.heap = h]
           IN  IsList(m) /\ Holds(m, w) /\ m.heap = h /\ (Ends(l, w) => Ends(m, w))
<1> DEFINE m == [l EXCEPT !.heap = h]
<1>1. m = [heap |-> h, head |-> l.head, tail |-> l.tail, len |-> l.len]
  BY DEF IsList
<1> HIDE DEF m
<1>2. /\ m.heap = h /\ m.head = l.head /\ m.tail = l.tail /\ m.len = l.len
      /\ m = [heap |-> m.heap, head |-> m.head, tail |-> m.tail, len |-> m.len]
  BY <1>1
<1>3. IsList(m)
  BY <1>2 DEF IsList
<1>4. Len(w) \in Nat /\ \A i \in 1 .. Len(w) : Next_(m, w[i]) = Next_(l, w[i])
  BY <1>2, HoldsNodes DEF Next_
<1>5. Holds(m, w) /\ (Ends(l, w) => Ends(m, w))
  BY <1>2, <1>4 DEF Holds, Ends
<1> QED
  BY <1>2, <1>3, <1>5 DEF m

-----------------------------------------------------------------------------
(* The sort.  A list is named by places in the list that is sorted.         *)

Named(w, q) == [i \in 1 .. Len(q) |-> w[q[i]]]
Value(l, n) == Rank[Data_(l, n)]

\* The first of the smallest.
LEMMA MinNodeIs ==
    ASSUME NEW l, NEW w, Shows(l, w), Len(w) > 0
    PROVE  \E k \in 1 .. Len(w) :
              /\ MinNode(l) = w[k]
              /\ \A j \in 1 .. Len(w) : /\ Value(l, w[k]) <= Value(l, w[j])
                                        /\ j < k => Value(l, w[k]) < Value(l, w[j])
<1> DEFINE D == 1 .. Len(w)
           v(i) == Value(l, w[i])
           First(i) == \A j \in DOMAIN w : v(i) <= v(j) - (IF j < i THEN 1 ELSE 0)
<1>1. Len(w) \in Nat /\ DOMAIN w = D /\ \A i \in D : w[i] \in DOMAIN l.heap
  BY HoldsNodes DEF Shows
<1>2. \A i \in D : v(i) \in Nat
  BY <1>1, ConstantAssumption DEF Shows, IsList, Cell, Value, Data_
<1>3. PICK r \in {v(i) : i \in D} : \A s \in {v(i) : i \in D} : r <= s
  <2>1. 1 \in D
    BY <1>1
  <2>2. {v(i) : i \in D} \in SUBSET Nat /\ {v(i) : i \in D} # {}
    BY <1>2, <2>1
  <2> HIDE DEF v, D
  <2> QED
    BY <2>2, LeastNat
<1>4. PICK k \in {i \in D : v(i) = r} : \A j \in {i \in D : v(i) = r} : k <= j
  <2>1. {i \in D : v(i) = r} \in SUBSET Nat /\ {i \in D : v(i) = r} # {}
    BY <1>1, <1>3
  <2> HIDE DEF v, D
  <2> QED
    BY <2>1, LeastNat
<1> HIDE DEF v
<1>5. k \in D /\ First(k)
  <2>1. k \in D /\ v(k) = r /\ k \in Nat /\ r \in Nat
    BY <1>1, <1>2, <1>4
  <2>2. ASSUME NEW j \in D
        PROVE  v(k) <= v(j) - (IF j < k THEN 1 ELSE 0)
    <3>1. r <= v(j) /\ v(j) \in Nat /\ j \in Nat
      BY <1>1, <1>2, <1>3
    <3>2. j < k => v(j) # r
      BY <1>4, <2>1, <3>1
    <3> QED
      BY <2>1, <3>1, <3>2
  <2> QED
    BY <1>1, <2>1, <2>2
<1> DEFINE c == CHOOSE i \in DOMAIN w : First(i)
<1>6. c \in D /\ First(c)
  <2> HIDE DEF First
  <2> QED
    BY <1>1, <1>5
<1>7. MinNode(l) = w[c]
  BY WalkIs DEF MinNode, Value, v
<1> HIDE DEF c
<1>8. \A j \in D : v(c) <= v(j) /\ (j < c => v(c) < v(j))
  BY <1>1, <1>2, <1>6
<1> QED
  BY <1>6, <1>7, <1>8 DEF v

LEMMA NamedNodes ==
    ASSUME NEW w \in Seq(Nodes), NEW q \in Seq(1 .. Len(w))
    PROVE  /\ Named(w, q) \in Seq(Nodes) /\ Len(Named(w, q)) = Len(q) /\ Len(q) \in Nat
           /\ \A i \in 1 .. Len(q) : q[i] \in 1 .. Len(w) /\ q[i] \in Nat
                                     /\ Named(w, q)[i] = w[q[i]] /\ w[q[i]] \in Nodes
<1>1. Len(q) \in Nat /\ Len(w) \in Nat /\ DOMAIN w = 1 .. Len(w)
  OBVIOUS
<1>2. \A i \in 1 .. Len(q) : q[i] \in 1 .. Len(w)
  <2>1. ASSUME NEW T, NEW r \in Seq(T)
        PROVE  \A i \in 1 .. Len(r) : r[i] \in T
    OBVIOUS
  <2> QED
    BY <2>1, Zenon
<1>3. \A i \in 1 .. Len(w) : w[i] \in Nodes /\ i \in Nat
  BY <1>1
<1>4. \A i \in 1 .. Len(q) : w[q[i]] \in Nodes /\ q[i] \in Nat
  BY <1>2, <1>3
<1> QED
  BY <1>1, <1>2, <1>4 DEF Named

LEMMA NamedRemoved ==
    ASSUME NEW w \in Seq(Nodes), NEW q \in Seq(1 .. Len(w)), NEW k \in 1 .. Len(q)
    PROVE  Named(w, RemoveAt(q, k)) = RemoveAt(Named(w, q), k)
<1> DEFINE n == Len(q)
           a == RemoveAt(q, k)
           v == Named(w, q)
           b == RemoveAt(v, k)
<1>1. n \in Nat /\ v \in Seq(Nodes) /\ Len(v) = n /\ \A i \in 1 .. n : v[i] = w[q[i]]
  BY NamedNodes
<1>2. a \in Seq(1 .. Len(w)) /\ Len(a) = n - 1
      /\ \A i \in 1 .. n - 1 : a[i] = IF i < k THEN q[i] ELSE q[i + 1]
  BY Removed
<1>3. b \in Seq(Nodes) /\ Len(b) = n - 1
      /\ \A i \in 1 .. n - 1 : b[i] = IF i < k THEN v[i] ELSE v[i + 1]
  <2> HIDE DEF v
  <2>1. k \in 1 .. Len(v)
    BY <1>1
  <2> QED
    BY <1>1, <2>1, Removed
<1> HIDE DEF a, b, v
<1>4. \A i \in 1 .. n - 1 : w[a[i]] = b[i]
  <2> SUFFICES ASSUME NEW i \in 1 .. n - 1 PROVE w[a[i]] = b[i]
    OBVIOUS
  <2>1. i \in 1 .. n /\ i + 1 \in 1 .. n /\ (i < k \/ ~(i < k))
    BY <1>1
  <2> QED
    BY <1>1, <1>2, <1>3, <2>1
<1>5. b = [i \in 1 .. n - 1 |-> b[i]]
  BY <1>1, <1>3
<1>6. Named(w, a) = [i \in 1 .. n - 1 |-> w[a[i]]]
  BY <1>2 DEF Named
<1> QED
  BY <1>4, <1>5, <1>6 DEF a, b, v

LEMMA NamedAppended ==
    ASSUME NEW w \in Seq(Nodes), NEW q \in Seq(1 .. Len(w)), NEW x \in 1 .. Len(w)
    PROVE  Named(w, Append(q, x)) = Append(Named(w, q), w[x])
<1> DEFINE n == Len(q)
           a == Append(q, x)
           v == Named(w, q)
           b == Append(v, w[x])
<1>1. n \in Nat /\ v \in Seq(Nodes) /\ Len(v) = n /\ (\A i \in 1 .. n : v[i] = w[q[i]]) /\ w[x] \in Nodes
  BY NamedNodes
<1>2. a \in Seq(1 .. Len(w)) /\ Len(a) = n + 1 /\ a[n + 1] = x /\ \A i \in 1 .. n : a[i] = q[i]
  BY Appended
<1>3. b \in Seq(Nodes) /\ Len(b) = n + 1 /\ b[n + 1] = w[x] /\ \A i \in 1 .. n : b[i] = v[i]
  <2> HIDE DEF v
  <2> QED
    BY <1>1, Appended
<1> HIDE DEF a, b, v
<1>4. \A i \in 1 .. n + 1 : w[a[i]] = b[i]
  <2> SUFFICES ASSUME NEW i \in 1 .. n + 1 PROVE w[a[i]] = b[i]
    OBVIOUS
  <2>1. i \in 1 .. n \/ i = n + 1
    BY <1>1
  <2> QED
    BY <1>1, <1>2, <1>3, <2>1
<1>5. b = [i \in 1 .. n + 1 |-> b[i]]
  BY <1>1, <1>3
<1>6. Named(w, a) = [i \in 1 .. n + 1 |-> w[a[i]]]
  BY <1>2 DEF Named
<1> QED
  BY <1>4, <1>5, <1>6 DEF a, b, v

\* The order of a stable sort.
Less(l, w, a, b) ==
    \/ Value(l, w[a]) < Value(l, w[b])
    \/ Value(l, w[a]) = Value(l, w[b]) /\ a < b

\* Between two rounds: q are the places of the nodes still in the list, in the
\* order they had, and s, sorted and all smaller, those of the ones moved.
Halves(l, w, both, q, s) ==
    /\ q \in Seq(1 .. Len(w)) /\ s \in Seq(1 .. Len(w)) /\ Len(q) + Len(s) = Len(w)
    /\ Shows(both[1], Named(w, q))
    /\ IsList(both[2]) /\ Holds(both[2], Named(w, s))
    /\ Len(q) = 0 => Ends(both[2], Named(w, s))
    /\ both[2].heap = both[1].heap
    /\ DOMAIN both[1].heap = DOMAIN l.heap
    /\ \A x \in DOMAIN l.heap : Data_(both[1], x) = Data_(l, x)
    /\ \A i, j \in 1 .. Len(q) : i < j => q[i] < q[j]
    /\ \A i, j \in 1 .. Len(s) : i < j => Less(l, w, s[i], s[j])
    /\ \A i \in 1 .. Len(s), j \in 1 .. Len(q) : Less(l, w, s[i], q[j])
    /\ \A x \in 1 .. Len(w) : \/ \E i \in 1 .. Len(q) : q[i] = x
                              \/ \E i \in 1 .. Len(s) : s[i] = x

\* The two lists after a round, as lists.
LEMMA RoundLists ==
    ASSUME NEW l, NEW t, NEW u, NEW v, Shows(l, u), Len(u) > 0,
           IsList(t), Holds(t, v), t.heap = l.heap,
           \A i \in 1 .. Len(u), j \in 1 .. Len(v) : u[i] # v[j]
    PROVE  \E k \in 1 .. Len(u) : LET both == SortRound(<<l, t>>)
                                      n == u[k] IN
              /\ \A j \in 1 .. Len(u) : /\ Value(l, u[k]) <= Value(l, u[j])
                                        /\ j < k => Value(l, u[k]) < Value(l, u[j])
              /\ Shows(both[1], RemoveAt(u, k))
              /\ IsList(both[2]) /\ Holds(both[2], Append(v, n))
              /\ Len(u) = 1 => Ends(both[2], Append(v, n))
              /\ both[2].heap = both[1].heap
              /\ DOMAIN both[1].heap = DOMAIN l.heap
              /\ \A x \in DOMAIN l.heap : Data_(both[1], x) = Data_(l, x)
<1>1. /\ IsList(l) /\ Holds(l, u) /\ Ends(l, u)
      /\ Len(u) \in Nat /\ u \in Seq(Nodes) /\ Len(v) \in Nat /\ v \in Seq(Nodes)
      /\ \A i \in 1 .. Len(u) : u[i] \in Nodes /\ u[i] \in DOMAIN l.heap
      /\ \A i \in 1 .. Len(v) : v[i] \in Nodes /\ v[i] \in DOMAIN l.heap
      /\ \A i, j \in 1 .. Len(u) : u[i] = u[j] => i = j
      /\ \A i, j \in 1 .. Len(v) : v[i] = v[j] => i = j
  BY HoldsNodes DEF Shows
<1>2. PICK k \in 1 .. Len(u) :
          /\ MinNode(l) = u[k]
          /\ \A j \in 1 .. Len(u) : /\ Value(l, u[k]) <= Value(l, u[j])
                                    /\ j < k => Value(l, u[k]) < Value(l, u[j])
  BY MinNodeIs
<1> DEFINE n == u[k]
           rest == Unlink(l, n)
           t1 == [t EXCEPT !.heap = rest.heap]
           t2 == LinkLast(t1, n)
           l2 == [rest EXCEPT !.heap = t2.heap]
           a == RemoveAt(u, k)
<1>3. SortRound(<<l, t>>) = <<l2, t2>>
  BY <1>2 DEF SortRound
<1>4. Shows(rest, a) /\ Touches(l, rest, {x \in Nodes : k > 1 /\ x = u[k - 1]})
  BY Unlinked
<1>5. /\ a \in Seq(Nodes) /\ Len(a) = Len(u) - 1
      /\ \A i \in 1 .. Len(a) : \E j \in 1 .. Len(u) : a[i] = u[j] /\ j # k
  <2>1. a \in Seq(Nodes) /\ Len(a) = Len(u) - 1
        /\ \A i \in 1 .. Len(u) - 1 : a[i] = IF i < k THEN u[i] ELSE u[i + 1]
    BY <1>1, Removed
  <2> HIDE DEF a
  <2>2. ASSUME NEW i \in 1 .. Len(a)
        PROVE  \E j \in 1 .. Len(u) : a[i] = u[j] /\ j # k
    <3>1. CASE i < k
      <4>1. i \in 1 .. Len(u) /\ i # k /\ a[i] = u[i]
        BY <1>1, <2>1, <3>1
      <4> QED
        BY <4>1
    <3>2. CASE ~(i < k)
      <4>1. i + 1 \in 1 .. Len(u) /\ i + 1 # k /\ a[i] = u[i + 1]
        BY <1>1, <2>1, <3>2
      <4> QED
        BY <4>1
    <3> QED
      BY <3>1, <3>2
  <2> QED
    BY <2>1, <2>2
<1>6. \A i \in 1 .. Len(v) : u[k] # v[i] /\ (k > 1 => u[k - 1] # v[i])
  <2>1. k > 1 => k - 1 \in 1 .. Len(u)
    BY <1>1
  <2> QED
    BY <2>1
<1>7. n \in DOMAIN l.heap /\ n \in Nodes
  BY <1>1
<1> HIDE DEF n, rest, a
<1>8. /\ DOMAIN rest.heap = DOMAIN l.heap /\ rest.heap \in [DOMAIN rest.heap -> Cell]
      /\ DOMAIN l.heap \subseteq Nodes /\ IsList(rest)
      /\ \A x \in DOMAIN l.heap : rest.heap[x].data = l.heap[x].data
  BY <1>4 DEF Shows, IsList, Touches, Data_
<1>9. IsList(t1) /\ Holds(t1, v) /\ t1.heap = rest.heap
  <2>1. \A i \in 1 .. Len(v) : rest.heap[v[i]].next = Next_(t, v[i])
    BY <1>1, <1>4, <1>6 DEF Touches, Next_
  <2> QED
    BY <1>8, <2>1, Rehomed
<1> HIDE DEF t1
<1>10. /\ IsList(t2) /\ Holds(t2, Append(v, n))
       /\ Touches(t1, t2, {x \in Nodes : Len(v) > 0 /\ x = v[Len(v)]})
  <2>1. n \in DOMAIN t1.heap /\ \A i \in 1 .. Len(v) : v[i] # n
    BY <1>6, <1>7, <1>8, <1>9 DEF n
  <2> QED
    BY <1>9, <2>1, LinkedLast
<1> HIDE DEF t2
<1>11. /\ DOMAIN t2.heap = DOMAIN l.heap /\ t2.heap \in [DOMAIN t2.heap -> Cell]
       /\ \A x \in DOMAIN l.heap : t2.heap[x].data = l.heap[x].data
  BY <1>8, <1>9, <1>10 DEF IsList, Touches, Data_
<1>12. \A x \in DOMAIN l.heap : Len(v) = 0 \/ x # v[Len(v)] => t2.heap[x].next = rest.heap[x].next
  <2>1. ASSUME NEW x \in DOMAIN l.heap, Len(v) = 0 \/ x # v[Len(v)]
        PROVE  x \notin {y \in Nodes : Len(v) > 0 /\ y = v[Len(v)]}
    BY <2>1
  <2> QED
    BY <1>8, <1>9, <1>10, <2>1 DEF Touches, Next_
<1>13. Len(v) > 0 => Len(v) \in 1 .. Len(v)
  BY <1>1
<1>14. Shows(l2, a) /\ l2.heap = t2.heap
  <2>1. ASSUME NEW i \in 1 .. Len(a)
        PROVE  t2.heap[a[i]].next = Next_(rest, a[i])
    <3>1. PICK j \in 1 .. Len(u) : a[i] = u[j]
      BY <1>5
    <3>2. Len(v) = 0 \/ a[i] # v[Len(v)]
      BY <1>1, <1>13, <3>1
    <3> QED
      BY <1>1, <1>12, <3>1, <3>2 DEF Next_
  <2>2. IsList(rest) /\ Holds(rest, a) /\ Ends(rest, a)
    BY <1>4 DEF Shows
  <2>3. DOMAIN t2.heap = DOMAIN rest.heap
    BY <1>8, <1>11
  <2> QED
    BY <1>11, <2>1, <2>2, <2>3, Rehomed DEF Shows
<1>15. ASSUME Len(u) = 1
       PROVE  Ends(t2, Append(v, n))
  <2>1. k = 1 /\ k = Len(u)
    BY <1>1, <1>15
  <2>2. Next_(l, n) = NULL
    BY <2>1, Links DEF n
  <2>3. rest.heap[n].next = NULL
    BY <1>4, <1>7, <2>1, <2>2 DEF Touches, Next_
  <2>4. Len(v) = 0 \/ n # v[Len(v)]
    BY <1>6, <1>13 DEF n
  <2>5. t2.heap[n].next = NULL
    BY <1>7, <1>12, <2>3, <2>4
  <2>6. Len(Append(v, n)) = Len(v) + 1 /\ Append(v, n)[Len(v) + 1] = n
    BY <1>1, <1>7, Appended
  <2> QED
    BY <2>5, <2>6 DEF Ends, Next_
<1>16. \A x \in DOMAIN l.heap : Data_(l2, x) = Data_(l, x)
  BY <1>11, <1>14 DEF Data_
<1> HIDE DEF l2
<1>17. SortRound(<<l, t>>)[1] = l2 /\ SortRound(<<l, t>>)[2] = t2
  BY <1>3
<1> QED
  BY <1>2, <1>10, <1>11, <1>14, <1>15, <1>16, <1>17 DEF n, a

\* A place of the list has the value it had before the sort.
LEMMA ValuesKept ==
    ASSUME NEW l, NEW w, Shows(l, w), NEW m, DOMAIN m.heap = DOMAIN l.heap,
           \A x \in DOMAIN l.heap : Data_(m, x) = Data_(l, x)
    PROVE  \A x \in 1 .. Len(w) : Value(m, w[x]) = Value(l, w[x]) /\ Value(l, w[x]) \in Int
<1> SUFFICES ASSUME NEW x \in 1 .. Len(w)
             PROVE  Value(m, w[x]) = Value(l, w[x]) /\ Value(l, w[x]) \in Int
  OBVIOUS
<1>1. w[x] \in DOMAIN l.heap /\ IsList(l)
  BY HoldsNodes DEF Shows
<1>2. Data_(l, w[x]) \in Data
  BY <1>1 DEF IsList, Cell, Data_
<1>3. Rank[Data_(l, w[x])] \in 1 .. MaxRank /\ MaxRank \in Nat
  BY <1>2, ConstantAssumption
<1> QED
  BY <1>1, <1>3 DEF Value

\* What is left and what is moved are different nodes.
LEMMA HalvesApart ==
    ASSUME NEW l, NEW w, Shows(l, w), NEW both, NEW q, NEW s, Halves(l, w, both, q, s)
    PROVE  \A i \in 1 .. Len(q), j \in 1 .. Len(s) : Named(w, q)[i] # Named(w, s)[j]
<1> SUFFICES ASSUME NEW i \in 1 .. Len(q), NEW j \in 1 .. Len(s), Named(w, q)[i] = Named(w, s)[j]
             PROVE  FALSE
  OBVIOUS
<1>1. w \in Seq(Nodes) /\ Distinct(w) /\ q \in Seq(1 .. Len(w)) /\ s \in Seq(1 .. Len(w))
      /\ Less(l, w, s[j], q[i])
  BY DEF Halves, Shows, Holds
<1>2. q[i] \in 1 .. Len(w) /\ s[j] \in 1 .. Len(w) /\ w[q[i]] = w[s[j]]
  BY <1>1, NamedNodes
<1>3. q[i] = s[j]
  BY <1>1, <1>2 DEF Distinct
<1>4. Value(l, w[q[i]]) \in Int
  BY <1>2, ValuesKept
<1> QED
  BY <1>1, <1>2, <1>3, <1>4 DEF Less

LEMMA RoundHalves ==
    ASSUME NEW l, NEW w, Shows(l, w), NEW both, NEW q, NEW s,
           Halves(l, w, both, q, s), Len(q) > 0
    PROVE  \E k \in 1 .. Len(q) :
              Halves(l, w, SortRound(both), RemoveAt(q, k), Append(s, q[k]))
<1> DEFINE u == Named(w, q)
           v == Named(w, s)
           n == Len(q)
           o == Len(s)
<1>1. /\ w \in Seq(Nodes) /\ q \in Seq(1 .. Len(w)) /\ s \in Seq(1 .. Len(w))
      /\ n + o = Len(w) /\ Shows(both[1], u) /\ IsList(both[2]) /\ Holds(both[2], v)
      /\ both[2].heap = both[1].heap /\ DOMAIN both[1].heap = DOMAIN l.heap
      /\ \A x \in DOMAIN l.heap : Data_(both[1], x) = Data_(l, x)
  BY DEF Halves, Shows, Holds
<1>2. /\ u \in Seq(Nodes) /\ Len(u) = n /\ n \in Nat
      /\ \A i \in 1 .. n : q[i] \in 1 .. Len(w) /\ q[i] \in Nat /\ u[i] = w[q[i]]
  BY <1>1, NamedNodes
<1>3. /\ v \in Seq(Nodes) /\ Len(v) = o /\ o \in Nat
      /\ \A i \in 1 .. o : s[i] \in 1 .. Len(w) /\ s[i] \in Nat /\ v[i] = w[s[i]]
  BY <1>1, NamedNodes
<1>4. \A i \in 1 .. n, j \in 1 .. o : u[i] # v[j]
  BY HalvesApart
<1>5. SortRound(<<both[1], both[2]>>) = SortRound(both)
  BY DEF SortRound
<1> DEFINE new == SortRound(both)
<1> HIDE DEF u, v, new
<1>6. PICK k \in 1 .. n :
          /\ \A j \in 1 .. n : /\ Value(both[1], u[k]) <= Value(both[1], u[j])
                               /\ j < k => Value(both[1], u[k]) < Value(both[1], u[j])
          /\ Shows(new[1], RemoveAt(u, k))
          /\ IsList(new[2]) /\ Holds(new[2], Append(v, u[k]))
          /\ n = 1 => Ends(new[2], Append(v, u[k]))
          /\ new[2].heap = new[1].heap
          /\ DOMAIN new[1].heap = DOMAIN both[1].heap
          /\ \A x \in DOMAIN both[1].heap : Data_(new[1], x) = Data_(both[1], x)
  <2>1. Len(u) > 0 /\ \A i \in 1 .. Len(u), j \in 1 .. Len(v) : u[i] # v[j]
    BY <1>2, <1>3, <1>4
  <2>2. \E k \in 1 .. Len(u) : LET two == SortRound(<<both[1], both[2]>>) IN
          /\ \A j \in 1 .. Len(u) : /\ Value(both[1], u[k]) <= Value(both[1], u[j])
                                    /\ j < k => Value(both[1], u[k]) < Value(both[1], u[j])
          /\ Shows(two[1], RemoveAt(u, k))
          /\ IsList(two[2]) /\ Holds(two[2], Append(v, u[k]))
          /\ Len(u) = 1 => Ends(two[2], Append(v, u[k]))
          /\ two[2].heap = two[1].heap
          /\ DOMAIN two[1].heap = DOMAIN both[1].heap
          /\ \A x \in DOMAIN both[1].heap : Data_(two[1], x) = Data_(both[1], x)
    <3>1. /\ Shows(both[1], u) /\ Len(u) > 0 /\ IsList(both[2]) /\ Holds(both[2], v)
          /\ both[2].heap = both[1].heap
          /\ \A i \in 1 .. Len(u), j \in 1 .. Len(v) : u[i] # v[j]
      BY <1>1, <2>1
    <3> QED
      BY <3>1, RoundLists, Zenon
  <2> QED
    BY <1>2, <1>5, <2>2 DEF new
<1> DEFINE a == RemoveAt(q, k)
           b == Append(s, q[k])
<1>7. /\ a \in Seq(1 .. Len(w)) /\ Len(a) = n - 1
      /\ \A i \in 1 .. n - 1 : a[i] = IF i < k THEN q[i] ELSE q[i + 1]
  BY <1>1, Removed
<1>8. /\ b \in Seq(1 .. Len(w)) /\ Len(b) = o + 1
      /\ (\A i \in 1 .. o : b[i] = s[i]) /\ b[o + 1] = q[k]
  BY <1>1, <1>2, Appended
<1>9. Named(w, a) = RemoveAt(u, k) /\ Named(w, b) = Append(v, u[k])
  BY <1>1, <1>2, NamedRemoved, NamedAppended DEF u, v
<1>10. /\ \A i, j \in 1 .. n : i < j => q[i] < q[j]
       /\ \A i, j \in 1 .. o : i < j => Less(l, w, s[i], s[j])
       /\ \A i \in 1 .. o, j \in 1 .. n : Less(l, w, s[i], q[j])
       /\ \A x \in 1 .. Len(w) : \/ \E i \in 1 .. n : q[i] = x
                                 \/ \E i \in 1 .. o : s[i] = x
  BY DEF Halves
<1> HIDE DEF a, b, n, o
<1>11. \A j \in 1 .. n : j # k => Less(l, w, q[k], q[j])
  <2> SUFFICES ASSUME NEW j \in 1 .. n, j # k PROVE Less(l, w, q[k], q[j])
    OBVIOUS
  <2>1. /\ Value(both[1], u[k]) = Value(l, w[q[k]]) /\ Value(l, w[q[k]]) \in Int
        /\ Value(both[1], u[j]) = Value(l, w[q[j]]) /\ Value(l, w[q[j]]) \in Int
    <3>1. \A x \in 1 .. Len(w) : Value(both[1], w[x]) = Value(l, w[x]) /\ Value(l, w[x]) \in Int
      BY <1>1, ValuesKept
    <3> QED
      BY <1>2, <3>1
  <2>2. CASE j < k
    BY <1>6, <2>1, <2>2 DEF Less
  <2>3. CASE k < j
    BY <1>6, <1>10, <2>1, <2>3 DEF Less
  <2> QED
    BY <1>2, <2>2, <2>3
<1>12. \A i \in 1 .. n - 1 : \E j \in 1 .. n : a[i] = q[j] /\ j # k /\ (i < k => j = i) /\ (~(i < k) => j = i + 1)
  <2> SUFFICES ASSUME NEW i \in 1 .. n - 1
               PROVE  \E j \in 1 .. n : a[i] = q[j] /\ j # k /\ (i < k => j = i) /\ (~(i < k) => j = i + 1)
    OBVIOUS
  <2>1. i \in 1 .. n /\ i + 1 \in 1 .. n /\ (~(i < k) => i + 1 # k)
    BY <1>2
  <2> QED
    BY <1>7, <2>1
<1>13. \A i, j \in 1 .. n - 1 : i < j => a[i] < a[j]
  <2> SUFFICES ASSUME NEW i \in 1 .. n - 1, NEW j \in 1 .. n - 1, i < j PROVE a[i] < a[j]
    OBVIOUS
  <2>1. PICK i1 \in 1 .. n : a[i] = q[i1] /\ (i < k => i1 = i) /\ (~(i < k) => i1 = i + 1)
    BY <1>12
  <2>2. PICK j1 \in 1 .. n : a[j] = q[j1] /\ (j < k => j1 = j) /\ (~(j < k) => j1 = j + 1)
    BY <1>12
  <2>3. i1 < j1
    BY <1>2, <2>1, <2>2
  <2> QED
    BY <1>10, <2>1, <2>2, <2>3
<1>14. \A i, j \in 1 .. o + 1 : i < j => Less(l, w, b[i], b[j])
  <2> SUFFICES ASSUME NEW i \in 1 .. o + 1, NEW j \in 1 .. o + 1, i < j
               PROVE  Less(l, w, b[i], b[j])
    OBVIOUS
  <2>1. i \in 1 .. o /\ (j \in 1 .. o \/ j = o + 1)
    BY <1>3
  <2> QED
    BY <1>8, <1>10, <2>1
<1>15. \A i \in 1 .. o + 1, j \in 1 .. n - 1 : Less(l, w, b[i], a[j])
  <2> SUFFICES ASSUME NEW i \in 1 .. o + 1, NEW j \in 1 .. n - 1
               PROVE  Less(l, w, b[i], a[j])
    OBVIOUS
  <2>1. PICK j1 \in 1 .. n : a[j] = q[j1] /\ j1 # k
    BY <1>12
  <2>2. i \in 1 .. o \/ i = o + 1
    BY <1>3
  <2> QED
    BY <1>8, <1>10, <1>11, <2>1, <2>2
<1>16. \A x \in 1 .. Len(w) : \/ \E i \in 1 .. n - 1 : a[i] = x
                              \/ \E i \in 1 .. o + 1 : b[i] = x
  <2> SUFFICES ASSUME NEW x \in 1 .. Len(w)
               PROVE  \/ \E i \in 1 .. n - 1 : a[i] = x
                      \/ \E i \in 1 .. o + 1 : b[i] = x
    OBVIOUS
  <2>1. CASE \E i \in 1 .. o : s[i] = x
    <3>1. PICK i \in 1 .. o : s[i] = x
      BY <2>1
    <3>2. i \in 1 .. o + 1
      BY <1>3
    <3> QED
      BY <1>8, <3>1, <3>2
  <2>2. CASE \E i \in 1 .. n : q[i] = x
    <3>1. PICK i \in 1 .. n : q[i] = x
      BY <2>2
    <3>2. CASE i < k
      <4>1. i \in 1 .. n - 1
        BY <1>2, <3>2
      <4> QED
        BY <1>7, <3>1, <3>2, <4>1
    <3>3. CASE i = k
      <4>1. o + 1 \in 1 .. o + 1
        BY <1>3
      <4> QED
        BY <1>8, <3>1, <3>3, <4>1
    <3>4. CASE i > k
      <4>1. i - 1 \in 1 .. n - 1 /\ ~(i - 1 < k) /\ i - 1 + 1 = i
        BY <1>2, <3>4
      <4> QED
        BY <1>7, <3>1, <4>1
    <3> QED
      BY <1>2, <3>2, <3>3, <3>4
  <2> QED
    BY <1>10, <2>1, <2>2
<1>17. Len(a) + Len(b) = Len(w) /\ (Len(a) = 0 => n = 1)
  <2>1. n \in Nat /\ o \in Nat /\ n + o = Len(w) /\ Len(a) = n - 1 /\ Len(b) = o + 1
    BY <1>1, <1>2, <1>3, <1>7, <1>8
  <2> HIDE DEF a, b
  <2> QED
    BY <2>1
<1>18. /\ DOMAIN new[1].heap = DOMAIN l.heap
       /\ \A x \in DOMAIN l.heap : Data_(new[1], x) = Data_(l, x)
  BY <1>1, <1>6
<1>19. Halves(l, w, new, a, b)
  BY <1>6, <1>7, <1>8, <1>9, <1>13, <1>14, <1>15, <1>16, <1>17, <1>18 DEF Halves
<1> QED
  BY <1>19 DEF a, b, new, n

\* The rounds that list_sort makes.
Round(x) == IF x[1].head = NULL THEN x ELSE SortRound(x)
Rounds(f, first, m) == f = [i \in 0 .. m |-> IF i = 0 THEN first ELSE Round(f[i - 1])]

LEMMA RoundsExist ==
    ASSUME NEW first
    PROVE  \A m \in Nat : \E f : Rounds(f, first, m)
<1> DEFINE T == {m \in Nat : ~ \E f : Rounds(f, first, m)}
<1> SUFFICES ASSUME T # {} PROVE FALSE
  OBVIOUS
<1>1. PICK m \in T : \A k \in T : m <= k
  <2>1. T \in SUBSET Nat
    OBVIOUS
  <2> HIDE DEF T
  <2> QED
    BY <2>1, LeastNat
<1>2. m \in Nat /\ ~ \E f : Rounds(f, first, m)
  OBVIOUS
<1>3. m # 0
  <2> SUFFICES ASSUME m = 0 PROVE FALSE
    OBVIOUS
  <2> DEFINE f == [i \in 0 .. 0 |-> first]
  <2>1. \A i \in 0 .. 0 : i = 0
    OBVIOUS
  <2>2. f = [i \in 0 .. 0 |-> IF i = 0 THEN first ELSE Round(f[i - 1])]
    BY <2>1
  <2> QED
    BY <1>2, <2>2 DEF Rounds
<1>4. m - 1 \in Nat /\ m - 1 \notin T
  BY <1>1, <1>2, <1>3
<1>5. PICK g : Rounds(g, first, m - 1)
  BY <1>4
<1> DEFINE f == [i \in 0 .. m |-> IF i < m THEN g[i] ELSE Round(g[m - 1])]
<1>6. ASSUME NEW i \in 0 .. m
      PROVE  f[i] = IF i = 0 THEN first ELSE Round(f[i - 1])
  <2>1. CASE i = 0
    <3>1. 0 \in 0 .. m - 1 /\ 0 < m
      BY <1>2, <1>3
    <3>2. g[0] = first
      BY <1>5, <3>1 DEF Rounds
    <3> QED
      BY <2>1, <3>1, <3>2
  <2>2. CASE i # 0
    <3>1. i - 1 \in 0 .. m /\ i - 1 < m
      BY <1>2, <2>2
    <3>2. f[i - 1] = g[i - 1]
      BY <3>1
    <3>3. CASE i < m
      <4>1. i \in 0 .. m - 1
        BY <1>2, <3>3
      <4>2. g[i] = Round(g[i - 1])
        BY <1>5, <2>2, <4>1 DEF Rounds
      <4>3. f[i] = g[i]
        BY <3>3
      <4> HIDE DEF f
      <4> QED
        BY <2>2, <3>2, <4>2, <4>3
    <3>4. CASE i = m
      <4>1. f[i] = Round(g[i - 1])
        BY <1>2, <3>4
      <4> HIDE DEF f
      <4> QED
        BY <2>2, <3>2, <4>1
    <3> QED
      BY <1>2, <3>3, <3>4
  <2> QED
    BY <2>1, <2>2
<1>7. f = [i \in 0 .. m |-> f[i]]
  OBVIOUS
<1> HIDE DEF f
<1>8. f = [i \in 0 .. m |-> IF i = 0 THEN first ELSE Round(f[i - 1])]
  BY <1>6, <1>7
<1> QED
  BY <1>2, <1>8 DEF Rounds

LEMMA SortedRounds ==
    ASSUME NEW l
    PROVE  LET N == Cardinality(Nodes)
           IN  \E f : /\ f[0] = <<l, [Empty EXCEPT !.heap = l.heap]>>
                      /\ \A i \in 1 .. N : f[i] = Round(f[i - 1])
                      /\ Sorted(l) = f[N][2]
<1> DEFINE N == Cardinality(Nodes)
           first == <<l, [Empty EXCEPT !.heap = l.heap]>>
           f[i \in 0 .. N] == IF i = 0 THEN <<l, [Empty EXCEPT !.heap = l.heap]>>
                              ELSE IF f[i - 1][1].head = NULL THEN f[i - 1]
                                   ELSE SortRound(f[i - 1])
<1>1. f = CHOOSE g : g = [i \in 0 .. N |-> IF i = 0 THEN <<l, [Empty EXCEPT !.heap = l.heap]>>
                              ELSE IF g[i - 1][1].head = NULL THEN g[i - 1]
                                   ELSE SortRound(g[i - 1])]
  BY DEF f
<1>2. Sorted(l) = f[N][2]
  BY DEF Sorted
<1> HIDE DEF f
<1>3. f = CHOOSE g : Rounds(g, first, N)
  BY <1>1 DEF Rounds, Round
<1>4. N \in Nat
  BY Sizes
<1> HIDE DEF N, first
<1>5. Rounds(f, first, N)
  BY <1>3, <1>4, RoundsExist
<1>6. f[0] = first
  <2>1. 0 \in 0 .. N
    BY <1>4
  <2> QED
    BY <1>5, <2>1 DEF Rounds
<1>7. ASSUME NEW i \in 1 .. N
      PROVE  f[i] = Round(f[i - 1])
  <2>1. i \in 0 .. N /\ i # 0
    BY <1>4
  <2> QED
    BY <1>5, <2>1 DEF Rounds
<1> QED
  BY <1>2, <1>6, <1>7 DEF N, first

LEMMA HalvesFirst ==
    ASSUME NEW l, NEW w, Shows(l, w)
    PROVE  Halves(l, w, <<l, [Empty EXCEPT !.heap = l.heap]>>, [i \in 1 .. Len(w) |-> i], <<>>)
<1> DEFINE t == [Empty EXCEPT !.heap = l.heap]
           q == [i \in 1 .. Len(w) |-> i]
           both == <<l, t>>
<1>1. IsList(l) /\ w \in Seq(Nodes) /\ Len(w) \in Nat /\ \A i \in 1 .. Len(w) : w[i] \in Nodes
  BY HoldsNodes DEF Shows
<1>2. q \in Seq(1 .. Len(w)) /\ Len(q) = Len(w) /\ \A i \in 1 .. Len(w) : q[i] = i
  BY <1>1
<1>3. Named(w, q) = w
  <2>1. Named(w, q) = [i \in 1 .. Len(w) |-> w[i]]
    BY <1>2 DEF Named
  <2> QED
    BY <1>1, <2>1
<1>4. <<>> \in Seq(1 .. Len(w)) /\ Len(<<>>) = 0 /\ Named(w, <<>>) = <<>> /\ <<>> \in Seq(Nodes)
  BY DEF Named
<1>5. t = [heap |-> l.heap, head |-> NULL, tail |-> NULL, len |-> 0]
  BY DEF Empty
<1>6. t.heap = l.heap /\ IsList(t) /\ Holds(t, <<>>) /\ Ends(t, <<>>)
  BY <1>1, <1>4, <1>5 DEF IsList, Holds, Ends, Distinct
<1> HIDE DEF t
<1>7. both[1] = l /\ both[2] = t
  OBVIOUS
<1> HIDE DEF both, q
<1>8. \A i, j \in 1 .. Len(q) : i < j => q[i] < q[j]
  BY <1>2
<1>9. \A x \in 1 .. Len(w) : \E i \in 1 .. Len(q) : q[i] = x
  BY <1>2
<1>10. \A i \in 1 .. Len(<<>>) : FALSE
  BY <1>4
<1>11. Len(q) + Len(<<>>) = Len(w)
  BY <1>1, <1>2, <1>4
<1>12. Halves(l, w, both, q, <<>>)
  BY <1>2, <1>3, <1>4, <1>6, <1>7, <1>8, <1>9, <1>10, <1>11 DEF Halves
<1> QED
  BY <1>12 DEF both, t, q

\* One round more, or nothing left to do.
LEMMA RoundIs ==
    ASSUME NEW l, NEW w, Shows(l, w), NEW both, NEW q, NEW s, Halves(l, w, both, q, s)
    PROVE  \E q1, s1 : /\ Halves(l, w, Round(both), q1, s1)
                       /\ Len(q) > 0 => Len(q1) = Len(q) - 1
                       /\ Len(q) = 0 => Len(q1) = 0
<1>1. q \in Seq(1 .. Len(w)) /\ w \in Seq(Nodes) /\ Shows(both[1], Named(w, q))
  BY DEF Halves, Shows, Holds
<1>2. Len(Named(w, q)) = Len(q) /\ Len(q) \in Nat
  BY <1>1, NamedNodes
<1>3. Len(q) = 0 <=> both[1].head = NULL
  BY <1>1, <1>2, HoldsNodes DEF Shows
<1>4. CASE Len(q) = 0
  <2>1. Round(both) = both
    BY <1>3, <1>4 DEF Round
  <2> QED
    BY <1>4, <2>1
<1>5. CASE Len(q) > 0
  <2>1. Round(both) = SortRound(both)
    BY <1>3, <1>5 DEF Round
  <2>2. PICK k \in 1 .. Len(q) :
            Halves(l, w, SortRound(both), RemoveAt(q, k), Append(s, q[k]))
    BY <1>5, RoundHalves
  <2>3. Len(RemoveAt(q, k)) = Len(q) - 1
    BY <1>1, Removed
  <2> QED
    BY <1>5, <2>1, <2>2, <2>3
<1> QED
  BY <1>2, <1>4, <1>5

\* list_sort orders by rank and keeps the order of those that compare equal.
LEMMA SortedIs ==
    ASSUME NEW l, NEW w, Shows(l, w)
    PROVE  \E s \in Seq(1 .. Len(w)) :
              /\ Len(s) = Len(w) /\ Shows(Sorted(l), Named(w, s))
              /\ \A i, j \in 1 .. Len(s) : i < j => Less(l, w, s[i], s[j])
              /\ \A x \in 1 .. Len(w) : \E i \in 1 .. Len(s) : s[i] = x
              /\ DOMAIN Sorted(l).heap = DOMAIN l.heap
              /\ \A x \in DOMAIN l.heap : Data_(Sorted(l), x) = Data_(l, x)
<1> DEFINE N == Cardinality(Nodes)
           first == <<l, [Empty EXCEPT !.heap = l.heap]>>
<1>1. PICK f : /\ f[0] = first
               /\ \A i \in 1 .. N : f[i] = Round(f[i - 1])
               /\ Sorted(l) = f[N][2]
  BY SortedRounds
<1>2. w \in Seq(Nodes) /\ Len(w) \in Nat /\ Len(w) <= N /\ N \in Nat
  BY Sizes, Fits DEF Shows, Holds
<1> DEFINE After(i) == \E q, s : Halves(l, w, f[i], q, s) /\ Len(q) <= N - i
<1>3. After(0)
  <2>1. Halves(l, w, first, [i \in 1 .. Len(w) |-> i], <<>>)
    BY HalvesFirst
  <2>2. Len([i \in 1 .. Len(w) |-> i]) <= N - 0
    BY <1>2
  <2> QED
    BY <1>1, <2>1, <2>2
<1>4. ASSUME NEW i \in 1 .. N, After(i - 1)
      PROVE  After(i)
  <2>1. PICK q, s : Halves(l, w, f[i - 1], q, s) /\ Len(q) <= N - (i - 1)
    BY <1>4
  <2>2. q \in Seq(1 .. Len(w))
    BY <2>1 DEF Halves
  <2>3. PICK q1, s1 : /\ Halves(l, w, Round(f[i - 1]), q1, s1)
                      /\ Len(q) > 0 => Len(q1) = Len(q) - 1
                      /\ Len(q) = 0 => Len(q1) = 0
    BY <2>1, RoundIs
  <2>4. Len(q) \in Nat
    BY <2>2
  <2>5. Len(q1) <= N - i
    BY <1>2, <2>1, <2>3, <2>4
  <2>6. Halves(l, w, f[i], q1, s1)
    BY <1>1, <2>3
  <2> QED
    BY <2>5, <2>6
<1>5. After(N)
  <2> DEFINE T == {i \in 0 .. N : ~After(i)}
  <2> HIDE DEF After
  <2> SUFFICES ASSUME T # {} PROVE FALSE
    BY <1>2
  <2>1. PICK i \in T : \A j \in T : i <= j
    <3>1. T \in SUBSET Nat
      BY <1>2
    <3> HIDE DEF T
    <3> QED
      BY <3>1, LeastNat
  <2>2. i \in 0 .. N /\ ~After(i)
    OBVIOUS
  <2>3. i # 0
    BY <1>3, <2>2
  <2>4. i \in 1 .. N /\ i - 1 \in 0 .. N /\ i - 1 \notin T
    BY <1>2, <2>1, <2>2, <2>3
  <2>5. After(i - 1)
    BY <2>4
  <2> QED
    BY <1>4, <2>2, <2>4, <2>5
<1>6. PICK q, s : Halves(l, w, f[N], q, s) /\ Len(q) <= N - N
  BY <1>5
<1>7. /\ q \in Seq(1 .. Len(w)) /\ s \in Seq(1 .. Len(w)) /\ Len(q) + Len(s) = Len(w)
      /\ IsList(f[N][2]) /\ Holds(f[N][2], Named(w, s))
      /\ Len(q) = 0 => Ends(f[N][2], Named(w, s))
      /\ f[N][2].heap = f[N][1].heap
      /\ DOMAIN f[N][1].heap = DOMAIN l.heap
      /\ \A x \in DOMAIN l.heap : Data_(f[N][1], x) = Data_(l, x)
      /\ \A i, j \in 1 .. Len(s) : i < j => Less(l, w, s[i], s[j])
      /\ \A x \in 1 .. Len(w) : \/ \E i \in 1 .. Len(q) : q[i] = x
                                \/ \E i \in 1 .. Len(s) : s[i] = x
  BY <1>6 DEF Halves
<1>8. Len(q) = 0 /\ Len(s) = Len(w)
  <2>1. Len(q) \in Nat /\ Len(s) \in Nat
    BY <1>7
  <2>2. Len(q) = 0
    BY <1>2, <1>6, <2>1
  <2> QED
    BY <1>7, <2>1, <2>2
<1>9. \A i \in 1 .. Len(q) : FALSE
  BY <1>8
<1>10. \A x \in 1 .. Len(w) : \E i \in 1 .. Len(s) : s[i] = x
  BY <1>7, <1>9
<1>11. \A x \in DOMAIN l.heap : Data_(f[N][2], x) = Data_(l, x)
  BY <1>7 DEF Data_
<1>12. Shows(f[N][2], Named(w, s))
  BY <1>7, <1>8 DEF Shows
<1> QED
  BY <1>1, <1>7, <1>8, <1>10, <1>11, <1>12

-----------------------------------------------------------------------------
(* The functions: what becomes of the nodes, and of the data they hold.     *)

DataOf(l, w) == [i \in 1 .. Len(w) |-> Data_(l, w[i])]

LEMMA DataOfIs ==
    ASSUME NEW l, NEW w, Shows(l, w)
    PROVE  /\ DataOf(l, w) \in Seq(Data) /\ Len(DataOf(l, w)) = Len(w) /\ Len(w) \in Nat
           /\ \A i \in 1 .. Len(w) : /\ DataOf(l, w)[i] = Data_(l, w[i])
                                     /\ DataOf(l, w)[i] \in Data
<1>1. IsList(l) /\ Len(w) \in Nat /\ \A i \in 1 .. Len(w) : w[i] \in DOMAIN l.heap
  BY HoldsNodes DEF Shows
<1>2. \A i \in 1 .. Len(w) : Data_(l, w[i]) \in Data
  BY <1>1 DEF IsList, Cell, Data_
<1> QED
  BY <1>1, <1>2 DEF DataOf

LEMMA SameSeq ==
    ASSUME NEW S, NEW a \in Seq(S), NEW b \in Seq(S), Len(a) = Len(b),
           \A i \in 1 .. Len(a) : a[i] = b[i]
    PROVE  a = b
<1>1. a = [i \in 1 .. Len(a) |-> a[i]] /\ b = [i \in 1 .. Len(b) |-> b[i]]
  OBVIOUS
<1> QED
  BY <1>1

LEMMA InsertEnds ==
    ASSUME NEW S, NEW s \in Seq(S), NEW n \in S
    PROVE  <<n>> \o s = InsertAt(s, 1, n) /\ Append(s, n) = InsertAt(s, Len(s) + 1, n)
<1>1. Len(s) \in Nat /\ 1 \in 1 .. Len(s) + 1 /\ Len(s) + 1 \in 1 .. Len(s) + 1
  OBVIOUS
<1>4. ASSUME NEW k \in 1 .. Len(s) + 1
      PROVE  Placed(InsertAt(s, k, n), S, s, k, n)
  BY Inserted
<1>0. PICK one : one = 1
  OBVIOUS
<1>2. <<n>> \o s = InsertAt(s, 1, n)
  <2> DEFINE a == <<n>> \o s
             b == InsertAt(s, 1, n)
  <2>1. a \in Seq(S) /\ Len(a) = Len(s) + 1 /\ a[1] = n /\ \A i \in 1 .. Len(s) : a[i + 1] = s[i]
    BY Prepended
  <2>2. b \in Seq(S) /\ Len(b) = Len(s) + 1
        /\ \A i \in 1 .. Len(s) + 1 : b[i] = IF i < 1 THEN s[i] ELSE IF i = 1 THEN n ELSE s[i - 1]
    <3>1. one \in 1 .. Len(s) + 1
      BY <1>0, <1>1
    <3>2. /\ InsertAt(s, one, n) \in Seq(S) /\ Len(InsertAt(s, one, n)) = Len(s) + 1
          /\ \A i \in 1 .. Len(s) + 1 : InsertAt(s, one, n)[i] =
                IF i < one THEN s[i] ELSE IF i = one THEN n ELSE s[i - 1]
      BY <1>4, <3>1 DEF Placed
    <3> QED
      BY <1>0, <3>2
  <2> HIDE DEF a, b
  <2>3. ASSUME NEW i \in 1 .. Len(a) PROVE a[i] = b[i]
    <3>1. CASE i = 1
      BY <1>1, <2>1, <2>2, <3>1
    <3>2. CASE i # 1
      <4>1. i - 1 \in 1 .. Len(s) /\ i - 1 + 1 = i /\ i \in 1 .. Len(s) + 1 /\ ~(i < 1)
        BY <1>1, <2>1, <3>2
      <4> QED
        BY <2>1, <2>2, <3>2, <4>1
    <3> QED
      BY <3>1, <3>2
  <2>4. a = b
    BY <2>1, <2>2, <2>3, SameSeq
  <2> QED
    BY <2>4 DEF a, b
<1>3. Append(s, n) = InsertAt(s, Len(s) + 1, n)
  <2> DEFINE a == Append(s, n)
             b == InsertAt(s, Len(s) + 1, n)
  <2>1. a \in Seq(S) /\ Len(a) = Len(s) + 1 /\ a[Len(s) + 1] = n /\ \A i \in 1 .. Len(s) : a[i] = s[i]
    BY Appended
  <2>2. b \in Seq(S) /\ Len(b) = Len(s) + 1
        /\ \A i \in 1 .. Len(s) + 1 :
              b[i] = IF i < Len(s) + 1 THEN s[i] ELSE IF i = Len(s) + 1 THEN n ELSE s[i - 1]
    <3>1. PICK k : k = Len(s) + 1
      OBVIOUS
    <3>2. k \in 1 .. Len(s) + 1
      BY <1>1, <3>1
    <3>3. Placed(InsertAt(s, k, n), S, s, k, n)
      BY <1>4, <3>2
    <3>4. Placed(b, S, s, k, n)
      BY <3>1, <3>3
    <3> HIDE DEF b
    <3> QED
      BY <3>1, <3>4 DEF Placed
  <2> HIDE DEF a, b
  <2>3. ASSUME NEW i \in 1 .. Len(a) PROVE a[i] = b[i]
    <3>1. i \in 1 .. Len(s) + 1 /\ (i = Len(s) + 1 \/ (i \in 1 .. Len(s) /\ i < Len(s) + 1))
      BY <1>1, <2>1
    <3> QED
      BY <1>1, <2>1, <2>2, <3>1
  <2>4. a = b
    BY <2>1, <2>2, <2>3, SameSeq
  <2> QED
    BY <2>4 DEF a, b
<1> QED
  BY <1>2, <1>3

\* All three insertions: the k-th node is new.
LEMMA Grown ==
    ASSUME NEW l, NEW w, Shows(l, w), Whole(l, w),
           NEW n \in Nodes, n \notin DOMAIN l.heap, NEW d \in Data,
           NEW m, NEW P, NEW k \in 1 .. Len(w) + 1,
           Shows(m, InsertAt(w, k, n)), Touches(MakeNode(l, n, d), m, P)
    PROVE  /\ Whole(m, InsertAt(w, k, n))
           /\ DataOf(m, InsertAt(w, k, n)) = InsertAt(DataOf(l, w), k, d)
<1> DEFINE v == InsertAt(w, k, n)
           a == DataOf(l, w)
           b == DataOf(m, v)
           c == InsertAt(a, k, d)
<1>1. w \in Seq(Nodes) /\ Len(w) \in Nat /\ \A i \in 1 .. Len(w) : w[i] \in DOMAIN l.heap
  BY HoldsNodes DEF Shows
<1>2. v \in Seq(Nodes) /\ Len(v) = Len(w) + 1
      /\ \A i \in 1 .. Len(w) + 1 : v[i] = IF i < k THEN w[i] ELSE IF i = k THEN n ELSE w[i - 1]
  <2> HIDE DEF v
  <2>1. v = InsertAt(w, k, n)
    BY DEF v
  <2>2. /\ InsertAt(w, k, n) \in Seq(Nodes) /\ Len(InsertAt(w, k, n)) = Len(w) + 1
        /\ \A i \in 1 .. Len(w) + 1 :
              InsertAt(w, k, n)[i] = IF i < k THEN w[i] ELSE IF i = k THEN n ELSE w[i - 1]
    <3>1. Placed(InsertAt(w, k, n), Nodes, w, k, n)
      BY <1>1, Inserted
    <3> QED
      BY <3>1 DEF Placed
  <2> QED
    BY <2>1, <2>2
<1>3. /\ DOMAIN m.heap = DOMAIN l.heap \cup {n} /\ Data_(m, n) = d
      /\ \A x \in DOMAIN l.heap : Data_(m, x) = Data_(l, x)
  BY Made DEF Touches
<1>4. /\ a \in Seq(Data) /\ Len(a) = Len(w)
      /\ \A i \in 1 .. Len(w) : a[i] = Data_(l, w[i])
  BY DataOfIs
<1>5. /\ b \in Seq(Data) /\ Len(b) = Len(v)
      /\ \A i \in 1 .. Len(v) : b[i] = Data_(m, v[i])
  <2> HIDE DEF v
  <2>1. Shows(m, v)
    BY DEF v
  <2> QED
    BY <2>1, DataOfIs
<1> HIDE DEF a
<1>6. c \in Seq(Data) /\ Len(c) = Len(w) + 1
      /\ \A i \in 1 .. Len(w) + 1 : c[i] = IF i < k THEN a[i] ELSE IF i = k THEN d ELSE a[i - 1]
  <2>1. Placed(InsertAt(a, k, d), Data, a, k, d)
    BY <1>4, Inserted
  <2> QED
    BY <1>4, <2>1 DEF Placed
<1> HIDE DEF v, b, c
<1>7. ASSUME NEW i \in 1 .. Len(w) + 1 PROVE b[i] = c[i]
  <2>1. CASE i < k
    <3>1. i \in 1 .. Len(w)
      BY <1>1, <2>1
    <3> QED
      BY <1>1, <1>2, <1>3, <1>4, <1>5, <1>6, <2>1, <3>1
  <2>2. CASE i = k
    BY <1>2, <1>3, <1>5, <1>6, <2>2
  <2>3. CASE i > k
    <3>1. i - 1 \in 1 .. Len(w) /\ ~(i < k) /\ i # k
      BY <1>1, <2>3
    <3>2. v[i] = w[i - 1] /\ c[i] = a[i - 1]
      BY <1>2, <1>6, <3>1
    <3> QED
      BY <1>1, <1>2, <1>3, <1>4, <1>5, <3>1, <3>2
  <2> QED
    BY <1>1, <2>1, <2>2, <2>3
<1>8. b = c
  BY <1>2, <1>5, <1>6, <1>7, SameSeq
<1>9. Whole(m, v)
  <2> SUFFICES ASSUME NEW x \in DOMAIN m.heap PROVE \E i \in 1 .. Len(v) : v[i] = x
    BY DEF Whole
  <2>1. CASE x = n
    BY <1>2, <2>1
  <2>2. CASE x \in DOMAIN l.heap
    <3>1. PICK i \in 1 .. Len(w) : w[i] = x
      BY <2>2 DEF Whole
    <3>2. CASE i < k
      BY <1>1, <1>2, <3>1, <3>2
    <3>3. CASE ~(i < k)
      <4>1. i + 1 \in 1 .. Len(w) + 1 /\ ~(i + 1 < k) /\ i + 1 # k /\ i + 1 - 1 = i
        BY <1>1, <3>3
      <4> QED
        BY <1>2, <3>1, <4>1
    <3> QED
      BY <3>2, <3>3
  <2> QED
    BY <1>3, <2>1, <2>2
<1> QED
  BY <1>8, <1>9 DEF v, b, c, a

LEMMA AtHead ==
    ASSUME NEW l, NEW w, Shows(l, w), Whole(l, w),
           NEW n \in Nodes, n \notin DOMAIN l.heap, NEW d \in Data
    PROVE  LET m == LinkFirst(MakeNode(l, n, d), n)
               v == <<n>> \o w
           IN  Shows(m, v) /\ Whole(m, v) /\ DataOf(m, v) = <<d>> \o DataOf(l, w)
<1> DEFINE a == MakeNode(l, n, d)
           m == LinkFirst(a, n)
<1>1. /\ Shows(a, w) /\ n \in DOMAIN a.heap /\ Next_(a, n) = NULL
      /\ \A i \in 1 .. Len(w) : w[i] # n
  BY Made
<1>2. Shows(m, <<n>> \o w) /\ Touches(a, m, {n})
  <2> HIDE DEF a
  <2> QED
    BY <1>1, LinkedFirst
<1>3. w \in Seq(Nodes) /\ Len(w) \in Nat /\ DataOf(l, w) \in Seq(Data)
  BY DataOfIs DEF Shows, Holds
<1>4. <<n>> \o w = InsertAt(w, 1, n) /\ <<d>> \o DataOf(l, w) = InsertAt(DataOf(l, w), 1, d)
  BY <1>3, InsertEnds
<1>5. PICK one : one = 1
  OBVIOUS
<1>6. one \in 1 .. Len(w) + 1
  BY <1>3, <1>5
<1> HIDE DEF m
<1>7. Shows(m, InsertAt(w, one, n))
  BY <1>2, <1>4, <1>5
<1>8. /\ Whole(m, InsertAt(w, one, n))
      /\ DataOf(m, InsertAt(w, one, n)) = InsertAt(DataOf(l, w), one, d)
  BY <1>2, <1>6, <1>7, Grown
<1> QED
  BY <1>2, <1>4, <1>5, <1>8 DEF m

LEMMA AtTail ==
    ASSUME NEW l, NEW w, Shows(l, w), Whole(l, w),
           NEW n \in Nodes, n \notin DOMAIN l.heap, NEW d \in Data
    PROVE  LET m == LinkLast(MakeNode(l, n, d), n)
               v == Append(w, n)
           IN  Shows(m, v) /\ Whole(m, v) /\ DataOf(m, v) = Append(DataOf(l, w), d)
<1> DEFINE a == MakeNode(l, n, d)
           m == LinkLast(a, n)
           P == {x \in Nodes : Len(w) > 0 /\ x = w[Len(w)]}
<1>1. /\ Shows(a, w) /\ n \in DOMAIN a.heap /\ Next_(a, n) = NULL
      /\ \A i \in 1 .. Len(w) : w[i] # n
  BY Made
<1>2. IsList(m) /\ Holds(m, Append(w, n)) /\ Touches(a, m, P)
  <2> HIDE DEF a
  <2> QED
    BY <1>1, LinkedLast DEF Shows
<1>3. w \in Seq(Nodes) /\ Len(w) \in Nat /\ DataOf(l, w) \in Seq(Data) /\ Len(DataOf(l, w)) = Len(w)
  BY DataOfIs DEF Shows, Holds
<1>4. Append(w, n) = InsertAt(w, Len(w) + 1, n)
      /\ Append(DataOf(l, w), d) = InsertAt(DataOf(l, w), Len(w) + 1, d)
  BY <1>3, InsertEnds
<1> HIDE DEF m, a
<1>5. Shows(m, Append(w, n))
  <2>1. n \notin P
    <3>1. Len(w) > 0 => Len(w) \in 1 .. Len(w)
      BY <1>3
    <3> QED
      BY <1>1, <3>1
  <2>2. Next_(m, n) = NULL
    <3> HIDE DEF P
    <3> QED
      BY <1>1, <1>2, <2>1 DEF Touches
  <2>3. Len(Append(w, n)) = Len(w) + 1 /\ Append(w, n)[Len(w) + 1] = n
    BY <1>3, Appended
  <2>4. Ends(m, Append(w, n))
    BY <2>2, <2>3 DEF Ends
  <2> QED
    BY <1>2, <2>4 DEF Shows
<1>6. Len(w) + 1 \in 1 .. Len(w) + 1
  BY <1>3
<1>7. PICK k : k = Len(w) + 1
  OBVIOUS
<1>8. k \in 1 .. Len(w) + 1 /\ Shows(m, InsertAt(w, k, n)) /\ Touches(MakeNode(l, n, d), m, P)
  BY <1>2, <1>4, <1>5, <1>6, <1>7 DEF a
<1>9. /\ Whole(m, InsertAt(w, k, n))
      /\ DataOf(m, InsertAt(w, k, n)) = InsertAt(DataOf(l, w), k, d)
  <2> HIDE DEF P
  <2> QED
    BY <1>8, Grown
<1> QED
  BY <1>4, <1>5, <1>7, <1>9 DEF m, a

LEMMA AtPlace ==
    ASSUME NEW l, NEW w, Shows(l, w), Whole(l, w),
           NEW n \in Nodes, n \notin DOMAIN l.heap, NEW d \in Data, NEW k \in 1 .. Len(w) - 1
    PROVE  LET m == LinkAfter(MakeNode(l, n, d), w[k], n)
               v == InsertAt(w, k + 1, n)
           IN  Shows(m, v) /\ Whole(m, v) /\ DataOf(m, v) = InsertAt(DataOf(l, w), k + 1, d)
<1> DEFINE a == MakeNode(l, n, d)
           m == LinkAfter(a, w[k], n)
           P == {n, w[k]}
<1>1. /\ Shows(a, w) /\ n \in DOMAIN a.heap
      /\ \A i \in 1 .. Len(w) : w[i] # n
  BY Made
<1>2. Shows(m, InsertAt(w, k + 1, n)) /\ Touches(a, m, P)
  <2> HIDE DEF a
  <2> QED
    BY <1>1, LinkedAfter
<1>3. Len(w) \in Nat
  BY DataOfIs
<1>4. PICK j : j = k + 1
  OBVIOUS
<1> HIDE DEF m, P
<1>5. j \in 1 .. Len(w) + 1 /\ Shows(m, InsertAt(w, j, n)) /\ Touches(MakeNode(l, n, d), m, P)
  BY <1>2, <1>3, <1>4
<1>6. /\ Whole(m, InsertAt(w, j, n))
      /\ DataOf(m, InsertAt(w, j, n)) = InsertAt(DataOf(l, w), j, d)
  BY <1>5, Grown
<1> QED
  BY <1>2, <1>4, <1>6 DEF m

\* delete_node and the free that follows it.
LEMMA Dropped ==
    ASSUME NEW l, NEW w, Shows(l, w), Whole(l, w), NEW k \in 1 .. Len(w)
    PROVE  LET m == Free(Unlink(l, w[k]), w[k])
               v == RemoveAt(w, k)
           IN  Shows(m, v) /\ Whole(m, v) /\ DataOf(m, v) = RemoveAt(DataOf(l, w), k)
<1> DEFINE a == Unlink(l, w[k])
           m == Free(a, w[k])
           v == RemoveAt(w, k)
           P == {x \in Nodes : k > 1 /\ x = w[k - 1]}
           x1 == DataOf(l, w)
           x2 == RemoveAt(x1, k)
           x3 == DataOf(m, v)
<1>1. /\ w \in Seq(Nodes) /\ Len(w) \in Nat
      /\ \A i \in 1 .. Len(w) : w[i] \in DOMAIN l.heap
      /\ \A i, j \in 1 .. Len(w) : w[i] = w[j] => i = j
  BY HoldsNodes DEF Shows
<1>2. Shows(a, v) /\ Touches(l, a, P)
  BY Unlinked
<1>3. v \in Seq(Nodes) /\ Len(v) = Len(w) - 1
      /\ \A i \in 1 .. Len(w) - 1 : v[i] = IF i < k THEN w[i] ELSE w[i + 1]
  BY <1>1, Removed
<1> HIDE DEF a, v, P
<1>4. \A i \in 1 .. Len(v) : v[i] # w[k]
  <2> SUFFICES ASSUME NEW i \in 1 .. Len(v) PROVE v[i] # w[k]
    OBVIOUS
  <2>1. i \in 1 .. Len(w) - 1 /\ i \in 1 .. Len(w) /\ i + 1 \in 1 .. Len(w) /\ (i < k => i # k)
        /\ (~(i < k) => i + 1 # k)
    BY <1>1, <1>3
  <2> QED
    BY <1>1, <1>3, <2>1
<1>5. Shows(m, v) /\ DOMAIN m.heap = DOMAIN a.heap \ {w[k]}
      /\ \A x \in DOMAIN m.heap : Data_(m, x) = Data_(a, x)
  BY <1>2, <1>4, Freed
<1> HIDE DEF m
<1>6. DOMAIN m.heap = DOMAIN l.heap \ {w[k]} /\ \A x \in DOMAIN m.heap : Data_(m, x) = Data_(l, x)
  BY <1>2, <1>5 DEF Touches
<1>7. Whole(m, v)
  <2> SUFFICES ASSUME NEW x \in DOMAIN m.heap PROVE \E i \in 1 .. Len(v) : v[i] = x
    BY DEF Whole
  <2>1. PICK i \in 1 .. Len(w) : w[i] = x
    BY <1>6 DEF Whole
  <2>2. i # k
    BY <1>6, <2>1
  <2>3. CASE i < k
    <3>1. i \in 1 .. Len(w) - 1
      BY <1>1, <2>3
    <3> QED
      BY <1>3, <2>1, <2>3, <3>1
  <2>4. CASE i > k
    <3>1. i - 1 \in 1 .. Len(w) - 1 /\ ~(i - 1 < k) /\ i - 1 + 1 = i
      BY <1>1, <2>4
    <3> QED
      BY <1>3, <2>1, <3>1
  <2> QED
    BY <1>1, <2>2, <2>3, <2>4
<1>8. /\ x1 \in Seq(Data) /\ Len(x1) = Len(w)
      /\ \A i \in 1 .. Len(w) : x1[i] = Data_(l, w[i])
  BY DataOfIs
<1>9. /\ x3 \in Seq(Data) /\ Len(x3) = Len(v)
      /\ \A i \in 1 .. Len(v) : x3[i] = Data_(m, v[i])
  BY <1>5, DataOfIs
<1> HIDE DEF x1
<1>10. x2 \in Seq(Data) /\ Len(x2) = Len(w) - 1
       /\ \A i \in 1 .. Len(w) - 1 : x2[i] = IF i < k THEN x1[i] ELSE x1[i + 1]
  BY <1>8, Removed
<1> HIDE DEF x2, x3
<1>11. ASSUME NEW i \in 1 .. Len(w) - 1 PROVE x3[i] = x2[i]
  <2>1. i \in 1 .. Len(v) /\ i \in 1 .. Len(w) /\ i + 1 \in 1 .. Len(w)
    BY <1>1, <1>3
  <2>2. v[i] \in DOMAIN m.heap
    BY <1>1, <1>3, <1>4, <1>6, <2>1
  <2>3. x3[i] = Data_(l, v[i])
    BY <1>6, <1>9, <2>1, <2>2
  <2> QED
    BY <1>3, <1>8, <1>10, <2>1, <2>3
<1>12. x3 = x2
  BY <1>3, <1>9, <1>10, <1>11, SameSeq
<1> QED
  BY <1>5, <1>7, <1>12 DEF m, v, x1, x2, x3, a

LEMMA TurnedRound ==
    ASSUME NEW l, NEW w, Shows(l, w), Whole(l, w)
    PROVE  LET m == Reversed(l)
               v == Reverse(w)
           IN  Shows(m, v) /\ Whole(m, v) /\ DataOf(m, v) = Reverse(DataOf(l, w))
<1> DEFINE m == Reversed(l)
           v == Reverse(w)
           a == DataOf(l, w)
           b == Reverse(a)
           c == DataOf(m, v)
<1>1. w \in Seq(Nodes) /\ Len(w) \in Nat /\ \A i \in 1 .. Len(w) : w[i] \in DOMAIN l.heap
  BY HoldsNodes DEF Shows
<1>2. Shows(m, v) /\ Touches(l, m, Nodes)
  BY Turned
<1>3. v \in Seq(Nodes) /\ Len(v) = Len(w) /\ \A i \in 1 .. Len(w) : v[i] = w[Len(w) - i + 1]
  BY <1>1 DEF Reverse
<1>4. a \in Seq(Data) /\ Len(a) = Len(w) /\ \A i \in 1 .. Len(w) : a[i] = Data_(l, w[i])
  BY DataOfIs
<1> HIDE DEF a
<1>5. b \in Seq(Data) /\ Len(b) = Len(w) /\ \A i \in 1 .. Len(w) : b[i] = a[Len(w) - i + 1]
  BY <1>1, <1>4 DEF Reverse
<1> HIDE DEF m, v
<1>6. c \in Seq(Data) /\ Len(c) = Len(v) /\ \A i \in 1 .. Len(v) : c[i] = Data_(m, v[i])
  BY <1>2, DataOfIs
<1> HIDE DEF b, c
<1>7. \A i \in 1 .. Len(w) : Len(w) - i + 1 \in 1 .. Len(w) /\ Len(w) - (Len(w) - i + 1) + 1 = i
  BY <1>1
<1>8. ASSUME NEW i \in 1 .. Len(c) PROVE c[i] = b[i]
  <2>1. i \in 1 .. Len(w) /\ Len(w) - i + 1 \in 1 .. Len(w)
    BY <1>3, <1>6, <1>7
  <2>2. v[i] = w[Len(w) - i + 1] /\ c[i] = Data_(m, v[i]) /\ b[i] = a[Len(w) - i + 1]
    BY <1>3, <1>5, <1>6, <2>1
  <2>3. PICK j \in 1 .. Len(w) : j = Len(w) - i + 1
    BY <2>1
  <2>4. w[j] \in DOMAIN l.heap /\ a[j] = Data_(l, w[j])
    BY <1>1, <1>4
  <2>5. Data_(m, w[j]) = Data_(l, w[j])
    BY <1>2, <2>4 DEF Touches
  <2> QED
    BY <2>2, <2>3, <2>4, <2>5
<1>9. c = b
  BY <1>3, <1>5, <1>6, <1>8, SameSeq
<1>10. Whole(m, v)
  <2> SUFFICES ASSUME NEW x \in DOMAIN m.heap PROVE \E i \in 1 .. Len(v) : v[i] = x
    BY DEF Whole
  <2>1. PICK i \in 1 .. Len(w) : w[i] = x
    BY <1>2 DEF Whole, Touches
  <2>2. Len(w) - i + 1 \in 1 .. Len(v) /\ v[Len(w) - i + 1] = w[i]
    BY <1>3, <1>7
  <2> QED
    BY <2>1, <2>2
<1> QED
  BY <1>2, <1>9, <1>10 DEF m, v, a, b, c

LEMMA SortedRound ==
    ASSUME NEW l, NEW w, Shows(l, w), Whole(l, w)
    PROVE  \E v \in Seq(Nodes) :
              LET m == Sorted(l)
                  a == DataOf(l, w)
                  b == DataOf(m, v)
              IN  /\ Shows(m, v) /\ Whole(m, v)
                  /\ \E p \in Bijection(DOMAIN a, DOMAIN a) :
                        /\ b = [i \in DOMAIN a |-> a[p[i]]]
                        /\ \A i, j \in DOMAIN a : i < j =>
                              \/ Rank[a[p[i]]] < Rank[a[p[j]]]
                              \/ Rank[a[p[i]]] = Rank[a[p[j]]] /\ p[i] < p[j]
<1> DEFINE m == Sorted(l)
           a == DataOf(l, w)
<1>1. PICK s \in Seq(1 .. Len(w)) :
              /\ Len(s) = Len(w) /\ Shows(m, Named(w, s))
              /\ \A i, j \in 1 .. Len(s) : i < j => Less(l, w, s[i], s[j])
              /\ \A x \in 1 .. Len(w) : \E i \in 1 .. Len(s) : s[i] = x
              /\ DOMAIN m.heap = DOMAIN l.heap
              /\ \A x \in DOMAIN l.heap : Data_(m, x) = Data_(l, x)
  BY SortedIs
<1> DEFINE v == Named(w, s)
           b == DataOf(m, v)
           D == 1 .. Len(w)
<1>2. w \in Seq(Nodes) /\ Len(w) \in Nat /\ \A i \in D : w[i] \in DOMAIN l.heap
  BY HoldsNodes DEF Shows
<1>3. /\ v \in Seq(Nodes) /\ Len(v) = Len(w)
      /\ \A i \in D : s[i] \in D /\ v[i] = w[s[i]]
  <2>1. /\ v \in Seq(Nodes) /\ Len(v) = Len(s)
        /\ \A i \in 1 .. Len(s) : s[i] \in D /\ v[i] = w[s[i]]
    BY <1>2, NamedNodes
  <2>2. Len(s) = Len(w)
    BY <1>1
  <2> QED
    BY <2>1, <2>2
<1>4. a \in Seq(Data) /\ Len(a) = Len(w) /\ \A i \in D : a[i] = Data_(l, w[i])
  BY DataOfIs
<1> HIDE DEF m, v, a
<1>5. Shows(m, v)
  BY <1>1 DEF v
<1>6. b \in Seq(Data) /\ Len(b) = Len(v) /\ \A i \in 1 .. Len(v) : b[i] = Data_(m, v[i])
  BY <1>5, DataOfIs
<1> HIDE DEF b
<1>7. DOMAIN a = D
  BY <1>4
<1>8. s \in [D -> D]
  <2>1. s = [i \in 1 .. Len(s) |-> s[i]]
    OBVIOUS
  <2> HIDE DEF D
  <2> QED
    BY <1>1, <1>3, <2>1 DEF D
<1>9. \A i \in D : /\ a[s[i]] = Data_(l, w[s[i]]) /\ Rank[a[s[i]]] = Value(l, w[s[i]])
                   /\ Value(l, w[s[i]]) \in Int /\ s[i] \in Nat
  <2> SUFFICES ASSUME NEW i \in D
               PROVE  /\ a[s[i]] = Data_(l, w[s[i]]) /\ Rank[a[s[i]]] = Value(l, w[s[i]])
                      /\ Value(l, w[s[i]]) \in Int /\ s[i] \in Nat
    OBVIOUS
  <2>1. s[i] \in D
    BY <1>3
  <2>2. Value(l, w[s[i]]) \in Int
    BY <2>1, ValuesKept
  <2> QED
    BY <1>4, <2>1, <2>2 DEF Value
<1>10. \A i, j \in D : i < j =>
          \/ Rank[a[s[i]]] < Rank[a[s[j]]]
          \/ Rank[a[s[i]]] = Rank[a[s[j]]] /\ s[i] < s[j]
  <2> SUFFICES ASSUME NEW i \in D, NEW j \in D, i < j
               PROVE  \/ Rank[a[s[i]]] < Rank[a[s[j]]]
                      \/ Rank[a[s[i]]] = Rank[a[s[j]]] /\ s[i] < s[j]
    OBVIOUS
  <2>1. Less(l, w, s[i], s[j])
    BY <1>1
  <2> QED
    BY <1>9, <2>1 DEF Less
<1>11. s \in Bijection(D, D)
  <2>1. \A i, j \in D : s[i] = s[j] => i = j
    <3> SUFFICES ASSUME NEW i \in D, NEW j \in D, s[i] = s[j], i < j PROVE FALSE
      BY <1>2
    <3> QED
      BY <1>9, <1>10
  <2>2. \A x \in D : \E i \in D : s[i] = x
    BY <1>1
  <2> HIDE DEF D
  <2> QED
    BY <1>8, <2>1, <2>2 DEF Bijection, Injection, Surjection, IsInjective
<1>12. b = [i \in D |-> a[s[i]]]
  <2>1. \A i \in D : b[i] = a[s[i]]
    <3> SUFFICES ASSUME NEW i \in D PROVE b[i] = a[s[i]]
      OBVIOUS
    <3>1. s[i] \in D /\ v[i] = w[s[i]] /\ b[i] = Data_(m, v[i])
      BY <1>3, <1>6
    <3>2. w[s[i]] \in DOMAIN l.heap
      BY <1>2, <3>1
    <3>3. Data_(m, w[s[i]]) = Data_(l, w[s[i]])
      BY <1>1, <3>2
    <3> QED
      BY <1>9, <3>1, <3>3
  <2>2. b = [i \in 1 .. Len(b) |-> b[i]]
    BY <1>6
  <2> QED
    BY <1>3, <1>6, <2>1, <2>2
<1>13. Whole(m, v)
  <2> SUFFICES ASSUME NEW x \in DOMAIN m.heap PROVE \E i \in 1 .. Len(v) : v[i] = x
    BY DEF Whole
  <2>1. PICK k \in D : w[k] = x
    BY <1>1 DEF Whole
  <2>2. PICK i \in D : s[i] = k
    BY <1>1
  <2> QED
    BY <1>3, <2>1, <2>2
<1> HIDE DEF D
<1>14. \E p \in Bijection(D, D) :
          /\ b = [i \in D |-> a[p[i]]]
          /\ \A i, j \in D : i < j =>
                \/ Rank[a[p[i]]] < Rank[a[p[j]]]
                \/ Rank[a[p[i]]] = Rank[a[p[j]]] /\ p[i] < p[j]
  BY <1>10, <1>11, <1>12
<1> QED
  BY <1>3, <1>5, <1>7, <1>13, <1>14 DEF m, v, a, b

LEMMA Destroyed ==
    ASSUME NEW l, NEW w, Shows(l, w), Whole(l, w)
    PROVE  LET m == [Empty EXCEPT !.heap = Restrict(l.heap, DOMAIN l.heap \ ToSet(Walk(l)))]
           IN  Shows(m, <<>>) /\ Whole(m, <<>>) /\ DataOf(m, <<>>) = <<>>
<1> DEFINE m == [Empty EXCEPT !.heap = Restrict(l.heap, DOMAIN l.heap \ ToSet(Walk(l)))]
<1>1. Walk(l) = w /\ w \in Seq(Nodes)
  BY WalkIs DEF Shows, Holds
<1>2. DOMAIN l.heap \ ToSet(Walk(l)) = {}
  BY <1>1 DEF Whole, ToSet
<1>3. m = [heap |-> Restrict(l.heap, {}), head |-> NULL, tail |-> NULL, len |-> 0]
  <2>1. PICK h : h = Restrict(l.heap, {})
    OBVIOUS
  <2>2. m = [Empty EXCEPT !.heap = h]
    BY <1>2, <2>1
  <2>3. [Empty EXCEPT !.heap = h] = [heap |-> h, head |-> NULL, tail |-> NULL, len |-> 0]
    BY DEF Empty
  <2> QED
    BY <2>1, <2>2, <2>3
<1>4. DOMAIN Restrict(l.heap, {}) = {} /\ Restrict(l.heap, {}) \in [{} -> Cell]
  BY DEF Restrict
<1>5. <<>> \in Seq(Nodes) /\ Len(<<>>) = 0
  OBVIOUS
<1> HIDE DEF m
<1>6. IsList(m) /\ DOMAIN m.heap = {}
  BY <1>3, <1>4 DEF IsList
<1>7. Shows(m, <<>>)
  BY <1>3, <1>5, <1>6 DEF Shows, Holds, Ends, Distinct
<1> QED
  BY <1>6, <1>7 DEF m, Whole, DataOf

LEMMA Begun ==
    ASSUME NEW l, l = Empty
    PROVE  Shows(l, <<>>) /\ Whole(l, <<>>) /\ DataOf(l, <<>>) = <<>>
<1>1. l = [heap |-> << >>, head |-> NULL, tail |-> NULL, len |-> 0]
  BY DEF Empty
<1>2. DOMAIN << >> = {} /\ << >> \in [{} -> Cell] /\ <<>> \in Seq(Nodes) /\ Len(<<>>) = 0
  OBVIOUS
<1>3. IsList(l) /\ DOMAIN l.heap = {}
  BY <1>1, <1>2 DEF IsList
<1>4. Shows(l, <<>>)
  BY <1>1, <1>2, <1>3 DEF Shows, Holds, Ends, Distinct
<1> QED
  BY <1>3, <1>4 DEF Whole, DataOf

-----------------------------------------------------------------------------
(* One step, on the nodes and on the data.                                  *)

\* What LinkSeq lets become of a sequence.
Becomes(a, b) ==
    \/ \E d \in Data : b \in {Append(a, d), <<d>> \o a}
    \/ \E d \in Data, i \in 0 .. Len(a) : LET k == IF i < 1 THEN 1 ELSE i
                                          IN  k <= Len(a) /\ b = InsertAt(a, k + 1, d)
    \/ \E r \in 1 .. MaxRank : \E i \in DOMAIN a : /\ Rank[a[i]] = r
                                                   /\ \A j \in 1 .. i - 1 : Rank[a[j]] # r
                                                   /\ b = RemoveAt(a, i)
    \/ \E i \in DOMAIN a : b = RemoveAt(a, i)
    \/ \E p \in Bijection(DOMAIN a, DOMAIN a) :
          /\ b = [i \in DOMAIN a |-> a[p[i]]]
          /\ \A i, j \in DOMAIN a : i < j =>
                \/ Rank[a[p[i]]] < Rank[a[p[j]]]
                \/ Rank[a[p[i]]] = Rank[a[p[j]]] /\ p[i] < p[j]
    \/ b = Reverse(a)
    \/ b = <<>>

Goes(w, v) == Shows(list', v) /\ Whole(list', v) /\ Becomes(DataOf(list, w), DataOf(list', v))

LEMMA PlaceGoes ==
    ASSUME NEW w, Shows(list, w), Whole(list, w), NEW d \in Data,
           NEW i \in 0 .. Cardinality(Nodes), i < list.len, list.len > 1, InsertAtIndex(d, i)
    PROVE  \E v \in Seq(Nodes) : Goes(w, v)
<1>1. w \in Seq(Nodes) /\ Len(w) \in Nat /\ list.len = Len(w)
  BY HoldsNodes DEF Shows, Holds
<1>2. Cardinality(Nodes) \in Nat
  BY Sizes
<1> DEFINE k == IF i < 1 THEN 1 ELSE i
<1>3. k \in 1 .. Len(w) - 1 /\ k \in 1 .. Len(w) /\ k - 1 \in 0 .. Cardinality(Nodes) /\ k - 1 < Len(w)
  BY <1>1, <1>2
<1>4. (IF i - 1 < 0 THEN 0 ELSE i - 1) = k - 1 /\ k - 1 + 1 = k
  BY <1>2
<1> HIDE DEF k
<1>5. NodeAt(list, i - 1) = w[k]
  <2>1. Chain(list)[k - 1] = w[k]
    BY <1>3, <1>4, ChainIs
  <2>2. NodeAt(list, i - 1) = Chain(list)[IF i - 1 < 0 THEN 0 ELSE i - 1]
    BY DEF NodeAt
  <2> QED
    BY <1>4, <2>1, <2>2
<1>6. PICK n \in Fresh : list' = LinkAfter(MakeNode(list, n, d), w[k], n)
  BY <1>5 DEF InsertAtIndex
<1>7. n \in Nodes /\ n \notin DOMAIN list.heap
  BY DEF Fresh
<1> DEFINE v == InsertAt(w, k + 1, n)
           a == DataOf(list, w)
<1>8. /\ Shows(list', v) /\ Whole(list', v)
      /\ DataOf(list', v) = InsertAt(a, k + 1, d)
  BY <1>3, <1>6, <1>7, AtPlace
<1>9. Len(a) = Len(w)
  BY DataOfIs
<1>10. v \in Seq(Nodes)
  BY <1>8 DEF Shows, Holds
<1> HIDE DEF v, a
<1>11. i \in 0 .. Len(a) /\ k <= Len(a)
  BY <1>1, <1>3, <1>9
<1>12. Becomes(a, DataOf(list', v))
  BY <1>8, <1>11 DEF Becomes, k
<1> QED
  BY <1>8, <1>10, <1>12 DEF Goes, a

LEMMA DropGoes ==
    ASSUME NEW w, Shows(list, w), Whole(list, w), NEW k \in 1 .. Len(w),
           list' = Free(Unlink(list, w[k]), w[k])
    PROVE  \E v \in Seq(Nodes) : Goes(w, v)
<1> DEFINE v == RemoveAt(w, k)
           a == DataOf(list, w)
<1>1. Shows(list', v) /\ Whole(list', v) /\ DataOf(list', v) = RemoveAt(a, k)
  BY Dropped
<1>2. v \in Seq(Nodes)
  BY <1>1 DEF Shows, Holds
<1>3. k \in DOMAIN a
  BY DEF DataOf
<1> HIDE DEF v, a
<1>4. Becomes(a, DataOf(list', v))
  BY <1>1, <1>3 DEF Becomes
<1> QED
  BY <1>1, <1>2, <1>4 DEF Goes, a

LEMMA DeleteGoes ==
    ASSUME NEW w, Shows(list, w), Whole(list, w), NEW r \in 1 .. MaxRank, Delete(r)
    PROVE  \E v \in Seq(Nodes) : Goes(w, v)
<1>1. Walk(list) = w /\ DOMAIN w = 1 .. Len(w)
  BY WalkIs DEF Shows, Holds
<1>2. PICK k \in 1 .. Len(w) : list' = Free(Unlink(list, w[k]), w[k])
  BY <1>1 DEF Delete
<1> QED
  BY <1>2, DropGoes

LEMMA DeleteAtGoes ==
    ASSUME NEW w, Shows(list, w), Whole(list, w),
           NEW i \in 0 .. Cardinality(Nodes), DeleteAtIndex(i)
    PROVE  \E v \in Seq(Nodes) : Goes(w, v)
<1>1. Len(w) \in Nat /\ Cardinality(Nodes) \in Nat
  BY HoldsNodes, Sizes DEF Shows
<1>2. NodeAt(list, i) = IF i < Len(w) THEN w[i + 1] ELSE NULL
  <2>1. (IF i < 0 THEN 0 ELSE i) = i
    BY <1>1
  <2>2. NodeAt(list, i) = Chain(list)[i]
    BY <2>1 DEF NodeAt
  <2> QED
    BY <2>2, ChainIs
<1>3. i < Len(w) /\ list' = Free(Unlink(list, w[i + 1]), w[i + 1])
  BY <1>2 DEF DeleteAtIndex
<1>4. PICK k \in 1 .. Len(w) : k = i + 1
  BY <1>1, <1>3
<1>5. list' = Free(Unlink(list, w[k]), w[k])
  BY <1>3, <1>4
<1> QED
  BY <1>5, DropGoes

LEMMA NextGoes ==
    ASSUME "index" \notin Calls, NEW w, Shows(list, w), Whole(list, w), Next
    PROVE  \E v \in Seq(Nodes) : Goes(w, v)
<1> DEFINE a == DataOf(list, w)
<1>1. ASSUME NEW d \in Data, InsertAtHead(d)
      PROVE  \E v \in Seq(Nodes) : Goes(w, v)
  <2>1. PICK n \in Nodes : n \notin DOMAIN list.heap /\ list' = LinkFirst(MakeNode(list, n, d), n)
    BY <1>1 DEF InsertAtHead, Fresh
  <2>2. /\ Shows(list', <<n>> \o w) /\ Whole(list', <<n>> \o w)
        /\ DataOf(list', <<n>> \o w) = <<d>> \o a
    BY <2>1, AtHead
  <2>3. <<n>> \o w \in Seq(Nodes)
    BY <2>2 DEF Shows, Holds
  <2> HIDE DEF a
  <2>4. Becomes(a, DataOf(list', <<n>> \o w))
    BY <2>2 DEF Becomes
  <2> QED
    BY <2>2, <2>3, <2>4 DEF Goes, a
<1>2. ASSUME NEW d \in Data, InsertAtTail(d)
      PROVE  \E v \in Seq(Nodes) : Goes(w, v)
  <2>1. PICK n \in Nodes : n \notin DOMAIN list.heap /\ list' = LinkLast(MakeNode(list, n, d), n)
    BY <1>2 DEF InsertAtTail, Fresh
  <2>2. /\ Shows(list', Append(w, n)) /\ Whole(list', Append(w, n))
        /\ DataOf(list', Append(w, n)) = Append(a, d)
    BY <2>1, AtTail
  <2>3. Append(w, n) \in Seq(Nodes)
    BY <2>2 DEF Shows, Holds
  <2> HIDE DEF a
  <2>4. Becomes(a, DataOf(list', Append(w, n)))
    BY <2>2 DEF Becomes
  <2> QED
    BY <2>2, <2>3, <2>4 DEF Goes, a
<1>3. ASSUME list' = Sorted(list)
      PROVE  \E v \in Seq(Nodes) : Goes(w, v)
  <2>1. PICK v \in Seq(Nodes) :
           /\ Shows(list', v) /\ Whole(list', v)
           /\ \E p \in Bijection(DOMAIN a, DOMAIN a) :
                 /\ DataOf(list', v) = [i \in DOMAIN a |-> a[p[i]]]
                 /\ \A i, j \in DOMAIN a : i < j =>
                       \/ Rank[a[p[i]]] < Rank[a[p[j]]]
                       \/ Rank[a[p[i]]] = Rank[a[p[j]]] /\ p[i] < p[j]
    <3>1. \E v \in Seq(Nodes) :
             LET m == Sorted(list)
                 b == DataOf(m, v)
             IN  /\ Shows(m, v) /\ Whole(m, v)
                 /\ \E p \in Bijection(DOMAIN a, DOMAIN a) :
                       /\ b = [i \in DOMAIN a |-> a[p[i]]]
                       /\ \A i, j \in DOMAIN a : i < j =>
                             \/ Rank[a[p[i]]] < Rank[a[p[j]]]
                             \/ Rank[a[p[i]]] = Rank[a[p[j]]] /\ p[i] < p[j]
      BY SortedRound, Zenon
    <3> HIDE DEF a
    <3> QED
      BY <1>3, <3>1, Zenon
  <2> HIDE DEF a
  <2>2. Becomes(a, DataOf(list', v))
    BY <2>1 DEF Becomes
  <2> QED
    BY <2>1, <2>2 DEF Goes, a
<1>4. ASSUME list' = Reversed(list)
      PROVE  \E v \in Seq(Nodes) : Goes(w, v)
  <2>1. /\ Shows(list', Reverse(w)) /\ Whole(list', Reverse(w))
        /\ DataOf(list', Reverse(w)) = Reverse(a)
    BY <1>4, TurnedRound
  <2>2. Reverse(w) \in Seq(Nodes)
    BY <2>1 DEF Shows, Holds
  <2> HIDE DEF a
  <2>3. Becomes(a, DataOf(list', Reverse(w)))
    BY <2>1 DEF Becomes
  <2> QED
    BY <2>1, <2>2, <2>3 DEF Goes, a
<1>5. ASSUME Destroy
      PROVE  \E v \in Seq(Nodes) : Goes(w, v)
  <2>1. Shows(list', <<>>) /\ Whole(list', <<>>) /\ DataOf(list', <<>>) = <<>>
    BY <1>5, Destroyed DEF Destroy
  <2>2. <<>> \in Seq(Nodes)
    OBVIOUS
  <2> HIDE DEF a
  <2>3. Becomes(a, DataOf(list', <<>>))
    BY <2>1 DEF Becomes
  <2> QED
    BY <2>1, <2>2, <2>3 DEF Goes, a
<1> HIDE DEF a
<1> QED
  BY <1>1, <1>2, <1>3, <1>4, <1>5, PlaceGoes, DeleteGoes, DeleteAtGoes DEF Next

LEMMA ContentsAre ==
    ASSUME NEW w, Shows(list, w)
    PROVE  Contents = DataOf(list, w)
<1>1. Walk(list) = w /\ DOMAIN w = 1 .. Len(w)
  BY WalkIs DEF Shows, Holds
<1> QED
  BY <1>1 DEF Contents, DataOf

LEMMA BecomesStep ==
    ASSUME Becomes(Contents, Contents')
    PROVE  Abstract!Next
<1>1. CASE \E d \in Data : Contents' \in {Append(Contents, d), <<d>> \o Contents}
  BY <1>1, Zenon DEF Abstract!Next, Abstract!Put
<1>2. ASSUME NEW d \in Data, NEW i \in 0 .. Len(Contents), LET k == IF i < 1 THEN 1 ELSE i
                        IN  k <= Len(Contents) /\ Contents' = InsertAt(Contents, k + 1, d)
      PROVE  Abstract!Next
  <2>1. Abstract!PutAt(d, i)
    BY <1>2, Zenon DEF Abstract!PutAt, InsertAt, Abstract!InsertAt
  <2> QED
    BY <2>1, Zenon DEF Abstract!Next
<1>3. ASSUME NEW r \in 1 .. MaxRank,
             \E i \in DOMAIN Contents : /\ Rank[Contents[i]] = r
                                        /\ \A j \in 1 .. i - 1 : Rank[Contents[j]] # r
                                        /\ Contents' = RemoveAt(Contents, i)
      PROVE  Abstract!Next
  <2>1. Abstract!Take(r)
    BY <1>3, Zenon DEF Abstract!Take, RemoveAt, Abstract!RemoveAt
  <2> QED
    BY <2>1, Zenon DEF Abstract!Next
<1>4. CASE \E i \in DOMAIN Contents : Contents' = RemoveAt(Contents, i)
  BY <1>4, Zenon DEF Abstract!Next, Abstract!TakeAt, RemoveAt, Abstract!RemoveAt
<1>5. CASE \E p \in Bijection(DOMAIN Contents, DOMAIN Contents) :
              /\ Contents' = [i \in DOMAIN Contents |-> Contents[p[i]]]
              /\ \A i, j \in DOMAIN Contents : i < j =>
                    \/ Rank[Contents[p[i]]] < Rank[Contents[p[j]]]
                    \/ Rank[Contents[p[i]]] = Rank[Contents[p[j]]] /\ p[i] < p[j]
  <2>1. Abstract!Sort
    BY <1>5, Zenon DEF Abstract!Sort, Bijection, Abstract!Bijection, Injection, Abstract!Injection,
             Surjection, Abstract!Surjection, IsInjective, Abstract!IsInjective
  <2> QED
    BY <2>1, Zenon DEF Abstract!Next
<1>6. CASE Contents' = Reverse(Contents) \/ Contents' = <<>>
  BY <1>6, Zenon DEF Abstract!Next, Abstract!Turn, Abstract!Clear, Reverse, Abstract!Reverse
<1> QED
  BY <1>1, <1>2, <1>3, <1>4, <1>5, <1>6, Zenon DEF Becomes

LEMMA Inductive == "index" \notin Calls => (Spec => []IInv)
<1> SUFFICES ASSUME "index" \notin Calls PROVE Spec => []IInv
  OBVIOUS
<1>1. Init => IInv
  <2> SUFFICES ASSUME Init PROVE IInv
    OBVIOUS
  <2>1. Shows(list, <<>>) /\ Whole(list, <<>>)
    BY Begun DEF Init
  <2>2. <<>> \in Seq(Nodes)
    OBVIOUS
  <2> QED
    BY <2>1, <2>2 DEF IInv
<1>2. IInv /\ [Next]_list => IInv'
  <2> SUFFICES ASSUME IInv, [Next]_list PROVE IInv'
    OBVIOUS
  <2>1. PICK w \in Seq(Nodes) : Shows(list, w) /\ Whole(list, w)
    BY DEF IInv
  <2>2. CASE UNCHANGED list
    BY <2>1, <2>2 DEF IInv
  <2>3. CASE Next
    <3>1. PICK v \in Seq(Nodes) : Shows(list', v) /\ Whole(list', v)
      BY <2>1, <2>3, NextGoes DEF Goes
    <3> QED
      BY <3>1 DEF IInv
  <2> QED
    BY <2>2, <2>3
<1> QED
  BY <1>1, <1>2, PTL DEF Spec

\* While no insertion at an index goes behind the last node, tail is the last
\* node, len the length, and every node malloc has handed out is on the list:
\* linklist.c, any sequence of the other insertions, deletions, sorts, reversals
\* and destructions.
THEOREM WellFormedHolds == "index" \notin Calls => (Spec => []WellFormed)
<1> SUFFICES ASSUME "index" \notin Calls PROVE Spec => []WellFormed
  OBVIOUS
<1>1. IInv => WellFormed
  <2> SUFFICES ASSUME IInv PROVE WellFormed
    OBVIOUS
  <2>1. PICK w \in Seq(Nodes) : Shows(list, w) /\ Whole(list, w)
    BY DEF IInv
  <2>2. Walk(list) = w
    BY <2>1, WalkIs
  <2>3. /\ Len(w) \in Nat /\ (Len(w) = 0 <=> list.head = NULL) /\ list.len = Len(w)
        /\ (Len(w) > 0 => list.tail = w[Len(w)]) /\ DOMAIN w = 1 .. Len(w)
        /\ \A i \in 1 .. Len(w) : w[i] \in DOMAIN list.heap
    BY <2>1, HoldsNodes DEF Shows, Holds
  <2>4. TailIsLast
    BY <2>2, <2>3 DEF TailIsLast, Last
  <2>5. LenIsLength
    BY <2>2, <2>3 DEF LenIsLength
  <2>6. NoLeak
    BY <2>1, <2>2, <2>3 DEF NoLeak, Whole, ToSet
  <2> QED
    BY <2>4, <2>5, <2>6 DEF WellFormed
<1> QED
  BY <1>1, Inductive, PTL

\* What the interface promises: every call does to the nodes what the abstract
\* list does to the sequence of the data.
THEOREM ImplementsSeq == "index" \notin Calls => (Spec => SeqSpec)
<1> SUFFICES ASSUME "index" \notin Calls PROVE Spec => SeqSpec
  OBVIOUS
<1>1. Init => Contents = <<>>
  BY Begun, ContentsAre DEF Init
<1>2. IInv /\ IInv' /\ [Next]_list => [Abstract!Next]_Contents
  <2> SUFFICES ASSUME IInv, [Next]_list PROVE [Abstract!Next]_Contents
    OBVIOUS
  <2>1. PICK w \in Seq(Nodes) : Shows(list, w) /\ Whole(list, w)
    BY DEF IInv
  <2>2. CASE UNCHANGED list
    BY <2>2 DEF Contents, Walk, Chain, Next_, Data_
  <2>3. CASE Next
    <3>1. PICK v \in Seq(Nodes) : Goes(w, v)
      BY <2>1, <2>3, NextGoes
    <3>2. Contents = DataOf(list, w)
      BY <2>1, ContentsAre
    <3>3. Contents' = DataOf(list', v)
      <4>1. Walk(list') = v /\ DOMAIN v = 1 .. Len(v)
        BY <3>1, WalkIs DEF Goes, Shows, Holds
      <4> QED
        BY <4>1 DEF Contents, DataOf
    <3>4. Becomes(Contents, Contents')
      BY <3>1, <3>2, <3>3 DEF Goes
    <3> QED
      BY <3>4, BecomesStep
  <2> QED
    BY <2>2, <2>3
<1> QED
  BY <1>1, <1>2, Inductive, PTL DEF Spec, SeqSpec, Abstract!SeqSpec

=============================================================================
