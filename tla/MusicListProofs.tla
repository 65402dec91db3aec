--------------------------- MODULE MusicListProofs --------------------------
(***************************************************************************)
(* For every set of songs, every bound and every set of limits: the play   *)
(* list is well typed, its current_index stays sound, the current song     *)
(* stays current and a limit once respected stays respected.               *)
(*                                                                         *)
(* The inductive invariant IInv adds to the two invariants of the runs     *)
(* that no song is in the list twice: without it "the current song" is not *)
(* one place of the list, and CurrentKept does not follow.                 *)
(***************************************************************************)
EXTENDS MusicList, SequenceTheorems, WellFoundedInduction, TLAPS

ListType == [songs : Seq(Songs), max_index : MaxIndexes \cup {-1},
             current_index : Int, mode : Modes]

Index(l) ==
    /\ l.current_index \in -1 .. Length(l)
    /\ Length(l) > 0 => l.current_index >= 0

Distinct(l) ==
    \A j, k \in 1 .. Length(l) : l.songs[j] = l.songs[k] => j = k

IInv == TypeOK /\ Index(list) /\ Distinct(list)

-----------------------------------------------------------------------------
(* mozart_musiclist_delete_index at a valid index: the songs behind it move *)
(* one place forward, the ones before it stay.                              *)
LEMMA RemoveAtShape ==
    ASSUME NEW S, NEW s \in Seq(S), NEW i \in 1 .. Len(s)
    PROVE  /\ RemoveAt(s, i) \in Seq(S)
           /\ Len(RemoveAt(s, i)) = Len(s) - 1
           /\ \A k \in 1 .. Len(s) - 1 :
                 RemoveAt(s, i)[k] = IF k < i THEN s[k] ELSE s[k + 1]
<1> DEFINE a == SubSeq(s, 1, i - 1)
           b == SubSeq(s, i + 1, Len(s))
<1>1. /\ a \in Seq(S)
      /\ Len(a) = i - 1
      /\ \A k \in 1 .. i - 1 : a[k] = s[k]
  OBVIOUS
<1>2. /\ b \in Seq(S)
      /\ Len(b) = Len(s) - i
      /\ \A k \in 1 .. Len(s) - i : b[k] = s[i + k]
  OBVIOUS
<1>3. RemoveAt(s, i) = a \o b
  BY DEF RemoveAt
<1> HIDE DEF a, b
<1>4. /\ a \o b \in Seq(S)
      /\ Len(a \o b) = Len(a) + Len(b)
      /\ \A k \in 1 .. Len(a) + Len(b) :
            (a \o b)[k] = IF k <= Len(a) THEN a[k] ELSE b[k - Len(a)]
  BY <1>1, <1>2, ConcatProperties
<1>5. Len(s) \in Nat
  OBVIOUS
<1>6. ASSUME NEW k \in 1 .. Len(s) - 1
      PROVE  (a \o b)[k] = IF k < i THEN s[k] ELSE s[k + 1]
  <2>1. CASE k < i
    BY <2>1, <1>1, <1>2, <1>4, <1>5
  <2>2. CASE k >= i
    <3>1. /\ k - (i - 1) \in 1 .. Len(s) - i
          /\ i + (k - (i - 1)) = k + 1
      BY <2>2, <1>5
    <3>2. (a \o b)[k] = b[k - (i - 1)]
      BY <2>2, <1>1, <1>2, <1>4, <1>5
    <3>3. b[k - (i - 1)] = s[i + (k - (i - 1))]
      BY <3>1, <1>2
    <3> QED
      BY <3>1, <3>2, <3>3, <2>2
  <2>3. k < i \/ k >= i
    BY <1>5
  <2> QED
    BY <2>1, <2>2, <2>3
<1> QED
  BY <1>1, <1>2, <1>3, <1>4, <1>5, <1>6

(* Deleting a song keeps a good list good and one shorter.                   *)
LEMMA DeleteGood ==
    ASSUME NEW l \in ListType, Index(l), Distinct(l), NEW i \in 0 .. Length(l) - 1
    PROVE  LET d == DeleteIndex(l, i)
           IN  /\ d \in ListType
               /\ Index(d)
               /\ Distinct(d)
               /\ Length(d) = Length(l) - 1
               /\ d.max_index = l.max_index
               /\ \A k \in 1 .. Length(d) :
                     d.songs[k] = IF k < i + 1 THEN l.songs[k] ELSE l.songs[k + 1]
               /\ d.current_index = IF i < l.current_index
                                    THEN l.current_index - 1 ELSE l.current_index
<1> DEFINE d == DeleteIndex(l, i)
<1>1. /\ l.songs \in Seq(Songs)
      /\ Len(l.songs) \in Nat
      /\ i + 1 \in 1 .. Len(l.songs)
      /\ l.current_index \in Int
  BY DEF ListType, Length
<1> DEFINE r == RemoveAt(l.songs, i + 1)
           c == IF i < l.current_index
                THEN l.current_index - 1 ELSE l.current_index
<1>2. d = [l EXCEPT !.songs = r, !.current_index = c]
  BY DEF DeleteIndex
<1>3. /\ r \in Seq(Songs)
      /\ Len(r) = Len(l.songs) - 1
      /\ \A k \in 1 .. Len(l.songs) - 1 :
            r[k] = IF k < i + 1 THEN l.songs[k] ELSE l.songs[k + 1]
  BY <1>1, RemoveAtShape
<1>c. c \in Int
  BY <1>1
<1> HIDE DEF d, r, c
<1>4. /\ d \in ListType
      /\ d.songs = r
      /\ d.max_index = l.max_index
      /\ d.current_index = c
  BY <1>2, <1>3, <1>c DEF ListType
<1>5. Index(d)
  BY <1>1, <1>3, <1>4 DEF Index, Length, c
<1>6. Distinct(d)
  <2> SUFFICES ASSUME NEW j \in 1 .. Len(l.songs) - 1,
                      NEW k \in 1 .. Len(l.songs) - 1,
                      d.songs[j] = d.songs[k]
               PROVE  j = k
    BY <1>3, <1>4 DEF Distinct, Length
  <2> DEFINE p == IF j < i + 1 THEN j ELSE j + 1
             q == IF k < i + 1 THEN k ELSE k + 1
  <2>1. p \in 1 .. Len(l.songs) /\ q \in 1 .. Len(l.songs)
    BY <1>1
  <2>2. l.songs[p] = l.songs[q]
    BY <1>3, <1>4
  <2>3. p = q
    BY <2>1, <2>2 DEF Distinct, Length
  <2> QED
    BY <2>3, <1>1
<1> QED
  BY <1>3, <1>4, <1>5, <1>6 DEF d, r, c, Length

(* So does inserting a song that is not in the list, whether or not the      *)
(* oldest one has to go.                                                     *)
LEMMA AppendGood ==
    ASSUME NEW l \in ListType, Index(l), Distinct(l), NEW s \in Songs,
           \A k \in 1 .. Length(l) : l.songs[k] # s
    PROVE  LET n == [l EXCEPT !.songs = Append(@, s),
                              !.current_index = IF @ < 0 THEN 0 ELSE @]
           IN  /\ n \in ListType
               /\ Index(n)
               /\ Distinct(n)
               /\ Length(n) = Length(l) + 1
               /\ n.max_index = l.max_index
               /\ \A k \in 1 .. Length(l) : n.songs[k] = l.songs[k]
               /\ n.songs[Length(l) + 1] = s
               /\ n.current_index = IF l.current_index < 0
                                    THEN 0 ELSE l.current_index
<1> DEFINE a == Append(l.songs, s)
           c == IF l.current_index < 0 THEN 0 ELSE l.current_index
           n == [l EXCEPT !.songs = a, !.current_index = c]
<1>1. /\ l.songs \in Seq(Songs)
      /\ Len(l.songs) \in Nat
      /\ l.current_index \in Int
  BY DEF ListType
<1>2. /\ a \in Seq(Songs)
      /\ Len(a) = Len(l.songs) + 1
      /\ \A k \in 1 .. Len(l.songs) : a[k] = l.songs[k]
      /\ a[Len(l.songs) + 1] = s
  BY <1>1, AppendProperties
<1>3. c \in Int
  BY <1>1
<1> HIDE DEF a, c
<1>4. /\ n \in ListType
      /\ n.songs = a
      /\ n.max_index = l.max_index
      /\ n.current_index = c
  BY <1>2, <1>3 DEF ListType
<1> HIDE DEF n
<1>5. Index(n)
  BY <1>1, <1>2, <1>4 DEF Index, Length, c
<1>6. Distinct(n)
  BY <1>1, <1>2, <1>4 DEF Distinct, Length
<1> QED
  BY <1>2, <1>4, <1>5, <1>6 DEF n, a, c, Length

LEMMA InsertGood ==
    ASSUME NEW l \in ListType, Index(l), Distinct(l), NEW s \in Songs,
           \A k \in 1 .. Length(l) : l.songs[k] # s
    PROVE  LET n == Insert(l, s)
           IN  /\ n \in ListType
               /\ Index(n)
               /\ Distinct(n)
               /\ l.max_index >= 0 /\ Length(l) <= l.max_index
                    => Length(n) <= l.max_index
<1> DEFINE e == Evicted(l)
<1>1. Length(l) \in Nat /\ l.max_index \in Int
  <2>1. l.songs \in Seq(Songs) /\ l.max_index \in MaxIndexes \cup {-1}
    BY DEF ListType
  <2>2. \A m \in MaxIndexes \cup {-1} : m \in Int
    BY BoundAssumption
  <2> QED
    BY <2>1, <2>2 DEF Length
<1>2. CASE Refuses(l)
  BY <1>2 DEF Insert
<1>3. CASE ~Refuses(l)
  <2>1. /\ e \in ListType
        /\ Index(e)
        /\ Distinct(e)
        /\ \A k \in 1 .. Length(e) : e.songs[k] # s
        /\ l.max_index >= 0 /\ Length(l) <= l.max_index
             => Length(e) + 1 <= l.max_index
    <3>1. CASE Full(l)
      <4>1. 0 \in 0 .. Length(l) - 1
        BY <3>1, <1>1, <1>3 DEF Refuses
      <4>2. e = DeleteIndex(l, 0)
        BY <3>1 DEF Evicted
      <4>3. /\ Length(e) = Length(l) - 1
            /\ \A k \in 1 .. Length(e) : e.songs[k] = l.songs[k + 1]
        BY <4>1, <4>2, DeleteGood
      <4> QED
        BY <4>1, <4>2, <4>3, <1>1, DeleteGood
    <3>2. CASE ~Full(l)
      BY <3>2, <1>1 DEF Evicted, Full
    <3> QED
      BY <3>1, <3>2
  <2>2. Insert(l, s) = [e EXCEPT !.songs = Append(@, s),
                                 !.current_index = IF @ < 0 THEN 0 ELSE @]
    BY <1>3 DEF Insert
  <2> DEFINE n == [e EXCEPT !.songs = Append(@, s),
                           !.current_index = IF @ < 0 THEN 0 ELSE @]
  <2> HIDE DEF e
  <2>3. /\ n \in ListType
        /\ Index(n)
        /\ Distinct(n)
        /\ Length(n) = Length(e) + 1
    BY <2>1, AppendGood
  <2> HIDE DEF n
  <2>4. Insert(l, s) = n
    BY <2>2 DEF n
  <2> QED
    BY <2>1, <2>3, <2>4
<1> QED
  BY <1>2, <1>3

(* The three facts behind every theorem below: IInv holds at the start, is   *)
(* kept by every step and implies the invariants of the runs.                *)
LEMMA IInvInit == Init => IInv
<1> SUFFICES ASSUME Init
             PROVE  IInv
  OBVIOUS
<1>1. list = [songs |-> <<>>, max_index |-> -1, current_index |-> -1,
              mode |-> "order"]
  BY DEF Init, EmptyList
<1>2. list.songs = <<>> /\ Len(<<>>) = 0 /\ <<>> \in Seq(Songs)
  BY <1>1
<1> QED
  BY <1>1, <1>2 DEF IInv, TypeOK, Index, Distinct, Length, Modes

LEMMA IInvStep == IInv /\ [Next]_list => IInv'
<1> SUFFICES ASSUME IInv, [Next]_list
             PROVE  IInv'
  OBVIOUS
<1> USE DEF IInv
<1>1. list \in ListType /\ Index(list) /\ Distinct(list)
  BY DEF TypeOK, ListType
<1>2. Length(list) \in Nat
  BY <1>1 DEF ListType, Length
<1> SUFFICES list' \in ListType /\ Index(list') /\ Distinct(list')
  BY DEF TypeOK, ListType, Index, Distinct, Length
<1>3. ASSUME NEW s \in Songs, InsertSong(s)
      PROVE  list' \in ListType /\ Index(list') /\ Distinct(list')
  <2>1. \A k \in 1 .. Length(list) : list.songs[k] # s
    BY <1>1, <1>3 DEF InsertSong, ToSet, ListType, Length
  <2> QED
    BY <1>1, <1>3, <2>1, InsertGood DEF InsertSong
<1>4. ASSUME NEW i \in -1 .. Length(list), DeleteSong(i)
      PROVE  list' \in ListType /\ Index(list') /\ Distinct(list')
  <2>1. CASE i \in 0 .. Length(list) - 1
    BY <1>1, <1>4, <2>1, DeleteGood DEF DeleteSong
  <2>2. CASE i \notin 0 .. Length(list) - 1
    BY <1>1, <1>4, <2>2 DEF DeleteSong, DeleteIndex
  <2> QED
    BY <2>1, <2>2
<1>5. ASSUME NEW i \in 0 .. Length(list), list' = SetCurrent(list, i)
      PROVE  list' \in ListType /\ Index(list') /\ Distinct(list')
  <2>1. /\ list' \in ListType
        /\ list'.songs = list.songs
        /\ list'.current_index = i
    BY <1>1, <1>2, <1>5 DEF SetCurrent, ListType
  <2> QED
    BY <1>1, <1>2, <2>1 DEF Index, Distinct, Length
<1>6. CASE SetPrev
  <2>1. PICK i \in PrevIndexes(list) : list' = SetCurrent(list, i)
    BY <1>6 DEF SetPrev
  <2>2. i \in 0 .. Length(list)
    BY <1>1, <1>2, <1>6 DEF SetPrev, PrevIndexes, Index
  <2> QED
    BY <1>5, <2>1, <2>2
<1>7. ASSUME NEW force \in BOOLEAN, SetNext(force)
      PROVE  list' \in ListType /\ Index(list') /\ Distinct(list')
  <2>1. PICK i \in NextIndexes(list, force) : list' = SetCurrent(list, i)
    BY <1>7 DEF SetNext
  <2>2. (list.current_index + 1) % Length(list) \in 0 .. Length(list)
    BY <1>1, <1>2, <1>7 DEF SetNext, Index
  <2>3. list.current_index \in 0 .. Length(list)
    BY <1>1, <1>2, <1>7 DEF SetNext, Index
  <2>4. i \in 0 .. Length(list)
    BY <1>2, <2>1, <2>2, <2>3 DEF NextIndexes
  <2> QED
    BY <1>5, <2>1, <2>4
<1>8. ASSUME NEW i \in 0 .. Length(list) - 1, SetIndex(i)
      PROVE  list' \in ListType /\ Index(list') /\ Distinct(list')
  BY <1>2, <1>5, <1>8 DEF SetIndex
<1>9. ASSUME NEW md \in Modes, SetPlayMode(md)
      PROVE  list' \in ListType /\ Index(list') /\ Distinct(list')
  <2>1. /\ list' \in ListType
        /\ list'.songs = list.songs
        /\ list'.current_index = list.current_index
    BY <1>1, <1>9 DEF SetPlayMode, ListType
  <2> QED
    BY <1>1, <2>1 DEF Index, Distinct, Length
<1>10. ASSUME NEW mx \in MaxIndexes, SetMaxIndex(mx)
       PROVE  list' \in ListType /\ Index(list') /\ Distinct(list')
  <2>1. /\ list' \in ListType
        /\ list'.songs = list.songs
        /\ list'.current_index = list.current_index
    BY <1>1, <1>10 DEF SetMaxIndex, ListType
  <2> QED
    BY <1>1, <2>1 DEF Index, Distinct, Length
<1>11. CASE Clean
  <2>1. /\ list' = [songs |-> <<>>, max_index |-> -1, current_index |-> -1,
                    mode |-> "order"]
        /\ list'.songs = <<>> /\ Len(<<>>) = 0 /\ <<>> \in Seq(Songs)
    BY <1>11 DEF Clean, EmptyList
  <2> QED
    BY <2>1 DEF ListType, Index, Distinct, Length, Modes
<1>12. CASE UNCHANGED list
  BY <1>1, <1>12
<1> QED
  BY <1>3, <1>4, <1>6, <1>7, <1>8, <1>9, <1>10, <1>11, <1>12 DEF Next

THEOREM InductiveInvariant == Spec => []IInv
<1> QED
  BY IInvInit, IInvStep, PTL DEF Spec

(* The play list is always well typed.                                       *)
THEOREM TypeCorrect == Spec => []TypeOK
<1>1. IInv => TypeOK
  BY DEF IInv
<1> QED
  BY <1>1, InductiveInvariant, PTL

(* current_index always is a song's index, or one past the last, or -1 in a  *)
(* list without songs (musiclist.c:174-282).                                 *)
THEOREM IndexSound == Spec => []IndexInv
<1>1. IInv => IndexInv
  BY DEF IInv, IndexInv, Index
<1> QED
  BY <1>1, InductiveInvariant, PTL

-----------------------------------------------------------------------------
(* A list that respects its max_index respects it after every call that does *)
(* not change the limit (musiclist.c:240-263).                               *)
THEOREM LimitNeverExceeded == Spec => LimitKept
<1> DEFINE Within == list.max_index >= 0 /\ Length(list) <= list.max_index
           Kept == (/\ list'.max_index = list.max_index
                    /\ list.max_index >= 0
                    /\ Length(list) <= list.max_index)
                   => Length(list') <= list.max_index
<1>1. ASSUME IInv, [Next]_list
      PROVE  [Kept]_list
  <2> SUFFICES ASSUME list'.max_index = list.max_index, Within
               PROVE  Length(list') <= list.max_index
    OBVIOUS
  <2>1. list \in ListType /\ Index(list) /\ Distinct(list)
    BY <1>1 DEF IInv, TypeOK, ListType
  <2>2. Length(list) \in Nat /\ list.max_index \in Int
    <3>1. list.songs \in Seq(Songs) /\ list.max_index \in MaxIndexes \cup {-1}
      BY <2>1 DEF ListType
    <3>2. \A m \in MaxIndexes \cup {-1} : m \in Int
      BY BoundAssumption
    <3> QED
      BY <3>1, <3>2 DEF Length
  <2>3. ASSUME NEW s \in Songs, InsertSong(s)
        PROVE  Length(list') <= list.max_index
    <3>1. \A k \in 1 .. Length(list) : list.songs[k] # s
      BY <2>1, <2>3 DEF InsertSong, ToSet, ListType, Length
    <3> QED
      BY <2>1, <2>3, <3>1, InsertGood DEF InsertSong
  <2>4. ASSUME NEW i \in -1 .. Length(list), DeleteSong(i)
        PROVE  Length(list') <= list.max_index
    <3>1. CASE i \in 0 .. Length(list) - 1
      BY <2>1, <2>2, <2>4, <3>1, DeleteGood DEF DeleteSong
    <3>2. CASE i \notin 0 .. Length(list) - 1
      BY <2>4, <3>2 DEF DeleteSong, DeleteIndex
    <3> QED
      BY <3>1, <3>2
  <2>5. CASE list'.songs = list.songs
    BY <2>5 DEF Length
  <2>6. CASE Clean
    BY <2>6 DEF Clean, EmptyList
  <2>7. ASSUME SetPrev \/ (\E force \in BOOLEAN : SetNext(force))
        PROVE  list'.songs = list.songs
    BY <2>1, <2>7 DEF SetPrev, SetNext, SetCurrent, ListType
  <2>8. ASSUME \/ \E i \in 0 .. Length(list) - 1 : SetIndex(i)
               \/ \E md \in Modes : SetPlayMode(md)
               \/ \E mx \in MaxIndexes : SetMaxIndex(mx)
               \/ UNCHANGED list
        PROVE  list'.songs = list.songs
    BY <2>1, <2>8 DEF SetIndex, SetPlayMode, SetMaxIndex, SetCurrent, ListType
  <2> QED
    BY <1>1, <2>3, <2>4, <2>5, <2>6, <2>7, <2>8 DEF Next
<1> QED
  BY <1>1, InductiveInvariant, PTL DEF Spec, LimitKept

-----------------------------------------------------------------------------
(* Which song GetCurrent reads in a good list.                               *)
LEMMA CurrentIs ==
    ASSUME NEW l \in ListType, Index(l)
    PROVE  GetCurrent(l) = IF l.current_index \in 0 .. Length(l) - 1
                           THEN l.songs[l.current_index + 1] ELSE NULL
<1>1. l.songs \in Seq(Songs) /\ Length(l) \in Nat /\ l.current_index \in Int
  BY DEF ListType, Length
<1> QED
  BY <1>1 DEF GetCurrent, GetElement, Index

LEMMA CurrentInList ==
    ASSUME NEW l \in ListType, Index(l), NEW t \in ListType,
           GetCurrent(l) \in ToSet(t.songs)
    PROVE  /\ l.current_index \in 0 .. Length(l) - 1
           /\ GetCurrent(l) = l.songs[l.current_index + 1]
<1>1. GetCurrent(l) \in Songs
  BY DEF ToSet, ListType
<1> QED
  BY <1>1, CurrentIs, NullAssumption

LEMMA DeleteKeepsCurrent ==
    ASSUME NEW l \in ListType, Index(l), Distinct(l), NEW i \in 0 .. Length(l) - 1,
           GetCurrent(l) \in ToSet(DeleteIndex(l, i).songs)
    PROVE  GetCurrent(DeleteIndex(l, i)) = GetCurrent(l)
<1> DEFINE d == DeleteIndex(l, i)
           c == l.current_index
<1>1. /\ d \in ListType
      /\ Index(d)
      /\ Length(d) = Length(l) - 1
      /\ \A k \in 1 .. Length(d) :
            d.songs[k] = IF k < i + 1 THEN l.songs[k] ELSE l.songs[k + 1]
      /\ d.current_index = IF i < c THEN c - 1 ELSE c
  BY DeleteGood
<1> HIDE DEF d
<1>2. Length(l) \in Nat /\ Length(d) \in Nat
  BY <1>1 DEF ListType, Length
<1>3. c \in 0 .. Length(l) - 1 /\ GetCurrent(l) = l.songs[c + 1]
  BY <1>1, CurrentInList DEF d
<1>4. PICK k \in 1 .. Length(d) : d.songs[k] = l.songs[c + 1]
  <2>1. d.songs \in Seq(Songs)
    BY <1>1 DEF ListType
  <2>2. l.songs[c + 1] \in ToSet(d.songs)
    BY <1>3 DEF d
  <2> QED
    BY <2>1, <2>2 DEF ToSet, Length
<1>5. i # c
  <2> DEFINE p == IF k < i + 1 THEN k ELSE k + 1
  <2>1. p \in 1 .. Length(l) /\ c + 1 \in 1 .. Length(l)
    BY <1>1, <1>2, <1>3
  <2>2. l.songs[p] = l.songs[c + 1]
    BY <1>1, <1>4
  <2>3. p = c + 1
    BY <2>1, <2>2 DEF Distinct
  <2> QED
    BY <2>3, <1>2, <1>3
<1>6. CASE i < c
  <2>1. d.current_index = c - 1 /\ c - 1 \in 0 .. Length(d) - 1
    BY <1>1, <1>2, <1>3, <1>6
  <2>2. d.songs[c] = l.songs[c + 1]
    BY <1>1, <1>2, <1>3, <1>6
  <2> QED
    BY <1>1, <1>3, <2>1, <2>2, CurrentIs DEF d
<1>7. CASE i > c
  <2>1. d.current_index = c /\ c \in 0 .. Length(d) - 1
    BY <1>1, <1>2, <1>3, <1>7
  <2>2. d.songs[c + 1] = l.songs[c + 1]
    BY <1>1, <1>2, <1>3, <1>7
  <2> QED
    BY <1>1, <1>3, <2>1, <2>2, CurrentIs DEF d
<1> QED
  BY <1>3, <1>5, <1>6, <1>7

LEMMA InsertKeepsCurrent ==
    ASSUME NEW l \in ListType, Index(l), Distinct(l), NEW s \in Songs,
           \A k \in 1 .. Length(l) : l.songs[k] # s,
           GetCurrent(l) \in ToSet(Insert(l, s).songs)
    PROVE  GetCurrent(Insert(l, s)) = GetCurrent(l)
<1> DEFINE e == Evicted(l)
           n == [e EXCEPT !.songs = Append(@, s),
                          !.current_index = IF @ < 0 THEN 0 ELSE @]
<1>1. CASE Refuses(l)
  BY <1>1 DEF Insert
<1>2. CASE ~Refuses(l)
  <2>1. /\ e \in ListType
        /\ Index(e)
        /\ Distinct(e)
        /\ \A k \in 1 .. Length(e) : e.songs[k] # s
        /\ GetCurrent(l) \in ToSet(e.songs) => GetCurrent(e) = GetCurrent(l)
    <3>1. CASE Full(l)
      <4>1. Length(l) \in Nat
        BY DEF ListType, Length
      <4>2. 0 \in 0 .. Length(l) - 1
        BY <3>1, <4>1, <1>2 DEF Refuses
      <4>3. e = DeleteIndex(l, 0)
        BY <3>1 DEF Evicted
      <4>4. /\ Length(e) = Length(l) - 1
            /\ \A k \in 1 .. Length(e) : e.songs[k] = l.songs[k + 1]
        BY <4>2, <4>3, DeleteGood
      <4>5. \A k \in 1 .. Length(e) : e.songs[k] # s
        BY <4>1, <4>4
      <4> HIDE DEF e
      <4> QED
        BY <4>2, <4>3, <4>5, DeleteGood, DeleteKeepsCurrent
    <3>2. CASE ~Full(l)
      BY <3>2 DEF Evicted
    <3> QED
      BY <3>1, <3>2
  <2>2. Insert(l, s) = n
    BY <1>2 DEF Insert
  <2> HIDE DEF e
  <2>3. /\ n \in ListType
        /\ Index(n)
        /\ Length(n) = Length(e) + 1
        /\ \A k \in 1 .. Length(e) : n.songs[k] = e.songs[k]
        /\ n.songs[Length(e) + 1] = s
        /\ n.current_index = IF e.current_index < 0 THEN 0 ELSE e.current_index
    BY <2>1, AppendGood
  <2> HIDE DEF n
  <2>4. Length(e) \in Nat
    BY <2>1 DEF ListType, Length
  <2>5. /\ l.current_index \in 0 .. Length(l) - 1
        /\ GetCurrent(l) = l.songs[l.current_index + 1]
    BY <2>2, <2>3, CurrentInList
  <2>6. GetCurrent(l) # s
    <3>1. l.current_index + 1 \in 1 .. Length(l)
      BY <2>5 DEF ListType, Length
    <3> QED
      BY <2>5, <3>1
  <2>7. GetCurrent(l) \in ToSet(e.songs)
    <3>1. PICK k \in 1 .. Length(n) : n.songs[k] = GetCurrent(l)
      BY <2>2, <2>3 DEF ToSet, Length
    <3>2. k \in 1 .. Length(e)
      BY <2>3, <2>4, <2>6, <3>1
    <3>3. e.songs[k] = GetCurrent(l)
      BY <2>3, <3>1, <3>2
    <3> QED
      BY <3>2, <3>3 DEF ToSet, Length
  <2>8. /\ e.current_index \in 0 .. Length(e) - 1
        /\ GetCurrent(l) = e.songs[e.current_index + 1]
    BY <2>1, <2>7, CurrentInList
  <2>9. /\ n.current_index = e.current_index
        /\ n.current_index \in 0 .. Length(n) - 1
        /\ n.songs[n.current_index + 1] = GetCurrent(l)
    BY <2>3, <2>4, <2>8
  <2> QED
    BY <2>2, <2>3, <2>9, CurrentIs
<1> QED
  BY <1>1, <1>2

(* While the current song is in the list it stays current, whatever is       *)
(* deleted, evicted or appended around it (musiclist.c:240-282).             *)
THEOREM CurrentSongKept == Spec => CurrentKept
<1> DEFINE Kept == /\ list'.songs # list.songs
                   /\ GetCurrent(list) \in ToSet(list'.songs)
                   => GetCurrent(list') = GetCurrent(list)
<1>1. ASSUME IInv, IInv', [Next]_list
      PROVE  [Kept]_list
  <2> SUFFICES ASSUME list'.songs # list.songs,
                      GetCurrent(list) \in ToSet(list'.songs)
               PROVE  GetCurrent(list') = GetCurrent(list)
    OBVIOUS
  <2>1. list \in ListType /\ Index(list) /\ Distinct(list)
    BY <1>1 DEF IInv, TypeOK, ListType
  <2>2. ASSUME NEW s \in Songs, InsertSong(s)
        PROVE  GetCurrent(list') = GetCurrent(list)
    <3>1. \A k \in 1 .. Length(list) : list.songs[k] # s
      BY <2>1, <2>2 DEF InsertSong, ToSet, ListType, Length
    <3> QED
      BY <2>1, <2>2, <3>1, InsertKeepsCurrent DEF InsertSong
  <2>3. ASSUME NEW i \in -1 .. Length(list), DeleteSong(i)
        PROVE  GetCurrent(list') = GetCurrent(list)
    <3>1. CASE i \in 0 .. Length(list) - 1
      BY <2>1, <2>3, <3>1, DeleteKeepsCurrent DEF DeleteSong
    <3>2. CASE i \notin 0 .. Length(list) - 1
      BY <2>3, <3>2 DEF DeleteSong, DeleteIndex
    <3> QED
      BY <3>1, <3>2
  <2>4. CASE Clean
    BY <2>4 DEF Clean, EmptyList, ToSet
  <2>5. ASSUME SetPrev \/ (\E force \in BOOLEAN : SetNext(force))
        PROVE  list'.songs = list.songs
    BY <2>1, <2>5 DEF SetPrev, SetNext, SetCurrent, ListType
  <2>6. ASSUME \/ \E i \in 0 .. Length(list) - 1 : SetIndex(i)
               \/ \E md \in Modes : SetPlayMode(md)
               \/ \E mx \in MaxIndexes : SetMaxIndex(mx)
               \/ UNCHANGED list
        PROVE  list'.songs = list.songs
    BY <2>1, <2>6 DEF SetIndex, SetPlayMode, SetMaxIndex, SetCurrent, ListType
  <2> QED
    BY <1>1, <2>2, <2>3, <2>4, <2>5, <2>6 DEF Next
<1> QED
  BY <1>1, InductiveInvariant, PTL DEF Spec, CurrentKept

-----------------------------------------------------------------------------
(* Prev and next.                                                           *)

LEMMA Wraps ==
    ASSUME NEW n \in Nat, n > 0
    PROVE  n % n = 0 /\ \A i \in 0 .. n - 1 : i % n = i
  OBVIOUS

\* For a list of any length: wherever the user stands, also at its ends, a
\* forced next and a prev undo each other (mozart_musiclist_set_prev,
\* mozart_musiclist_set_next).
THEOREM PrevUndoesNext == Spec => []PrevNextInverse
<1>1. IInv => PrevNextInverse
  <2> SUFFICES ASSUME IInv, NEW i \in 0 .. Length(list) - 1, list.mode # "random"
               PROVE  LET at == SetCurrent(list, i)
                      IN  /\ \A j \in NextIndexes(at, TRUE) :
                                PrevIndexes(SetCurrent(at, j)) = {i}
                          /\ \A j \in PrevIndexes(at) :
                                NextIndexes(SetCurrent(at, j), TRUE) = {i}
    BY DEF PrevNextInverse
  <2> DEFINE n == Length(list)
  <2>1. list \in ListType /\ n \in Nat /\ n > 0 /\ i \in 0 .. n - 1 /\ i \in Int
    BY DEF IInv, TypeOK, ListType, Length
  <2>2. ASSUME NEW j \in Int
        PROVE  LET l == SetCurrent(list, j)
               IN  /\ Length(l) = n /\ l.mode # "random" /\ l.current_index = j
                   /\ \A k \in Int : SetCurrent(l, k) = SetCurrent(list, k)
    BY <2>1 DEF SetCurrent, Length, ListType
  <2>3. ASSUME NEW j \in Int
        PROVE  /\ NextIndexes(SetCurrent(list, j), TRUE) = {(j + 1) % n}
               /\ PrevIndexes(SetCurrent(list, j)) = {IF j <= 0 THEN n - 1 ELSE j - 1}
    BY <2>2 DEF NextIndexes, PrevIndexes
  <2>4. ASSUME NEW j \in Int
        PROVE  SetCurrent(SetCurrent(list, i), j) = SetCurrent(list, j)
    BY <2>2
  <2> HIDE DEF n
  <2>5. (i + 1) % n = IF i = n - 1 THEN 0 ELSE i + 1
    <3>1. CASE i = n - 1
      BY <2>1, <3>1, Wraps
    <3>2. CASE i # n - 1
      BY <2>1, <3>2, Wraps DEF n
    <3> QED
      BY <3>1, <3>2
  <2>6. \A j \in NextIndexes(SetCurrent(list, i), TRUE) :
           PrevIndexes(SetCurrent(SetCurrent(list, i), j)) = {i}
    <3> DEFINE j == IF i = n - 1 THEN 0 ELSE i + 1
    <3>1. j \in Int /\ NextIndexes(SetCurrent(list, i), TRUE) = {j}
      <4>1. NextIndexes(SetCurrent(list, i), TRUE) = {(i + 1) % n}
        BY <2>1, <2>3
      <4>2. j \in Int /\ (i + 1) % n = j
        BY <2>1, <2>5
      <4> HIDE DEF j
      <4> QED
        BY <4>1, <4>2
    <3>2. PrevIndexes(SetCurrent(list, j)) = {i}
      <4>1. (IF j <= 0 THEN n - 1 ELSE j - 1) = i
        BY <2>1
      <4> HIDE DEF j
      <4>2. PrevIndexes(SetCurrent(list, j)) = {IF j <= 0 THEN n - 1 ELSE j - 1}
        BY <2>3, <3>1
      <4> QED
        BY <4>1, <4>2
    <3> HIDE DEF j
    <3> QED
      BY <2>4, <3>1, <3>2
  <2>7. \A j \in PrevIndexes(SetCurrent(list, i)) :
           NextIndexes(SetCurrent(SetCurrent(list, i), j), TRUE) = {i}
    <3> DEFINE j == IF i <= 0 THEN n - 1 ELSE i - 1
    <3>1. j \in Int /\ PrevIndexes(SetCurrent(list, i)) = {j}
      <4>1. j \in Int
        BY <2>1
      <4> QED
        BY <2>1, <2>3, <4>1, Zenon
    <3>2. NextIndexes(SetCurrent(list, j), TRUE) = {i}
      <4>1. (j + 1) % n = i
        <5>1. j + 1 = IF i = 0 THEN n ELSE i
          BY <2>1
        <5> HIDE DEF j
        <5> QED
          BY <2>1, <5>1, Wraps
      <4> HIDE DEF j
      <4>2. NextIndexes(SetCurrent(list, j), TRUE) = {(j + 1) % n}
        BY <2>3, <3>1
      <4> QED
        BY <4>1, <4>2
    <3> HIDE DEF j
    <3> QED
      BY <2>4, <3>1, <3>2
  <2> QED
    BY <2>6, <2>7
<1> QED
  BY <1>1, InductiveInvariant, PTL

-----------------------------------------------------------------------------
(* The copy.  What mozart_musiclist_copy has after k songs is known without *)
(* following its loop: the newest ones the limit allows, and the current    *)
(* index moved back by as many as were evicted.  That this list is what the *)
(* loop computes is an induction, put as the choice of the least k at which *)
(* the two would differ.                                                    *)

LEMMA LeastNat ==
    ASSUME NEW T \in SUBSET Nat, T # {}
    PROVE  \E n \in T : \A k \in T : n <= k
<1> DEFINE R == OpToRel(<, Nat)
<1>1. IsWellFoundedOn(R, Nat)
  BY NatLessThanWellFounded
<1>2. \A k \in T, n \in T : ~(<<k, n>> \in R) => n <= k
  BY DEF OpToRel
<1> HIDE DEF R
<1>3. PICK n \in T : \A k \in T : ~(<<k, n>> \in R)
  BY <1>1, WFMin
<1>4. \A k \in T : n <= k
  BY <1>2, <1>3
<1> QED
  BY <1>4

LEMMA SliceAppend ==
    ASSUME NEW S, NEW q \in Seq(S), NEW k \in 1 .. Len(q), NEW a \in 1 .. k
    PROVE  Append(SubSeq(q, a, k - 1), q[k]) = SubSeq(q, a, k)
  OBVIOUS

LEMMA SliceRemove ==
    ASSUME NEW S, NEW q \in Seq(S), NEW k \in 1 .. Len(q), NEW a \in 1 .. k
    PROVE  RemoveAt(SubSeq(q, a, k), 1) = SubSeq(q, a + 1, k)
<1> DEFINE p == SubSeq(q, a, k)
<1>1. p \in Seq(S) /\ Len(p) = k - a + 1 /\ \A j \in 1 .. k - a + 1 : p[j] = q[a + j - 1]
  OBVIOUS
<1> HIDE DEF p
<1>2. /\ RemoveAt(p, 1) \in Seq(S) /\ Len(RemoveAt(p, 1)) = k - a
      /\ \A j \in 1 .. k - a : RemoveAt(p, 1)[j] = p[j + 1]
  <2>1. Len(q) \in Nat /\ k - a \in Nat /\ (k - a + 1) - 1 = k - a /\ 1 \in 1 .. k - a + 1
    OBVIOUS
  <2>2. /\ RemoveAt(p, 1) \in Seq(S) /\ Len(RemoveAt(p, 1)) = Len(p) - 1
        /\ \A j \in 1 .. Len(p) - 1 : RemoveAt(p, 1)[j] = IF j < 1 THEN p[j] ELSE p[j + 1]
    BY <1>1, <2>1, RemoveAtShape
  <2>3. \A j \in 1 .. k - a : ~(j < 1)
    BY <2>1
  <2> QED
    BY <1>1, <2>1, <2>2, <2>3
<1>3. /\ SubSeq(q, a + 1, k) \in Seq(S) /\ Len(SubSeq(q, a + 1, k)) = k - a
      /\ \A j \in 1 .. k - a : SubSeq(q, a + 1, k)[j] = q[a + j]
  OBVIOUS
<1>4. \A j \in 1 .. k - a : RemoveAt(p, 1)[j] = SubSeq(q, a + 1, k)[j]
  <2> SUFFICES ASSUME NEW j \in 1 .. k - a
               PROVE  RemoveAt(p, 1)[j] = SubSeq(q, a + 1, k)[j]
    OBVIOUS
  <2>1. j + 1 \in 1 .. k - a + 1 /\ a + (j + 1) - 1 = a + j
    OBVIOUS
  <2>2. p[j + 1] = q[a + j]
    BY <1>1, <2>1
  <2> QED
    BY <1>2, <1>3, <2>2
<1> QED
  BY <1>2, <1>3, <1>4, SeqEqual DEF p

\* How many songs the limit has evicted after k inserts.
Gone(l, k) == IF l.max_index < 0 \/ k <= l.max_index THEN 0 ELSE k - l.max_index

CopyOf(l, k) ==
    [l EXCEPT !.songs = SubSeq(l.songs, Gone(l, k) + 1, k),
              !.current_index = IF l.max_index = 0 \/ @ < 0 THEN @
                                ELSE IF @ < Gone(l, k) THEN 0 ELSE @ - Gone(l, k)]

LEMMA CopyFacts ==
    ASSUME NEW l \in ListType, NEW k \in 0 .. Length(l)
    PROVE  /\ l.songs \in Seq(Songs) /\ Length(l) \in Nat /\ l.max_index \in Int
           /\ l.max_index >= -1 /\ l.current_index \in Int /\ Gone(l, k) \in 0 .. k
           /\ CopyOf(l, k) \in ListType /\ CopyOf(l, k).max_index = l.max_index
           /\ CopyOf(l, k).songs = SubSeq(l.songs, Gone(l, k) + 1, k)
           /\ Length(CopyOf(l, k)) = k - Gone(l, k)
           /\ CopyOf(l, k).current_index =
                 IF l.max_index = 0 \/ l.current_index < 0 THEN l.current_index
                 ELSE IF l.current_index < Gone(l, k) THEN 0
                 ELSE l.current_index - Gone(l, k)
<1>1. /\ l.songs \in Seq(Songs) /\ Length(l) \in Nat /\ l.max_index \in Int
      /\ l.max_index >= -1 /\ l.current_index \in Int
  <2>1. \A m \in MaxIndexes \cup {-1} : m \in Int /\ m >= -1
    BY BoundAssumption
  <2> QED
    BY <2>1 DEF ListType, Length
<1>2. Gone(l, k) \in 0 .. k
  BY <1>1 DEF Gone
<1> DEFINE g == Gone(l, k)
           q == SubSeq(l.songs, g + 1, k)
           c == IF l.max_index = 0 \/ l.current_index < 0 THEN l.current_index
                ELSE IF l.current_index < g THEN 0 ELSE l.current_index - g
<1>3. CopyOf(l, k) = [l EXCEPT !.songs = q, !.current_index = c]
  BY DEF CopyOf
<1>4. q \in Seq(Songs) /\ Len(q) = k - g
  BY <1>1, <1>2 DEF Length
<1>5. c \in Int
  BY <1>1, <1>2
<1> HIDE DEF q, c, g
<1>6. /\ CopyOf(l, k) \in ListType /\ CopyOf(l, k).max_index = l.max_index
      /\ CopyOf(l, k).songs = q /\ CopyOf(l, k).current_index = c
  BY <1>3, <1>4, <1>5 DEF ListType
<1> QED
  BY <1>1, <1>2, <1>4, <1>6 DEF q, c, g, Length

LEMMA SameList ==
    ASSUME NEW x \in ListType, NEW y \in ListType, x.songs = y.songs,
           x.max_index = y.max_index, x.current_index = y.current_index, x.mode = y.mode
    PROVE  x = y
  BY DEF ListType

\* One round of the loop.
LEMMA CopyRound ==
    ASSUME NEW l \in ListType, Index(l), NEW k \in 1 .. Length(l)
    PROVE  Insert(CopyOf(l, k - 1), l.songs[k]) = CopyOf(l, k)
<1> DEFINE p == CopyOf(l, k - 1)
           n == CopyOf(l, k)
           m == l.max_index
           c == l.current_index
           h == Gone(l, k - 1)
           g == Gone(l, k)
<1>1. /\ l.songs \in Seq(Songs) /\ Length(l) \in Nat /\ m \in Int /\ m >= -1
      /\ c \in Int /\ c >= 0 /\ k \in Nat /\ k - 1 \in 0 .. Length(l) /\ k \in 0 .. Length(l)
  BY CopyFacts DEF Index
<1>2. /\ p \in ListType /\ p.max_index = m /\ p.songs = SubSeq(l.songs, h + 1, k - 1)
      /\ Length(p) = k - 1 - h /\ h \in 0 .. k - 1
      /\ p.current_index = IF m = 0 THEN c ELSE IF c < h THEN 0 ELSE c - h
  <2>1. /\ CopyOf(l, k - 1) \in ListType /\ CopyOf(l, k - 1).max_index = l.max_index
        /\ CopyOf(l, k - 1).songs = SubSeq(l.songs, Gone(l, k - 1) + 1, k - 1)
        /\ Length(CopyOf(l, k - 1)) = k - 1 - Gone(l, k - 1) /\ Gone(l, k - 1) \in 0 .. k - 1
        /\ CopyOf(l, k - 1).current_index =
              IF l.max_index = 0 \/ l.current_index < 0 THEN l.current_index
              ELSE IF l.current_index < Gone(l, k - 1) THEN 0
              ELSE l.current_index - Gone(l, k - 1)
    BY <1>1, CopyFacts
  <2> QED
    BY <1>1, <2>1
<1>3. /\ n \in ListType /\ n.max_index = m /\ n.songs = SubSeq(l.songs, g + 1, k)
      /\ g \in 0 .. k
      /\ n.current_index = IF m = 0 THEN c ELSE IF c < g THEN 0 ELSE c - g
  <2>1. /\ CopyOf(l, k) \in ListType /\ CopyOf(l, k).max_index = l.max_index
        /\ CopyOf(l, k).songs = SubSeq(l.songs, Gone(l, k) + 1, k) /\ Gone(l, k) \in 0 .. k
        /\ CopyOf(l, k).current_index =
              IF l.max_index = 0 \/ l.current_index < 0 THEN l.current_index
              ELSE IF l.current_index < Gone(l, k) THEN 0 ELSE l.current_index - Gone(l, k)
    BY <1>1, CopyFacts
  <2> QED
    BY <1>1, <2>1
<1>4. p.mode = l.mode /\ n.mode = l.mode
  BY DEF CopyOf, ListType
<1>5. ASSUME NEW x \in ListType, x.songs = n.songs, x.max_index = m, x.mode = l.mode,
             x.current_index = n.current_index
      PROVE  x = n
  <2> HIDE DEF n, m
  <2> QED
    BY <1>3, <1>4, <1>5, SameList
<1>6. h = (IF m < 0 \/ k - 1 <= m THEN 0 ELSE k - 1 - m)
      /\ g = (IF m < 0 \/ k <= m THEN 0 ELSE k - m)
  BY DEF Gone
<1>7. l.songs[k] \in Songs
  BY <1>1 DEF Length
<1> SUFFICES Insert(p, l.songs[k]) = n
  OBVIOUS
<1> HIDE DEF p, n, m, c, h, g
<1>8. CASE m < 0 \/ k <= m
  <2>1. h = 0 /\ g = 0 /\ ~Full(p) /\ m # 0
    BY <1>1, <1>2, <1>6, <1>8 DEF Full
  <2> DEFINE x == [p EXCEPT !.songs = Append(@, l.songs[k]),
                            !.current_index = IF @ < 0 THEN 0 ELSE @]
  <2>2. Insert(p, l.songs[k]) = x
    BY <2>1 DEF Insert, Refuses, Evicted
  <2>3. Append(p.songs, l.songs[k]) = n.songs
    <3>1. Append(SubSeq(l.songs, 1, k - 1), l.songs[k]) = SubSeq(l.songs, 1, k)
      BY <1>1, SliceAppend DEF Length
    <3> QED
      BY <1>2, <1>3, <2>1, <3>1
  <2>4. (IF p.current_index < 0 THEN 0 ELSE p.current_index) = n.current_index
    BY <1>1, <1>2, <1>3, <2>1
  <2>5. /\ x = [p EXCEPT !.songs = n.songs, !.current_index = n.current_index]
    BY <2>3, <2>4
  <2>6. x \in ListType /\ x.songs = n.songs /\ x.max_index = m /\ x.mode = l.mode
        /\ x.current_index = n.current_index
    <3> HIDE DEF x
    <3> QED
      BY <1>2, <1>3, <1>4, <2>5 DEF ListType
  <2> QED
    BY <1>5, <2>2, <2>6
<1>9. CASE m = 0
  <2>1. h = k - 1 /\ g = k /\ Refuses(p)
    BY <1>1, <1>2, <1>6, <1>9 DEF Full, Refuses
  <2>2. p.songs = <<>> /\ n.songs = <<>>
    BY <1>1, <1>2, <1>3, <2>1 DEF Length
  <2>3. Insert(p, l.songs[k]) = p
    BY <2>1 DEF Insert
  <2> QED
    BY <1>2, <1>3, <1>4, <1>5, <1>9, <2>2, <2>3
<1>10. CASE m > 0 /\ m < k
  <2>1. h = k - 1 - m /\ g = h + 1 /\ Length(p) = m /\ Full(p) /\ ~Refuses(p) /\ h \in Nat
    BY <1>1, <1>2, <1>6, <1>10 DEF Full, Refuses
  <2> DEFINE r == RemoveAt(p.songs, 1)
             b == IF 0 < p.current_index THEN p.current_index - 1 ELSE p.current_index
             e == DeleteIndex(p, 0)
             x == [e EXCEPT !.songs = Append(@, l.songs[k]),
                            !.current_index = IF @ < 0 THEN 0 ELSE @]
  <2>2. Insert(p, l.songs[k]) = x
    BY <2>1 DEF Insert, Evicted
  <2>3. e = [p EXCEPT !.songs = r, !.current_index = b]
    BY <1>10, <2>1, <1>1 DEF DeleteIndex
  <2>4. r = SubSeq(l.songs, g + 1, k - 1)
    <3>1. k - 1 \in 1 .. Len(l.songs) /\ h + 1 \in 1 .. k - 1 /\ (h + 1) + 1 = g + 1
      BY <1>1, <1>10, <2>1 DEF Length
    <3>2. RemoveAt(SubSeq(l.songs, h + 1, k - 1), 1) = SubSeq(l.songs, (h + 1) + 1, k - 1)
      BY <1>1, <3>1, SliceRemove
    <3> QED
      BY <1>2, <3>1, <3>2
  <2>5. Append(r, l.songs[k]) = n.songs
    <3>1. k \in 1 .. Len(l.songs) /\ g + 1 \in 1 .. k
      BY <1>1, <1>10, <2>1 DEF Length
    <3>2. Append(SubSeq(l.songs, g + 1, k - 1), l.songs[k]) = SubSeq(l.songs, g + 1, k)
      BY <1>1, <3>1, SliceAppend
    <3> QED
      BY <1>3, <2>4, <3>2
  <2>6. (IF b < 0 THEN 0 ELSE b) = n.current_index
    BY <1>1, <1>2, <1>3, <1>10, <2>1
  <2>7. e.songs = r /\ e.current_index = b
    <3> HIDE DEF e, r, b
    <3> QED
      BY <1>2, <2>3 DEF ListType
  <2>8. x = [p EXCEPT !.songs = n.songs, !.current_index = n.current_index]
    <3>1. x = [e EXCEPT !.songs = n.songs, !.current_index = n.current_index]
      BY <2>5, <2>6, <2>7
    <3> HIDE DEF x, r, b, e
    <3> QED
      BY <1>2, <2>3, <3>1 DEF ListType
  <2>9. x \in ListType /\ x.songs = n.songs /\ x.max_index = m /\ x.mode = l.mode
        /\ x.current_index = n.current_index
    <3> HIDE DEF x
    <3> QED
      BY <1>2, <1>3, <1>4, <2>8 DEF ListType
  <2> HIDE DEF x
  <2> QED
    BY <1>5, <2>2, <2>9
<1>11. m < 0 \/ k <= m \/ m = 0 \/ (m > 0 /\ m < k)
  BY <1>1
<1> QED
  BY <1>8, <1>9, <1>10, <1>11

LEMMA CopyIs ==
    ASSUME NEW l \in ListType, Index(l)
    PROVE  CopyList(l) = CopyOf(l, Length(l))
<1> DEFINE D == 0 .. Length(l)
           base == [l EXCEPT !.songs = <<>>]
           w == [k \in D |-> CopyOf(l, k)]
           copied[k \in D] == IF k = 0 THEN base ELSE Insert(copied[k - 1], l.songs[k])
<1>1. Length(l) \in Nat
  BY DEF ListType, Length
<1>2. w[0] = base
  <2>1. 0 \in D
    BY <1>1
  <2>2. /\ CopyOf(l, 0) \in ListType /\ CopyOf(l, 0).max_index = l.max_index
        /\ CopyOf(l, 0).songs = SubSeq(l.songs, Gone(l, 0) + 1, 0)
        /\ Gone(l, 0) = 0
        /\ CopyOf(l, 0).current_index = l.current_index
    BY <2>1, CopyFacts
  <2>3. CopyOf(l, 0).songs = <<>> /\ CopyOf(l, 0).mode = l.mode
    BY <2>2 DEF CopyOf, ListType
  <2>4. CopyOf(l, 0) = base
    BY <2>2, <2>3 DEF ListType
  <2> QED
    BY <2>1, <2>4
<1>3. \A k \in D \ {0} : w[k] = Insert(w[k - 1], l.songs[k])
  <2> SUFFICES ASSUME NEW k \in D \ {0} PROVE w[k] = Insert(w[k - 1], l.songs[k])
    OBVIOUS
  <2>1. k \in 1 .. Length(l) /\ k \in D /\ k - 1 \in D
    BY <1>1
  <2> QED
    BY <2>1, CopyRound
<1> HIDE DEF base
<1>4. w = [k \in D |-> IF k = 0 THEN base ELSE Insert(w[k - 1], l.songs[k])]
  BY <1>2, <1>3
<1>5. copied = [k \in D |-> IF k = 0 THEN base ELSE Insert(copied[k - 1], l.songs[k])]
  <2>1. copied = CHOOSE g : g = [k \in D |-> IF k = 0 THEN base ELSE Insert(g[k - 1], l.songs[k])]
    BY DEF copied
  <2> HIDE DEF copied, w, D
  <2> QED
    BY <1>4, <2>1
<1> HIDE DEF copied
<1>6. \A k \in D : copied[k] = w[k]
  <2> DEFINE T == {k \in D : copied[k] # w[k]}
  <2> SUFFICES ASSUME T # {} PROVE FALSE
    OBVIOUS
  <2>1. PICK k \in T : \A j \in T : k <= j
    <3>1. T \in SUBSET Nat
      BY <1>1
    <3> HIDE DEF T
    <3> QED
      BY <3>1, LeastNat
  <2>2. k \in D /\ copied[k] # w[k]
    OBVIOUS
  <2>3. k # 0
    BY <1>2, <1>5, <2>2
  <2>4. k - 1 \in D /\ k - 1 \notin T
    BY <1>1, <2>1, <2>2, <2>3
  <2>5. copied[k - 1] = w[k - 1]
    BY <2>4
  <2> HIDE DEF w, D
  <2> QED
    BY <1>3, <1>5, <2>2, <2>3, <2>5
<1>7. CopyList(l) = copied[Length(l)]
  BY DEF CopyList, copied, base
<1>8. Length(l) \in D
  BY <1>1
<1> QED
  BY <1>6, <1>7, <1>8

\* For every list and every limit, also one set below the length the list
\* already has: a copy holds the newest songs the limit allows, in their order,
\* and the current song of the list, if it is among them, is current in the copy
\* (mozart_musiclist_copy, mozart_musiclist_insert).
THEOREM CopyKeepsCurrent == Spec => []CopyFaithful
<1>1. IInv => CopyFaithful
  <2> SUFFICES ASSUME IInv PROVE CopyFaithful
    OBVIOUS
  <2> DEFINE n == Length(list)
             copy == CopyList(list)
             g == Gone(list, n)
             c == list.current_index
             m == list.max_index
  <2>1. list \in ListType /\ Index(list) /\ Distinct(list) /\ n \in Nat /\ n \in 0 .. n
    BY DEF IInv, TypeOK, ListType, Length
  <2>2. copy = CopyOf(list, n)
    BY <2>1, CopyIs
  <2>3. /\ list.songs \in Seq(Songs) /\ m \in Int /\ m >= -1 /\ c \in Int /\ g \in 0 .. n
        /\ copy \in ListType /\ copy.songs = SubSeq(list.songs, g + 1, n)
        /\ Length(copy) = n - g
    <3>1. /\ list.songs \in Seq(Songs) /\ list.max_index \in Int /\ list.max_index >= -1
          /\ list.current_index \in Int /\ Gone(list, n) \in 0 .. n
          /\ CopyOf(list, n) \in ListType
          /\ CopyOf(list, n).songs = SubSeq(list.songs, Gone(list, n) + 1, n)
          /\ Length(CopyOf(list, n)) = n - Gone(list, n)
      BY <2>1, CopyFacts
    <3> QED
      BY <2>2, <3>1
  <2>4. copy.current_index = IF m = 0 \/ c < 0 THEN c ELSE IF c < g THEN 0 ELSE c - g
    <3>1. CopyOf(list, n).current_index =
             IF list.max_index = 0 \/ list.current_index < 0 THEN list.current_index
             ELSE IF list.current_index < Gone(list, n) THEN 0
             ELSE list.current_index - Gone(list, n)
      BY <2>1, CopyFacts
    <3> QED
      BY <2>2, <3>1
  <2>5. g = IF m < 0 \/ n <= m THEN 0 ELSE n - m
    BY DEF Gone
  <2> SUFFICES /\ copy.songs = SubSeq(list.songs, n - Length(copy) + 1, n)
               /\ Length(copy) = IF m < 0 \/ m > n THEN n ELSE m
               /\ GetCurrent(list) \in ToSet(copy.songs) => GetCurrent(copy) = GetCurrent(list)
    BY DEF CopyFaithful
  <2>8. Length(list) = n /\ Len(list.songs) = n
    BY DEF Length
  <2>9. list.current_index = c
    OBVIOUS
  <2> HIDE DEF copy, n, g, c, m
  <2>6. /\ copy.songs = SubSeq(list.songs, n - Length(copy) + 1, n)
        /\ Length(copy) = IF m < 0 \/ m > n THEN n ELSE m
    <3>1. n - (n - g) = g
      BY <2>1, <2>3
    <3> QED
      BY <2>1, <2>3, <2>5, <3>1
  <2>7. ASSUME GetCurrent(list) \in ToSet(copy.songs)
        PROVE  GetCurrent(copy) = GetCurrent(list)
    <3>1. c \in 0 .. n - 1 /\ GetCurrent(list) = list.songs[c + 1]
      BY <2>1, <2>3, <2>7, <2>8, <2>9, CurrentInList
    <3>2. PICK j \in 1 .. n - g : copy.songs[j] = list.songs[c + 1]
      <4>1. DOMAIN copy.songs = 1 .. n - g
        BY <2>1, <2>3, <2>8
      <4> QED
        BY <2>7, <3>1, <4>1 DEF ToSet
    <3>3. copy.songs[j] = list.songs[g + j]
      <4>1. g + 1 \in Nat \ {0} /\ (g + 1) + j - 1 = g + j /\ n - (g + 1) + 1 = n - g
        BY <2>1, <2>3
      <4>2. SubSeq(list.songs, g + 1, n)[j] = list.songs[(g + 1) + j - 1]
        BY <2>1, <2>3, <2>8, <4>1
      <4> QED
        BY <2>3, <4>1, <4>2
    <3>4. g + j = c + 1
      <4>1. g + j \in 1 .. n /\ c + 1 \in 1 .. n
        BY <2>1, <2>3, <3>1
      <4> QED
        BY <2>1, <2>8, <3>2, <3>3, <4>1 DEF Distinct
    <3>5. copy.current_index = j - 1
      BY <2>1, <2>3, <2>4, <2>5, <3>1, <3>4
    <3>6. ~(j - 1 < 0) /\ j - 1 < Length(copy) /\ (j - 1) + 1 = j
      BY <2>1, <2>3
    <3>7. GetCurrent(copy) = copy.songs[j]
      BY <3>5, <3>6 DEF GetCurrent, GetElement
    <3> QED
      BY <3>1, <3>2, <3>7
  <2> QED
    BY <2>6, <2>7
<1> QED
  BY <1>1, InductiveInvariant, PTL

=============================================================================
