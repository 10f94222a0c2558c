------------------------- MODULE MockCollectionsProofs -------------------------
(***************************************************************************)
(* The collections of the mock backend, proved for any members and fields, *)
(* any argument lists, scores and bounds: what a command answers is what   *)
(* it did, and what LMPop and ZMPop have handed out is not written over.   *)
(***************************************************************************)
EXTENDS MockCollections, SequenceTheorems, FiniteSetTheorems, TLAPS

-----------------------------------------------------------------------------
(* Slices.                                                                 *)

\* The slice and its free cells fit into an array.
SliceFits ==
    /\ DOMAIN slice = {"elems", "room"}
    /\ Len(Elements) <= MaxLen
    /\ slice.room \in Nat /\ slice.room + Len(Elements) <= MaxRoom + MaxLen

Results ==
    [n : 0..MaxLen, at : Int, shared : BOOLEAN, intact : BOOLEAN,
     side : {"first", "last"}, later : BOOLEAN]

\* What has been taken from the front lies before the slice, where nobody writes;
\* what has been taken from the end lies behind it until something is appended.
HeldOutside ==
    held.shared =>
        /\ held.side = "first" => held.at + held.n <= 0
        /\ held.side = "last" /\ ~held.later => held.at >= Len(Elements)

\* The inductive invariant of a slice, whatever it holds.
SliceInv == SliceFits /\ held \in Results /\ HeldOutside /\ PopsAreKept

\* A function on 1..n is a sequence of length n.
LEMMA FunctionIsSeq ==
    ASSUME NEW n \in Nat, NEW S, NEW f \in [1..n -> S]
    PROVE  f \in Seq(S) /\ Len(f) = n /\ DOMAIN f = 1..n
  BY SeqDef

\* What a write to the first cells does to the result that was handed out.
LEMMA WrittenToFacts ==
    ASSUME held \in Results, NEW cells
    PROVE  /\ WrittenTo(cells) \in Results
           /\ WrittenTo(cells).n = held.n /\ WrittenTo(cells).at = held.at
           /\ WrittenTo(cells).shared = held.shared /\ WrittenTo(cells).side = held.side
           /\ WrittenTo(cells).later = held.later
           /\ WrittenTo(cells).intact <=>
                held.intact /\ ~(held.shared /\ \E i \in 1..held.n :
                                    held.at + i > 0 /\ held.at + i <= cells)
<1> DEFINE hit == held.shared /\ \E i \in 1..held.n : held.at + i > 0 /\ held.at + i <= cells
<1>1. WrittenTo(cells) = [held EXCEPT !.intact = @ /\ ~hit]
  BY DEF WrittenTo
<1>2. hit \in BOOLEAN
  OBVIOUS
<1> HIDE DEF hit
<1>3. (held.intact /\ ~hit) \in BOOLEAN
  BY <1>2 DEF Results
<1> QED BY <1>1, <1>3, Zenon DEF Results, hit

\* Appending k elements in place.
LEMMA InPlaceStep ==
    ASSUME SliceInv, NEW S, Elements \in Seq(S), NEW k \in Nat, k <= slice.room,
           NEW T, NEW after \in Seq(T), Len(after) = Len(Elements) + k, Len(after) <= MaxLen,
           InPlace(k, after)
    PROVE  SliceInv' /\ Elements' = after
<1> USE DEF SliceInv
<1>0. Len(Elements) \in Nat /\ Len(after) \in Nat /\ MaxLen \in Nat /\ MaxRoom \in Nat
  BY CollectionsAssumption, LenProperties
<1>1. slice' = [elems |-> after, room |-> slice.room - k]
      /\ held' = [WrittenTo(Len(after)) EXCEPT !.later = @ \/ k > 0]
  BY DEF InPlace
<1>2. Elements' = after /\ slice'.room = slice.room - k /\ DOMAIN slice' = {"elems", "room"}
  BY <1>1 DEF Elements
<1>3. SliceFits'
  BY <1>0, <1>2 DEF SliceFits
<1> DEFINE w == WrittenTo(Len(after))
<1>4. /\ w \in Results /\ w.n = held.n /\ w.at = held.at /\ w.shared = held.shared
      /\ w.side = held.side /\ w.later = held.later
      /\ w.intact <=> held.intact /\ ~(held.shared /\ \E i \in 1..held.n :
                            held.at + i > 0 /\ held.at + i <= Len(after))
  BY WrittenToFacts
<1>5. held' = [w EXCEPT !.later = w.later \/ k > 0]
  BY <1>1
<1> HIDE DEF w
<1>6. (w.later \/ k > 0) \in BOOLEAN
  OBVIOUS
<1>7. /\ held' \in Results
      /\ held'.n = w.n /\ held'.at = w.at /\ held'.shared = w.shared
      /\ held'.side = w.side /\ held'.intact = w.intact
      /\ held'.later = (w.later \/ k > 0)
  BY <1>4, <1>5, <1>6, Zenon DEF Results
<1>8. HeldOutside'
  <2>1. held'.side = "first" /\ held'.shared => held'.at + held'.n <= 0
    BY <1>4, <1>7 DEF HeldOutside
  <2>2. ASSUME held'.side = "last", ~held'.later, held'.shared
        PROVE  held'.at >= Len(after)
    <3>1. k = 0 /\ ~held.later
      <4>1. ~held.later /\ ~(k > 0)
        BY <1>4, <1>7, <2>2, Zenon
      <4> QED BY <4>1
    <3> QED BY <1>0, <1>4, <1>7, <2>2, <3>1 DEF HeldOutside
  <2> QED BY <1>2, <2>1, <2>2 DEF HeldOutside
<1>9. held'.intact \/ (held'.side = "last" /\ held'.later)
  <2>1. CASE held.side = "first"
    <3>1. held.shared => \A i \in 1..held.n : ~(held.at + i > 0)
      BY <2>1 DEF HeldOutside, Results
    <3>2. held.intact
      BY <2>1 DEF PopsAreKept
    <3> QED BY <1>4, <1>7, <3>1, <3>2
  <2>2. CASE held.side = "last" /\ (held.later \/ k > 0)
    BY <1>4, <1>7, <2>2
  <2>3. CASE held.side = "last" /\ ~held.later /\ k = 0
    <3>1. held.shared => \A i \in 1..held.n : ~(held.at + i <= Len(after))
      BY <1>0, <2>3 DEF HeldOutside, Results
    <3>2. held.intact
      BY <2>3 DEF PopsAreKept
    <3> QED BY <1>4, <1>7, <3>1, <3>2
  <2>4. held.side = "first" \/ held.side = "last"
    BY DEF Results
  <2> QED BY <2>1, <2>2, <2>3, <2>4
<1> QED BY <1>2, <1>3, <1>7, <1>8, <1>9 DEF PopsAreKept

\* Moving to a new array.
LEMMA ReallocatedStep ==
    ASSUME SliceInv, NEW S, Elements \in Seq(S), NEW cells,
           NEW T, NEW after \in Seq(T), Len(after) <= MaxLen, Reallocated(after, cells)
    PROVE  SliceInv' /\ Elements' = after
<1> USE DEF SliceInv
<1>0. Len(Elements) \in Nat /\ Len(after) \in Nat /\ MaxLen \in Nat /\ MaxRoom \in Nat
  BY CollectionsAssumption, LenProperties
<1>1. PICK free \in 0..MaxRoom : slice' = [elems |-> after, room |-> free]
  BY DEF Reallocated
<1>2. Elements' = after /\ slice'.room = free /\ DOMAIN slice' = {"elems", "room"}
  BY <1>1 DEF Elements
<1>3. SliceFits'
  BY <1>0, <1>1, <1>2 DEF SliceFits
<1> DEFINE w == WrittenTo(cells)
<1>4. held' = [w EXCEPT !.n = 0, !.at = 0, !.shared = FALSE, !.later = TRUE]
  BY DEF Reallocated
<1>5. /\ w \in Results /\ w.side = held.side
      /\ w.intact <=> held.intact /\ ~(held.shared /\ \E i \in 1..held.n :
                            held.at + i > 0 /\ held.at + i <= cells)
  BY WrittenToFacts
<1> HIDE DEF w
<1>6. 0 \in 0..MaxLen /\ 0 \in Int
  BY <1>0
<1>7. /\ held' \in Results /\ held'.side = w.side /\ held'.intact = w.intact
      /\ held'.shared = FALSE /\ held'.later = TRUE
  BY <1>4, <1>5, <1>6, Zenon DEF Results
<1>8. HeldOutside'
  BY <1>7 DEF HeldOutside
<1>9. held'.intact \/ (held'.side = "last" /\ held'.later)
  <2>1. CASE held.side = "first"
    <3>1. held.shared => \A i \in 1..held.n : ~(held.at + i > 0)
      BY <2>1 DEF HeldOutside, Results
    <3>2. held.intact
      BY <2>1 DEF PopsAreKept
    <3> QED BY <1>5, <1>7, <3>1, <3>2
  <2>2. CASE held.side = "last"
    BY <1>5, <1>7, <2>2
  <2> QED BY <2>1, <2>2 DEF Results
<1> QED BY <1>2, <1>3, <1>7, <1>8, <1>9 DEF PopsAreKept

\* n elements are handed out, from either end.
LEMMA PopStep ==
    ASSUME SliceInv, NEW S, Elements \in Seq(S), NEW count \in Nat, PopMany(count)
    PROVE  /\ SliceInv' /\ Elements' \in Seq(S)
           /\ Len(Elements) = Len(Elements') + claim'.n
           /\ \E d \in Nat : /\ d + Len(Elements') <= Len(Elements)
                             /\ \A i \in 1..Len(Elements') : Elements'[i] = Elements[d + i]
<1> USE DEF SliceInv
<1> DEFINE len == Len(Elements)
           n == IF count > len THEN len ELSE count
<1>1. len \in Nat /\ DOMAIN Elements = 1..len /\ MaxLen \in Nat /\ MaxRoom \in Nat
  BY CollectionsAssumption, LenProperties
<1>2. n \in 0..len /\ n \in 0..MaxLen
  BY <1>1 DEF SliceFits
<1>3. PopFirst(n) \/ PopLast(n)
  BY DEF PopMany
<1>4. claim'.n = n
  BY DEF PopMany, Says
<1> HIDE DEF n, len
<1>5. CASE PopFirst(n)
  <2>1. /\ slice' = [slice EXCEPT !.elems = SubSeq(Elements, n + 1, len)]
        /\ held' = Handed(n, -n, "first")
    BY <1>5 DEF PopFirst, Elements, len
  <2> DEFINE m == n + 1
             rest == SubSeq(Elements, m, len)
  <2>2. m \in Int /\ len \in Int /\ \A i \in m..len : Elements[i] \in S
    BY <1>1, <1>2, ElementOfSeq DEF len
  <2>a. m = n + 1
    OBVIOUS
  <2> HIDE DEF m
  <2>3. /\ rest \in Seq(S) /\ Len(rest) = IF m <= len THEN len - m + 1 ELSE 0
        /\ \A i \in 1..(len - m + 1) : rest[i] = Elements[m + i - 1]
    BY <2>2, SubSeqProperties
  <2>4. slice' = [slice EXCEPT !.elems = rest]
    BY <2>1, <2>a
  <2> HIDE DEF rest
  <2>5. Len(rest) = len - n
    BY <1>1, <1>2, <2>a, <2>3
  <2>6. \A i \in 1..(len - n) : i \in 1..(len - m + 1) /\ m + i - 1 = n + i
    BY <1>1, <1>2, <2>a
  <2>7. \A i \in 1..(len - n) : rest[i] = Elements[n + i]
    BY <2>3, <2>6
  <2>8. /\ Elements' = rest /\ slice'.room = slice.room
        /\ DOMAIN slice' = {"elems", "room"}
    BY <2>4 DEF Elements, SliceFits
  <2>9. SliceFits'
    BY <1>1, <1>2, <2>5, <2>8 DEF SliceFits, len
  <2>10. /\ held' \in Results /\ held'.intact = TRUE
         /\ held'.side = "first" /\ held'.at + held'.n = 0
    BY <1>2, <2>1 DEF Handed, Results
  <2>11. HeldOutside' /\ PopsAreKept'
    BY <2>10 DEF HeldOutside, PopsAreKept
  <2>12. n \in Nat /\ Len(Elements') = len - n /\ len = Len(Elements')+ n
    BY <1>1, <1>2, <2>5, <2>8
  <2>13. \E d \in Nat : /\ d + Len(Elements') <= len
                        /\ \A i \in 1..Len(Elements') : Elements'[i] = Elements[d + i]
    <3>1. /\ n \in Nat /\ n + Len(Elements') <= len
          /\ \A i \in 1..Len(Elements') : Elements'[i] = Elements[n + i]
      BY <1>1, <2>7, <2>8, <2>12
    <3> QED BY <3>1
  <2> QED BY <1>4, <2>3, <2>8, <2>9, <2>10, <2>11, <2>12, <2>13 DEF len
<1>6. CASE PopLast(n)
  <2> DEFINE left == len - n
             rest == SubSeq(Elements, 1, left)
  <2>1. /\ slice' = [elems |-> rest, room |-> slice.room + n]
        /\ held' = Handed(n, left, "last")
    BY <1>6 DEF PopLast, Elements, len
  <2>2. left \in Nat /\ left + n = len /\ \A i \in 1..left : Elements[i] \in S
    <3>1. left \in Nat /\ left + n = len /\ left <= len
      BY <1>1, <1>2
    <3> QED BY <1>1, <3>1, ElementOfSeq DEF len
  <2> HIDE DEF left
  <2>3. /\ rest \in Seq(S) /\ Len(rest) = left
        /\ \A i \in 1..left : rest[i] = Elements[i]
    BY <2>2, SubSeqProperties
  <2> HIDE DEF rest
  <2>4. /\ Elements' = rest /\ slice'.room = slice.room + n
        /\ DOMAIN slice' = {"elems", "room"}
    BY <2>1 DEF Elements
  <2>5. SliceFits'
    BY <1>1, <1>2, <2>2, <2>3, <2>4 DEF SliceFits, len
  <2>6. /\ held' \in Results /\ held'.intact = TRUE
        /\ held'.side = "last" /\ held'.at = left
    BY <1>2, <2>1, <2>2 DEF Handed, Results
  <2>7. HeldOutside' /\ PopsAreKept'
    BY <2>2, <2>3, <2>4, <2>6 DEF HeldOutside, PopsAreKept
  <2>8. \E d \in Nat : /\ d + Len(Elements') <= len
                       /\ \A i \in 1..Len(Elements') : Elements'[i] = Elements[d + i]
    <3>1. 0 \in Nat /\ 0 + left <= len /\ \A i \in 1..left : 0 + i = i
      BY <1>1, <1>2, <2>2
    <3> QED BY <2>3, <2>4, <3>1
  <2> QED BY <1>4, <2>2, <2>3, <2>4, <2>5, <2>6, <2>7, <2>8 DEF len
<1> QED BY <1>3, <1>5, <1>6

-----------------------------------------------------------------------------
(* Lists.                                                                  *)

\* The hash and the sets of an area that has none.
NoHash == hash = {}
NoSets == sets = [k \in SetKeys |-> {}]

ListInv == NoHash /\ NoSets /\ Elements \in Seq(Items) /\ SliceInv

\* Without sets there are no memberships to count.
LEMMA NoMembers == ASSUME NoSets PROVE Memberships = {} /\ Cardinality(Memberships) = 0
<1>1. Memberships = {}
  BY DEF NoSets, Memberships
<1> QED BY <1>1, FS_EmptySet

\* A window over everything is everything.
LEMMA WholeWindow ==
    ASSUME NEW S, NEW s \in Seq(S) PROVE Len(Window(s, 0, -1)) = Len(s)
<1>1. Len(s) \in Nat
  BY LenProperties
<1> DEFINE n == Len(s)
           last == IF n - 1 >= n THEN n - 1 ELSE n - 1
<1>2. Window(s, 0, -1) = IF 0 > n - 1 \/ n = 0 THEN <<>> ELSE SubSeq(s, 1, n)
  <2>1. ~(0 < 0) /\ -1 < 0 /\ n + (-1) = n - 1 /\ ~(n - 1 >= n) /\ (n - 1) + 1 = n /\ 0 + 1 = 1
    BY <1>1
  <2> QED BY <2>1 DEF Window
<1>3. SubSeq(s, 1, n) = s
  BY SubSeqFull
<1>4. CASE n = 0
  BY <1>2, <1>4, EmptySeq
<1>5. CASE n # 0
  BY <1>1, <1>2, <1>3, <1>5
<1> QED BY <1>4, <1>5

\* A step of a list: it keeps the invariant and answers what it did.
LEMMA ListStep ==
    ASSUME ListInv, ListNext
    PROVE  /\ ListInv'
           /\ claim'.what = "shrank" => Len(Elements') = Len(Elements) - claim'.n
           /\ claim'.what = "size" => Len(Elements') = claim'.n
           /\ claim'.what \in {"size", "shrank"}
<1> USE DEF ListInv
<1>1. UNCHANGED <<hash, sets>>
  BY DEF ListNext, LPush, RPush, LPop, RPop, PopMany, SliceRead
<1>2. NoHash' /\ NoSets'
  BY <1>1 DEF NoHash, NoSets
<1>3. Len(Elements) \in Nat /\ MaxLen \in Nat /\ MaxRoom \in Nat
  BY CollectionsAssumption, LenProperties
<1>4. ASSUME NEW vs \in ItemLists, LPush(vs)
      PROVE  /\ SliceInv' /\ Elements' \in Seq(Items)
             /\ claim'.what = "size" /\ claim'.n = Len(Elements')
  <2> DEFINE after == vs \o Elements
  <2>1. vs \in Seq(Items)
    BY CollectionsAssumption
  <2>2. after \in Seq(Items) /\ Len(after) = Len(Elements) + Len(vs) /\ Len(vs) \in Nat
    BY <1>3, <2>1, ConcatProperties, LenProperties
  <2>3. Len(after) <= MaxLen /\ claim' = Says("size", Len(after))
    BY <1>4 DEF LPush
  <2> HIDE DEF after
  <2>4. claim'.what = "size" /\ claim'.n = Len(after)
    BY <2>3 DEF Says
  <2>5. CASE Elements = <<>>
    <3>1. /\ slice' = [elems |-> vs, room |-> 0]
          /\ held' = [held EXCEPT !.n = 0, !.at = 0, !.shared = FALSE, !.later = TRUE]
      BY <1>4, <2>5 DEF LPush
    <3>2. after = vs
      BY <2>1, <2>5, ConcatEmptySeq DEF after
    <3>3. Elements' = after /\ slice'.room = 0 /\ DOMAIN slice' = {"elems", "room"}
      BY <3>1, <3>2 DEF Elements
    <3>4. SliceFits'
      BY <1>3, <2>2, <2>3, <3>3 DEF SliceFits
    <3>5. 0 \in 0..MaxLen /\ 0 \in Int
      BY <1>3
    <3>6. /\ held' \in Results /\ held'.shared = FALSE /\ held'.later = TRUE
          /\ held'.intact = held.intact /\ held'.side = held.side
      BY <3>1, <3>5, Zenon DEF Results, SliceInv
    <3>7. HeldOutside' /\ PopsAreKept'
      BY <3>6 DEF HeldOutside, PopsAreKept, SliceInv
    <3> QED BY <2>2, <2>4, <3>3, <3>4, <3>6, <3>7 DEF SliceInv
  <2>6. CASE Elements # <<>>
    <3>1. Reallocated(after, 0)
      BY <1>4, <2>6 DEF LPush, after
    <3>2. SliceInv' /\ Elements' = after
      BY <2>2, <2>3, <3>1, ReallocatedStep
    <3> QED BY <2>2, <2>4, <3>2
  <2> QED BY <2>5, <2>6
<1>5. ASSUME NEW vs \in ItemLists, RPush(vs)
      PROVE  /\ SliceInv' /\ Elements' \in Seq(Items)
             /\ claim'.what = "size" /\ claim'.n = Len(Elements')
  <2> DEFINE after == Elements \o vs
  <2>1. vs \in Seq(Items)
    BY CollectionsAssumption
  <2>2. after \in Seq(Items) /\ Len(after) = Len(Elements) + Len(vs) /\ Len(vs) \in Nat
    BY <1>3, <2>1, ConcatProperties, LenProperties
  <2>3. /\ Len(after) <= MaxLen
        /\ IF Len(vs) <= slice.room THEN InPlace(Len(vs), after) ELSE Reallocated(after, 0)
        /\ claim' = Says("size", Len(after))
    BY <1>5 DEF RPush, AppendAll
  <2> HIDE DEF after
  <2>4. SliceInv' /\ Elements' = after
    BY <2>2, <2>3, InPlaceStep, ReallocatedStep
  <2> QED BY <2>2, <2>3, <2>4 DEF Says
<1>6. ASSUME LPop
      PROVE  /\ SliceInv' /\ Elements' \in Seq(Items)
             /\ claim'.what = "shrank" /\ Len(Elements') = Len(Elements) - claim'.n
  <2>1. /\ Elements # <<>> /\ slice' = [slice EXCEPT !.elems = Tail(Elements)]
        /\ held' = IF held.shared THEN [held EXCEPT !.at = held.at - 1] ELSE held
        /\ claim' = Says("shrank", 1)
    BY <1>6 DEF LPop, Elements
  <2>2. Tail(Elements) \in Seq(Items) /\ Len(Tail(Elements)) = Len(Elements) - 1
    BY <2>1, HeadTailProperties
  <2>3. /\ Elements' = Tail(Elements) /\ slice'.room = slice.room
        /\ DOMAIN slice' = {"elems", "room"}
    BY <2>1 DEF Elements, SliceFits, SliceInv
  <2>4. SliceFits'
    BY <1>3, <2>2, <2>3 DEF SliceFits, SliceInv
  <2>5. /\ held' \in Results /\ held'.shared = held.shared /\ held'.later = held.later
        /\ held'.intact = held.intact /\ held'.side = held.side /\ held'.n = held.n
        /\ held'.at = IF held.shared THEN held.at - 1 ELSE held.at
    BY <2>1 DEF Results, SliceInv
  <2>6. HeldOutside'
    BY <1>3, <2>2, <2>3, <2>5 DEF HeldOutside, Results, SliceInv
  <2>7. PopsAreKept'
    BY <2>5 DEF PopsAreKept, SliceInv
  <2> QED BY <2>1, <2>2, <2>3, <2>4, <2>5, <2>6, <2>7 DEF SliceInv, Says
<1>7. ASSUME RPop
      PROVE  /\ SliceInv' /\ Elements' \in Seq(Items)
             /\ claim'.what = "shrank" /\ Len(Elements') = Len(Elements) - claim'.n
  <2> DEFINE left == Len(Elements) - 1
  <2>1. /\ Elements # <<>>
        /\ slice' = [elems |-> SubSeq(Elements, 1, left), room |-> slice.room + 1]
        /\ claim' = Says("shrank", 1) /\ UNCHANGED held
    BY <1>7 DEF RPop, Front
  <2>2. left \in Nat /\ left + 1 = Len(Elements) /\ \A i \in 1..left : Elements[i] \in Items
    <3>1. Len(Elements) # 0
      BY <2>1, EmptySeq
    <3>2. left \in Nat /\ left + 1 = Len(Elements) /\ 1..left \subseteq 1..Len(Elements)
      BY <1>3, <3>1
    <3> QED BY <3>2, ElementOfSeq
  <2> HIDE DEF left
  <2>3. SubSeq(Elements, 1, left) \in Seq(Items) /\ Len(SubSeq(Elements, 1, left)) = left
    BY <2>2, SubSeqProperties
  <2>4. /\ Elements' = SubSeq(Elements, 1, left) /\ slice'.room = slice.room + 1
        /\ DOMAIN slice' = {"elems", "room"}
    BY <2>1 DEF Elements
  <2>5. SliceFits'
    BY <1>3, <2>2, <2>3, <2>4 DEF SliceFits, SliceInv
  <2>6. held' \in Results /\ HeldOutside' /\ PopsAreKept'
    BY <1>3, <2>1, <2>2, <2>3, <2>4 DEF HeldOutside, Results, PopsAreKept, SliceInv
  <2> QED BY <2>1, <2>2, <2>3, <2>4, <2>5, <2>6 DEF SliceInv, Says
<1>8. ASSUME NEW n \in 1..2, PopMany(n)
      PROVE  /\ SliceInv' /\ Elements' \in Seq(Items)
             /\ claim'.what = "shrank" /\ Len(Elements') = Len(Elements) - claim'.n
  <2>1. /\ SliceInv' /\ Elements' \in Seq(Items)
        /\ Len(Elements) = Len(Elements') + claim'.n
    BY <1>8, PopStep
  <2>2. claim'.what = "shrank" /\ claim'.n \in Nat
    BY <1>3, <1>8 DEF PopMany, Says
  <2>3. Len(Elements') \in Nat
    BY <2>1, LenProperties
  <2> QED BY <2>1, <2>2, <2>3
<1>9. ASSUME SliceRead
      PROVE  /\ SliceInv' /\ Elements' \in Seq(Items)
             /\ claim'.what = "size" /\ claim'.n = Len(Elements')
  <2>1. UNCHANGED <<slice, held>> /\ claim' = Says("size", Len(Window(Elements, 0, -1)))
    BY <1>9 DEF SliceRead
  <2>2. claim' = Says("size", Len(Elements))
    BY <2>1, WholeWindow
  <2> QED
    BY <2>1, <2>2
    DEF Says, Elements, SliceInv, SliceFits, HeldOutside, PopsAreKept
<1> QED BY <1>2, <1>4, <1>5, <1>6, <1>7, <1>8, <1>9 DEF ListNext

-----------------------------------------------------------------------------
(* Sorted sets.                                                            *)

ZSetInv == NoHash /\ NoSets /\ (\E S : Elements \in Seq(S)) /\ ScoresAscend(Elements) /\ SliceInv

\* Sorting keeps the length.
LEMMA SortingsKeepLength ==
    ASSUME NEW S, NEW s \in Seq(S), NEW z \in Sortings(s)
    PROVE  z \in Seq(S) /\ Len(z) = Len(s) /\ ScoresAscend(z)
<1> DEFINE n == Len(s)
<1>1. n \in Nat /\ DOMAIN s = 1..n /\ \A i \in 1..n : s[i] \in S
  BY LenProperties, ElementOfSeq
<1> HIDE DEF n
<1>2. PICK p \in [1..n -> 1..n] : z = [i \in 1..n |-> s[p[i]]]
  BY <1>1 DEF Sortings
<1>3. z \in [1..n -> S]
  BY <1>1, <1>2
<1>4. z \in Seq(S) /\ Len(z) = n
  BY <1>1, <1>3, FunctionIsSeq
<1> QED BY <1>4 DEF Sortings, n

\* The members that ZAdd does not find are finitely many.
LEMMA NewcomersFinite ==
    ASSUME NEW ms \in ItemLists, NEW scores \in [DOMAIN ms -> Scores]
    PROVE  Cardinality(Newcomers(Scored(ms, scores))) \in Nat
<1>1. ms \in Seq(Items)
  BY CollectionsAssumption
<1>2. \A j \in DOMAIN ms : ms[j] \in Items
  BY <1>1, ElementOfSeq, LenProperties
<1>3. Newcomers(Scored(ms, scores)) \subseteq Items
  BY <1>2 DEF Newcomers, Scored
<1>4. IsFiniteSet(Newcomers(Scored(ms, scores)))
  BY <1>3, CollectionsAssumption, FS_Subset
<1> QED BY <1>4, FS_CardinalityType

\* ZAdd keeps the invariant and counts what it adds.
LEMMA ZAddStep ==
    ASSUME ZSetInv, NEW ms \in ItemLists, NEW scores \in [DOMAIN ms -> Scores],
           ZAdd(Scored(ms, scores))
    PROVE  /\ SliceInv' /\ (\E S : Elements' \in Seq(S)) /\ ScoresAscend(Elements')
           /\ claim'.what = "grew" /\ Len(Elements') = Len(Elements) + claim'.n
<1> DEFINE given == Scored(ms, scores)
           k == Cardinality(Newcomers(given))
           old == Rescored(given)
<1>1. PICK S : Elements \in Seq(S)
  BY DEF ZSetInv
<1> DEFINE n == Len(Elements)
<1>2. n \in Nat /\ DOMAIN Elements = 1..n
  BY <1>1, LenProperties
<1>3. k \in Nat
  BY NewcomersFinite
<1>4. DOMAIN old = 1..n /\ old = [i \in 1..n |-> old[i]]
  BY <1>2 DEF Rescored
<1>5. PICK new \in [1..k -> Newcomers(given)] :
          \E z \in Sortings(old \o [i \in 1..k |-> [member |-> new[i],
                                                    score |-> LastScore(given, new[i])]]) :
             AppendEach(k, z)
  BY DEF ZAdd
<1> DEFINE added == [i \in 1..k |-> [member |-> new[i], score |-> LastScore(given, new[i])]]
<1>6. PICK z \in Sortings(old \o added) : AppendEach(k, z)
  BY <1>5
<1>7. DOMAIN added = 1..k /\ added = [i \in 1..k |-> added[i]]
  OBVIOUS
<1>8. claim' = Says("grew", k)
  BY DEF ZAdd
<1> HIDE DEF given, k, old, n, added
<1> DEFINE T == {old[i] : i \in 1..n} \union {added[i] : i \in 1..k}
<1>9. old \in [1..n -> T] /\ added \in [1..k -> T]
  BY <1>4, <1>7
<1> HIDE DEF T
<1>10. /\ old \in Seq(T) /\ Len(old) = n /\ added \in Seq(T) /\ Len(added) = k
  BY <1>2, <1>3, <1>9, FunctionIsSeq
<1>11. old \o added \in Seq(T) /\ Len(old \o added) = n + k
  BY <1>10, ConcatProperties
<1>12. z \in Seq(T) /\ Len(z) = n + k /\ ScoresAscend(z)
  BY <1>6, <1>11, SortingsKeepLength
<1>13. /\ Len(z) <= MaxLen
       /\ IF k <= slice.room THEN InPlace(k, z) ELSE Reallocated(z, Len(Elements) + slice.room)
  BY <1>6 DEF AppendEach
<1>14. SliceInv' /\ Elements' = z
  <2>1. Len(z) = Len(Elements) + k
    BY <1>12 DEF n
  <2> QED BY <1>1, <1>3, <1>12, <1>13, <2>1, InPlaceStep, ReallocatedStep DEF ZSetInv
<1> QED BY <1>8, <1>12, <1>14 DEF n, Says

\* AddZSet keeps the invariant; it counts nothing.
LEMMA AddZSetStep ==
    ASSUME ZSetInv, NEW ms \in ItemLists, NEW scores \in [DOMAIN ms -> Scores],
           AddZSet(Scored(ms, scores))
    PROVE  /\ SliceInv' /\ (\E S : Elements' \in Seq(S)) /\ ScoresAscend(Elements')
           /\ claim'.what = "grew" /\ Len(Elements') = Len(Elements) + claim'.n
<1> DEFINE given == Scored(ms, scores)
           k == Len(ms)
<1>1. PICK S : Elements \in Seq(S)
  BY DEF ZSetInv
<1>2. ms \in Seq(Items) /\ k \in Nat /\ DOMAIN ms = 1..k
  BY CollectionsAssumption, LenProperties
<1>3. Len(Elements) \in Nat
  BY <1>1, LenProperties
<1>4. given = [i \in 1..k |-> given[i]] /\ given \in [1..k -> {given[i] : i \in 1..k}]
  BY <1>2 DEF Scored
<1>5. PICK z \in Sortings(Elements \o given) : AppendAll(Len(given), z)
  BY DEF AddZSet
<1>6. claim' = Says("grew", Len(given))
  BY DEF AddZSet
<1> HIDE DEF given, k
<1> DEFINE T == {given[i] : i \in 1..k}
           U == S \union T
<1>7. given \in Seq(T) /\ Len(given) = k
  BY <1>2, <1>4, FunctionIsSeq
<1>8. given \in Seq(U) /\ Elements \in Seq(U)
  BY <1>1, <1>7, SeqMonotonic
<1> HIDE DEF U, T
<1>9. Elements \o given \in Seq(U) /\ Len(Elements \o given) = Len(Elements) + k
  BY <1>7, <1>8, ConcatProperties
<1>10. z \in Seq(U) /\ Len(z) = Len(Elements) + k /\ ScoresAscend(z)
  BY <1>5, <1>9, SortingsKeepLength
<1>11. /\ Len(z) <= MaxLen
       /\ IF k <= slice.room THEN InPlace(k, z) ELSE Reallocated(z, 0)
  BY <1>5, <1>7 DEF AppendAll
<1>12. SliceInv' /\ Elements' = z
  BY <1>1, <1>2, <1>10, <1>11, InPlaceStep, ReallocatedStep DEF ZSetInv
<1> QED BY <1>6, <1>7, <1>10, <1>12 DEF Says

\* ZRem keeps the invariant and counts what it removes.
LEMMA ZRemStep ==
    ASSUME ZSetInv, NEW ms, ZRem(ms)
    PROVE  /\ SliceInv' /\ (\E S : Elements' \in Seq(S)) /\ ScoresAscend(Elements')
           /\ claim'.what = "shrank" /\ Len(Elements') = Len(Elements) - claim'.n
<1> USE DEF SliceInv
<1> DEFINE n == Len(Elements)
           kept == {i \in DOMAIN Elements : Elements[i].member \notin ToSet(ms)}
           c == Cardinality(kept)
<1>1. PICK S : Elements \in Seq(S)
  BY DEF ZSetInv
<1>2. /\ n \in Nat /\ DOMAIN Elements = 1..n /\ MaxLen \in Nat /\ MaxRoom \in Nat
      /\ \A i \in 1..n : Elements[i] \in S
  BY <1>1, CollectionsAssumption, LenProperties, ElementOfSeq
<1>3. kept \subseteq 1..n
  BY <1>2
<1>4. PICK places \in [1..c -> kept] :
          /\ \A i, j \in DOMAIN places : i < j => places[i] < places[j]
          /\ slice' = [elems |-> [i \in DOMAIN places |-> Elements[places[i]]],
                       room |-> slice.room + (n - c)]
  BY DEF ZRem
<1>5. claim' = Says("shrank", n - c) /\ UNCHANGED held
  BY DEF ZRem
<1> HIDE DEF n, kept, c
<1>6. c \in Nat /\ c <= n
  <2>1. IsFiniteSet(1..n) /\ Cardinality(1..n) = n
    BY <1>2, FS_Interval
  <2>2. kept \in SUBSET (1..n)
    BY <1>3
  <2>3. IsFiniteSet(kept) /\ Cardinality(kept) <= Cardinality(1..n)
    BY <2>1, <2>2, FS_Subset
  <2> QED BY <2>1, <2>3, FS_CardinalityType DEF c
<1> DEFINE rest == [i \in 1..c |-> Elements[places[i]]]
<1>7. /\ slice' = [elems |-> rest, room |-> slice.room + (n - c)]
      /\ \A i, j \in 1..c : i < j => places[i] < places[j]
  BY <1>4
<1>8. rest \in [1..c -> S]
  BY <1>2, <1>3
<1>9. rest \in Seq(S) /\ Len(rest) = c /\ DOMAIN rest = 1..c
  BY <1>6, <1>8, FunctionIsSeq
<1>10. ScoresAscend(rest)
  <2> SUFFICES ASSUME NEW i \in 1..c, NEW j \in 1..c, i < j
               PROVE  rest[i].score <= rest[j].score
    BY <1>9 DEF ScoresAscend
  <2>1. places[i] \in DOMAIN Elements /\ places[j] \in DOMAIN Elements /\ places[i] < places[j]
    BY <1>2, <1>3, <1>7
  <2>2. Elements[places[i]].score <= Elements[places[j]].score
    BY <2>1 DEF ZSetInv, ScoresAscend
  <2> QED BY <2>2
<1> HIDE DEF rest
<1>11. /\ Elements' = rest /\ slice'.room = slice.room + (n - c)
       /\ DOMAIN slice' = {"elems", "room"}
  BY <1>7 DEF Elements
<1>12. SliceFits'
  BY <1>2, <1>6, <1>9, <1>11 DEF ZSetInv, SliceFits, n
<1>13. held' \in Results /\ HeldOutside' /\ PopsAreKept'
  BY <1>2, <1>5, <1>6, <1>9, <1>11 DEF ZSetInv, HeldOutside, Results, PopsAreKept, n
<1> QED BY <1>2, <1>5, <1>6, <1>9, <1>10, <1>11, <1>12, <1>13 DEF Says, n

\* A step of a sorted set: it keeps the invariant and answers what it did.
LEMMA ZSetStep ==
    ASSUME ZSetInv, ZSetNext
    PROVE  /\ ZSetInv'
           /\ claim'.what = "grew" => Len(Elements') = Len(Elements) + claim'.n
           /\ claim'.what = "shrank" => Len(Elements') = Len(Elements) - claim'.n
           /\ claim'.what = "size" => Len(Elements') = claim'.n
           /\ claim'.what \in {"size", "shrank", "grew"}
<1>1. UNCHANGED <<hash, sets>>
  BY DEF ZSetNext, ZAdd, AddZSet, ZRem, PopMany, SliceRead
<1>2. NoHash' /\ NoSets'
  BY <1>1 DEF NoHash, NoSets, ZSetInv
<1>3. PICK S : Elements \in Seq(S)
  BY DEF ZSetInv
<1>4. Len(Elements) \in Nat /\ DOMAIN Elements = 1..Len(Elements)
  BY <1>3, LenProperties
<1>5. ASSUME NEW n \in 1..2, PopMany(n)
      PROVE  /\ SliceInv' /\ (\E R : Elements' \in Seq(R)) /\ ScoresAscend(Elements')
             /\ claim'.what = "shrank" /\ Len(Elements') = Len(Elements) - claim'.n
  <2>1. SliceInv
    BY DEF ZSetInv
  <2>2. /\ SliceInv' /\ Elements' \in Seq(S) /\ Len(Elements) = Len(Elements') + claim'.n
    BY <1>3, <1>5, <2>1, PopStep
  <2>3. PICK d \in Nat : /\ d + Len(Elements') <= Len(Elements)
                         /\ \A i \in 1..Len(Elements') : Elements'[i] = Elements[d + i]
    BY <1>3, <1>5, <2>1, PopStep
  <2>4. Len(Elements') \in Nat /\ DOMAIN Elements' = 1..Len(Elements')
    BY <2>2, LenProperties
  <2>5. ASSUME NEW i \in 1..Len(Elements'), NEW j \in 1..Len(Elements'), i < j
        PROVE  Elements'[i].score <= Elements'[j].score
    <3>1. d + i \in DOMAIN Elements /\ d + j \in DOMAIN Elements /\ d + i < d + j
      BY <1>4, <2>3, <2>4, <2>5
    <3>2. Elements[d + i].score <= Elements[d + j].score
      BY <3>1 DEF ZSetInv, ScoresAscend
    <3> QED BY <2>3, <3>2
  <2>6. ScoresAscend(Elements')
    BY <2>4, <2>5 DEF ScoresAscend
  <2>7. claim'.what = "shrank" /\ claim'.n \in Nat
    BY <1>4, <1>5 DEF PopMany, Says
  <2> QED BY <2>2, <2>4, <2>6, <2>7
<1>6. ASSUME SliceRead
      PROVE  /\ SliceInv' /\ Elements' = Elements
             /\ claim'.what = "size" /\ claim'.n = Len(Elements')
  <2>1. UNCHANGED <<slice, held>> /\ claim' = Says("size", Len(Window(Elements, 0, -1)))
    BY <1>6 DEF SliceRead
  <2>2. claim' = Says("size", Len(Elements))
    BY <1>3, <2>1, WholeWindow
  <2> QED
    BY <2>1, <2>2
    DEF Says, Elements, ZSetInv, SliceInv, SliceFits, HeldOutside, PopsAreKept
<1>7. CASE \E ms \in ItemLists : \E scores \in [DOMAIN ms -> Scores] :
               ZAdd(Scored(ms, scores)) \/ AddZSet(Scored(ms, scores))
  BY <1>2, <1>7, ZAddStep, AddZSetStep DEF ZSetInv
<1>8. CASE \E ms \in ItemLists : ZRem(ms)
  BY <1>2, <1>8, ZRemStep DEF ZSetInv
<1>9. CASE (\E n \in 1..2 : PopMany(n)) \/ SliceRead
  BY <1>2, <1>5, <1>6, <1>9 DEF ZSetInv
<1> QED BY <1>7, <1>8, <1>9 DEF ZSetNext

-----------------------------------------------------------------------------
(* Hashes and sets.                                                        *)

NoSlice == slice = [elems |-> <<>>, room |-> 0] /\ held = NoResult

HashInv == hash \subseteq Items /\ NoSets /\ NoSlice

SetInv == NoHash /\ sets \in [SetKeys -> SUBSET Items] /\ NoSlice

\* A step of a hash: it keeps the invariant and answers what it did.
LEMMA HashStep ==
    ASSUME HashInv, HashNext
    PROVE  /\ HashInv'
           /\ claim'.what = "grew" => Cardinality(hash') = Cardinality(hash) + claim'.n
           /\ claim'.what = "shrank" => Cardinality(hash') = Cardinality(hash) - claim'.n
           /\ claim'.what = "size" => Cardinality(hash') = claim'.n
           /\ claim'.what \in {"grew", "shrank", "size", "nothing"}
<1> USE DEF HashInv
<1>1. NoSets' /\ NoSlice'
  BY DEF HashNext, HSet, SetHash, HDel, HRead, NoSets, NoSlice
<1>2. IsFiniteSet(hash) /\ Cardinality(hash) \in Nat
  <2>1. IsFiniteSet(hash)
    BY CollectionsAssumption, FS_Subset
  <2> QED BY <2>1, FS_CardinalityType
<1>3. ASSUME NEW fs \in SUBSET Items, HSet(fs)
      PROVE  /\ hash' \subseteq Items /\ claim'.what = "grew"
             /\ Cardinality(hash') = Cardinality(hash) + claim'.n
  <2>1. hash' = hash \union fs /\ claim' = Says("grew", Cardinality(fs \ hash))
    BY <1>3 DEF HSet
  <2>2. IsFiniteSet(fs)
    BY CollectionsAssumption, FS_Subset
  <2>3. IsFiniteSet(fs \ hash) /\ Cardinality(fs \ hash) \in Nat
    BY <2>2, FS_Difference, FS_CardinalityType
  <2>4. hash \union fs = hash \union (fs \ hash) /\ hash \intersect (fs \ hash) = {}
    OBVIOUS
  <2>5. Cardinality(hash \union (fs \ hash)) =
            Cardinality(hash) + Cardinality(fs \ hash) - Cardinality(hash \intersect (fs \ hash))
    BY <1>2, <2>3, FS_Union
  <2>6. Cardinality(hash \union fs) = Cardinality(hash) + Cardinality(fs \ hash)
    <3>1. Cardinality(hash \intersect (fs \ hash)) = 0
      BY <2>4, FS_EmptySet
    <3>2. Cardinality(hash \union fs) = Cardinality(hash \union (fs \ hash))
      BY <2>4
    <3> QED BY <1>2, <2>3, <2>5, <3>1, <3>2
  <2> QED BY <2>1, <2>6 DEF Says
<1>4. ASSUME NEW fs \in SUBSET Items, SetHash(fs)
      PROVE  hash' \subseteq Items /\ claim'.what = "nothing"
  BY <1>4 DEF SetHash, Says
<1>5. ASSUME NEW fs \in ItemLists, HDel(fs)
      PROVE  /\ hash' \subseteq Items /\ claim'.what = "shrank"
             /\ Cardinality(hash') = Cardinality(hash) - claim'.n
  <2>1. /\ hash' = hash \ ToSet(fs)
        /\ claim' = Says("shrank", Cardinality(ToSet(fs) \intersect hash))
    BY <1>5 DEF HDel
  <2>2. Cardinality(hash \ ToSet(fs)) = Cardinality(hash) - Cardinality(hash \intersect ToSet(fs))
    BY <1>2, FS_Difference
  <2>3. hash \intersect ToSet(fs) = ToSet(fs) \intersect hash
    OBVIOUS
  <2> QED BY <2>1, <2>2, <2>3 DEF Says
<1>6. ASSUME HRead
      PROVE  hash' = hash /\ claim'.what = "size" /\ claim'.n = Cardinality(hash)
  BY <1>6 DEF HRead, Says
<1> QED BY <1>1, <1>3, <1>4, <1>5, <1>6 DEF HashNext

\* The pairs of one key.
LEMMA PairsOf ==
    ASSUME NEW k, NEW X, IsFiniteSet(X)
    PROVE  IsFiniteSet({k} \X X) /\ Cardinality({k} \X X) = Cardinality(X)
<1>1. IsFiniteSet({k}) /\ Cardinality({k}) = 1
  BY FS_Singleton
<1>2. IsFiniteSet({k} \X X) /\ Cardinality({k} \X X) = Cardinality({k}) * Cardinality(X)
  BY <1>1, FS_Product
<1>3. Cardinality(X) \in Nat
  BY FS_CardinalityType
<1> QED BY <1>1, <1>2, <1>3

\* However the members are distributed over the sets, there are finitely many.
LEMMA PairsFinite ==
    ASSUME NEW f
    PROVE  /\ IsFiniteSet({p \in SetKeys \X Items : p[2] \in f[p[1]]})
           /\ Cardinality({p \in SetKeys \X Items : p[2] \in f[p[1]]}) \in Nat
<1> DEFINE P == {p \in SetKeys \X Items : p[2] \in f[p[1]]}
<1>1. IsFiniteSet(SetKeys \X Items)
  BY CollectionsAssumption, FS_Product
<1>2. P \in SUBSET (SetKeys \X Items)
  OBVIOUS
<1> HIDE DEF P
<1>3. IsFiniteSet(P)
  BY <1>1, <1>2, FS_Subset
<1>4. Cardinality(P) \in Nat
  BY <1>3, FS_CardinalityType
<1> QED BY <1>3, <1>4 DEF P

\* The memberships of finitely many sets can be counted.
LEMMA MembershipsFinite ==
    /\ IsFiniteSet(Memberships) /\ Cardinality(Memberships) \in Nat
    /\ Cardinality(Memberships') \in Nat
  BY PairsFinite DEF Memberships

\* What adding to one set adds to all of them ...
LEMMA MembershipsGrow ==
    ASSUME sets \in [SetKeys -> SUBSET Items], NEW k \in SetKeys, NEW M \in SUBSET Items,
           sets' = [sets EXCEPT ![k] = @ \union M]
    PROVE  /\ sets' \in [SetKeys -> SUBSET Items]
           /\ Cardinality(M \ sets[k]) \in Nat
           /\ Cardinality(M \ sets[k]) = 0 <=> M \subseteq sets[k]
           /\ Cardinality(Memberships') = Cardinality(Memberships) + Cardinality(M \ sets[k])
<1> DEFINE new == M \ sets[k]
           pairs == {k} \X new
<1>1. IsFiniteSet(M)
  BY CollectionsAssumption, FS_Subset
<1>2. IsFiniteSet(new) /\ Cardinality(new) \in Nat /\ (Cardinality(new) = 0 <=> new = {})
  BY <1>1, FS_Difference, FS_CardinalityType, FS_EmptySet
<1>3. IsFiniteSet(pairs) /\ Cardinality(pairs) = Cardinality(new)
  BY <1>2, PairsOf
<1>4. sets' \in [SetKeys -> SUBSET Items]
  OBVIOUS
<1>5. Memberships' = Memberships \union pairs /\ Memberships \intersect pairs = {}
  BY DEF Memberships
<1>6. new = {} <=> M \subseteq sets[k]
  OBVIOUS
<1> HIDE DEF pairs
<1>7. Cardinality(Memberships \union pairs) =
          Cardinality(Memberships) + Cardinality(pairs) - Cardinality(Memberships \intersect pairs)
  BY <1>3, MembershipsFinite, FS_Union
<1>8. Cardinality(Memberships') = Cardinality(Memberships) + Cardinality(new)
  <2>1. Cardinality(Memberships \intersect pairs) = 0
    BY <1>5, FS_EmptySet
  <2>2. Cardinality(Memberships') = Cardinality(Memberships \union pairs)
    BY <1>5
  <2> QED BY <1>2, <1>3, <1>7, <2>1, <2>2, MembershipsFinite
<1> QED BY <1>2, <1>4, <1>6, <1>8

\* ... and what removing from it removes.
LEMMA MembershipsShrink ==
    ASSUME sets \in [SetKeys -> SUBSET Items], NEW k \in SetKeys, NEW M \in SUBSET Items,
           sets' = [sets EXCEPT ![k] = @ \ M]
    PROVE  /\ sets' \in [SetKeys -> SUBSET Items]
           /\ Cardinality(Memberships') = Cardinality(Memberships) - Cardinality(M \intersect sets[k])
<1> DEFINE gone == M \intersect sets[k]
           pairs == {k} \X gone
<1>1. IsFiniteSet(M)
  BY CollectionsAssumption, FS_Subset
<1>2. IsFiniteSet(gone)
  BY <1>1, FS_Intersection
<1>3. Cardinality(pairs) = Cardinality(gone)
  BY <1>2, PairsOf
<1>4. Memberships' = Memberships \ pairs /\ Memberships \intersect pairs = pairs
  BY DEF Memberships
<1>5. sets' \in [SetKeys -> SUBSET Items]
  OBVIOUS
<1> HIDE DEF pairs
<1>6. Cardinality(Memberships \ pairs) =
          Cardinality(Memberships) - Cardinality(Memberships \intersect pairs)
  BY MembershipsFinite, FS_Difference
<1> QED BY <1>3, <1>4, <1>5, <1>6

\* The union of the sets is no larger than all of them together.
LEMMA UnionIsSmaller ==
    ASSUME sets \in [SetKeys -> SUBSET Items]
    PROVE  Cardinality(UNION {sets[k] : k \in SetKeys}) <= Cardinality(Memberships)
<1> DEFINE all == UNION {sets[k] : k \in SetKeys}
           f == [p \in Memberships |-> p[2]]
<1>1. f \in [Memberships -> all]
  BY DEF Memberships
<1>2. ASSUME NEW m \in all PROVE \E p \in Memberships : f[p] = m
  <2>1. PICK k \in SetKeys : m \in sets[k]
    OBVIOUS
  <2>2. <<k, m>> \in Memberships
    BY <2>1 DEF Memberships
  <2> QED BY <2>2
<1>3. f \in Surjection(Memberships, all)
  BY <1>1, <1>2 DEF Surjection
<1> HIDE DEF f, all
<1>4. Cardinality(all) <= Cardinality(Memberships)
  BY <1>3, MembershipsFinite, FS_Surjection
<1> QED BY <1>4 DEF all

\* A step of the sets: it keeps the invariant and answers what it did.
LEMMA SetStep ==
    ASSUME SetInv, SetNext
    PROVE  /\ SetInv' /\ Cardinality(Memberships') \in Nat
           /\ claim'.what = "grew" =>
                Cardinality(Memberships') = Cardinality(Memberships) + claim'.n
           /\ claim'.what = "shrank" =>
                Cardinality(Memberships') = Cardinality(Memberships) - claim'.n
           /\ claim'.what = "size" => Cardinality(Memberships') = claim'.n
           /\ claim'.what = "atMost" => claim'.n <= Cardinality(Memberships')
           /\ claim'.what \in {"more", "same"} =>
                (claim'.what = "more" <=> Cardinality(Memberships') > Cardinality(Memberships))
<1> USE DEF SetInv
<1>1. NoHash' /\ NoSlice'
  BY DEF SetNext, SAdd, SRem, AddUncounted, PFMerge, PFCount, SRead, NoHash, NoSlice
<1>2. ASSUME NEW ms \in ItemLists PROVE ToSet(ms) \in SUBSET Items
  <2>1. ms \in Seq(Items)
    BY CollectionsAssumption
  <2> QED BY <2>1, ElementOfSeq, LenProperties DEF ToSet
<1>3. Cardinality(Memberships) \in Nat
  BY MembershipsFinite
<1> SUFFICES /\ sets' \in [SetKeys -> SUBSET Items]
             /\ claim'.what = "grew" =>
                  Cardinality(Memberships') = Cardinality(Memberships) + claim'.n
             /\ claim'.what = "shrank" =>
                  Cardinality(Memberships') = Cardinality(Memberships) - claim'.n
             /\ claim'.what = "size" => Cardinality(Memberships') = claim'.n
             /\ claim'.what = "atMost" => claim'.n <= Cardinality(Memberships')
             /\ claim'.what \in {"more", "same"} =>
                  (claim'.what = "more" <=> Cardinality(Memberships') > Cardinality(Memberships))
  BY <1>1, MembershipsFinite
<1>4. ASSUME NEW k \in SetKeys, NEW ms \in ItemLists, SAdd(k, ms)
      PROVE  /\ sets' \in [SetKeys -> SUBSET Items] /\ claim'.what = "grew"
             /\ Cardinality(Memberships') = Cardinality(Memberships) + claim'.n
  <2>1. sets' = [sets EXCEPT ![k] = @ \union ToSet(ms)]
        /\ claim' = Says("grew", Cardinality(ToSet(ms) \ sets[k]))
    BY <1>4 DEF SAdd, NewMembers
  <2>2. /\ sets' \in [SetKeys -> SUBSET Items]
        /\ Cardinality(Memberships') = Cardinality(Memberships) + Cardinality(ToSet(ms) \ sets[k])
    BY <1>2, <2>1, MembershipsGrow
  <2> QED BY <2>1, <2>2 DEF Says
<1>5. ASSUME NEW k \in SetKeys, NEW ms \in ItemLists, SRem(k, ms)
      PROVE  /\ sets' \in [SetKeys -> SUBSET Items] /\ claim'.what = "shrank"
             /\ Cardinality(Memberships') = Cardinality(Memberships) - claim'.n
  <2>1. sets' = [sets EXCEPT ![k] = @ \ ToSet(ms)]
        /\ claim' = Says("shrank", Cardinality(ToSet(ms) \intersect sets[k]))
    BY <1>5 DEF SRem
  <2>2. /\ sets' \in [SetKeys -> SUBSET Items]
        /\ Cardinality(Memberships') =
             Cardinality(Memberships) - Cardinality(ToSet(ms) \intersect sets[k])
    BY <1>2, <2>1, MembershipsShrink
  <2> QED BY <2>1, <2>2 DEF Says
<1>6. ASSUME NEW k \in SetKeys, NEW ms \in ItemLists, AddUncounted(k, ms)
      PROVE  /\ sets' \in [SetKeys -> SUBSET Items] /\ claim'.what \in {"more", "same"}
             /\ claim'.what = "more" <=> Cardinality(Memberships') > Cardinality(Memberships)
  <2>1. sets' = [sets EXCEPT ![k] = @ \union ToSet(ms)]
        /\ claim' = Says(IF ToSet(ms) \subseteq sets[k] THEN "same" ELSE "more", 0)
    BY <1>6 DEF AddUncounted
  <2>2. /\ sets' \in [SetKeys -> SUBSET Items]
        /\ Cardinality(ToSet(ms) \ sets[k]) \in Nat
        /\ Cardinality(ToSet(ms) \ sets[k]) = 0 <=> ToSet(ms) \subseteq sets[k]
        /\ Cardinality(Memberships') = Cardinality(Memberships) + Cardinality(ToSet(ms) \ sets[k])
    BY <1>2, <2>1, MembershipsGrow
  <2>3. claim'.what = IF ToSet(ms) \subseteq sets[k] THEN "same" ELSE "more"
    BY <2>1 DEF Says
  <2> QED BY <1>3, <2>2, <2>3
<1>7. ASSUME NEW k \in SetKeys, NEW ks \in SUBSET SetKeys, PFMerge(k, ks)
      PROVE  sets' \in [SetKeys -> SUBSET Items] /\ claim'.what = "nothing"
  <2>1. UNION {sets[j] : j \in ks} \subseteq Items
    OBVIOUS
  <2> QED BY <1>7, <2>1 DEF PFMerge, Says
<1>8. ASSUME PFCount
      PROVE  sets' = sets /\ claim'.what = "atMost" /\ claim'.n <= Cardinality(Memberships)
  BY <1>8, UnionIsSmaller DEF PFCount, Says
<1>9. ASSUME SRead
      PROVE  sets' = sets /\ claim'.what = "size" /\ claim'.n = Cardinality(Memberships)
  BY <1>9 DEF SRead, Says
<1>10. sets' = sets => Memberships' = Memberships
  BY DEF Memberships
<1> QED BY <1>4, <1>5, <1>6, <1>7, <1>8, <1>9, <1>10 DEF SetNext

-----------------------------------------------------------------------------
(* The theorems.                                                           *)

\* Every area starts out in its invariant.
LEMMA InitInvs ==
    CollectionsInit => HashInv /\ SetInv /\ ListInv /\ ZSetInv
<1> SUFFICES ASSUME CollectionsInit PROVE HashInv /\ SetInv /\ ListInv /\ ZSetInv
  OBVIOUS
<1>1. /\ hash = {} /\ sets = [k \in SetKeys |-> {}]
      /\ slice = [elems |-> <<>>, room |-> 0] /\ held = NoResult /\ Elements = <<>>
  BY DEF CollectionsInit, Elements
<1>2. Elements \in Seq(Items) /\ Len(Elements) = 0 /\ DOMAIN Elements = {}
  BY <1>1, EmptySeq
<1>3. SliceFits
  BY <1>1, <1>2, CollectionsAssumption DEF SliceFits
<1>4. held \in Results /\ HeldOutside /\ PopsAreKept
  BY <1>1, CollectionsAssumption DEF NoResult, Results, HeldOutside, PopsAreKept
<1>5. ScoresAscend(Elements)
  BY <1>2 DEF ScoresAscend
<1>6. NoHash /\ NoSets /\ NoSlice
  BY <1>1 DEF NoHash, NoSets, NoSlice
<1> QED
  BY <1>1, <1>2, <1>3, <1>4, <1>5, <1>6 DEF HashInv, SetInv, ListInv, ZSetInv, SliceInv

\* A step that changes nothing keeps every invariant.
LEMMA StutterInvs ==
    /\ HashInv /\ UNCHANGED collectionVars => HashInv'
    /\ SetInv /\ UNCHANGED collectionVars => SetInv'
    /\ ListInv /\ UNCHANGED collectionVars => ListInv'
    /\ ZSetInv /\ UNCHANGED collectionVars => ZSetInv'
<1> USE DEF collectionVars, NoHash, NoSets, NoSlice
<1>1. SliceInv /\ UNCHANGED collectionVars => SliceInv'
  BY DEF SliceInv, SliceFits, HeldOutside, PopsAreKept, Elements
<1>2. HashInv /\ UNCHANGED collectionVars => HashInv'
  BY DEF HashInv
<1>3. SetInv /\ UNCHANGED collectionVars => SetInv'
  BY DEF SetInv
<1>4. ListInv /\ UNCHANGED collectionVars => ListInv'
  BY <1>1 DEF ListInv, Elements
<1>5. ZSetInv /\ UNCHANGED collectionVars => ZSetInv'
  BY <1>1 DEF ZSetInv, Elements, ScoresAscend
<1> QED BY <1>2, <1>3, <1>4, <1>5

\* Each area keeps its invariant.
LEMMA InvsAlways ==
    /\ HashSpec => []HashInv
    /\ SetSpec => []SetInv
    /\ ListSpec => []ListInv
    /\ ZSetSpec => []ZSetInv
<1>1. HashInv /\ [HashNext]_collectionVars => HashInv'
  <2>1. HashInv /\ HashNext => HashInv'
    BY HashStep
  <2>2. HashInv /\ UNCHANGED collectionVars => HashInv'
    BY StutterInvs
  <2> QED BY <2>1, <2>2
<1>2. SetInv /\ [SetNext]_collectionVars => SetInv'
  <2>1. SetInv /\ SetNext => SetInv'
    BY SetStep
  <2>2. SetInv /\ UNCHANGED collectionVars => SetInv'
    BY StutterInvs
  <2> QED BY <2>1, <2>2
<1>3. ListInv /\ [ListNext]_collectionVars => ListInv'
  <2>1. ListInv /\ ListNext => ListInv'
    BY ListStep
  <2>2. ListInv /\ UNCHANGED collectionVars => ListInv'
    BY StutterInvs
  <2> QED BY <2>1, <2>2
<1>4. ZSetInv /\ [ZSetNext]_collectionVars => ZSetInv'
  <2>1. ZSetInv /\ ZSetNext => ZSetInv'
    BY ZSetStep
  <2>2. ZSetInv /\ UNCHANGED collectionVars => ZSetInv'
    BY StutterInvs
  <2> QED BY <2>1, <2>2
<1>5. HashSpec => []HashInv
  BY <1>1, InitInvs, PTL DEF HashSpec
<1>6. SetSpec => []SetInv
  BY <1>2, InitInvs, PTL DEF SetSpec
<1>7. ListSpec => []ListInv
  BY <1>3, InitInvs, PTL DEF ListSpec
<1>8. ZSetSpec => []ZSetInv
  BY <1>4, InitInvs, PTL DEF ZSetSpec
<1> QED BY <1>5, <1>6, <1>7, <1>8

\* The size of an area that has only a hash, only sets, or only a slice.
LEMMA Sizes ==
    /\ NoHash => Cardinality(hash) = 0
    /\ NoHash' => Cardinality(hash') = 0
    /\ NoSets => Cardinality(Memberships) = 0
    /\ NoSets' => Cardinality(Memberships') = 0
    /\ NoSlice => Len(Elements) = 0
    /\ NoSlice' => Len(Elements') = 0
<1>1. Cardinality({}) = 0
  BY FS_EmptySet
<1>2. (NoSets => Memberships = {}) /\ (NoSets' => Memberships' = {})
  BY DEF NoSets, Memberships
<1>3. Len(<<>>) = 0
  BY EmptySeq
<1>4. (NoHash => Cardinality(hash) = 0) /\ (NoHash' => Cardinality(hash') = 0)
  BY <1>1 DEF NoHash
<1>5. (NoSlice => Len(Elements) = 0) /\ (NoSlice' => Len(Elements') = 0)
  BY <1>3 DEF NoSlice, Elements
<1>6. /\ NoSets => Cardinality(Memberships) = 0
      /\ NoSets' => Cardinality(Memberships') = 0
  BY <1>1, <1>2
<1> QED BY <1>4, <1>5, <1>6

\* In every area a step answers what it did.
LEMMA AnswersAreRight ==
    /\ HashInv /\ HashNext => AnswerIsRight
    /\ SetInv /\ SetNext => AnswerIsRight
    /\ ListInv /\ ListNext => AnswerIsRight
    /\ ZSetInv /\ ZSetNext => AnswerIsRight
<1>1. ASSUME HashInv, HashNext PROVE AnswerIsRight
  <2>1. IsFiniteSet(hash) /\ IsFiniteSet(hash')
    BY <1>1, HashStep, CollectionsAssumption, FS_Subset DEF HashInv
  <2>2. Cardinality(hash) \in Nat /\ Cardinality(hash') \in Nat
    BY <2>1, FS_CardinalityType
  <2>3. Size = Cardinality(hash) /\ Size' = Cardinality(hash')
    BY <1>1, <2>2, HashStep, Sizes DEF HashInv, Size
  <2> QED BY <1>1, <2>3, HashStep DEF AnswerIsRight
<1>2. ASSUME SetInv, SetNext PROVE AnswerIsRight
  <2>1. Size = Cardinality(Memberships) /\ Size' = Cardinality(Memberships')
    BY <1>2, SetStep, MembershipsFinite, Sizes DEF SetInv, Size
  <2> QED BY <1>2, <2>1, SetStep DEF AnswerIsRight
<1>3. ASSUME ListInv, ListNext PROVE AnswerIsRight
  <2>1. Len(Elements) \in Nat /\ Len(Elements') \in Nat
    BY <1>3, ListStep, LenProperties DEF ListInv
  <2>2. Size = Len(Elements) /\ Size' = Len(Elements')
    BY <1>3, <2>1, ListStep, Sizes DEF ListInv, Size
  <2> QED BY <1>3, <2>2, ListStep DEF AnswerIsRight
<1>4. ASSUME ZSetInv, ZSetNext PROVE AnswerIsRight
  <2>1. Len(Elements) \in Nat /\ Len(Elements') \in Nat
    BY <1>4, ZSetStep, LenProperties DEF ZSetInv
  <2>2. Size = Len(Elements) /\ Size' = Len(Elements')
    BY <1>4, <2>1, ZSetStep, Sizes DEF ZSetInv, Size
  <2> QED BY <1>4, <2>2, ZSetStep DEF AnswerIsRight
<1> QED BY <1>1, <1>2, <1>3, <1>4

\* The collections of the mock backend answer what they did: the number of fields
\* or members a command reports as added or removed is the change of the
\* collection's size, however often an argument is repeated.
THEOREM CountsAlwaysAddUp == HashSpec \/ SetSpec \/ ListSpec \/ ZSetSpec => CountsAddUp
<1>1. /\ HashInv /\ [HashNext]_collectionVars => [AnswerIsRight]_collectionVars
      /\ SetInv /\ [SetNext]_collectionVars => [AnswerIsRight]_collectionVars
      /\ ListInv /\ [ListNext]_collectionVars => [AnswerIsRight]_collectionVars
      /\ ZSetInv /\ [ZSetNext]_collectionVars => [AnswerIsRight]_collectionVars
  BY AnswersAreRight
<1> QED
  BY <1>1, InvsAlways, PTL
  DEF HashSpec, SetSpec, ListSpec, ZSetSpec, CountsAddUp

\* What LMPop and ZMPop of the mock backend have handed out is never written over,
\* although it shares the list's array: unless it was taken from the end and
\* elements have been appended since.
THEOREM PopsAlwaysKept == ListSpec \/ ZSetSpec => []PopsAreKept
<1>1. ListInv \/ ZSetInv => PopsAreKept
  BY DEF ListInv, ZSetInv, SliceInv
<1> QED BY <1>1, InvsAlways, PTL

\* The collections keep their shape, and a sorted set is sorted.
THEOREM ShapesAreKept == HashSpec \/ SetSpec \/ ListSpec \/ ZSetSpec => []CollectionsTypeOK
<1>1. NoSlice => /\ SliceFits /\ held \in Results
                 /\ Elements = <<>> /\ \A i \in DOMAIN Elements : Elements[i] \in Items
  BY CollectionsAssumption, EmptySeq DEF NoSlice, SliceFits, NoResult, Results, Elements
<1>2. Elements \in Seq(Items) => \A i \in DOMAIN Elements : Elements[i] \in Items
  BY ElementOfSeq, LenProperties
<1>3. ASSUME SliceFits, held \in Results
      PROVE  Len(Elements) <= MaxLen /\ held.n \in 0..MaxLen
             /\ (Len(Elements) \in Nat => slice.room \in 0..MaxRoom + MaxLen)
  BY <1>3, CollectionsAssumption DEF SliceFits, Results
<1>4. HashInv \/ SetInv \/ ListInv \/ ZSetInv => CollectionsTypeOK
  <2>1. NoSets => sets \in [SetKeys -> SUBSET Items]
    BY DEF NoSets
  <2>2. NoHash => hash \subseteq Items
    BY DEF NoHash
  <2>3. \A S : Elements \in Seq(S) => Len(Elements) \in Nat
    BY LenProperties
  <2>4. <<>> \in Seq(Items)
    BY EmptySeq
  <2>5. HashInv => CollectionsTypeOK
    BY <1>1, <1>3, <2>1, <2>3, <2>4 DEF HashInv, CollectionsTypeOK
  <2>6. SetInv => CollectionsTypeOK
    BY <1>1, <1>3, <2>2, <2>3, <2>4 DEF SetInv, CollectionsTypeOK
  <2>7. ListInv => CollectionsTypeOK
    BY <1>2, <1>3, <2>1, <2>2, <2>3 DEF ListInv, SliceInv, CollectionsTypeOK
  <2>8. ZSetInv => CollectionsTypeOK
    BY <1>3, <2>1, <2>2, <2>3 DEF ZSetInv, SliceInv, CollectionsTypeOK
  <2> QED BY <2>5, <2>6, <2>7, <2>8
<1> QED BY <1>4, InvsAlways, PTL
=============================================================================
