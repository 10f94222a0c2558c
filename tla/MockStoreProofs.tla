---------------------------- MODULE MockStoreProofs ----------------------------
(***************************************************************************)
(* The string keys of the mock backend, for any number of keys, any        *)
(* commands and pipelines and any page size: a scan shows what stayed, and *)
(* the store implements KVContract.                                        *)
(***************************************************************************)
EXTENDS MockStore, SequenceTheorems, FiniteSetTheorems, TLAPS

Entries == [val : Counters \union {0}, ttl : {"absent", "none", "armed", "past"}]

Scans ==
    [on : BOOLEAN, cursor : 0..NumKeys, seen : [Keys -> Nat], failed : BOOLEAN,
     stayed : SUBSET Keys, left : SUBSET Keys, came : SUBSET Keys]

StoreTypes ==
    /\ kv \in [Keys -> Entries]
    /\ errors \in [Injectable \union {""} -> {0, 1}]
    /\ pipe = <<>> \/ \E cmds \in Programs : \E d \in DOMAIN cmds :
                          pipe = SubSeq(cmds, d, Len(cmds))
    /\ scan \in Scans

\* How many live keys sort before a key.
Below(s, k) == Cardinality({j \in LiveKeys(s) : j < k})

\* While a scan is under way, a key that stayed and has not been shown is not before
\* the cursor, unless a smaller one left; and a key that has been shown is before
\* the cursor, or would be, unless a smaller one came.
ScanOnTrack ==
    scan.on =>
        /\ ~scan.failed /\ scan.stayed \subseteq LiveKeys(kv)
        /\ \A k \in scan.stayed :
              scan.seen[k] = 0 => scan.cursor <= Below(kv, k) \/ \E j \in scan.left : j < k
        /\ \A k \in Keys :
              scan.seen[k] > 0 => Below(kv, k) < scan.cursor \/ \E j \in scan.came : j < k

\* The inductive invariant.
StoreInv == StoreTypes /\ ScanOnTrack /\ ScanShowsWhatStayed

-----------------------------------------------------------------------------
(* Lemmas about the operators.                                             *)

\* There are NumKeys keys, and no set of them is larger.
LEMMA KeysFinite ==
    /\ IsFiniteSet(Keys) /\ Cardinality(Keys) = NumKeys
    /\ \A S \in SUBSET Keys :
          IsFiniteSet(S) /\ Cardinality(S) \in Nat /\ Cardinality(S) <= NumKeys
<1>1. IsFiniteSet(Keys) /\ Cardinality(Keys) = NumKeys
  BY StoreAssumption, FS_Interval DEF Keys
<1>2. ASSUME NEW S \in SUBSET Keys
      PROVE  IsFiniteSet(S) /\ Cardinality(S) \in Nat /\ Cardinality(S) <= NumKeys
  <2>1. IsFiniteSet(S) /\ Cardinality(S) <= Cardinality(Keys)
    BY <1>1, FS_Subset
  <2> QED BY <1>1, <2>1, FS_CardinalityType
<1> QED BY <1>1, <1>2

\* What is live is a key.
LEMMA LiveAreKeys == \A s : LiveKeys(s) \in SUBSET Keys
  BY DEF LiveKeys

\* The sorted list of a set holds every member, behind as many as are smaller.
LEMMA SortedFacts ==
    ASSUME NEW S \in SUBSET Keys, NEW keys \in Sorted(S)
    PROVE  /\ keys \in Seq(S) /\ Len(keys) = Cardinality(S) /\ Len(keys) \in 0..NumKeys
           /\ DOMAIN keys = 1..Len(keys)
           /\ \A i, j \in 1..Len(keys) : i < j => keys[i] < keys[j]
           /\ \A x \in S : \E i \in 1..Len(keys) : keys[i] = x
           /\ \A i \in 1..Len(keys) : Cardinality({j \in S : j < keys[i]}) = i - 1
<1> DEFINE n == Cardinality(S)
<1>1. n \in Nat /\ n <= NumKeys /\ IsFiniteSet(S) /\ NumKeys \in Nat
  BY KeysFinite, StoreAssumption
<1>2. keys \in [1..n -> S] /\ \A i, j \in 1..n : i < j => keys[i] < keys[j]
  BY DEF Sorted
<1> HIDE DEF n
<1>3. keys \in Seq(S) /\ Len(keys) = n /\ DOMAIN keys = 1..n
  BY <1>1, <1>2, SeqDef
<1>4. \A i \in 1..n : keys[i] \in S /\ keys[i] \in Int
  <2>1. \A x \in S : x \in Int
    BY <1>1 DEF Keys
  <2> QED BY <1>2, <2>1
<1>5. \A i, j \in 1..n : keys[i] = keys[j] => i = j
  BY <1>2, <1>4
<1>6. \A x \in S : \E i \in 1..n : keys[i] = x
  <2>1. keys \in Injection(1..n, S)
    BY <1>2, <1>5 DEF Injection, IsInjective
  <2>2. IsFiniteSet(1..n) /\ Cardinality(1..n) = n
    BY <1>1, FS_Interval
  <2>3. keys \in Surjection(1..n, S)
    BY <1>1, <2>1, <2>2, FS_Injection DEF n
  <2> QED BY <2>3 DEF Surjection
<1>7. ASSUME NEW i \in 1..n PROVE Cardinality({j \in S : j < keys[i]}) = i - 1
  <2> DEFINE T == {j \in S : j < keys[i]}
             f == [m \in 1..(i - 1) |-> keys[m]]
  <2>1. i - 1 \in Nat /\ 1..(i - 1) \subseteq 1..n /\ \A m \in 1..(i - 1) : m < i
    BY <1>1
  <2>2. \A m \in 1..(i - 1) : keys[m] \in T
    BY <1>2, <1>4, <2>1
  <2>3. f \in [1..(i - 1) -> T] /\ \A l, m \in 1..(i - 1) : f[l] = f[m] => l = m
    BY <1>5, <2>1, <2>2
  <2>4. ASSUME NEW x \in T PROVE \E m \in 1..(i - 1) : f[m] = x
    <3>1. PICK m \in 1..n : keys[m] = x
      BY <1>6
    <3>2. m < i
      BY <1>1, <1>2, <1>4, <3>1
    <3>3. m \in 1..(i - 1)
      BY <1>1, <3>2
    <3> QED BY <3>1, <3>3
  <2> HIDE DEF f, T
  <2>5. f \in Injection(1..(i - 1), T) /\ f \in Surjection(1..(i - 1), T)
    BY <2>3, <2>4 DEF Injection, IsInjective, Surjection
  <2>6. ExistsBijection(1..(i - 1), T)
    BY <2>5 DEF ExistsBijection, Bijection
  <2>7. IsFiniteSet(1..(i - 1)) /\ Cardinality(1..(i - 1)) = i - 1
    BY <2>1, FS_Interval
  <2>8. Cardinality(T) = i - 1
    BY <2>6, <2>7, FS_Bijection
  <2> QED BY <2>8 DEF T
<1> QED BY <1>1, <1>2, <1>3, <1>6, <1>7 DEF n

\* As long as no live key before k leaves, not fewer of them are before k.
LEMMA BelowGrows ==
    ASSUME NEW s, NEW t, NEW k, \A j \in LiveKeys(s) : j < k => j \in LiveKeys(t)
    PROVE  Below(s, k) \in Nat /\ Below(t, k) \in Nat /\ Below(s, k) <= Below(t, k)
<1> DEFINE A == {j \in LiveKeys(s) : j < k}
           B == {j \in LiveKeys(t) : j < k}
<1>1. A \in SUBSET Keys /\ B \in SUBSET Keys /\ A \in SUBSET B
  BY LiveAreKeys
<1> HIDE DEF A, B
<1>2. IsFiniteSet(B) /\ Cardinality(A) \in Nat /\ Cardinality(B) \in Nat
  BY <1>1, KeysFinite
<1>3. Cardinality(A) <= Cardinality(B)
  BY <1>1, <1>2, FS_Subset
<1> QED BY <1>2, <1>3 DEF Below, A, B

\* The history of a scan, whatever happens to the keys.
LEMMA WatchesStep ==
    ASSUME StoreInv, scan' = ScanWatches
    PROVE  scan' \in Scans /\ ScanOnTrack' /\ ScanShowsWhatStayed'
<1> USE DEF StoreInv
<1>1. scan \in Scans
  BY DEF StoreTypes
<1>2. CASE scan.on
  <2>1. /\ scan' \in Scans
        /\ scan'.on = scan.on /\ scan'.failed = scan.failed
        /\ scan'.cursor = scan.cursor /\ scan'.seen = scan.seen
        /\ scan'.stayed = scan.stayed \intersect LiveKeys(kv')
        /\ scan'.left = scan.left \union (LiveKeys(kv) \ LiveKeys(kv'))
        /\ scan'.came = scan.came \union (LiveKeys(kv') \ LiveKeys(kv))
    BY <1>1, <1>2, LiveAreKeys DEF ScanWatches, Scans
  <2>2. ASSUME NEW k \in scan'.stayed, scan'.seen[k] = 0
        PROVE  scan'.cursor <= Below(kv', k) \/ \E j \in scan'.left : j < k
    <3>1. scan.cursor <= Below(kv, k) \/ \E j \in scan.left : j < k
      BY <1>2, <2>1, <2>2 DEF ScanOnTrack
    <3>2. CASE \E j \in scan.left : j < k
      BY <2>1, <3>2
    <3>3. CASE \E j \in LiveKeys(kv) \ LiveKeys(kv') : j < k
      BY <2>1, <3>3
    <3>4. CASE scan.cursor <= Below(kv, k) /\ \A j \in LiveKeys(kv) : j < k => j \in LiveKeys(kv')
      <4>1. Below(kv, k) \in Nat /\ Below(kv', k) \in Nat /\ Below(kv, k) <= Below(kv', k)
        BY <3>4, BelowGrows
      <4>2. scan.cursor \in Nat
        BY <1>1, StoreAssumption DEF Scans
      <4> QED BY <2>1, <3>4, <4>1, <4>2
    <3> QED BY <3>1, <3>2, <3>3, <3>4
  <2>3. ASSUME NEW k \in Keys, scan'.seen[k] > 0
        PROVE  Below(kv', k) < scan'.cursor \/ \E j \in scan'.came : j < k
    <3>1. Below(kv, k) < scan.cursor \/ \E j \in scan.came : j < k
      BY <1>2, <2>1, <2>3 DEF ScanOnTrack
    <3>2. CASE \E j \in scan.came : j < k
      BY <2>1, <3>2
    <3>3. CASE \E j \in LiveKeys(kv') \ LiveKeys(kv) : j < k
      BY <2>1, <3>3
    <3>4. CASE Below(kv, k) < scan.cursor /\ \A j \in LiveKeys(kv') : j < k => j \in LiveKeys(kv)
      <4>1. Below(kv', k) \in Nat /\ Below(kv, k) \in Nat /\ Below(kv', k) <= Below(kv, k)
        BY <3>4, BelowGrows
      <4>2. scan.cursor \in Nat
        BY <1>1, StoreAssumption DEF Scans
      <4> QED BY <2>1, <3>4, <4>1, <4>2
    <3> QED BY <3>1, <3>2, <3>3, <3>4
  <2>4. ScanOnTrack'
    BY <1>2, <2>1, <2>2, <2>3 DEF ScanOnTrack
  <2>5. ScanShowsWhatStayed'
    BY <1>2, <2>1 DEF ScanShowsWhatStayed
  <2> QED BY <2>1, <2>4, <2>5
<1>3. CASE ~scan.on
  <2>1. scan' = NoScan
    BY <1>3 DEF ScanWatches
  <2> QED
    BY <2>1, StoreAssumption DEF NoScan, Scans, ScanOnTrack, ScanShowsWhatStayed
<1> QED BY <1>2, <1>3

\* A page holds the keys behind the cursor, up to its end.
LEMMA PageFacts ==
    ASSUME scan \in Scans, NEW keys \in Sorted(LiveKeys(kv))
    PROVE  LET start == scan.cursor
               end == PageEnd(keys)
               page == SubSeq(keys, start + 1, end)
           IN  /\ page \in Seq(LiveKeys(kv))
               /\ Len(page) = IF start < end THEN end - start ELSE 0
               /\ \A i \in 1..Len(page) : start + i \in 1..Len(keys) /\ page[i] = keys[start + i]
<1> DEFINE len == Len(keys)
           start == scan.cursor
           end == PageEnd(keys)
           m == start + 1
           page == SubSeq(keys, m, end)
<1>1. NumKeys \in Nat /\ PageSize \in Int
  BY StoreAssumption
<1>2. len \in 0..NumKeys /\ start \in 0..NumKeys /\ m = start + 1 /\ m \in Int
  BY SortedFacts, LiveAreKeys, <1>1 DEF Scans
<1>3. \A i \in 1..len : keys[i] \in LiveKeys(kv)
  BY SortedFacts, LiveAreKeys, ElementOfSeq
<1>4. end = IF PageSize <= 0 \/ start + PageSize > len THEN len ELSE start + PageSize
  BY DEF PageEnd
<1> HIDE DEF len, start, end, m
<1>5. end \in 0..len
  BY <1>1, <1>2, <1>4
<1>6. \A i \in m..end : keys[i] \in LiveKeys(kv)
  BY <1>2, <1>3, <1>5
<1>7. page = SubSeq(keys, m, end)
  OBVIOUS
<1> HIDE DEF page
<1>8. /\ page \in Seq(LiveKeys(kv))
      /\ Len(page) = IF m <= end THEN end - m + 1 ELSE 0
      /\ \A i \in 1..(end - m + 1) : page[i] = keys[m + i - 1]
  BY <1>2, <1>5, <1>6, <1>7, SubSeqProperties
<1>9. Len(page) = IF start < end THEN end - start ELSE 0
  BY <1>2, <1>5, <1>8
<1>10. ASSUME NEW i \in 1..Len(page)
       PROVE  start + i \in 1..len /\ page[i] = keys[start + i]
  <2>1. i \in 1..(end - m + 1) /\ m + i - 1 = start + i /\ start + i \in 1..len
    BY <1>2, <1>5, <1>9
  <2> QED BY <1>8, <2>1
<1> QED BY <1>8, <1>9, <1>10 DEF page, m, end, start, len

\* A page of a scan.
LEMMA ScanPageStep ==
    ASSUME StoreInv, ScanPage
    PROVE  scan' \in Scans /\ ScanOnTrack' /\ ScanShowsWhatStayed'
<1> USE DEF StoreInv
<1>1. scan \in Scans /\ scan.on /\ UNCHANGED kv
  BY DEF StoreTypes, ScanPage
<1>2. NumKeys \in Nat /\ PageSize \in Int
  BY StoreAssumption
<1>3. CASE Fails("Scan")
  <2>1. scan' = [scan EXCEPT !.on = FALSE, !.failed = TRUE]
    BY <1>3 DEF ScanPage
  <2>2. /\ scan' \in Scans /\ scan'.on = FALSE /\ scan'.failed = TRUE
        /\ scan'.seen = scan.seen /\ scan'.came = scan.came
    BY <1>1, <2>1 DEF Scans
  <2> QED BY <2>2 DEF ScanOnTrack, ScanShowsWhatStayed
<1>4. CASE ~Fails("Scan")
  <2> DEFINE Page(keys) == SubSeq(keys, scan.cursor + 1, PageEnd(keys))
             Shown(keys, n) == [k \in Keys |-> IF k \in ToSet(SubSeq(Page(keys), 1, n))
                                               THEN scan.seen[k] + 1 ELSE scan.seen[k]]
  <2>1. PICK keys \in Sorted(LiveKeys(kv)) : \E n \in 0..Len(Page(keys)) :
            scan' = [scan EXCEPT !.seen = Shown(keys, n),
                                 !.failed = n < Len(Page(keys)),
                                 !.cursor = NextCursor(keys),
                                 !.on = n = Len(Page(keys)) /\ NextCursor(keys) # 0]
    BY <1>4 DEF ScanPage
  <2>2. PICK n \in 0..Len(Page(keys)) :
            scan' = [scan EXCEPT !.seen = Shown(keys, n),
                                 !.failed = n < Len(Page(keys)),
                                 !.cursor = NextCursor(keys),
                                 !.on = n = Len(Page(keys)) /\ NextCursor(keys) # 0]
    BY <2>1
  <2> DEFINE len == Len(keys)
             end == PageEnd(keys)
             start == scan.cursor
             page == Page(keys)
             seen == Shown(keys, n)
  <2>3. /\ len \in 0..NumKeys /\ DOMAIN keys = 1..len
        /\ \A i \in 1..len : keys[i] \in LiveKeys(kv) /\ keys[i] \in Keys
        /\ \A i, j \in 1..len : i < j => keys[i] < keys[j]
        /\ \A x \in LiveKeys(kv) : \E i \in 1..len : keys[i] = x
        /\ \A i \in 1..len : Below(kv, keys[i]) = i - 1
    BY <2>1, SortedFacts, LiveAreKeys, ElementOfSeq DEF Below
  <2>4. start \in 0..NumKeys
    BY <1>1 DEF Scans
  <2>5. /\ end = IF PageSize <= 0 \/ start + PageSize > len THEN len ELSE start + PageSize
        /\ NextCursor(keys) = IF end < len THEN end ELSE 0
    BY DEF PageEnd, NextCursor
  <2> HIDE DEF len, end, start
  <2>6. end \in 0..len /\ NextCursor(keys) \in 0..NumKeys
        /\ (NextCursor(keys) # 0 => NextCursor(keys) = end /\ start < end)
    BY <1>2, <2>3, <2>4, <2>5
\* The page holds the keys behind the cursor, up to its end.
  <2>7. /\ Len(page) = IF start < end THEN end - start ELSE 0
        /\ \A i \in 1..Len(page) : start + i \in 1..len /\ page[i] = keys[start + i]
    BY <1>1, <2>1, PageFacts DEF len, end, start
  <2>a. n \in 0..Len(page)
    BY <2>2
  <2> HIDE DEF page
\* What the callback has been shown.
  <2>8. \A k \in Keys :
           k \in ToSet(SubSeq(page, 1, n)) <=> \E i \in 1..n : k = keys[start + i]
    <3>1. Len(page) \in Nat /\ n \in 0..Len(page) /\ n \in Nat
      BY <2>a, <2>3, <2>4, <2>6, <2>7
    <3>2. \A i \in 1..n : page[i] \in Keys /\ page[i] = keys[start + i]
      BY <2>3, <2>7, <3>1
    <3>3. /\ SubSeq(page, 1, n) \in Seq(Keys) /\ Len(SubSeq(page, 1, n)) = n
          /\ \A i \in 1..n : SubSeq(page, 1, n)[i] = page[i]
      BY <3>1, <3>2, SubSeqProperties
    <3>4. DOMAIN SubSeq(page, 1, n) = 1..n
      BY <3>3, LenProperties
    <3> QED BY <3>2, <3>3, <3>4 DEF ToSet
  <2>9. /\ seen \in [Keys -> Nat]
        /\ \A k \in Keys : seen[k] = IF \E i \in 1..n : k = keys[start + i]
                                     THEN scan.seen[k] + 1 ELSE scan.seen[k]
    BY <1>1, <2>8 DEF Scans, page
  <2> HIDE DEF seen, Shown, Page
  <2>10. /\ scan' \in Scans
         /\ scan'.seen = seen /\ scan'.cursor = NextCursor(keys)
         /\ scan'.failed <=> n < Len(page)
         /\ scan'.on <=> n = Len(page) /\ NextCursor(keys) # 0
         /\ scan'.stayed = scan.stayed /\ scan'.left = scan.left /\ scan'.came = scan.came
    <3>1. scan' = [scan EXCEPT !.seen = seen,
                               !.failed = n < Len(page),
                               !.cursor = NextCursor(keys),
                               !.on = n = Len(page) /\ NextCursor(keys) # 0]
      BY <2>2 DEF page, seen
    <3>2. (n < Len(page)) \in BOOLEAN /\ (n = Len(page) /\ NextCursor(keys) # 0) \in BOOLEAN
      OBVIOUS
    <3> HIDE DEF NextCursor
    <3> QED BY <1>1, <2>6, <2>9, <3>1, <3>2, Zenon DEF Scans
  <2>11. n \in Nat /\ n <= Len(page) /\ Len(page) \in Nat
    BY <2>a, <2>3, <2>4, <2>6, <2>7
\* A key that stayed is among the live ones; if it has not been shown it is still to come.
  <2>12. ASSUME NEW k \in scan.stayed, seen[k] = 0, ~\E j \in scan.left : j < k, n = Len(page)
         PROVE  \E i \in 1..len : k = keys[i] /\ end < i
    <3>1. k \in Keys /\ k \in LiveKeys(kv)
      BY <1>1 DEF Scans, ScanOnTrack
    <3>2. PICK i \in 1..len : k = keys[i]
      BY <2>3, <3>1
    <3>3. scan.seen[k] = 0 /\ ~\E m \in 1..n : k = keys[start + m]
      <4>1. scan.seen[k] \in Nat
        BY <1>1, <3>1 DEF Scans
      <4> QED BY <2>9, <2>12, <3>1, <4>1
    <3>4. start <= i - 1
      BY <1>1, <2>3, <2>12, <3>2, <3>3 DEF ScanOnTrack, start
    <3>5. ~(i <= end)
      <4> SUFFICES ASSUME i <= end PROVE FALSE
        OBVIOUS
      <4>1. i - start \in 1..n /\ start + (i - start) = i
        BY <2>3, <2>4, <2>6, <2>7, <2>12, <3>4
      <4> QED BY <3>2, <3>3, <4>1
    <3> QED BY <2>3, <2>6, <3>2, <3>5
\* A key that is shown now stands behind the cursor and has not been shown before.
  <2>13. ASSUME NEW k \in Keys, seen[k] > 0, ~\E j \in scan.came : j < k
         PROVE  seen[k] = 1 /\ (start < end => Below(kv, k) < end)
    <3>1. scan.seen[k] \in Nat
      BY <1>1 DEF Scans
    <3>2. scan.seen[k] > 0 => Below(kv, k) < start
      BY <1>1, <2>13 DEF ScanOnTrack, start
    <3>3. scan.seen[k] <= 1
      <4>1. ~(scan.seen[k] > 1)
        BY <2>13 DEF ScanShowsWhatStayed
      <4> QED BY <3>1, <4>1
    <3>4. CASE \E i \in 1..n : k = keys[start + i]
      <4>1. PICK i \in 1..n : k = keys[start + i]
        BY <3>4
      <4>2. i \in 1..Len(page) /\ i \in Nat
        BY <2>11
      <4>3. start + i \in 1..len
        BY <2>7, <4>2
      <4>4. Below(kv, k) = start + i - 1
        <5>1. Below(kv, keys[start + i]) = (start + i) - 1
          BY <2>3, <4>3
        <5>2. (start + i) - 1 = start + i - 1
          BY <2>4, <4>2
        <5> QED BY <4>1, <5>1, <5>2
      <4>5. ~(scan.seen[k] > 0)
        BY <2>4, <3>2, <4>2, <4>4
      <4>6. scan.seen[k] = 0
        BY <3>1, <4>5
      <4>7. seen[k] = 1
        BY <2>9, <3>4, <4>6
      <4>8. start < end => start + i - 1 < end
        BY <2>3, <2>4, <2>6, <2>7, <4>2
      <4> QED BY <4>4, <4>7, <4>8
    <3>5. CASE ~\E i \in 1..n : k = keys[start + i]
      <4>1. seen[k] = scan.seen[k]
        BY <2>9, <3>5
      <4>2. Below(kv, k) < start /\ seen[k] = 1
        BY <2>13, <3>1, <3>2, <3>3, <4>1
      <4>3. Below(kv, k) \in Nat
        BY BelowGrows
      <4> QED BY <2>4, <2>6, <2>3, <4>2, <4>3
    <3> QED BY <3>4, <3>5
  <2>14. ScanOnTrack'
    <3> SUFFICES ASSUME scan'.on
                 PROVE  /\ ~scan'.failed /\ scan'.stayed \subseteq LiveKeys(kv)
                        /\ \A k \in scan'.stayed :
                              scan'.seen[k] = 0 =>
                                scan'.cursor <= Below(kv, k) \/ \E j \in scan'.left : j < k
                        /\ \A k \in Keys :
                              scan'.seen[k] > 0 =>
                                Below(kv, k) < scan'.cursor \/ \E j \in scan'.came : j < k
      BY <1>1 DEF ScanOnTrack
    <3>1. n = Len(page) /\ scan'.cursor = end /\ start < end
      BY <2>6, <2>10
    <3>2. ~scan'.failed /\ scan'.stayed \subseteq LiveKeys(kv)
      BY <1>1, <2>10, <2>11, <3>1 DEF ScanOnTrack
    <3>3. ASSUME NEW k \in scan.stayed, seen[k] = 0, ~\E j \in scan.left : j < k
          PROVE  end <= Below(kv, k)
      <4>1. PICK i \in 1..len : k = keys[i] /\ end < i
        BY <2>12, <3>1, <3>3
      <4> QED BY <2>3, <2>6, <4>1
    <3>4. ASSUME NEW k \in Keys, seen[k] > 0, ~\E j \in scan.came : j < k
          PROVE  Below(kv, k) < end
      BY <2>13, <3>1, <3>4
    <3> QED BY <2>10, <3>1, <3>2, <3>3, <3>4
  <2>15. ScanShowsWhatStayed'
    <3>1. ASSUME NEW k \in Keys, ~scan'.on, ~scan'.failed, k \in scan.stayed, ~(seen[k] > 0)
          PROVE  \E j \in scan.left : j < k
      <4> SUFFICES ASSUME ~\E j \in scan.left : j < k PROVE FALSE
        OBVIOUS
      <4>1. n = Len(page) /\ NextCursor(keys) = 0
        BY <2>10, <2>11, <3>1
      <4>2. seen[k] = 0
        BY <2>9, <3>1
      <4>3. PICK i \in 1..len : end < i
        BY <2>12, <3>1, <4>1, <4>2
      <4>4. ~(end < len)
        BY <1>2, <2>3, <2>4, <2>5, <4>1
      <4> QED BY <2>3, <2>6, <4>3, <4>4
    <3>2. ASSUME NEW k \in Keys, seen[k] > 1
          PROVE  \E j \in scan.came : j < k
      <4>1. seen[k] \in Nat
        BY <2>9
      <4> QED BY <2>13, <3>2, <4>1
    <3> QED BY <2>10, <3>1, <3>2 DEF ScanShowsWhatStayed
  <2> QED BY <2>10, <2>14, <2>15
<1> QED BY <1>3, <1>4

-----------------------------------------------------------------------------
(* The commands: what they leave, and what a caller sees of it.            *)

Stores == [Keys -> Entries]

\* An entry is seen exactly as long as it is live.
LEMMA SeenFacts ==
    ASSUME NEW s \in Stores, NEW k \in Keys
    PROVE  /\ Seen(s, k) # Missing <=> Live(s, k)
           /\ Live(s, k) => Seen(s, k) = s[k].val
           /\ ~Live(s, k) => Seen(s, k) = Missing
           /\ s[k].ttl = "armed" => Live(s, k)
           /\ s[k].val \in Int
<1>1. s[k] \in Entries
  BY DEF Stores
<1>2. s[k].val \in Int
  <2>1. s[k].val \in Counters \union {0}
    BY <1>1 DEF Entries
  <2>2. Counters \subseteq Int
    BY StoreAssumption
  <2>3. 0 \in Int
    OBVIOUS
  <2> QED BY <2>1, <2>2, <2>3, Zenon
<1>3. s[k].val # Missing
  BY <1>2, StoreAssumption
<1> QED BY <1>2, <1>3 DEF Seen, Live

\* The same, in terms of what a caller sees.
LEMMA DbFacts ==
    ASSUME kv \in Stores, NEW k \in Keys
    PROVE  /\ Contract!Present(k) <=> Live(kv, k)
           /\ Live(kv, k) => Db[k] = kv[k].val
           /\ ~Live(kv, k) => Db[k] = Missing
           /\ k \in Mortal <=> kv[k].ttl = "armed"
  BY SeenFacts DEF Contract!Present, Db, Mortal

\* getKV removes only what nobody sees.
LEMMA SweptFacts ==
    ASSUME NEW s \in Stores, NEW ks
    PROVE  /\ Swept(s, ks) \in Stores
           /\ \A k \in Keys : /\ Seen(Swept(s, ks), k) = Seen(s, k)
                              /\ Swept(s, ks)[k].ttl = "armed" <=> s[k].ttl = "armed"
  BY DEF Stores, Entries, Swept, Seen, Live, Absent

\* Sweeping is not visible.
LEMMA SweepIsInvisible ==
    ASSUME kv \in Stores, NEW ks, kv' = Swept(kv, ks)
    PROVE  kv' \in Stores /\ Db' = Db /\ Mortal' = Mortal
  BY SweptFacts DEF Db, Mortal

\* A step that leaves the keys alone is not visible.
LEMMA SameStore ==
    ASSUME kv' = kv PROVE Db' = Db /\ Mortal' = Mortal
  BY DEF Db, Mortal

\* The contract counts and lists as the store does.
LEMMA SameOperators ==
    /\ \A s : Contract!ToSet(s) = ToSet(s)
    /\ \A S : Contract!Cardinality(S) = Cardinality(S)
<1>1. \A s : Contract!ToSet(s) = ToSet(s)
  BY DEF Contract!ToSet, ToSet
<1>2. \A S : Contract!Cardinality(S) = Cardinality(S)
  BY DEF Contract!Cardinality, Cardinality
<1> QED BY <1>1, <1>2

\* A single key is one of the lists, the empty list is one.
LEMMA ShortLists ==
    /\ <<>> \in KeyLists
    /\ \A k \in Keys : <<k>> \in KeyLists
<1>1. NumKeys \in Nat \ {0}
  BY StoreAssumption
<1>2. <<>> \in Ascending
  <2>1. <<>> \in [1..0 -> Keys] /\ DOMAIN <<>> = {}
    OBVIOUS
  <2> QED BY <1>1, <2>1 DEF Ascending
<1>3. ASSUME NEW k \in Keys PROVE <<k>> \in Ascending
  <2>1. <<k>> \in [1..1 -> Keys] /\ DOMAIN <<k>> = 1..1
    OBVIOUS
  <2>2. \A i, j \in 1..1 : ~(i < j)
    OBVIOUS
  <2> QED BY <1>1, <2>1, <2>2 DEF Ascending
<1> QED BY <1>2, <1>3 DEF KeyLists

\* Setting a key, with or without a time to live.
LEMMA WriteIsOneStep ==
    ASSUME kv \in Stores, NEW k \in Keys, NEW v \in Counters, NEW ttl \in {"none", "armed"},
           kv' = [kv EXCEPT ![k] = [val |-> v, ttl |-> ttl]], answer' = <<>>
    PROVE  kv' \in Stores /\ Contract!ContractNext
<1> DEFINE f == [j \in {k} |-> v]
<1>1. f \in Writes /\ DOMAIN f = {k} /\ f[k] = v
  BY DEF Writes
<1> HIDE DEF f
<1>2. kv' \in Stores
  BY DEF Stores, Entries
<1>3. Db' = [j \in Keys |-> IF j \in DOMAIN f THEN f[j] ELSE Db[j]]
  BY <1>1 DEF Db, Seen, Live, Stores
<1>4. Mortal' = IF ttl = "armed" THEN Mortal \union {k} ELSE Mortal \ {k}
  BY DEF Mortal, Stores
<1>5. Contract!Write(f)
  BY <1>1, <1>3, <1>4 DEF Contract!Write
<1> QED BY <1>1, <1>2, <1>5 DEF Contract!ContractNext

\* Each command of the store is one step of the contract, and keeps the store's type.
LEMMA ExecuteIsOneStep ==
    ASSUME kv \in Stores, NEW c \in AllCommands,
           kv' = Execute(kv, c).kv, answer' = Execute(kv, c).out,
           c.op \in {"Incr", "Decr"} => Execute(kv, c).out[1] \in Counters
    PROVE  kv' \in Stores /\ Contract!ContractNext
<1>1. WellFormed(c)
  BY StoreAssumption
<1>2. CASE c.op = "Get"
  <2>1. c.key \in Keys /\ kv' = Swept(kv, {c.key}) /\ answer' = <<Seen(kv, c.key)>>
    BY <1>1, <1>2 DEF WellFormed, Execute, Get, Outcome
  <2>2. kv' \in Stores /\ Db' = Db /\ Mortal' = Mortal
    BY <2>1, SweepIsInvisible
  <2>3. answer' = [i \in DOMAIN <<c.key>> |-> Db[<<c.key>>[i]]]
    BY <2>1 DEF Db
  <2>4. Contract!Read(<<c.key>>)
    BY <2>2, <2>3 DEF Contract!Read
  <2> QED BY <2>1, <2>2, <2>4, ShortLists DEF Contract!ContractNext
<1>3. CASE c.op = "MGet"
  <2>1. /\ c.keys \in Seq(Keys) /\ kv' = Swept(kv, ToSet(c.keys))
        /\ answer' = [i \in DOMAIN c.keys |-> Seen(kv, c.keys[i])]
    BY <1>1, <1>3 DEF WellFormed, Execute, MGet, Outcome
  <2>2. kv' \in Stores /\ Db' = Db /\ Mortal' = Mortal
    BY <2>1, SweepIsInvisible
  <2>3. \A i \in DOMAIN c.keys : c.keys[i] \in Keys
    BY <2>1, ElementOfSeq, LenProperties
  <2>4. answer' = [i \in DOMAIN c.keys |-> Db[c.keys[i]]]
    BY <2>1, <2>3 DEF Db
  <2>5. Contract!Read(c.keys)
    BY <2>2, <2>4 DEF Contract!Read
  <2>6. c.keys \in KeyLists
    BY <1>3 DEF KeyLists
  <2> QED BY <2>2, <2>5, <2>6 DEF Contract!ContractNext
<1>4. CASE c.op = "Set"
  <2>1. /\ c.key \in Keys /\ c.val \in Counters /\ c.ttl \in {"none", "armed"}
        /\ kv' = [kv EXCEPT ![c.key] = [val |-> c.val, ttl |-> c.ttl]] /\ answer' = <<>>
    BY <1>1, <1>4 DEF WellFormed, Execute, Set, Outcome, Entry
  <2>2. kv' \in Stores /\ Contract!ContractNext
    BY <2>1, WriteIsOneStep
  <2> QED BY <2>2
<1>5. CASE c.op = "MSet"
  <2> DEFINE f == c.vals
  <2>1. /\ DOMAIN f \subseteq Keys /\ \A k \in DOMAIN f : f[k] \in Counters
        /\ kv' = [k \in Keys |-> IF k \in DOMAIN f THEN [val |-> f[k], ttl |-> "none"] ELSE kv[k]]
        /\ answer' = <<>>
    BY <1>1, <1>5 DEF WellFormed, Execute, MSet, Outcome, Entry
  <2>2. f \in Writes
    BY <1>5 DEF Writes
  <2> HIDE DEF f
  <2>3. kv' \in Stores
    BY <2>1 DEF Stores, Entries
  <2>4. Db' = [k \in Keys |-> IF k \in DOMAIN f THEN f[k] ELSE Db[k]]
    BY <2>1 DEF Db, Seen, Live
  <2>5. Mortal' = Mortal \ DOMAIN f
    BY <2>1 DEF Mortal
  <2>6. Contract!Write(f)
    BY <2>1, <2>4, <2>5 DEF Contract!Write
  <2> QED BY <2>2, <2>3, <2>6 DEF Contract!ContractNext
<1>6. CASE c.op = "Del"
  <2> DEFINE gone == ToSet(c.keys)
  <2>1. /\ c.keys \in Seq(Keys)
        /\ kv' = [k \in Keys |-> IF k \in gone THEN Absent ELSE kv[k]]
        /\ answer' = <<Cardinality({k \in gone : Live(kv, k)})>>
    BY <1>1, <1>6 DEF WellFormed, Execute, Del, Outcome
  <2>2. gone \subseteq Keys
    BY <2>1, ElementOfSeq, LenProperties DEF ToSet
  <2>3. c.keys \in KeyLists
    BY <1>6 DEF KeyLists
  <2> HIDE DEF gone
  <2>4. kv' \in Stores
    BY <2>1 DEF Stores, Entries, Absent
  <2>5. Db' = [k \in Keys |-> IF k \in gone THEN Missing ELSE Db[k]]
    BY <2>1 DEF Db, Seen, Live, Absent
  <2>6. Mortal' = Mortal \ gone
    BY <2>1 DEF Mortal, Absent
  <2>7. {k \in gone : Live(kv, k)} = {k \in gone : Contract!Present(k)}
    BY <2>2, DbFacts
  <2>8. answer' = <<Cardinality({k \in gone : Contract!Present(k)})>>
    BY <2>1, <2>7, Zenon
  <2>9. Contract!Erase(c.keys)
    <3>1. Contract!ToSet(c.keys) = gone
      BY SameOperators DEF gone
    <3>2. answer' = <<Contract!Cardinality({k \in gone : Contract!Present(k)})>>
      BY <2>8, SameOperators, Zenon
    <3> QED BY <2>5, <2>6, <3>1, <3>2, Zenon DEF Contract!Erase, Contract!Erased
  <2> QED BY <2>3, <2>4, <2>9 DEF Contract!ContractNext
<1>7. CASE c.op = "Exists"
  <2>1. /\ c.keys \in Seq(Keys) /\ kv' = Swept(kv, ToSet(c.keys))
        /\ answer' = <<Cardinality({i \in DOMAIN c.keys : Live(kv, c.keys[i])})>>
    BY <1>1, <1>7 DEF WellFormed, Execute, Exists, Outcome
  <2>2. kv' \in Stores /\ Db' = Db /\ Mortal' = Mortal
    BY <2>1, SweepIsInvisible
  <2>3. \A i \in DOMAIN c.keys : c.keys[i] \in Keys
    BY <2>1, ElementOfSeq, LenProperties
  <2>4. {i \in DOMAIN c.keys : Live(kv, c.keys[i])} =
            {i \in DOMAIN c.keys : Contract!Present(c.keys[i])}
    BY <2>3, DbFacts
  <2>5. Contract!CountPresent(c.keys)
    <3>1. answer' = <<Cardinality({i \in DOMAIN c.keys : Contract!Present(c.keys[i])})>>
      BY <2>1, <2>4, Zenon
    <3>2. answer' = <<Contract!Cardinality({i \in DOMAIN c.keys : Contract!Present(c.keys[i])})>>
      BY <3>1, SameOperators, Zenon
    <3> QED BY <2>2, <3>2, Zenon DEF Contract!CountPresent
  <2>6. c.keys \in KeyLists
    BY <1>7 DEF KeyLists
  <2> QED BY <2>2, <2>5, <2>6 DEF Contract!ContractNext
<1>8. CASE c.op = "Expire"
  <2> DEFINE k == c.key
  <2>1. k \in Keys /\ c.ttl \in {"armed", "past"}
    BY <1>1, <1>8 DEF WellFormed
  <2>2. CASE Live(kv, k)
    <3>1. kv' = [kv EXCEPT ![k].ttl = c.ttl] /\ answer' = <<1>>
      BY <1>8, <2>2 DEF Execute, Expire, Outcome
    <3> HIDE DEF k
    <3>2. kv[k] \in Entries
      BY <2>1 DEF Stores
    <3>3. /\ kv' \in Stores /\ kv'[k].ttl = c.ttl /\ kv'[k].val = kv[k].val
          /\ \A j \in Keys : j # k => kv'[j] = kv[j]
      BY <2>1, <3>1, <3>2 DEF Stores, Entries
    <3>4. Contract!Present(k)
      BY <2>1, <2>2, DbFacts
    <3>5. CASE c.ttl = "armed"
      <4>1. Db' = Db
        BY <2>1, <2>2, <3>3, <3>5 DEF Db, Seen, Live
      <4>2. Mortal' = Mortal \union {k}
        BY <2>1, <3>3, <3>5 DEF Mortal
      <4>3. Contract!Limit(k)
        BY <3>1, <3>4, <4>1, <4>2 DEF Contract!Limit
      <4> QED BY <2>1, <3>3, <4>3 DEF Contract!ContractNext
    <3>6. CASE c.ttl = "past"
      <4>1. Db' = [j \in Keys |-> IF j \in {k} THEN Missing ELSE Db[j]]
        BY <2>1, <3>3, <3>6 DEF Db, Seen, Live
      <4>2. Mortal' = Mortal \ {k}
        BY <2>1, <3>3, <3>6 DEF Mortal
      <4>3. Contract!Limit(k)
        BY <3>1, <3>4, <4>1, <4>2 DEF Contract!Limit, Contract!Erased
      <4> QED BY <2>1, <3>3, <4>3 DEF Contract!ContractNext
    <3> QED BY <2>1, <3>5, <3>6
  <2>3. CASE ~Live(kv, k)
    <3>1. kv' = kv /\ answer' = <<0>>
      BY <1>8, <2>3 DEF Execute, Expire, Outcome
    <3>2. Db' = Db /\ Mortal' = Mortal /\ ~Contract!Present(k)
      BY <2>1, <2>3, <3>1, SameStore, DbFacts
    <3>3. Contract!Limit(k)
      BY <3>1, <3>2 DEF Contract!Limit
    <3> QED BY <2>1, <3>1, <3>3 DEF Contract!ContractNext
  <2> QED BY <2>2, <2>3
<1>9. CASE c.op = "TTL"
  <2> DEFINE k == c.key
  <2>1. k \in Keys /\ kv' = kv
        /\ answer' = <<CASE ~Live(kv, k) -> -2
                         [] kv[k].ttl = "none" -> -1
                         [] kv[k].ttl = "armed" -> 1>>
    BY <1>1, <1>9 DEF WellFormed, Execute, TTL, Outcome
  <2> HIDE DEF k
  <2>2. Db' = Db /\ Mortal' = Mortal
    BY <2>1, SameStore
  <2>3. /\ Contract!Present(k) <=> Live(kv, k)
        /\ k \in Mortal <=> kv[k].ttl = "armed"
    BY <2>1, DbFacts
  <2>4. answer' = <<IF ~Live(kv, k) THEN -2 ELSE IF kv[k].ttl = "armed" THEN 1 ELSE -1>>
    BY <2>1 DEF Live
  <2>5. Contract!Age(k)
    BY <2>2, <2>3, <2>4 DEF Contract!Age
  <2> QED BY <2>1, <2>5 DEF Contract!ContractNext
<1>10. CASE c.op \in {"Incr", "Decr"}
  <2> DEFINE k == c.key
             d == IF c.op = "Incr" THEN 1 ELSE -1
             n == (IF Live(kv, k) THEN kv[k].val ELSE 0) + d
  <2>1. /\ k \in Keys /\ kv' = [kv EXCEPT ![k] = [val |-> n, ttl |-> "none"]]
        /\ answer' = <<n>> /\ n \in Counters
    <3>1. k \in Keys
      BY <1>1, <1>10 DEF WellFormed
    <3>2. Execute(kv, c) = Bump(kv, k, d)
      BY <1>10 DEF Execute
    <3>3. Bump(kv, k, d) = [kv |-> [kv EXCEPT ![k] = [val |-> n, ttl |-> "none"]], out |-> <<n>>]
      BY DEF Bump, Outcome, Entry
    <3> DEFINE new == [kv EXCEPT ![k] = [val |-> n, ttl |-> "none"]]
    <3> HIDE DEF n, new
    <3>4. Execute(kv, c).kv = new /\ Execute(kv, c).out = <<n>>
      <4>1. Execute(kv, c) = [kv |-> new, out |-> <<n>>]
        BY <3>2, <3>3 DEF new
      <4> QED BY <4>1
    <3>5. Execute(kv, c).out[1] \in Counters
      BY <1>10
    <3>6. n \in Counters
      BY <3>4, <3>5
    <3> HIDE DEF k
    <3> QED BY <3>1, <3>4, <3>6, Zenon DEF new
  <2>2. n = (IF Contract!Present(k) THEN Db[k] ELSE 0) + d
    BY <2>1, DbFacts
  <2>3. d \in {1, -1}
    OBVIOUS
  <2> HIDE DEF n, d, k
  <2>4. kv' \in Stores
    BY <2>1 DEF Stores, Entries
  <2>a. /\ kv'[k].val = n /\ kv'[k].ttl = "none"
        /\ \A j \in Keys \ {k} : kv'[j] = kv[j]
    BY <2>1 DEF Stores
  <2>5. Db' = [Db EXCEPT ![k] = n]
    <3>1. Seen(kv', k) = n
      BY <2>a DEF Seen, Live
    <3>2. \A j \in Keys \ {k} : Seen(kv', j) = Seen(kv, j)
      BY <2>a DEF Seen, Live
    <3>3. Db' = [j \in Keys |-> IF j = k THEN n ELSE Seen(kv, j)]
      BY <2>1, <3>1, <3>2 DEF Db
    <3>4. [Db EXCEPT ![k] = n] = [j \in Keys |-> IF j = k THEN n ELSE Seen(kv, j)]
      BY <2>1 DEF Db
    <3> QED BY <3>3, <3>4
  <2>6. Mortal' = Mortal \ {k}
    BY <2>1, <2>a DEF Mortal
  <2>7. Contract!Bump(k, d)
    BY <2>1, <2>2, <2>5, <2>6 DEF Contract!Bump
  <2> QED BY <2>1, <2>3, <2>4, <2>7 DEF Contract!ContractNext
<1>11. CASE c.op = "Ping"
  <2>1. kv' = kv /\ answer' = <<>>
    BY <1>11 DEF Execute, Outcome
  <2>2. Db' = Db /\ Mortal' = Mortal
    BY <2>1, SameStore
  <2>3. answer' = [i \in DOMAIN <<>> |-> Db[<<>>[i]]]
    BY <2>1
  <2>4. Contract!Read(<<>>)
    BY <2>2, <2>3 DEF Contract!Read
  <2> QED BY <2>1, <2>4, ShortLists DEF Contract!ContractNext
<1>12. CASE c.op \notin {"Get", "Set", "MGet", "MSet", "Del", "Exists", "Expire", "TTL", "Incr",
                         "Decr", "Ping"}
  <2>1. kv' = kv /\ answer' = Refused
    BY <1>12 DEF Execute, Outcome
  <2>2. Contract!Refuse
    BY <2>1, SameStore DEF Contract!Refuse
  <2> QED BY <2>1, <2>2 DEF Contract!ContractNext
<1> QED
  BY <1>2, <1>3, <1>4, <1>5, <1>6, <1>7, <1>8, <1>9, <1>10, <1>11, <1>12

-----------------------------------------------------------------------------
(* The actions.                                                            *)

ErrorQueues == [Injectable \union {""} -> {0, 1}]

\* What is left of some program.
Pipes == {<<>>} \union UNION {{SubSeq(cmds, d, Len(cmds)) : d \in DOMAIN cmds} : cmds \in Programs}

\* The type of pipe, as a set.
LEMMA PipesFact ==
    \A p : p \in Pipes <=> p = <<>> \/ \E cmds \in Programs : \E d \in DOMAIN cmds :
                                           p = SubSeq(cmds, d, Len(cmds))
  BY DEF Pipes

\* A step that the scan under way watches.
LEMMA WatchedStep ==
    ASSUME StoreInv, kv' \in Stores, errors' \in ErrorQueues, pipe' \in Pipes,
           scan' = ScanWatches
    PROVE  StoreInv'
  BY WatchesStep, PipesFact DEF StoreInv, StoreTypes, Stores, ErrorQueues

\* A step that leaves the keys and the scan alone.
LEMMA AsideStep ==
    ASSUME StoreInv, UNCHANGED <<kv, scan>>, errors' \in ErrorQueues, pipe' \in Pipes
    PROVE  StoreInv'
  BY PipesFact DEF StoreInv, StoreTypes, ErrorQueues, ScanOnTrack, ScanShowsWhatStayed

\* The state of a scan before there is one.
LEMMA NoScanFacts ==
    /\ NoScan \in Scans /\ ~NoScan.on /\ ~NoScan.failed /\ NoScan.cursor = 0
    /\ NoScan.seen = [k \in Keys |-> 0] /\ NoScan.stayed = {}
<1>1. [k \in Keys |-> 0] \in [Keys -> Nat] /\ 0 \in 0..NumKeys
  BY StoreAssumption
<1> QED BY <1>1, Zenon DEF NoScan, Scans

\* An error that is met is used up.
LEMMA QueuesStep ==
    ASSUME errors \in ErrorQueues, NEW op PROVE UsedUp(op) \in ErrorQueues
<1>1. CASE op \in Injectable /\ errors[op] > 0
  <2>1. errors[op] \in {0, 1}
    BY <1>1 DEF ErrorQueues
  <2>2. errors[op] = 1
    BY <1>1, <2>1
  <2>3. UsedUp(op) = [errors EXCEPT ![op] = 0]
    BY <1>1, <2>2 DEF UsedUp
  <2> QED BY <2>3 DEF ErrorQueues
<1>2. CASE ~(op \in Injectable /\ errors[op] > 0)
  BY <1>2 DEF UsedUp
<1> QED BY <1>1, <1>2

\* A command under the mutex is one step of the contract, whether it fails or not.
LEMMA RunStep ==
    ASSUME StoreTypes, NEW c \in AllCommands, Run(c)
    PROVE  kv' \in Stores /\ errors' \in ErrorQueues /\ Contract!ContractNext
<1>1. kv \in Stores /\ errors \in ErrorQueues
  BY DEF StoreTypes, Stores, ErrorQueues
<1>2. errors' \in ErrorQueues
  BY <1>1, QueuesStep DEF Run
<1>3. CASE Fails(c.op)
  <2>1. kv' = kv /\ answer' = Refused
    BY <1>3 DEF Run, Outcome
  <2>2. Contract!Refuse
    BY <2>1, SameStore DEF Contract!Refuse
  <2> QED BY <1>1, <1>2, <2>1, <2>2 DEF Contract!ContractNext
<1>4. CASE ~Fails(c.op)
  <2>1. /\ kv' = Execute(kv, c).kv /\ answer' = Execute(kv, c).out
        /\ c.op \in {"Incr", "Decr"} => Execute(kv, c).out[1] \in Counters
    BY <1>4, Zenon DEF Run
  <2>2. kv' \in Stores /\ Contract!ContractNext
    BY <1>1, <2>1, ExecuteIsOneStep, Zenon
  <2> QED BY <1>2, <2>2
<1> QED BY <1>3, <1>4

\* Commands are issued directly or in a pipeline.
LEMMA CommandsStep ==
    ASSUME StoreInv, ExecCommand \/ \E c \in Commands : Call(c)
    PROVE  StoreInv' /\ Contract!ContractNext
<1>1. StoreTypes /\ pipe \in Pipes
  BY PipesFact DEF StoreInv, StoreTypes
<1>2. ASSUME NEW c \in Commands, Call(c)
      PROVE  StoreInv' /\ Contract!ContractNext
  <2>1. c \in AllCommands
    BY DEF AllCommands
  <2>2. kv' \in Stores /\ errors' \in ErrorQueues /\ Contract!ContractNext
    BY <1>1, <1>2, <2>1, RunStep DEF Call
  <2>3. pipe' \in Pipes /\ scan' = ScanWatches
    BY <1>1, <1>2 DEF Call
  <2> QED BY <2>2, <2>3, WatchedStep
<1>3. CASE ExecCommand
  <2>1. PICK cmds \in Programs : \E d \in DOMAIN cmds : pipe = SubSeq(cmds, d, Len(cmds))
    BY <1>3, <1>1, PipesFact DEF ExecCommand
  <2>2. PICK d \in DOMAIN cmds : pipe = SubSeq(cmds, d, Len(cmds))
    BY <2>1
  <2>3. /\ cmds \in Seq(AllCommands) /\ Len(cmds) \in Nat /\ d \in 1..Len(cmds)
        /\ \A i \in 1..Len(cmds) : cmds[i] \in AllCommands
    BY StoreAssumption, LenProperties, ElementOfSeq
  <2>4. Head(pipe) = cmds[d] /\ Tail(pipe) = SubSeq(cmds, d + 1, Len(cmds))
    BY <2>2, <2>3, HeadTailOfSubSeq
  <2>5. Tail(pipe) \in Pipes
    <3>1. CASE d = Len(cmds)
      BY <2>3, <2>4, <3>1, SubSeqEmpty DEF Pipes
    <3>2. CASE d # Len(cmds)
      <4>1. d + 1 \in DOMAIN cmds
        BY <2>3, <3>2, LenProperties
      <4> QED BY <2>4, <4>1, PipesFact
    <3> QED BY <3>1, <3>2
  <2>6. kv' \in Stores /\ errors' \in ErrorQueues /\ Contract!ContractNext
    BY <1>1, <1>3, <2>3, <2>4, RunStep DEF ExecCommand
  <2>7. pipe' \in Pipes /\ scan' = ScanWatches
    BY <1>3, <2>5 DEF ExecCommand
  <2> QED BY <2>6, <2>7, WatchedStep
<1> QED BY <1>2, <1>3

\* An entry whose time is over looks like a key that is gone.
LEMMA ExpiryStep ==
    ASSUME StoreInv, NEW k \in Keys, ExpiryPasses(k)
    PROVE  StoreInv' /\ Contract!ContractNext
<1>1. kv \in Stores /\ errors \in ErrorQueues /\ pipe \in Pipes
  BY PipesFact DEF StoreInv, StoreTypes, Stores, ErrorQueues
<1>2. kv[k] \in Entries /\ kv' = [kv EXCEPT ![k].ttl = "past"]
  BY <1>1 DEF ExpiryPasses, Stores
<1>3. /\ kv' \in Stores /\ kv'[k].ttl = "past"
      /\ \A j \in Keys : j # k => kv'[j] = kv[j]
  BY <1>1, <1>2 DEF Stores, Entries
<1>4. StoreInv'
  BY <1>1, <1>3, WatchedStep DEF ExpiryPasses
<1>5. Db' = [j \in Keys |-> IF j \in {k} THEN Missing ELSE Db[j]]
  BY <1>3 DEF Db, Seen, Live
<1>6. Mortal' = Mortal \ {k}
  BY <1>3 DEF Mortal
<1>7. Contract!Vanish(k)
  BY <1>5, <1>6 DEF Contract!Vanish, Contract!Erased, ExpiryPasses, Mortal
<1> QED BY <1>4, <1>7 DEF Contract!ContractNext

\* A page names keys that are there, in order.
LEMMA PageIsAscending ==
    ASSUME StoreTypes, NEW keys \in Sorted(LiveKeys(kv)),
           answer' = SubSeq(keys, scan.cursor + 1, PageEnd(keys)), UNCHANGED kv
    PROVE  Contract!Page
<1> DEFINE page == SubSeq(keys, scan.cursor + 1, PageEnd(keys))
           n == Len(page)
<1>1. kv \in Stores /\ scan \in Scans
  BY DEF StoreTypes, Stores
<1>2. /\ page \in Seq(LiveKeys(kv))
      /\ \A i \in 1..n : scan.cursor + i \in 1..Len(keys) /\ page[i] = keys[scan.cursor + i]
  BY <1>1, PageFacts
<1>3. /\ Len(keys) \in 0..NumKeys /\ NumKeys \in Nat
      /\ \A i, j \in 1..Len(keys) : i < j => keys[i] < keys[j]
  BY SortedFacts, LiveAreKeys, StoreAssumption
<1>4. scan.cursor \in 0..NumKeys
  BY <1>1 DEF Scans
<1> HIDE DEF page
<1>5. n \in Nat /\ DOMAIN page = 1..n /\ \A i \in 1..n : page[i] \in LiveKeys(kv)
  BY <1>2, LenProperties, ElementOfSeq
<1>6. page \in [1..n -> Keys]
  BY <1>2, <1>5, LiveAreKeys, LenProperties
<1>7. \A i, j \in 1..n : i < j => page[i] < page[j]
  <2>1. ASSUME NEW i \in 1..n, NEW j \in 1..n, i < j
        PROVE  page[i] < page[j]
    <3>1. scan.cursor + i < scan.cursor + j
      BY <1>4, <1>5, <2>1
    <3> QED BY <1>2, <1>3, <3>1
  <2> QED BY <2>1
<1>8. n <= NumKeys
  <2>1. CASE n = 0
    BY <1>3, <2>1
  <2>2. CASE n # 0
    <3>1. n \in 1..n
      BY <1>5, <2>2
    <3>2. scan.cursor + n \in 1..Len(keys)
      BY <1>2, <3>1
    <3> QED BY <1>3, <1>4, <1>5, <3>2
  <2> QED BY <2>1, <2>2
<1>9. page \in KeyLists
  <2>1. n \in 0..NumKeys
    BY <1>3, <1>5, <1>8
  <2>2. page \in UNION {[1..m -> Keys] : m \in 0..NumKeys}
    BY <1>6, <2>1
  <2>3. page \in Ascending
    BY <1>5, <1>7, <2>2 DEF Ascending
  <2> QED BY <2>3 DEF KeyLists
<1>10. \A i \in DOMAIN page : Contract!Present(page[i])
  <2>1. \A i \in 1..n : page[i] \in Keys /\ Live(kv, page[i])
    BY <1>5, LiveAreKeys DEF LiveKeys
  <2> QED BY <1>1, <1>5, <2>1, DbFacts
<1>11. Db' = Db /\ Mortal' = Mortal /\ answer' = page
  BY SameStore DEF page
<1> QED BY <1>5, <1>7, <1>9, <1>10, <1>11 DEF Contract!Page

\* A step of the store is a step of the contract or none that a caller sees.
LEMMA StoreStep ==
    ASSUME StoreInv, StoreNext
    PROVE  StoreInv' /\ (Contract!ContractNext \/ UNCHANGED <<Db, Mortal, answer>>)
<1>1. StoreTypes /\ kv \in Stores /\ errors \in ErrorQueues /\ pipe \in Pipes /\ scan \in Scans
  BY PipesFact DEF StoreInv, StoreTypes, Stores, ErrorQueues
<1>2. CASE ExecCommand \/ \E c \in Commands : Call(c)
  BY <1>2, CommandsStep
<1>3. ASSUME NEW k \in Keys, NEW v \in Counters, NEW ttl \in {"none", "armed"}, SetKV(k, v, ttl)
      PROVE  StoreInv' /\ Contract!ContractNext
  <2>1. kv' \in Stores /\ Contract!ContractNext
    BY <1>1, <1>3, WriteIsOneStep DEF SetKV, Entry
  <2>2. errors' \in ErrorQueues /\ pipe' \in Pipes /\ scan' = ScanWatches
    BY <1>1, <1>3 DEF SetKV
  <2> QED BY <2>1, <2>2, WatchedStep
<1>4. ASSUME NEW k \in Keys, ExpiryPasses(k)
      PROVE  StoreInv' /\ Contract!ContractNext
  BY <1>4, ExpiryStep
<1>5. CASE ClearErrors \/ \E op \in Injectable \union {""} : InjectError(op)
  <2>1. UNCHANGED <<kv, scan, answer, pipe>> /\ errors' \in ErrorQueues
    BY <1>1, <1>5 DEF ClearErrors, InjectError, ErrorQueues
  <2>2. StoreInv'
    BY <1>1, <2>1, AsideStep
  <2> QED BY <2>1, <2>2, SameStore
<1>6. ASSUME NEW op \in {"Pipeline", "Transaction"}, NEW cmds \in Programs, BeginPipeline(op, cmds)
      PROVE  StoreInv' /\ (Contract!ContractNext \/ UNCHANGED <<Db, Mortal, answer>>)
  <2>1. UNCHANGED <<kv, scan>> /\ errors' \in ErrorQueues
    BY <1>1, <1>6, QueuesStep DEF BeginPipeline
  <2>2. cmds \in Pipes
    <3>1. cmds \in Seq(AllCommands)
      BY StoreAssumption
    <3>2. CASE cmds = <<>>
      BY <3>2 DEF Pipes
    <3>3. CASE cmds # <<>>
      <4>1. 1 \in DOMAIN cmds /\ cmds = SubSeq(cmds, 1, Len(cmds))
        BY <3>1, <3>3, EmptySeq, LenProperties, SubSeqFull
      <4> QED BY <4>1, PipesFact
    <3> QED BY <3>2, <3>3
  <2>3. pipe' \in Pipes
    BY <1>1, <1>6, <2>2 DEF BeginPipeline
  <2>4. StoreInv'
    BY <2>1, <2>3, AsideStep
  <2>5. Contract!Refuse \/ UNCHANGED <<Db, Mortal, answer>>
    BY <1>6, <2>1, SameStore DEF BeginPipeline, Contract!Refuse
  <2> QED BY <2>4, <2>5 DEF Contract!ContractNext
<1>7. CASE BeginScan
  <2>1. /\ UNCHANGED <<kv, errors, answer, pipe>>
        /\ scan' = [NoScan EXCEPT !.on = TRUE, !.stayed = LiveKeys(kv)]
    BY <1>7 DEF BeginScan
  <2>2. /\ scan' \in Scans /\ scan'.on = TRUE /\ scan'.failed = FALSE /\ scan'.cursor = 0
        /\ scan'.seen = [k \in Keys |-> 0] /\ scan'.stayed = LiveKeys(kv)
    <3>1. LiveKeys(kv) \in SUBSET Keys
      BY LiveAreKeys
    <3> QED BY <2>1, <3>1, NoScanFacts, Zenon DEF Scans
  <2>3. \A k \in Keys : Below(kv, k) \in Nat
    BY BelowGrows
  <2>4. ScanOnTrack' /\ ScanShowsWhatStayed'
    BY <2>1, <2>2, <2>3, LiveAreKeys DEF ScanOnTrack, ScanShowsWhatStayed
  <2>5. StoreInv'
    BY <1>1, <2>1, <2>2, <2>4 DEF StoreInv, StoreTypes
  <2> QED BY <2>1, <2>5, SameStore
<1>8. CASE ScanPage
  <2>1. UNCHANGED <<kv, pipe>> /\ errors' \in ErrorQueues
    BY <1>1, <1>8, QueuesStep DEF ScanPage
  <2>2. StoreInv'
    BY <1>1, <1>8, <2>1, ScanPageStep, PipesFact DEF StoreInv, StoreTypes, ErrorQueues
  <2>3. CASE Fails("Scan")
    <3>1. Contract!Refuse
      BY <1>8, <2>1, <2>3, SameStore DEF ScanPage, Contract!Refuse
    <3> QED BY <2>2, <3>1 DEF Contract!ContractNext
  <2>4. CASE ~Fails("Scan")
    <3>1. PICK keys \in Sorted(LiveKeys(kv)) :
              answer' = SubSeq(keys, scan.cursor + 1, PageEnd(keys))
      BY <1>8, <2>4 DEF ScanPage
    <3>2. Contract!Page
      BY <1>1, <2>1, <3>1, PageIsAscending
    <3> QED BY <2>2, <3>2 DEF Contract!ContractNext
  <2> QED BY <2>3, <2>4
<1> QED
  BY <1>2, <1>3, <1>4, <1>5, <1>6, <1>7, <1>8 DEF StoreNext

-----------------------------------------------------------------------------
(* The theorems.                                                           *)

\* The invariant and the contract's initial state hold for a new backend.
LEMMA InitStoreInv == StoreInit => StoreInv /\ Contract!ContractInit
<1> SUFFICES ASSUME StoreInit PROVE StoreInv /\ Contract!ContractInit
  OBVIOUS
<1>1. kv \in Stores /\ errors \in ErrorQueues /\ pipe \in Pipes
  BY DEF StoreInit, Stores, Entries, Absent, ErrorQueues, Pipes
<1>2. scan \in Scans /\ ~scan.on /\ scan.stayed = {} /\ scan.seen = [k \in Keys |-> 0]
  BY NoScanFacts DEF StoreInit
<1>3. ScanOnTrack /\ ScanShowsWhatStayed
  BY <1>2 DEF ScanOnTrack, ScanShowsWhatStayed
<1>4. StoreInv
  BY <1>1, <1>2, <1>3, PipesFact DEF StoreInv, StoreTypes, Stores, ErrorQueues
<1>5. \A k \in Keys : kv[k].ttl = "absent"
  BY DEF StoreInit, Absent
<1>6. Db = [k \in Keys |-> Missing] /\ Mortal = {}
  BY <1>5 DEF Db, Mortal, Seen, Live
<1>7. Contract!ContractInit
  BY <1>6 DEF Contract!ContractInit, StoreInit
<1> QED BY <1>4, <1>7

\* Every step keeps the invariant.
LEMMA NextStoreInv == StoreInv /\ [StoreNext]_storeVars => StoreInv'
<1>1. StoreInv /\ StoreNext => StoreInv'
  BY StoreStep
<1>2. StoreInv /\ UNCHANGED storeVars => StoreInv'
  BY DEF StoreInv, StoreTypes, ScanOnTrack, ScanShowsWhatStayed, storeVars
<1> QED BY <1>1, <1>2

\* Every step maps to a step of the contract or to none.
LEMMA NextContract ==
    StoreInv /\ [StoreNext]_storeVars => [Contract!ContractNext]_<<Db, Mortal, answer>>
<1>1. StoreInv /\ StoreNext => Contract!ContractNext \/ UNCHANGED <<Db, Mortal, answer>>
  BY StoreStep
<1>2. UNCHANGED storeVars => UNCHANGED <<Db, Mortal, answer>>
  BY SameStore DEF storeVars
<1> QED BY <1>1, <1>2

\* So the invariant always holds.
LEMMA StoreInvAlways == StoreSpec => []StoreInv
<1>1. StoreInit => StoreInv
  BY InitStoreInv
<1> QED BY <1>1, NextStoreInv, PTL DEF StoreSpec

\* Keys, error queues, pipelines and scans keep their types, whatever is done to the store.
THEOREM StoreTypesAreKept == StoreSpec => []StoreTypeOK
<1>1. StoreInv => StoreTypeOK
  BY DEF StoreInv, StoreTypes, StoreTypeOK, Scans, Entries
<1> QED BY <1>1, StoreInvAlways, PTL

\* A finished scan has shown all that stayed, and nothing twice, but for keys that
\* left or came before them: for every page size and every number of keys.
THEOREM ScansAlwaysShowWhatStayed == StoreSpec => []ScanShowsWhatStayed
<1>1. StoreInv => ScanShowsWhatStayed
  BY DEF StoreInv
<1> QED BY <1>1, StoreInvAlways, PTL

\* The store, with its expired entries and its pipelines, implements the map of
\* KVContract: the initial states map to its initial state, every step to one of its
\* steps or to none.
THEOREM StoreImplementsContract == StoreSpec => KeepsKVContract
<1>1. StoreInit => Contract!ContractInit
  BY InitStoreInv
<1>2. StoreInv /\ [StoreNext]_storeVars => [Contract!ContractNext]_<<Db, Mortal, answer>>
  BY NextContract
<1> QED
  BY <1>1, <1>2, StoreInvAlways, PTL
  DEF StoreSpec, KeepsKVContract, Contract!ContractSpec, Contract!contractVars

=============================================================================
