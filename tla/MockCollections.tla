---------------------------- MODULE MockCollections ----------------------------
(***************************************************************************)
(* The hashes, sets, lists and sorted sets of resilixtest.MockBackend, one *)
(* key of each, two for the sets.  A method holds the backend's mutex from *)
(* end to end and is one step.                                             *)
(*                                                                         *)
(* Lists and sorted sets are Go slices: LMPop and ZMPop hand out a part of *)
(* the backing array, which later appends may write to.  The model keeps   *)
(* the free cells behind a slice and the last part that was handed out.    *)
(***************************************************************************)
EXTENDS Integers, Sequences, SequencesExt, FiniteSets, FiniteSetsExt

CONSTANTS
    Items,      \* fields of the hash, members of the sets and of the sorted set
    ItemLists,  \* argument lists of members, with repetitions
    SetKeys,    \* the keys of sets and HyperLogLogs
    Scores,     \* the scores of the sorted set
    MaxLen,     \* bound on the length of the list and of the sorted set
    MaxRoom     \* bound on the free cells of a new array

ASSUME CollectionsAssumption ==
    /\ MaxLen \in Nat \ {0} /\ MaxRoom \in Nat
    /\ Scores \subseteq Int
    /\ IsFiniteSet(Items) /\ IsFiniteSet(SetKeys)
    /\ ItemLists \subseteq Seq(Items)

VARIABLES
    hash,       \* m.hashes[key]: the fields that are there
    sets,       \* m.sets
    slice,      \* m.lists[key] or m.zsets[key]: elements, and free cells behind
    held,       \* the last result of LMPop or ZMPop
    claim       \* what the last answer says of the collections' size

collectionVars == <<hash, sets, slice, held, claim>>

Elements == slice.elems

\* The members of all sets, each with the key of its set.
Memberships == {p \in SetKeys \X Items : p[2] \in sets[p[1]]}

Says(what, n) == [what |-> what, n |-> n]

\* held: the number of elements handed out, how many cells lie between the
\* slice's first cell and theirs, whether they share an array, whether none of
\* them has been written over, the end they were taken from, and (history)
\* whether elements have been appended since.
NoResult ==
    [n |-> 0, at |-> 0, shared |-> FALSE, intact |-> TRUE, side |-> "first", later |-> FALSE]

CollectionsInit ==
    /\ hash = {}
    /\ sets = [k \in SetKeys |-> {}]
    /\ slice = [elems |-> <<>>, room |-> 0]
    /\ held = NoResult
    /\ claim = Says("nothing", 0)

-----------------------------------------------------------------------------
(* Hashes.                                                                 *)

HSet(fs) ==
    /\ hash' = hash \union fs
    /\ claim' = Says("grew", Cardinality(fs \ hash))
    /\ UNCHANGED <<sets, slice, held>>

SetHash(fs) ==
    /\ hash' = fs
    /\ claim' = Says("nothing", 0)
    /\ UNCHANGED <<sets, slice, held>>

HDel(fs) ==
    /\ hash' = hash \ ToSet(fs)
    /\ claim' = Says("shrank", Cardinality(ToSet(fs) \intersect hash))
    /\ UNCHANGED <<sets, slice, held>>

\* HGet, HMGet, HGetAll
HRead ==
    /\ claim' = Says("size", Cardinality(hash))
    /\ UNCHANGED <<hash, sets, slice, held>>

HashNext ==
    \/ \E fs \in SUBSET Items : HSet(fs) \/ SetHash(fs)
    \/ \E fs \in ItemLists : HDel(fs)
    \/ HRead

-----------------------------------------------------------------------------
(* Sets, and HyperLogLogs, which are sets here.                            *)

\* Mutant of NewMembers: a member given twice is counted twice.
NewMembersEachTime(k, ms) == Len(SelectSeq(ms, LAMBDA m : m \notin sets[k]))

\* How many of the members the loop of SAdd finds missing.
NewMembers(k, ms) == Cardinality(ToSet(ms) \ sets[k])

SAdd(k, ms) ==
    /\ sets' = [sets EXCEPT ![k] = @ \union ToSet(ms)]
    /\ claim' = Says("grew", NewMembers(k, ms))
    /\ UNCHANGED <<hash, slice, held>>

SRem(k, ms) ==
    /\ sets' = [sets EXCEPT ![k] = @ \ ToSet(ms)]
    /\ claim' = Says("shrank", Cardinality(ToSet(ms) \intersect sets[k]))
    /\ UNCHANGED <<hash, slice, held>>

\* PFAdd and AddSet do not count what they add.
AddUncounted(k, ms) ==
    /\ sets' = [sets EXCEPT ![k] = @ \union ToSet(ms)]
    /\ claim' = Says(IF ToSet(ms) \subseteq sets[k] THEN "same" ELSE "more", 0)
    /\ UNCHANGED <<hash, slice, held>>

\* The sources are left as they are; the destination may be one of them.
PFMerge(dest, ks) ==
    /\ sets' = [sets EXCEPT ![dest] = @ \union UNION {sets[k] : k \in ks}]
    /\ claim' = Says("nothing", 0)
    /\ UNCHANGED <<hash, slice, held>>

\* PFCount of all the keys; it is never more than their cardinalities' sum.
PFCount ==
    /\ claim' = Says("atMost", Cardinality(UNION {sets[k] : k \in SetKeys}))
    /\ UNCHANGED <<hash, sets, slice, held>>

\* SMembers, SIsMember, SCard of each key.
SRead ==
    /\ claim' = Says("size", Cardinality(Memberships))
    /\ UNCHANGED <<hash, sets, slice, held>>

SetNext ==
    \/ \E k \in SetKeys, ms \in ItemLists : SAdd(k, ms) \/ SRem(k, ms) \/ AddUncounted(k, ms)
    \/ \E k \in SetKeys, ks \in SUBSET SetKeys : PFMerge(k, ks)
    \/ PFCount \/ SRead

-----------------------------------------------------------------------------
(* Slices.                                                                 *)

\* The first cells of the slice's array have been written, up to this one.
WrittenTo(cells) ==
    [held EXCEPT !.intact =
        @ /\ ~(held.shared /\ \E i \in 1..held.n : held.at + i > 0 /\ held.at + i <= cells)]

\* The slice moves to a new array, with some free cells or none; these cells of
\* the old array have been written before.
Reallocated(after, cells) ==
    /\ \E free \in 0..MaxRoom : slice' = [elems |-> after, room |-> free]
    /\ held' = [WrittenTo(cells) EXCEPT !.n = 0, !.at = 0, !.shared = FALSE, !.later = TRUE]

\* Appending k elements that fit, in place.
InPlace(k, after) ==
    /\ slice' = [elems |-> after, room |-> slice.room - k]
    /\ held' = [WrittenTo(Len(after)) EXCEPT !.later = @ \/ k > 0]

\* append(slice, k elements ...)
AppendAll(k, after) ==
    /\ Len(after) <= MaxLen
    /\ IF k <= slice.room THEN InPlace(k, after) ELSE Reallocated(after, 0)

\* k times append(slice, element): the array is filled before it is left.
AppendEach(k, after) ==
    /\ Len(after) <= MaxLen
    /\ IF k <= slice.room THEN InPlace(k, after)
                          ELSE Reallocated(after, Len(Elements) + slice.room)

Handed(n, at, side) ==
    [n |-> n, at |-> at, shared |-> TRUE, intact |-> TRUE, side |-> side, later |-> FALSE]

\* Mutant of PopFirst: the idiom append(s[:0], s[n:]...) that deletes in place.
PopFirstInPlace(n) ==
    /\ held' = [Handed(n, 0, "first") EXCEPT !.intact = n = Len(Elements)]
    /\ slice' = [elems |-> SubSeq(Elements, n + 1, Len(Elements)), room |-> slice.room + n]

\* LMPop from the LEFT, ZMPop of the MIN: the first n elements are cut off.
PopFirst(n) ==
    /\ held' = Handed(n, -n, "first")
    /\ slice' = [slice EXCEPT !.elems = SubSeq(@, n + 1, Len(@))]

\* From the RIGHT, or of the MAX: the last n cells become free.
PopLast(n) ==
    LET left == Len(Elements) - n IN
    /\ held' = Handed(n, left, "last")
    /\ slice' = [elems |-> SubSeq(Elements, 1, left), room |-> slice.room + n]

\* The count is not negative: the mock's slice expressions panic otherwise.
PopMany(count) ==
    LET n == IF count > Len(Elements) THEN Len(Elements) ELSE count IN
    /\ Elements # <<>>
    /\ PopFirst(n) \/ PopLast(n)
    /\ claim' = Says("shrank", n)
    /\ UNCHANGED <<hash, sets>>

\* LRange and sliceZSet: a negative index counts from the end, and the window
\* is cut to what is there.
Window(s, start, stop) ==
    LET n  == Len(s)
        lo == IF start < 0 THEN n + start ELSE start
        hi == IF stop < 0 THEN n + stop ELSE stop
        first == IF lo < 0 THEN 0 ELSE lo
        last  == IF hi >= n THEN n - 1 ELSE hi
    IN  IF first > last \/ n = 0 THEN <<>> ELSE SubSeq(s, first + 1, last + 1)

-----------------------------------------------------------------------------
(* Lists.                                                                  *)

\* The pushed values stand before the old ones, in the order given.
LPush(vs) ==
    /\ Len(vs \o Elements) <= MaxLen
    /\ IF Elements = <<>>
       THEN /\ slice' = [elems |-> vs, room |-> 0]
            /\ held' = [held EXCEPT !.n = 0, !.at = 0, !.shared = FALSE, !.later = TRUE]
       ELSE Reallocated(vs \o Elements, 0)
    /\ claim' = Says("size", Len(vs \o Elements))
    /\ UNCHANGED <<hash, sets>>

\* RPush and PushList
RPush(vs) ==
    /\ AppendAll(Len(vs), Elements \o vs)
    /\ claim' = Says("size", Len(Elements \o vs))
    /\ UNCHANGED <<hash, sets>>

LPop ==
    /\ Elements # <<>>
    /\ slice' = [slice EXCEPT !.elems = Tail(@)]
    /\ held' = IF held.shared THEN [held EXCEPT !.at = @ - 1] ELSE held
    /\ claim' = Says("shrank", 1)
    /\ UNCHANGED <<hash, sets>>

RPop ==
    /\ Elements # <<>>
    /\ slice' = [elems |-> Front(Elements), room |-> slice.room + 1]
    /\ claim' = Says("shrank", 1)
    /\ UNCHANGED <<hash, sets, held>>

\* LRange, ZRange and ZRevRange of everything; LLen and ZScore likewise change
\* nothing.
SliceRead ==
    /\ claim' = Says("size", Len(Window(Elements, 0, -1)))
    /\ UNCHANGED <<hash, sets, slice, held>>

ListNext ==
    \/ \E vs \in ItemLists : LPush(vs) \/ RPush(vs)
    \/ LPop \/ RPop
    \/ \E n \in 1..2 : PopMany(n)
    \/ SliceRead

-----------------------------------------------------------------------------
(* Sorted sets.                                                            *)

Scored(ms, scores) == [i \in DOMAIN ms |-> [member |-> ms[i], score |-> scores[i]]]

ScoresAscend(z) == \A i, j \in DOMAIN z : i < j => z[i].score <= z[j].score

\* Mutant of Sortings: a changed score does not move its member.
SortingsNone(z) == {z}

\* sort.Slice leaves the order of equal scores open.
Sortings(z) ==
    {y \in {[i \in DOMAIN z |-> z[p[i]]] : p \in {q \in [DOMAIN z -> DOMAIN z] : IsInjective(q)}} :
        ScoresAscend(y)}

\* The loop of ZAdd, for all the members at once: one that is there gets its new
\* score, the last one given, in the first entry that names it ...
LastScore(ms, m) == ms[Max({i \in DOMAIN ms : ms[i].member = m})].score

Rescored(ms) ==
    [i \in DOMAIN Elements |->
        LET m == Elements[i].member IN
        IF (\E j \in DOMAIN ms : ms[j].member = m) /\ \A j \in 1..i - 1 : Elements[j].member # m
        THEN [member |-> m, score |-> LastScore(ms, m)]
        ELSE Elements[i]]

\* ... and the others are appended and counted, each once.
Newcomers(ms) == {ms[j].member : j \in DOMAIN ms} \ {Elements[i].member : i \in DOMAIN Elements}

ZAdd(ms) ==
    LET added == Cardinality(Newcomers(ms)) IN
    /\ \E new \in [1..added -> Newcomers(ms)] :
          /\ IsInjective(new)
          /\ \E z \in Sortings(Rescored(ms) \o
                               [i \in 1..added |-> [member |-> new[i],
                                                    score |-> LastScore(ms, new[i])]]) :
                AppendEach(added, z)
    /\ claim' = Says("grew", added)
    /\ UNCHANGED <<hash, sets>>

\* The setter does not look for members that are there.
AddZSet(ms) ==
    /\ \E z \in Sortings(Elements \o ms) : AppendAll(Len(ms), z)
    /\ claim' = Says("grew", Len(ms))
    /\ UNCHANGED <<hash, sets>>

\* The others move up within the array, in the order they are in.
ZRem(ms) ==
    LET kept == {i \in DOMAIN Elements : Elements[i].member \notin ToSet(ms)}
        gone == Len(Elements) - Cardinality(kept)
    IN  /\ \E places \in [1..Cardinality(kept) -> kept] :
              /\ \A i, j \in DOMAIN places : i < j => places[i] < places[j]
              /\ slice' = [elems |-> [i \in DOMAIN places |-> Elements[places[i]]],
                           room |-> slice.room + gone]
        /\ claim' = Says("shrank", gone)
        /\ UNCHANGED <<hash, sets, held>>

ZSetNext ==
    \/ \E ms \in ItemLists :
          \/ \E scores \in [DOMAIN ms -> Scores] :
                ZAdd(Scored(ms, scores)) \/ AddZSet(Scored(ms, scores))
          \/ ZRem(ms)
    \/ \E n \in 1..2 : PopMany(n)
    \/ SliceRead

-----------------------------------------------------------------------------
\* The areas of the backend share nothing.
HashSpec == CollectionsInit /\ [][HashNext]_collectionVars
SetSpec == CollectionsInit /\ [][SetNext]_collectionVars
ListSpec == CollectionsInit /\ [][ListNext]_collectionVars
ZSetSpec == CollectionsInit /\ [][ZSetNext]_collectionVars

-----------------------------------------------------------------------------
(* Properties.                                                             *)

\* Representation: the collections stay in shape and a sorted set is sorted.
CollectionsTypeOK ==
    /\ hash \subseteq Items /\ sets \in [SetKeys -> SUBSET Items]
    /\ Len(Elements) <= MaxLen /\ slice.room \in 0..MaxRoom + MaxLen
    /\ \/ \A i \in DOMAIN Elements : Elements[i] \in Items
       \/ ScoresAscend(Elements)
    /\ held.n \in 0..MaxLen

Size == Cardinality(hash) + Cardinality(Memberships) + Len(Elements)

\* The members or fields a command says it added or removed are the collection's
\* change of size, repeated arguments included, PFAdd says whether anything is new,
\* and the length after a push is right.
AnswerIsRight ==
    LET n == claim'.n IN
    /\ claim'.what = "grew" => Size' = Size + n
    /\ claim'.what = "shrank" => Size' = Size - n
    /\ claim'.what = "size" => Size' = n
    /\ claim'.what = "atMost" => n <= Size'
    /\ claim'.what \in {"more", "same"} => (claim'.what = "more" <=> Size' > Size)

\* What a command of a hash, a set, a list or a sorted set answers is what it did.
CountsAddUp == [][AnswerIsRight]_collectionVars

\* What LMPop or ZMPop has returned stays as it was, whatever happens to the list
\* afterwards, unless it was taken from the end (RIGHT, MAX) and elements have
\* been appended since: then they may have been written over it.
PopsAreKept == held.intact \/ (held.side = "last" /\ held.later)

=============================================================================
