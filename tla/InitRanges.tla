------------------------------- MODULE InitRanges -------------------------------
(***************************************************************************)
(* The initialization tracker of a texture: for each mip level, the list   *)
(* of the ranges of layers whose memory nothing has written yet, and the   *)
(* algorithms that search, drain and extend it.  A buffer is a texture of  *)
(* one level whose layers are its bytes, and is never discarded.  A range  *)
(* <<a, b>> is a..b of the code: it ends before b.                         *)
(***************************************************************************)
EXTENDS Integers, Sequences, FiniteSets

CONSTANTS
    Mips,    \* number of mip levels
    Layers   \* number of layers

ASSUME InitRangesAssumption == Mips \in Nat \ {0} /\ Layers \in Nat \ {0}

VARIABLES
    mips,        \* TextureInitTracker::mips: uninitialized_ranges of each level
    unwritten,   \* the layers of each level that nothing has written
    disordered   \* a discard has put a range out of order: see Discarded

rangesVars == <<mips, unwritten, disordered>>

Lesser(a, b) == IF a < b THEN a ELSE b
Greater(a, b) == IF a > b THEN a ELSE b
Query(n) == {q \in (0..n) \X (0..n) : q[1] < q[2]}
LayersOf(r) == r[1]..(r[2] - 1)
Covered(rs) == UNION {LayersOf(rs[i]) : i \in DOMAIN rs}

(* partition_point over a sorted list: how many ranges end at or before    *)
(* the query.                                                              *)
Before_OffByOne(rs, q) ==                        \* wrong: skips a touched range
    Cardinality({i \in DOMAIN rs : rs[i][2] <= q[1] + 1})
Before(rs, q) == Cardinality({i \in DOMAIN rs : rs[i][2] <= q[1]})

(* How many ranges start before the query ends, from the first that does   *)
(* not end before it.                                                      *)
Upto(rs, q) ==
    Before(rs, q) + Cardinality({i \in (Before(rs, q) + 1)..Len(rs) :
                        \A j \in (Before(rs, q) + 1)..i : rs[j][1] < q[2]})

(* InitTracker::check, with <<>> for None.                                 *)
Check(rs, q) ==
    LET first == Before(rs, q) + 1
        start == Greater(rs[first][1], q[1])
    IN  IF first > Len(rs) \/ rs[first][1] >= q[2] THEN <<>>
        ELSE IF first < Len(rs) /\ rs[first + 1][1] < q[2] THEN <<start, q[2]>>
        ELSE <<start, Lesser(rs[first][2], q[2])>>

(* InitTrackerDrain: what it yields, and what it leaves in the list once   *)
(* it is exhausted.                                                        *)
Pieces(rs, q) ==
    [i \in 1..(Upto(rs, q) - Before(rs, q)) |->
        LET r == rs[Before(rs, q) + i] IN <<Greater(r[1], q[1]), Lesser(r[2], q[2])>>]

Drained_Whole(rs, q) ==                          \* wrong: forgets what is outside
    SubSeq(rs, 1, Before(rs, q)) \o SubSeq(rs, Upto(rs, q) + 1, Len(rs))
Drained(rs, q) ==
    LET first == Before(rs, q) + 1
        last == Upto(rs, q)
        left == IF rs[first][1] >= q[1] THEN <<>> ELSE <<<<rs[first][1], q[1]>>>>
        right == IF rs[last][2] <= q[2] THEN <<>> ELSE <<<<q[2], rs[last][2]>>>>
    IN  IF last < first THEN rs
        ELSE SubSeq(rs, 1, first - 1) \o left \o right \o SubSeq(rs, last + 1, Len(rs))

(* InitTracker::discard: a layer that no range touches becomes a range at  *)
(* the end of the list, wherever the others are.                           *)
Discarded(rs, pos) ==
    LET at == Cardinality({i \in DOMAIN rs : rs[i][2] < pos}) + 1
        r == rs[at]
        alone == Append(rs, <<pos, pos + 1>>)
    IN  IF at > Len(rs) THEN alone
        ELSE IF r[2] = pos THEN
            IF at < Len(rs) /\ rs[at + 1][1] = pos + 1
              THEN SubSeq(rs, 1, at - 1) \o <<<<r[1], rs[at + 1][2]>>>>
                       \o SubSeq(rs, at + 2, Len(rs))
              ELSE [rs EXCEPT ![at] = <<r[1], pos + 1>>]
        ELSE IF r[1] = pos + 1 THEN [rs EXCEPT ![at] = <<pos, r[2]>>]
        ELSE IF r[1] > pos THEN alone
        ELSE rs

Sorted(rs) ==
    /\ \A i \in DOMAIN rs : rs[i][1] < rs[i][2]
    /\ \A i \in 1..(Len(rs) - 1) : rs[i][2] <= rs[i + 1][1]

(* TextureInitTracker::check_action over the levels m[1] up to m[2]: the   *)
(* levels and layers that need an action, or <<>>.                         *)
CheckAction(m, q) ==
    LET found == {i \in LayersOf(m) : Check(mips[i], q) # <<>>}
        least(S) == CHOOSE x \in S : \A y \in S : x <= y
        greatest(S) == CHOOSE x \in S : \A y \in S : x >= y
    IN  IF found = {} THEN <<>>
        ELSE <<<<least(found), greatest(found) + 1>>,
               <<least({Check(mips[i], q)[1] : i \in found}),
                 greatest({Check(mips[i], q)[2] : i \in found})>>>>

RangesInit ==
    /\ mips = [i \in 0..(Mips - 1) |-> <<<<0, Layers>>>>]
    /\ unwritten = [i \in 0..(Mips - 1) |-> 0..(Layers - 1)]
    /\ disordered = FALSE

(* The levels and layers of an action are initialized, by the write itself *)
(* or by clearing the pieces: either way the drain is exhausted.  What     *)
(* partition_point answers for an unsorted list is not modelled.           *)
InitializeRange(m, q) ==
    /\ ~disordered
    /\ mips' = [i \in DOMAIN mips |->
                  IF i \in LayersOf(m) THEN Drained(mips[i], q) ELSE mips[i]]
    /\ unwritten' = [i \in DOMAIN mips |->
                  IF i \in LayersOf(m) THEN unwritten[i] \ LayersOf(q) ELSE unwritten[i]]
    /\ UNCHANGED disordered

DiscardLayer(i, pos) ==
    /\ ~disordered
    /\ mips' = [mips EXCEPT ![i] = Discarded(@, pos)]
    /\ unwritten' = [unwritten EXCEPT ![i] = @ \cup {pos}]
    /\ disordered' = ~Sorted(mips'[i])

RangesNext ==
    \/ \E m \in Query(Mips), q \in Query(Layers) : InitializeRange(m, q)
    \/ \E i \in 0..(Mips - 1), pos \in 0..(Layers - 1) : DiscardLayer(i, pos)

RangesSpec == RangesInit /\ [][RangesNext]_rangesVars

--------------------------------------------------------------------------------

(* The ranges of a level hold exactly the layers that nothing has written, *)
(* whatever was initialized and discarded, in pieces and over one another, *)
(* and are in order unless a discard has put one at the wrong place.       *)
RangesExact ==
    \A i \in DOMAIN mips :
        /\ Covered(mips[i]) = unwritten[i]
        /\ \A a, b \in DOMAIN mips[i] :
              a # b => LayersOf(mips[i][a]) \cap LayersOf(mips[i][b]) = {}
        /\ disordered \/ Sorted(mips[i])

(* Every query is answered right: check finds uninitialized layers when    *)
(* there are any, from the first of them and to the last; a drain yields   *)
(* each of them once; and an action shrunk to the answer for a whole range *)
(* of levels leaves none of them out.                                      *)
AnswersRight ==
    disordered \/ \A q \in Query(Layers) :
        /\ \A i \in DOMAIN mips :
              LET due == unwritten[i] \cap LayersOf(q)
                  c == Check(mips[i], q)
                  p == Pieces(mips[i], q)
              IN  /\ c = <<>> <=> due = {}
                  /\ c # <<>> => /\ c[1] \in due /\ due \subseteq LayersOf(c)
                                 /\ LayersOf(c) \subseteq LayersOf(q)
                  /\ Covered(p) = due /\ Sorted(p)
        /\ \A m \in Query(Mips) :
              LET a == CheckAction(m, q)
              IN  \A i \in LayersOf(m) : \A x \in unwritten[i] \cap LayersOf(q) :
                      a # <<>> /\ i \in LayersOf(a[1]) /\ x \in LayersOf(a[2])
================================================================================
