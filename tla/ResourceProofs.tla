---------------------------- MODULE ResourceProofs -----------------------------
(***************************************************************************)
(* What is proved of three kinds of shared resources: acceleration         *)
(* structures, the pool of bind group layouts, and the semaphores and      *)
(* fences of a Vulkan queue.                                               *)
(*                                                                         *)
(* Of AccelStructures: outside the gaps, sizes, copies and top-level       *)
(* structures are right, and every preparation is answered.  The invariant *)
(* says what the stream of acts that were submitted, with those validated  *)
(* behind it, has recorded of each structure: where it was built last, and *)
(* with which index.  A copy may go in between, as the pending writes do,  *)
(* without changing that.                                                  *)
(*                                                                         *)
(* Of ResourcePool: it keeps its promise for any number of threads, keys   *)
(* and slots, by the inductive invariant IndInv.                           *)
(*                                                                         *)
(* Of VulkanQueue: its fence is right however the pool's fences are        *)
(* recycled, and outside of a mishap so are its semaphores.                *)
(***************************************************************************)
EXTENDS AccelStructures, ResourcePool, VulkanQueue, FiniteSetTheorems, SequenceTheorems,
        WellFoundedInduction, TLAPS

--------------------------------------------------------------------------------
(* Acceleration structures: the invariant *)

AsBuilds == [op : {"build"}, blas : SUBSET Blas, tlas : SUBSET Tlas, deps : SUBSET Blas,
             index : Nat]
AsUses == [op : {"use"}, tlas : SUBSET Tlas, deps : SUBSET Blas]
AsCopies == [op : {"copy"}, blas : Blas, size : Nat]
Streamed == [sub : Nat, act : AsBuilds \cup AsUses \cup AsCopies]
Tracked == [index : Nat, uses : SUBSET Blas, readBack : Seq(Blas)]
CompactStates == [st : {"idle", "waiting", "ready"}, size : Nat]
TlasStates == [index : Nat, deps : SUBSET Blas]

AccelTypes ==
    /\ compactState \in [Blas -> CompactStates]
    /\ blasBuilt \in [Blas -> Nat]
    /\ tlasBuilt \in [Tlas -> TlasStates]
    /\ nextBuild \in Nat /\ nextBuild # 0
    /\ submitting \in Seq(AsBuilds \cup AsUses)
    /\ copying # Nothing => copying \in AsCopies
    /\ pendingCopies \in Seq(AsCopies)
    /\ inFlight \in Seq(Tracked)
    /\ readyToCompact \in Seq(Blas)
    /\ asSubmitted \in Nat /\ asDone \in Nat
    /\ stream \in Seq(Streamed)

(* The list of acts s, with what it is known to leave. *)
BuildsBlas(x, b) == x.op = "build" /\ b \in x.blas
BuildsTlas(x, t) == x.op = "build" /\ t \in x.tlas
LastBlas(s, b, i) ==
    /\ i \in DOMAIN s /\ BuildsBlas(s[i], b)
    /\ \A j \in DOMAIN s : BuildsBlas(s[j], b) => j <= i
LastTlas(s, t, i) ==
    /\ i \in DOMAIN s /\ BuildsTlas(s[i], t)
    /\ \A j \in DOMAIN s : BuildsTlas(s[j], t) => j <= i
BuildsRise(s, next) ==
    /\ \A i \in DOMAIN s : s[i].op = "build" => 0 < s[i].index /\ s[i].index < next
    /\ \A i, j \in DOMAIN s :
          s[i].op = "build" /\ s[j].op = "build" /\ i < j => s[i].index < s[j].index
BlasKnown(s, blas) ==
    \A b \in Blas :
        \/ blas[b] = 0 /\ \A i \in DOMAIN s : ~BuildsBlas(s[i], b)
        \/ \E i \in DOMAIN s : LastBlas(s, b, i) /\ s[i].index = blas[b]
TlasKnown(s, tlas) ==
    \A t \in Tlas :
        \/ tlas[t].index = 0 /\ \A i \in DOMAIN s : ~BuildsTlas(s[i], t)
        \/ \E i \in DOMAIN s : /\ LastTlas(s, t, i) /\ s[i].index = tlas[t].index
                               /\ s[i].deps = tlas[t].deps
UseRight(s, n, t) ==
    \E i \in DOMAIN s :
        /\ i <= n /\ BuildsTlas(s[i], t)
        /\ \A j \in DOMAIN s : i < j /\ j <= n => ~BuildsTlas(s[j], t)
        /\ \A b \in s[i].deps : \E j \in DOMAIN s :
              /\ j <= i /\ BuildsBlas(s[j], b)
              /\ \A k \in DOMAIN s : j < k /\ k <= n => ~BuildsBlas(s[k], b)
UsesRight(s) == \A n \in DOMAIN s : s[n].op = "use" => \A t \in s[n].tlas : UseRight(s, n, t)
Recorded(s, blas, tlas, next) ==
    /\ BuildsRise(s, next) /\ BlasKnown(s, blas) /\ TlasKnown(s, tlas) /\ UsesRight(s)

Acts(s) == [n \in DOMAIN s |-> s[n].act]
RecordInv == Recorded(Acts(stream) \o submitting, blasBuilt, tlasBuilt, nextBuild)

CopyRight(s, n) ==
    \E i \in DOMAIN s :
        /\ i <= n /\ BuildsBlas(s[i], s[n].blas) /\ s[i].index = s[n].size
        /\ \A j \in DOMAIN s : i < j /\ j <= n => ~BuildsBlas(s[j], s[n].blas)
CopyReady(s, c) == \E i \in DOMAIN s : LastBlas(s, c.blas, i) /\ s[i].index = c.size
CopyInv ==
    /\ \A n \in DOMAIN stream : stream[n].act.op = "copy" => CopyRight(Acts(stream), n)
    /\ \A i \in DOMAIN pendingCopies : CopyReady(Acts(stream), pendingCopies[i])
    /\ copying # Nothing => CopyReady(Acts(stream), copying) /\ ~Building(copying.blas)

Triaged == asSubmitted - Len(inFlight)
FlightInv ==
    /\ 0 <= Triaged /\ Triaged <= asDone /\ asDone <= asSubmitted
    /\ \A i \in DOMAIN inFlight : inFlight[i].index = Triaged + i
    /\ \A n \in DOMAIN stream :
          /\ 1 <= stream[n].sub /\ stream[n].sub <= asSubmitted
          /\ stream[n].sub > Triaged /\ stream[n].act.op = "build" =>
                stream[n].act.blas \subseteq inFlight[stream[n].sub - Triaged].uses

Once(s) == \A i, j \in DOMAIN s : s[i] = s[j] => i = j
In(s, b) == \E i \in DOMAIN s : s[i] = b
ListInv ==
    /\ Once(readyToCompact) /\ \A i \in DOMAIN inFlight : Once(inFlight[i].readBack)
    /\ \A b \in Blas, i \in DOMAIN inFlight : In(inFlight[i].readBack, b) =>
          /\ ~In(readyToCompact, b)
          /\ \A j \in DOMAIN inFlight : In(inFlight[j].readBack, b) => i = j

BuiltBy(b, x) ==
    \E i \in DOMAIN stream :
        /\ LastBlas(Acts(stream), b, i)
        /\ stream[i].act.index = blasBuilt[b] /\ stream[i].sub <= x
WaitingInv ==
    \A b \in Blas : compactState[b].st = "waiting" =>
        /\ ~Building(b)
        /\ \/ In(readyToCompact, b) /\ BuiltBy(b, asDone)
           \/ \E i \in DOMAIN inFlight :
                 In(inFlight[i].readBack, b) /\ BuiltBy(b, inFlight[i].index)
ReadyInv ==
    \A b \in Blas : compactState[b].st = "ready" =>
        /\ ~Building(b) /\ ~Listed(b)
        /\ compactState[b].size = blasBuilt[b] /\ BuiltBy(b, asDone)

AccelSound ==
    AccelTypes /\ RecordInv /\ CopyInv /\ FlightInv /\ ListInv /\ WaitingInv /\ ReadyInv /\ ~asPanic
AccelInv == gap \/ AccelSound

--------------------------------------------------------------------------------
(* Loops *)

Smaller == {p \in Nat \X Nat : p[1] < p[2]}

(* Every set of numbers has a least one. *)
LEMMA HasLeast ==
  ASSUME NEW S, S \subseteq Nat, S # {}
  PROVE  \E m \in S : \A k \in S : m <= k
<1>1. Smaller = OpToRel(<, Nat)
  BY DEF Smaller, OpToRel
<1>2. IsWellFoundedOn(Smaller, Nat)
  BY <1>1, NatLessThanWellFounded
<1>3. PICK m \in S : \A k \in S : ~(<<k, m>> \in Smaller)
  BY <1>2, WFMin
<1>4. \A k \in S : ~(k < m) /\ k \in Nat /\ m \in Nat
  BY <1>3 DEF Smaller
<1>5. QED
  BY <1>4

(* Two loops: over the actions of a command buffer, and over the submissions that    *)
(* are done.                                                                         *)
Turn(loop, acc, x) ==
    IF loop = "validate"
      THEN IF ~acc.ok THEN acc
           ELSE IF x.op = "build" THEN ValidatedBuild(acc, x)
           ELSE ValidatedUse(acc, x)
      ELSE acc \o x.readBack
Loops(p, loop, start, seq, n) ==
    p = [i \in 0..n |-> IF i = 0 THEN start ELSE Turn(loop, p[i - 1], seq[i])]
LoopEnd(loop, start, seq, n) == (CHOOSE p : Loops(p, loop, start, seq, n))[n]

(* A loop goes from turn to turn, *)
LEMMA LoopTurns ==
  ASSUME NEW p, NEW loop, NEW start, NEW seq, NEW n \in Nat, Loops(p, loop, start, seq, n)
  PROVE  p[0] = start /\ \A i \in 1..n : p[i] = Turn(loop, p[i - 1], seq[i])
<1>1. \A i \in 0..n : p[i] = IF i = 0 THEN start ELSE Turn(loop, p[i - 1], seq[i])
  BY Zenon DEF Loops
<1>2. 0 \in 0..n /\ \A i \in 1..n : i \in 0..n /\ i # 0
  OBVIOUS
<1>3. QED
  BY <1>1, <1>2

(* it ends, *)
LEMMA LoopExists ==
  ASSUME NEW loop, NEW start, NEW seq, NEW n \in Nat
  PROVE  \E p : Loops(p, loop, start, seq, n)
<1>1. DEFINE B == {m \in Nat : ~ \E p : Loops(p, loop, start, seq, m)}
<1>2. SUFFICES ASSUME B # {} PROVE FALSE
  OBVIOUS
<1>3. PICK m \in B : \A k \in B : m <= k
  BY <1>2, HasLeast
<1>4. m # 0
  <2>1. DEFINE p == [i \in 0..0 |-> start]
  <2>2. p = [i \in 0..0 |-> IF i = 0 THEN start ELSE Turn(loop, p[i - 1], seq[i])]
    OBVIOUS
  <2>3. Loops(p, loop, start, seq, 0)
    BY <2>2, Zenon DEF Loops
  <2>4. QED
    BY <2>3, <1>3
<1>5. PICK l : l \in Nat /\ m = l + 1
  <2>1. m - 1 \in Nat /\ m = (m - 1) + 1
    BY <1>3, <1>4
  <2>2. QED
    BY <2>1
<1>6. PICK h : Loops(h, loop, start, seq, l)
  BY <1>3, <1>5
<1>7. h[0] = start /\ \A i \in 1..l : h[i] = Turn(loop, h[i - 1], seq[i])
  BY <1>5, <1>6, LoopTurns
<1>8. DEFINE p == [i \in 0..m |-> IF i = m THEN Turn(loop, h[l], seq[m]) ELSE h[i]]
<1>9. ASSUME NEW i \in 0..m
      PROVE  p[i] = IF i = 0 THEN start ELSE Turn(loop, p[i - 1], seq[i])
  <2>1. CASE i = m
    <3>1. i # 0 /\ i - 1 \in 0..m /\ i - 1 # m /\ i - 1 = l
      BY <1>5, <2>1
    <3>2. QED
      BY <2>1, <3>1
  <2>2. CASE i # m /\ i # 0
    <3>1. i \in 1..l /\ i - 1 \in 0..m /\ i - 1 # m
      BY <1>5, <2>2
    <3>2. QED
      BY <2>2, <3>1, <1>7
  <2>3. CASE i = 0
    BY <2>3, <1>4, <1>7
  <2>4. QED
    BY <2>1, <2>2, <2>3
<1>10. p = [i \in 0..m |-> p[i]]
  BY Zenon
<1>11. HIDE DEF p
<1>12. Loops(p, loop, start, seq, m)
  BY <1>9, <1>10 DEF Loops
<1>13. QED
  BY <1>12, <1>3

(* What the start has and each turn keeps, the loop ends with. *)
LEMMA LoopKeeps ==
  ASSUME NEW loop, NEW start, NEW seq, NEW n \in Nat, NEW P,
         start \in P[0],
         \A i \in 1..n : \A acc \in P[i - 1] : Turn(loop, acc, seq[i]) \in P[i]
  PROVE  LoopEnd(loop, start, seq, n) \in P[n]
<1>1. DEFINE p == CHOOSE q : Loops(q, loop, start, seq, n)
<1>2. Loops(p, loop, start, seq, n)
  BY LoopExists
<1>3. HIDE DEF p
<1>4. p[0] = start /\ \A i \in 1..n : p[i] = Turn(loop, p[i - 1], seq[i])
  BY <1>2, LoopTurns
<1>5. DEFINE B == {i \in Nat : i <= n /\ p[i] \notin P[i]}
<1>6. B = {}
  <2>1. SUFFICES ASSUME B # {} PROVE FALSE
    OBVIOUS
  <2>2. PICK i \in B : \A k \in B : i <= k
    BY <2>1, HasLeast
  <2>3. i \in Nat /\ i <= n /\ p[i] \notin P[i] /\ i # 0
    BY <2>2, <1>4
  <2>4. i - 1 \in Nat /\ i - 1 <= n /\ i \in 1..n /\ i - 1 \notin B
    BY <2>2, <2>3
  <2>5. p[i - 1] \in P[i - 1]
    BY <2>4
  <2>6. QED
    BY <2>3, <2>4, <2>5, <1>4
<1>7. p[n] \in P[n]
  BY <1>6
<1>8. QED
  BY <1>7 DEF p, LoopEnd

(* The two loops of the model. *)
Started == [compact |-> compactState, blas |-> blasBuilt, tlas |-> tlasBuilt,
            next |-> nextBuild, ok |-> TRUE, ran |-> <<>>]

Validates(p, batch) ==
    p = [i \in 0..Len(batch) |->
           IF i = 0 THEN Started
           ELSE IF ~p[i - 1].ok THEN p[i - 1]
           ELSE IF batch[i].op = "build" THEN ValidatedBuild(p[i - 1], batch[i])
           ELSE ValidatedUse(p[i - 1], batch[i])]

(* Validation is such a loop, *)
LEMMA ValidatedIs ==
  ASSUME NEW batch
  PROVE  Validated(batch) = LoopEnd("validate", Started, batch, Len(batch))
<1>1. \A p : Loops(p, "validate", Started, batch, Len(batch)) <=> Validates(p, batch)
  BY Zenon DEF Loops, Turn, Validates
<1>2. Validated(batch) = (CHOOSE p : Validates(p, batch))[Len(batch)]
  BY Zenon DEF Validated, Started, Validates
<1>3. QED
  BY <1>1, <1>2, Zenon DEF LoopEnd

(* and so is gathering what a poll reads back. *)
LEMMA ReadBackIs ==
  ReadBack = LoopEnd("read back", readyToCompact, inFlight, DoneCount)
<1>1. \A p : Loops(p, "read back", readyToCompact, inFlight, DoneCount) <=>
             p = [i \in 0..DoneCount |->
                    IF i = 0 THEN readyToCompact ELSE p[i - 1] \o inFlight[i].readBack]
  BY Zenon DEF Loops, Turn
<1>2. QED
  BY <1>1, Zenon DEF ReadBack, LoopEnd

--------------------------------------------------------------------------------
(* What a list of acts records *)

AsActs == AsBuilds \cup AsUses \cup AsCopies

(* Acts spread over a longer list, in the same order, with copies in between. *)
Spread(s, l, f) ==
    /\ \A i \in DOMAIN s : f[i] \in DOMAIN l /\ l[f[i]] = s[i]
    /\ \A i, j \in DOMAIN s : i < j <=> f[i] < f[j]
    /\ \A k \in DOMAIN l : l[k].op # "copy" => \E i \in DOMAIN s : f[i] = k

(* Copies in between leave what is recorded as it is. *)
LEMMA SpreadRecorded ==
  ASSUME NEW s \in Seq(AsActs), NEW l \in Seq(AsActs), NEW f, Spread(s, l, f),
         NEW blas, NEW tlas, NEW next, Recorded(s, blas, tlas, next)
  PROVE  Recorded(l, blas, tlas, next)
<1>1. /\ \A i \in DOMAIN s : i \in Nat /\ f[i] \in DOMAIN l /\ f[i] \in Nat /\ l[f[i]] = s[i]
      /\ \A k \in DOMAIN l : k \in Nat
  BY DEF Spread
<1>2. \A i, j \in DOMAIN s : (i < j <=> f[i] < f[j]) /\ (i <= j <=> f[i] <= f[j])
  <2>1. \A i, j \in DOMAIN s : i < j <=> f[i] < f[j]
    BY DEF Spread
  <2>2. \A i, j \in DOMAIN s : i <= j <=> ~(j < i)
    BY <1>1
  <2>3. \A i, j \in DOMAIN s : f[i] <= f[j] <=> ~(f[j] < f[i])
    BY <1>1
  <2>4. QED
    BY <2>1, <2>2, <2>3
<1>3. \A k \in DOMAIN l : l[k].op # "copy" => \E i \in DOMAIN s : f[i] = k
  BY DEF Spread
<1>4. /\ \A k \in DOMAIN l : \A b : BuildsBlas(l[k], b) => \E i \in DOMAIN s : f[i] = k /\ BuildsBlas(s[i], b)
      /\ \A k \in DOMAIN l : \A t : BuildsTlas(l[k], t) => \E i \in DOMAIN s : f[i] = k /\ BuildsTlas(s[i], t)
  BY <1>1, <1>3 DEF BuildsBlas, BuildsTlas
<1>5. BuildsRise(l, next)
  <2>1. /\ \A i \in DOMAIN s : s[i].op = "build" => 0 < s[i].index /\ s[i].index < next
        /\ \A i, j \in DOMAIN s :
              s[i].op = "build" /\ s[j].op = "build" /\ i < j => s[i].index < s[j].index
    BY DEF Recorded, BuildsRise
  <2>2. \A k \in DOMAIN l : l[k].op = "build" => \E i \in DOMAIN s : f[i] = k /\ s[i] = l[k]
    BY <1>1, <1>3
  <2>3. \A k, m \in DOMAIN l :
           l[k].op = "build" /\ l[m].op = "build" /\ k < m => l[k].index < l[m].index
    BY <1>2, <2>1, <2>2
  <2>4. \A k \in DOMAIN l : l[k].op = "build" => 0 < l[k].index /\ l[k].index < next
    BY <2>1, <2>2
  <2>5. QED
    BY <2>3, <2>4 DEF BuildsRise
<1>6. \A i \in DOMAIN s : \A b : LastBlas(s, b, i) => LastBlas(l, b, f[i])
  <2>1. SUFFICES ASSUME NEW i \in DOMAIN s, NEW b, LastBlas(s, b, i) PROVE LastBlas(l, b, f[i])
    OBVIOUS
  <2>2. f[i] \in DOMAIN l /\ BuildsBlas(l[f[i]], b)
    BY <1>1, <2>1 DEF LastBlas
  <2>3. \A k \in DOMAIN l : BuildsBlas(l[k], b) => k <= f[i]
    BY <1>2, <1>4, <2>1 DEF LastBlas
  <2>4. QED
    BY <2>2, <2>3 DEF LastBlas
<1>7. \A i \in DOMAIN s : \A t : LastTlas(s, t, i) => LastTlas(l, t, f[i])
  <2>1. SUFFICES ASSUME NEW i \in DOMAIN s, NEW t, LastTlas(s, t, i) PROVE LastTlas(l, t, f[i])
    OBVIOUS
  <2>2. f[i] \in DOMAIN l /\ BuildsTlas(l[f[i]], t)
    BY <1>1, <2>1 DEF LastTlas
  <2>3. \A k \in DOMAIN l : BuildsTlas(l[k], t) => k <= f[i]
    BY <1>2, <1>4, <2>1 DEF LastTlas
  <2>4. QED
    BY <2>2, <2>3 DEF LastTlas
<1>8. BlasKnown(l, blas)
  <2>1. BlasKnown(s, blas)
    BY DEF Recorded
  <2>2. SUFFICES ASSUME NEW b \in Blas
                 PROVE  \/ blas[b] = 0 /\ \A i \in DOMAIN l : ~BuildsBlas(l[i], b)
                        \/ \E i \in DOMAIN l : LastBlas(l, b, i) /\ l[i].index = blas[b]
    BY DEF BlasKnown
  <2>3. CASE blas[b] = 0 /\ \A i \in DOMAIN s : ~BuildsBlas(s[i], b)
    BY <1>4, <2>3
  <2>4. CASE \E i \in DOMAIN s : LastBlas(s, b, i) /\ s[i].index = blas[b]
    BY <1>1, <1>6, <2>4
  <2>5. QED
    BY <2>1, <2>3, <2>4 DEF BlasKnown
<1>9. TlasKnown(l, tlas)
  <2>1. TlasKnown(s, tlas)
    BY DEF Recorded
  <2>2. SUFFICES ASSUME NEW t \in Tlas
                 PROVE  \/ tlas[t].index = 0 /\ \A i \in DOMAIN l : ~BuildsTlas(l[i], t)
                        \/ \E i \in DOMAIN l : /\ LastTlas(l, t, i) /\ l[i].index = tlas[t].index
                                               /\ l[i].deps = tlas[t].deps
    BY DEF TlasKnown
  <2>3. CASE tlas[t].index = 0 /\ \A i \in DOMAIN s : ~BuildsTlas(s[i], t)
    BY <1>4, <2>3
  <2>4. CASE \E i \in DOMAIN s : /\ LastTlas(s, t, i) /\ s[i].index = tlas[t].index
                                 /\ s[i].deps = tlas[t].deps
    BY <1>1, <1>7, <2>4
  <2>5. QED
    BY <2>1, <2>3, <2>4 DEF TlasKnown
<1>10. UsesRight(l)
  <2>1. SUFFICES ASSUME NEW m \in DOMAIN l, l[m].op = "use", NEW t \in l[m].tlas
                 PROVE  UseRight(l, m, t)
    BY DEF UsesRight
  <2>2. PICK n \in DOMAIN s : f[n] = m /\ s[n] = l[m]
    BY <1>1, <1>3, <2>1
  <2>3. UseRight(s, n, t)
    BY <2>1, <2>2 DEF Recorded, UsesRight
  <2>4. PICK i \in DOMAIN s :
               /\ i <= n /\ BuildsTlas(s[i], t)
               /\ \A j \in DOMAIN s : i < j /\ j <= n => ~BuildsTlas(s[j], t)
               /\ \A b \in s[i].deps : \E j \in DOMAIN s :
                    /\ j <= i /\ BuildsBlas(s[j], b)
                    /\ \A k \in DOMAIN s : j < k /\ k <= n => ~BuildsBlas(s[k], b)
    BY <2>3 DEF UseRight
  <2>5. f[i] \in DOMAIN l /\ f[i] <= m /\ l[f[i]] = s[i]
    BY <1>1, <1>2, <2>2, <2>4
  <2>6. \A k \in DOMAIN l : f[i] < k /\ k <= m => ~BuildsTlas(l[k], t)
    BY <1>2, <1>4, <2>2, <2>4
  <2>7. ASSUME NEW b \in s[i].deps
        PROVE  \E j \in DOMAIN l :
                 /\ j <= f[i] /\ BuildsBlas(l[j], b)
                 /\ \A k \in DOMAIN l : j < k /\ k <= m => ~BuildsBlas(l[k], b)
    <3>1. PICK j \in DOMAIN s : /\ j <= i /\ BuildsBlas(s[j], b)
                                /\ \A k \in DOMAIN s : j < k /\ k <= n => ~BuildsBlas(s[k], b)
      BY <2>4
    <3>2. f[j] \in DOMAIN l /\ f[j] <= f[i] /\ BuildsBlas(l[f[j]], b)
      BY <1>1, <1>2, <3>1
    <3>3. \A k \in DOMAIN l : f[j] < k /\ k <= m => ~BuildsBlas(l[k], b)
      BY <1>2, <1>4, <2>2, <3>1
    <3>4. QED
      BY <3>2, <3>3
  <2>8. QED
    BY <2>4, <2>5, <2>6, <2>7 DEF UseRight
<1>11. QED
  BY <1>5, <1>8, <1>9, <1>10 DEF Recorded

(* Copies put in at one place. *)
LEMMA CopiesBetween ==
  ASSUME NEW u \in Seq(AsActs), NEW c \in Seq(AsCopies), NEW v \in Seq(AsActs)
  PROVE  \E f : Spread(u \o v, (u \o c) \o v, f)
<1>1. DEFINE m == Len(u)
             k == Len(c)
             n == Len(v)
             f == [i \in 1..(m + n) |-> IF i <= m THEN i ELSE i + k]
             s == u \o v
             l == (u \o c) \o v
<1>2. m \in Nat /\ k \in Nat /\ n \in Nat
  OBVIOUS
<1>3. c \in Seq(AsActs)
  BY DEF AsActs
<1>4. /\ DOMAIN s = 1..(m + n)
      /\ \A i \in 1..(m + n) : s[i] = IF i <= m THEN u[i] ELSE v[i - m]
  BY ConcatProperties
<1>5. /\ u \o c \in Seq(AsActs) /\ Len(u \o c) = m + k
      /\ \A i \in 1..(m + k) : (u \o c)[i] = IF i <= m THEN u[i] ELSE c[i - m]
  BY <1>3, ConcatProperties
<1>6. /\ DOMAIN l = 1..(m + k + n)
      /\ \A i \in 1..(m + k + n) : l[i] = IF i <= m + k THEN (u \o c)[i] ELSE v[i - (m + k)]
  BY <1>5, ConcatProperties
<1>7. \A i \in 1..k : c[i].op = "copy"
  <2>1. \A i \in 1..k : c[i] \in AsCopies
    OBVIOUS
  <2>2. QED
    BY <2>1 DEF AsCopies
<1>8. HIDE DEF m, k, n, s, l
<1>9. ASSUME NEW i \in DOMAIN s PROVE f[i] \in DOMAIN l /\ l[f[i]] = s[i]
  <2>1. CASE i <= m
    <3>1. i \in 1..(m + k + n) /\ i \in 1..(m + k) /\ i <= m + k
      BY <1>2, <1>4, <2>1
    <3>2. QED
      BY <1>4, <1>5, <1>6, <2>1, <3>1
  <2>2. CASE i > m
    <3>1. i + k \in 1..(m + k + n) /\ ~(i + k <= m + k) /\ (i + k) - (m + k) = i - m
      BY <1>2, <1>4, <2>2
    <3>2. f[i] = i + k /\ s[i] = v[i - m]
      BY <1>2, <1>4, <2>2
    <3>3. QED
      BY <1>6, <3>1, <3>2
  <2>3. QED
    BY <1>2, <1>4, <2>1, <2>2
<1>10. \A i, j \in DOMAIN s : i < j <=> f[i] < f[j]
  BY <1>2, <1>4
<1>11. ASSUME NEW j \in DOMAIN l, l[j].op # "copy" PROVE \E i \in DOMAIN s : f[i] = j
  <2>1. CASE j <= m
    <3>1. j \in 1..(m + n)
      BY <1>2, <1>6, <2>1
    <3>2. QED
      BY <1>4, <2>1, <3>1
  <2>2. CASE j > m /\ j <= m + k
    <3>1. j \in 1..(m + k) /\ j \in 1..(m + k + n) /\ ~(j <= m) /\ j - m \in 1..k
      BY <1>2, <1>6, <2>2
    <3>2. l[j] = c[j - m]
      BY <1>5, <1>6, <2>2, <3>1
    <3>3. QED
      BY <1>7, <1>11, <3>1, <3>2
  <2>3. CASE j > m + k
    <3>1. j - k \in 1..(m + n) /\ ~(j - k <= m) /\ (j - k) + k = j
      BY <1>2, <1>6, <2>3
    <3>2. QED
      BY <1>4, <3>1
  <2>4. j \in Nat
    BY <1>2, <1>6
  <2>5. j <= m \/ (j > m /\ j <= m + k) \/ j > m + k
    BY <1>2, <2>4
  <2>6. QED
    BY <2>1, <2>2, <2>3, <2>5, Zenon
<1>12. HIDE DEF f
<1>13. Spread(s, l, f)
  BY <1>9, <1>10, <1>11 DEF Spread
<1>14. QED
  BY <1>13 DEF s, l

(* One more element. *)
LEMMA Appended ==
  ASSUME NEW S, NEW s \in Seq(S), NEW x \in S
  PROVE  /\ Append(s, x) \in Seq(S)
         /\ Len(s) + 1 \in DOMAIN Append(s, x) /\ Append(s, x)[Len(s) + 1] = x
         /\ Len(s) + 1 \in Nat
         /\ \A i \in DOMAIN s : /\ i \in DOMAIN Append(s, x) /\ Append(s, x)[i] = s[i]
                                /\ i <= Len(s) /\ i < Len(s) + 1 /\ i \in Nat
         /\ \A i \in DOMAIN Append(s, x) : i \in DOMAIN s \/ i = Len(s) + 1
  OBVIOUS

(* A build is recorded, *)
LEMMA BuildRecorded ==
  ASSUME NEW s \in Seq(AsActs), NEW blas \in [Blas -> Nat], NEW tlas \in [Tlas -> TlasStates],
         NEW next \in Nat, next # 0, Recorded(s, blas, tlas, next),
         NEW x \in AsBuilds, x.index = next
  PROVE  Recorded(Append(s, x), [b \in Blas |-> IF b \in x.blas THEN next ELSE blas[b]],
                  [t \in Tlas |-> IF t \in x.tlas THEN [index |-> next, deps |-> x.deps]
                                  ELSE tlas[t]], next + 1)
<1>1. DEFINE l == Append(s, x)
             n == Len(s) + 1
             nb == [b \in Blas |-> IF b \in x.blas THEN next ELSE blas[b]]
             nt == [t \in Tlas |-> IF t \in x.tlas THEN [index |-> next, deps |-> x.deps]
                                   ELSE tlas[t]]
<1>2. /\ x \in AsActs /\ x.op = "build"
      /\ \A b : BuildsBlas(x, b) <=> b \in x.blas
      /\ \A t : BuildsTlas(x, t) <=> t \in x.tlas
  BY DEF AsBuilds, AsActs, BuildsBlas, BuildsTlas
<1>3. /\ n \in DOMAIN l /\ l[n] = x /\ n \in Nat
      /\ \A i \in DOMAIN s : /\ i \in DOMAIN l /\ l[i] = s[i] /\ i < n /\ i <= n /\ i \in Nat
                             /\ ~(n < i) /\ ~(n <= i)
      /\ \A i \in DOMAIN l : i \in DOMAIN s \/ i = n
  BY <1>2
<1>4. \A i \in DOMAIN s : s[i].op = "build" => s[i].index \in Nat
  BY DEF AsActs, AsBuilds, AsUses, AsCopies
<1>5. HIDE DEF l, n
<1>6. BuildsRise(l, next + 1)
  <2>1. BuildsRise(s, next)
    BY DEF Recorded
  <2>2. \A i \in DOMAIN l : l[i].op = "build" => 0 < l[i].index /\ l[i].index < next + 1
    BY <1>3, <1>4, <2>1 DEF BuildsRise
  <2>3. ASSUME NEW i \in DOMAIN l, NEW j \in DOMAIN l, l[i].op = "build", l[j].op = "build", i < j
        PROVE  l[i].index < l[j].index
    <3>1. i \in DOMAIN s /\ l[i] = s[i]
      BY <1>3, <2>3
    <3>2. CASE j \in DOMAIN s
      BY <1>3, <2>1, <2>3, <3>1, <3>2 DEF BuildsRise
    <3>3. CASE j = n
      BY <1>3, <2>1, <2>3, <3>1, <3>3 DEF BuildsRise
    <3>4. QED
      BY <1>3, <3>2, <3>3
  <2>4. QED
    BY <2>2, <2>3 DEF BuildsRise
<1>7. BlasKnown(l, nb)
  <2>1. SUFFICES ASSUME NEW b \in Blas
                 PROVE  \/ nb[b] = 0 /\ \A i \in DOMAIN l : ~BuildsBlas(l[i], b)
                        \/ \E i \in DOMAIN l : LastBlas(l, b, i) /\ l[i].index = nb[b]
    BY DEF BlasKnown
  <2>2. CASE b \in x.blas
    <3>1. LastBlas(l, b, n) /\ l[n].index = nb[b]
      BY <1>2, <1>3, <2>2 DEF LastBlas
    <3>2. QED
      BY <1>3, <3>1
  <2>3. CASE b \notin x.blas
    <3>1. nb[b] = blas[b] /\ ~BuildsBlas(x, b)
      BY <1>2, <2>3
    <3>2. \/ blas[b] = 0 /\ \A i \in DOMAIN s : ~BuildsBlas(s[i], b)
          \/ \E i \in DOMAIN s : LastBlas(s, b, i) /\ s[i].index = blas[b]
      BY DEF Recorded, BlasKnown
    <3>3. \A i \in DOMAIN s : LastBlas(s, b, i) => LastBlas(l, b, i)
      BY <1>3, <3>1 DEF LastBlas
    <3>4. QED
      BY <1>3, <3>1, <3>2, <3>3
  <2>4. QED
    BY <2>2, <2>3
<1>8. TlasKnown(l, nt)
  <2>1. SUFFICES ASSUME NEW t \in Tlas
                 PROVE  \/ nt[t].index = 0 /\ \A i \in DOMAIN l : ~BuildsTlas(l[i], t)
                        \/ \E i \in DOMAIN l : /\ LastTlas(l, t, i) /\ l[i].index = nt[t].index
                                               /\ l[i].deps = nt[t].deps
    BY DEF TlasKnown
  <2>2. CASE t \in x.tlas
    <3>1. LastTlas(l, t, n) /\ l[n].index = nt[t].index /\ l[n].deps = nt[t].deps
      BY <1>2, <1>3, <2>2 DEF LastTlas
    <3>2. QED
      BY <1>3, <3>1
  <2>3. CASE t \notin x.tlas
    <3>1. nt[t] = tlas[t] /\ ~BuildsTlas(x, t)
      BY <1>2, <2>3
    <3>2. \/ tlas[t].index = 0 /\ \A i \in DOMAIN s : ~BuildsTlas(s[i], t)
          \/ \E i \in DOMAIN s : /\ LastTlas(s, t, i) /\ s[i].index = tlas[t].index
                                 /\ s[i].deps = tlas[t].deps
      BY DEF Recorded, TlasKnown
    <3>3. \A i \in DOMAIN s : LastTlas(s, t, i) => LastTlas(l, t, i)
      BY <1>3, <3>1 DEF LastTlas
    <3>4. QED
      BY <1>3, <3>1, <3>2, <3>3
  <2>4. QED
    BY <2>2, <2>3
<1>9. UsesRight(l)
  <2>1. SUFFICES ASSUME NEW m \in DOMAIN l, l[m].op = "use", NEW t \in l[m].tlas
                 PROVE  UseRight(l, m, t)
    BY DEF UsesRight
  <2>2. m \in DOMAIN s /\ s[m] = l[m]
    BY <1>2, <1>3, <2>1
  <2>3. UseRight(s, m, t)
    BY <2>1, <2>2 DEF Recorded, UsesRight
  <2>4. \A j \in DOMAIN l : j <= m => j \in DOMAIN s
    BY <1>3, <2>2
  <2>5. QED
    BY <1>3, <2>3, <2>4 DEF UseRight
<1>10. QED
  BY <1>6, <1>7, <1>8, <1>9 DEF Recorded, l

(* and a use that is not refused. *)
LEMMA UseRecorded ==
  ASSUME NEW s \in Seq(AsActs), NEW blas \in [Blas -> Nat], NEW tlas \in [Tlas -> TlasStates],
         NEW next \in Nat, Recorded(s, blas, tlas, next),
         NEW t \in Tlas, tlas[t].index # 0,
         \A b \in tlas[t].deps : blas[b] # 0 /\ blas[b] <= tlas[t].index,
         NEW x \in AsUses, x.tlas = {t}
  PROVE  Recorded(Append(s, x), blas, tlas, next)
<1>1. DEFINE l == Append(s, x)
             n == Len(s) + 1
<1>2. /\ x \in AsActs /\ x.op = "use"
      /\ \A b : ~BuildsBlas(x, b) /\ ~BuildsTlas(x, b)
  BY DEF AsUses, AsActs, BuildsBlas, BuildsTlas
<1>3. /\ n \in DOMAIN l /\ l[n] = x /\ n \in Nat
      /\ \A i \in DOMAIN s : /\ i \in DOMAIN l /\ l[i] = s[i] /\ i < n /\ i <= n /\ i \in Nat
                             /\ ~(n < i) /\ ~(n <= i)
      /\ \A i \in DOMAIN l : i \in DOMAIN s \/ i = n
  BY <1>2
<1>4. \A i \in DOMAIN s : s[i].op = "build" => s[i].index \in Nat /\ s[i].deps \subseteq Blas
  BY DEF AsActs, AsBuilds, AsUses, AsCopies
<1>5. HIDE DEF l, n
<1>6. BuildsRise(l, next)
  <2>1. BuildsRise(s, next)
    BY DEF Recorded
  <2>2. \A i \in DOMAIN l : l[i].op = "build" => i \in DOMAIN s /\ l[i] = s[i]
    BY <1>2, <1>3
  <2>3. QED
    BY <2>1, <2>2 DEF BuildsRise
<1>7. \A i \in DOMAIN s : \A b : /\ LastBlas(s, b, i) => LastBlas(l, b, i)
                                 /\ LastTlas(s, b, i) => LastTlas(l, b, i)
  BY <1>2, <1>3 DEF LastBlas, LastTlas
<1>8. BlasKnown(l, blas)
  <2>1. BlasKnown(s, blas)
    BY DEF Recorded
  <2>2. QED
    BY <1>2, <1>3, <1>7, <2>1 DEF BlasKnown
<1>9. TlasKnown(l, tlas)
  <2>1. TlasKnown(s, tlas)
    BY DEF Recorded
  <2>2. QED
    BY <1>2, <1>3, <1>7, <2>1 DEF TlasKnown
<1>10. UsesRight(l)
  <2>1. SUFFICES ASSUME NEW m \in DOMAIN l, l[m].op = "use", NEW r \in l[m].tlas
                 PROVE  UseRight(l, m, r)
    BY DEF UsesRight
  <2>2. CASE m \in DOMAIN s
    <3>1. UseRight(s, m, r)
      BY <1>3, <2>1, <2>2 DEF Recorded, UsesRight
    <3>2. \A j \in DOMAIN l : j <= m => j \in DOMAIN s
      BY <1>3, <2>2
    <3>3. QED
      BY <1>3, <3>1, <3>2 DEF UseRight
  <2>3. CASE m = n
    <3>1. r = t
      BY <1>3, <2>1, <2>3
    <3>2. PICK i \in DOMAIN s : /\ LastTlas(s, t, i) /\ s[i].index = tlas[t].index
                                /\ s[i].deps = tlas[t].deps
      BY DEF Recorded, TlasKnown
    <3>3. /\ i \in DOMAIN l /\ i <= n /\ l[i] = s[i] /\ BuildsTlas(l[i], t)
          /\ \A j \in DOMAIN l : i < j /\ j <= n => ~BuildsTlas(l[j], t)
      BY <1>2, <1>3, <3>2 DEF LastTlas
    <3>4. s[i].op = "build" /\ i \in Nat
      BY <1>3, <3>2 DEF LastTlas, BuildsTlas
    <3>5. ASSUME NEW b \in s[i].deps
          PROVE  \E j \in DOMAIN l :
                    /\ j <= i /\ BuildsBlas(l[j], b)
                    /\ \A k \in DOMAIN l : j < k /\ k <= n => ~BuildsBlas(l[k], b)
      <4>1. b \in Blas /\ blas[b] # 0 /\ blas[b] <= tlas[t].index
        BY <1>4, <3>2, <3>4
      <4>2. PICK j \in DOMAIN s : LastBlas(s, b, j) /\ s[j].index = blas[b]
        BY <4>1 DEF Recorded, BlasKnown
      <4>3. s[j].op = "build" /\ j \in Nat /\ s[j].index \in Nat /\ s[i].index \in Nat
        BY <1>3, <1>4, <3>4, <4>2 DEF LastBlas, BuildsBlas
      <4>4. s[j].index <= s[i].index
        BY <3>2, <4>1, <4>2
      <4>5. ~(i < j)
        <5>1. i < j => s[i].index < s[j].index
          BY <3>4, <4>3 DEF Recorded, BuildsRise
        <5>2. QED
          BY <4>3, <4>4, <5>1
      <4>6. j <= i
        BY <3>4, <4>3, <4>5
      <4>7. /\ j \in DOMAIN l /\ BuildsBlas(l[j], b)
            /\ \A k \in DOMAIN l : j < k /\ k <= n => ~BuildsBlas(l[k], b)
        BY <1>2, <1>3, <4>2, <4>3 DEF LastBlas
      <4>8. QED
        BY <4>6, <4>7
    <3>6. QED
      BY <2>3, <3>1, <3>3, <3>5 DEF UseRight
  <2>4. QED
    BY <1>3, <2>2, <2>3
<1>11. QED
  BY <1>6, <1>8, <1>9, <1>10 DEF Recorded, l

--------------------------------------------------------------------------------
(* Validation *)

(* What validation works on. *)
AsRan == AsBuilds \cup AsUses
Validating == [compact : [Blas -> CompactStates], blas : [Blas -> Nat],
               tlas : [Tlas -> TlasStates], next : Nat, ok : BOOLEAN, ran : Seq(AsRan)]
Built(ran, b) == \E i \in DOMAIN ran : BuildsBlas(ran[i], b)
ValidSoFar(v) ==
    /\ v \in Validating /\ nextBuild <= v.next
    /\ v.next = nextBuild =>
          v.compact = compactState /\ v.blas = blasBuilt /\ v.tlas = tlasBuilt
    /\ v.ok => Recorded(Acts(stream) \o v.ran, v.blas, v.tlas, v.next)
    /\ \A b \in Blas : /\ v.compact[b] = IF Built(v.ran, b) THEN IdleState ELSE compactState[b]
                       /\ ~Built(v.ran, b) => v.blas[b] = blasBuilt[b]

(* What was submitted, and what was validated, are acts. *)
LEMMA ActsTyped ==
  ASSUME AccelTypes
  PROVE  /\ Acts(stream) \in Seq(AsActs) /\ Len(Acts(stream)) = Len(stream)
         /\ DOMAIN Acts(stream) = DOMAIN stream
         /\ \A n \in DOMAIN stream : Acts(stream)[n] = stream[n].act
         /\ submitting \in Seq(AsRan) /\ submitting \in Seq(AsActs)
         /\ \A s : s \in Seq(AsRan) => s \in Seq(AsActs)
<1>1. \A n \in DOMAIN stream : stream[n].act \in AsActs
  <2>1. \A n \in DOMAIN stream : stream[n] \in Streamed
    BY DEF AccelTypes
  <2>2. QED
    BY <2>1 DEF Streamed, AsActs
<1>2. DOMAIN stream = 1..Len(stream) /\ Len(stream) \in Nat
  BY DEF AccelTypes
<1>3. AsRan \subseteq AsActs
  BY DEF AsRan, AsActs
<1>4. Acts(stream) = [n \in 1..Len(stream) |-> stream[n].act]
  BY <1>2 DEF Acts
<1>5. \A n \in 1..Len(stream) : stream[n].act \in AsActs
  BY <1>1, <1>2
<1>6. Acts(stream) \in Seq(AsActs) /\ Len(Acts(stream)) = Len(stream)
  BY <1>2, <1>4, <1>5
<1>7. submitting \in Seq(AsRan)
  BY DEF AccelTypes, AsRan
<1>8. QED
  BY <1>2, <1>3, <1>4, <1>6, <1>7

(* What is built, with one more act, *)
LEMMA BuiltAppended ==
  ASSUME NEW S, NEW ran \in Seq(S), NEW x \in S, NEW b
  PROVE  Built(Append(ran, x), b) <=> Built(ran, b) \/ BuildsBlas(x, b)
<1>1. DEFINE l == Append(ran, x)
             n == Len(ran) + 1
<1>2. /\ n \in DOMAIN l /\ l[n] = x
      /\ \A i \in DOMAIN ran : i \in DOMAIN l /\ l[i] = ran[i]
      /\ \A i \in DOMAIN l : i \in DOMAIN ran \/ i = n
  OBVIOUS
<1>3. HIDE DEF l, n
<1>4. Built(l, b) <=> Built(ran, b) \/ BuildsBlas(x, b)
  BY <1>2 DEF Built
<1>5. QED
  BY <1>4 DEF l

(* which comes at the end. *)
LEMMA ConcatAppend ==
  ASSUME NEW S, NEW s \in Seq(S), NEW t \in Seq(S), NEW x \in S
  PROVE  s \o Append(t, x) = Append(s \o t, x)
<1>1. s \o t \in Seq(S) /\ <<x>> \in Seq(S)
  BY ConcatProperties
<1>2. Append(t, x) = t \o <<x>> /\ Append(s \o t, x) = (s \o t) \o <<x>>
  BY <1>1, AppendIsConcat
<1>3. QED
  BY <1>1, <1>2, ConcatAssociative

(* A build keeps validation sound, *)
LEMMA BuildKeepsValid ==
  ASSUME AccelTypes, NEW v, ValidSoFar(v), v.ok, NEW a \in AsAction, a.op = "build"
  PROVE  ValidSoFar(ValidatedBuild(v, a))
<1>1. DEFINE built == [b \in Blas |-> IF b \in a.blas THEN v.next ELSE v.blas[b]]
             bad == a.tlas # {} /\ \E b \in a.deps : built[b] = 0
             x == [op |-> "build", blas |-> a.blas, tlas |-> a.tlas, deps |-> a.deps,
                   index |-> v.next]
             nt == [t \in Tlas |-> IF t \in a.tlas /\ ~bad
                                     THEN [index |-> v.next, deps |-> a.deps] ELSE v.tlas[t]]
             nc == Restarted(v, a.blas)
             nr == Append(v.ran, x)
             nn == v.next + 1
             ok == ~bad
             w == ValidatedBuild(v, a)
<1>2. /\ a.blas \in SUBSET Blas /\ a.tlas \in SUBSET Tlas /\ a.deps \in SUBSET Blas
  BY DEF AsAction
<1>3. /\ v \in Validating /\ v.compact \in [Blas -> CompactStates] /\ v.blas \in [Blas -> Nat]
      /\ v.tlas \in [Tlas -> TlasStates] /\ v.next \in Nat /\ v.ran \in Seq(AsRan)
      /\ nextBuild \in Nat /\ nextBuild # 0 /\ nextBuild <= v.next
  BY DEF ValidSoFar, Validating, AccelTypes
<1>4. x \in AsBuilds /\ x \in AsRan /\ x \in AsActs /\ x.index = v.next
      /\ \A b : BuildsBlas(x, b) <=> b \in a.blas
  BY <1>2, <1>3 DEF AsBuilds, AsRan, AsActs, BuildsBlas
<1>5. /\ built \in [Blas -> Nat] /\ bad \in BOOLEAN
      /\ nc \in [Blas -> CompactStates]
      /\ nc = [b \in Blas |-> IF b \in a.blas THEN IdleState ELSE v.compact[b]]
  <2>1. IdleState \in CompactStates
    BY DEF IdleState, CompactStates
  <2>2. QED
    BY <1>3, <2>1 DEF Restarted
<1>6. nt \in [Tlas -> TlasStates]
  <2>1. [index |-> v.next, deps |-> a.deps] \in TlasStates
    BY <1>2, <1>3 DEF TlasStates
  <2>2. \A t \in Tlas : v.tlas[t] \in TlasStates
    BY <1>3
  <2>3. QED
    BY <2>1, <2>2
<1>7. nr \in Seq(AsRan)
  BY <1>3, <1>4
<1>8. w = [v EXCEPT !.compact = nc, !.blas = built, !.tlas = nt, !.next = nn,
                    !.ok = ok, !.ran = nr]
  BY <1>3 DEF ValidatedBuild, Validating
<1>9. /\ w \in Validating /\ w.compact = nc /\ w.blas = built /\ w.tlas = nt
      /\ w.next = v.next + 1 /\ w.ok = ~bad /\ w.ran = nr
  <2>1. nn \in Nat /\ ok \in BOOLEAN
    BY <1>3, <1>5
  <2>2. HIDE DEF nc, built, nt, nr, nn, ok, w, x
  <2>3. /\ w \in Validating /\ w.compact = nc /\ w.blas = built /\ w.tlas = nt
        /\ w.next = nn /\ w.ok = ok /\ w.ran = nr
    BY <1>3, <1>5, <1>6, <1>7, <1>8, <2>1 DEF Validating
  <2>4. QED
    BY <2>3 DEF nn, ok
<1>10. nextBuild <= w.next /\ w.next # nextBuild
  BY <1>3, <1>9
<1>11. ASSUME w.ok PROVE Recorded(Acts(stream) \o w.ran, w.blas, w.tlas, w.next)
  <2>1. Acts(stream) \in Seq(AsActs) /\ v.ran \in Seq(AsActs)
    BY <1>3, ActsTyped
  <2>2. Acts(stream) \o nr = Append(Acts(stream) \o v.ran, x)
    BY <2>1, <1>4, ConcatAppend
  <2>3. Recorded(Acts(stream) \o v.ran, v.blas, v.tlas, v.next)
    BY DEF ValidSoFar
  <2>4. Acts(stream) \o v.ran \in Seq(AsActs)
    BY <2>1, ConcatProperties
  <2>5. /\ built = [b \in Blas |-> IF b \in x.blas THEN v.next ELSE v.blas[b]]
        /\ nt = [t \in Tlas |-> IF t \in x.tlas THEN [index |-> v.next, deps |-> x.deps]
                                ELSE v.tlas[t]]
    <3>1. ~bad
      BY <1>9, <1>11
    <3>2. QED
      BY <3>1
  <2>6. v.next \in Nat /\ v.next # 0
    BY <1>3
  <2>7. HIDE DEF x, built, nt, nr, w
  <2>8. Recorded(Append(Acts(stream) \o v.ran, x), built, nt, v.next + 1)
    <3>1. Recorded(Append(Acts(stream) \o v.ran, x),
                   [b \in Blas |-> IF b \in x.blas THEN v.next ELSE v.blas[b]],
                   [t \in Tlas |-> IF t \in x.tlas THEN [index |-> v.next, deps |-> x.deps]
                                   ELSE v.tlas[t]], v.next + 1)
      BY <1>3, <1>4, <2>3, <2>4, <2>6, BuildRecorded
    <3>2. QED
      BY <2>5, <3>1
  <2>9. QED
    BY <1>9, <2>2, <2>8
<1>12. ASSUME NEW b \in Blas
       PROVE  /\ w.compact[b] = IF Built(w.ran, b) THEN IdleState ELSE compactState[b]
              /\ ~Built(w.ran, b) => w.blas[b] = blasBuilt[b]
  <2>1. Built(nr, b) <=> Built(v.ran, b) \/ b \in a.blas
    BY <1>3, <1>4, BuiltAppended
  <2>2. /\ v.compact[b] = IF Built(v.ran, b) THEN IdleState ELSE compactState[b]
        /\ ~Built(v.ran, b) => v.blas[b] = blasBuilt[b]
    BY DEF ValidSoFar
  <2>3. /\ nc[b] = IF b \in a.blas THEN IdleState ELSE v.compact[b]
        /\ built[b] = IF b \in a.blas THEN v.next ELSE v.blas[b]
    BY <1>5
  <2>4. HIDE DEF nr, nc, built, w
  <2>5. QED
    BY <1>9, <2>1, <2>2, <2>3
<1>13. HIDE DEF w
<1>14. ValidSoFar(w)
  BY <1>9, <1>10, <1>11, <1>12 DEF ValidSoFar
<1>15. QED
  BY <1>14 DEF w

(* and so does a use, *)
LEMMA UseKeepsValid ==
  ASSUME AccelTypes, NEW v, ValidSoFar(v), v.ok, NEW a \in AsAction, a.op = "use"
  PROVE  ValidSoFar(ValidatedUse(v, a))
<1>1. DEFINE x == [op |-> "use", tlas |-> {a.tlas}, deps |-> v.tlas[a.tlas].deps]
             nr == Append(v.ran, x)
             ok == ~Refused(v, a)
             w == ValidatedUse(v, a)
<1>2. a.tlas \in Tlas
  BY DEF AsAction
<1>3. /\ v \in Validating /\ v.compact \in [Blas -> CompactStates] /\ v.blas \in [Blas -> Nat]
      /\ v.tlas \in [Tlas -> TlasStates] /\ v.next \in Nat /\ v.ran \in Seq(AsRan)
      /\ nextBuild <= v.next
  BY DEF ValidSoFar, Validating
<1>4. v.tlas[a.tlas] \in TlasStates /\ v.tlas[a.tlas].deps \in SUBSET Blas
      /\ v.tlas[a.tlas].index \in Nat
  BY <1>2, <1>3 DEF TlasStates
<1>5. x \in AsUses /\ x \in AsRan /\ x \in AsActs /\ x.tlas = {a.tlas}
      /\ \A b : ~BuildsBlas(x, b)
  BY <1>2, <1>4 DEF AsUses, AsRan, AsActs, BuildsBlas
<1>6. nr \in Seq(AsRan) /\ ok \in BOOLEAN
  BY <1>3, <1>5
<1>7. w = [v EXCEPT !.ok = ok, !.ran = nr]
  BY <1>3 DEF ValidatedUse, Validating
<1>8. /\ w \in Validating /\ w.compact = v.compact /\ w.blas = v.blas /\ w.tlas = v.tlas
      /\ w.next = v.next /\ w.ok = ok /\ w.ran = nr
  <2>1. HIDE DEF nr, ok, w, x
  <2>2. QED
    BY <1>3, <1>6, <1>7 DEF Validating
<1>9. ASSUME w.ok PROVE Recorded(Acts(stream) \o w.ran, w.blas, w.tlas, w.next)
  <2>1. Acts(stream) \in Seq(AsActs) /\ v.ran \in Seq(AsActs)
    BY <1>3, ActsTyped
  <2>2. Acts(stream) \o nr = Append(Acts(stream) \o v.ran, x)
    BY <2>1, <1>5, ConcatAppend
  <2>3. Recorded(Acts(stream) \o v.ran, v.blas, v.tlas, v.next)
    BY DEF ValidSoFar
  <2>4. Acts(stream) \o v.ran \in Seq(AsActs)
    BY <2>1, ConcatProperties
  <2>5. /\ v.tlas[a.tlas].index # 0
        /\ \A b \in v.tlas[a.tlas].deps : v.blas[b] # 0 /\ v.blas[b] <= v.tlas[a.tlas].index
    <3>1. ~Refused(v, a)
      BY <1>8, <1>9
    <3>2. \A b \in v.tlas[a.tlas].deps : v.blas[b] \in Nat
      BY <1>3, <1>4
    <3>3. QED
      BY <1>4, <3>1, <3>2 DEF Refused
  <2>6. HIDE DEF x, nr, w
  <2>7. Recorded(Append(Acts(stream) \o v.ran, x), v.blas, v.tlas, v.next)
    BY <1>2, <1>3, <1>5, <2>3, <2>4, <2>5, UseRecorded
  <2>8. QED
    BY <1>8, <2>2, <2>7
<1>10. ASSUME NEW b \in Blas
       PROVE  /\ w.compact[b] = IF Built(w.ran, b) THEN IdleState ELSE compactState[b]
              /\ ~Built(w.ran, b) => w.blas[b] = blasBuilt[b]
  <2>1. Built(nr, b) <=> Built(v.ran, b)
    <3>1. HIDE DEF x
    <3>2. Built(Append(v.ran, x), b) <=> Built(v.ran, b) \/ BuildsBlas(x, b)
      BY <1>3, <1>5, BuiltAppended
    <3>3. QED
      BY <1>5, <3>2
  <2>2. /\ v.compact[b] = IF Built(v.ran, b) THEN IdleState ELSE compactState[b]
        /\ ~Built(v.ran, b) => v.blas[b] = blasBuilt[b]
    BY DEF ValidSoFar
  <2>3. HIDE DEF nr, w
  <2>4. QED
    BY <1>8, <2>1, <2>2
<1>11. HIDE DEF w
<1>12. v.next = nextBuild =>
          v.compact = compactState /\ v.blas = blasBuilt /\ v.tlas = tlasBuilt
  BY DEF ValidSoFar
<1>13. ValidSoFar(w)
  BY <1>3, <1>8, <1>9, <1>10, <1>12 DEF ValidSoFar
<1>14. QED
  BY <1>13 DEF w

(* A whole command buffer. *)
LEMMA ValidatedSound ==
  ASSUME AccelTypes, RecordInv, submitting = Nothing, NEW batch \in AsBatch
  PROVE  ValidSoFar(Validated(batch))
<1>1. batch \in Seq(AsAction) /\ Len(batch) \in Nat
  BY AccelAssumption
<1>2. DEFINE S == {v \in Validating : ValidSoFar(v)}
             P == [i \in 0..Len(batch) |-> S]
<1>3. ValidSoFar(Started)
  <2>1. /\ Started \in Validating /\ Started.next = nextBuild /\ Started.compact = compactState
        /\ Started.blas = blasBuilt /\ Started.tlas = tlasBuilt /\ Started.ran = <<>>
    BY DEF Started, Validating, AccelTypes
  <2>2. Recorded(Acts(stream) \o <<>>, blasBuilt, tlasBuilt, nextBuild)
    BY DEF RecordInv, Nothing
  <2>3. \A b : ~Built(<<>>, b)
    BY DEF Built
  <2>4. nextBuild \in Nat
    BY DEF AccelTypes
  <2>5. HIDE DEF Started
  <2>6. QED
    BY <2>1, <2>2, <2>3, <2>4 DEF ValidSoFar
<1>4. \A v : ValidSoFar(v) => v \in Validating
  BY DEF ValidSoFar
<1>5. Started \in P[0]
  BY <1>1, <1>3, <1>4
<1>6. ASSUME NEW i \in 1..Len(batch), NEW v \in P[i - 1]
      PROVE  Turn("validate", v, batch[i]) \in P[i]
  <2>1. i - 1 \in 0..Len(batch) /\ i \in 0..Len(batch)
    BY <1>1
  <2>2. ValidSoFar(v) /\ v \in Validating /\ v.ok \in BOOLEAN
    BY <2>1, <1>6 DEF Validating
  <2>3. batch[i] \in AsAction /\ batch[i].op \in {"build", "use"}
    <3>1. batch[i] \in AsAction
      BY <1>1
    <3>2. QED
      BY <3>1 DEF AsAction
  <2>4. ValidSoFar(Turn("validate", v, batch[i]))
    <3>1. CASE ~v.ok
      BY <2>2, <3>1 DEF Turn
    <3>2. CASE v.ok /\ batch[i].op = "build"
      BY <2>2, <2>3, <3>2, BuildKeepsValid DEF Turn
    <3>3. CASE v.ok /\ batch[i].op = "use"
      BY <2>2, <2>3, <3>3, UseKeepsValid DEF Turn
    <3>4. QED
      BY <2>3, <3>1, <3>2, <3>3
  <2>5. QED
    BY <2>1, <2>4, <1>4
<1>7. HIDE DEF P
<1>8. LoopEnd("validate", Started, batch, Len(batch)) \in P[Len(batch)]
  BY <1>1, <1>5, <1>6, LoopKeeps
<1>9. Len(batch) \in 0..Len(batch)
  BY <1>1
<1>10. QED
  BY <1>8, <1>9, ValidatedIs DEF P

--------------------------------------------------------------------------------
(* Sizes, and what a poll reads back *)

(* A structure that a validated submission builds. *)
LEMMA BuildingIs ==
  ASSUME NEW b
  PROVE  Building(b) <=> Built(submitting, b)
<1>1. Built(<<>>, b) = FALSE
  BY DEF Built
<1>2. QED
  BY <1>1 DEF Building, Built, BuildsBlas, Nothing

(* The GPU has written the size of the last build, once that has ended. *)
LEMMA SizeIs ==
  ASSUME AccelTypes, NEW b, BuiltBy(b, asDone)
  PROVE  SizeWritten(b) = blasBuilt[b]
<1>1. PICK i \in DOMAIN stream : /\ LastBlas(Acts(stream), b, i)
                                 /\ stream[i].act.index = blasBuilt[b] /\ stream[i].sub <= asDone
  BY DEF BuiltBy
<1>2. DOMAIN stream = 1..Len(stream)
  BY DEF AccelTypes
<1>3. DEFINE S == {n \in Builds(b, Len(stream)) : stream[n].sub <= asDone}
<1>4. \A n \in DOMAIN stream : Acts(stream)[n] = stream[n].act /\ n \in DOMAIN Acts(stream)
  BY DEF Acts
<1>5. i \in S
  BY <1>1, <1>2, <1>4 DEF Builds, LastBlas, BuildsBlas
<1>6. \A n \in S : n <= i /\ n \in Nat /\ i \in Nat
  BY <1>1, <1>2, <1>4 DEF Builds, LastBlas, BuildsBlas
<1>7. LastOf(S) = i
  <2>1. \A j \in S : i >= j
    BY <1>6
  <2>2. DEFINE c == LastOf(S)
  <2>3. c \in S /\ \A j \in S : c >= j
    BY <1>5, <2>1 DEF LastOf
  <2>4. HIDE DEF c, S
  <2>5. c >= i /\ c <= i /\ c \in Nat /\ i \in Nat
    BY <1>5, <1>6, <2>3
  <2>6. c = i
    BY <2>5
  <2>7. QED
    BY <2>6 DEF c
<1>8. HIDE DEF S
<1>9. SizeWritten(b) = IF S = {} THEN 0 ELSE stream[LastOf(S)].act.index
  BY DEF SizeWritten, S
<1>10. QED
  BY <1>1, <1>5, <1>7, <1>9

(* What is done is a prefix. *)
LEMMA DoneIs ==
  ASSUME AccelTypes, FlightInv
  PROVE  DoneCount = asDone - Triaged /\ DoneCount \in 0..Len(inFlight)
<1>1. /\ DOMAIN inFlight = 1..Len(inFlight) /\ Len(inFlight) \in Nat
      /\ asDone \in Nat /\ asSubmitted \in Nat
  BY DEF AccelTypes
<1>2. DEFINE t == Triaged
             n == Len(inFlight)
             later == {i \in DOMAIN inFlight : inFlight[i].index > asDone}
<1>3. /\ t \in Nat /\ t <= asDone /\ asDone <= t + n /\ n \in Nat
      /\ \A i \in 1..n : inFlight[i].index = t + i
  BY <1>1 DEF FlightInv, Triaged
<1>4. HIDE DEF t, n
<1>5. later = {i \in 1..n : t + i > asDone}
  BY <1>1, <1>3 DEF n
<1>6. DoneCount = IF later = {} THEN n
                  ELSE (CHOOSE i \in later : \A j \in later : i <= j) - 1
  BY DEF DoneCount, n
<1>7. CASE asDone = t + n
  <2>1. later = {}
    BY <1>1, <1>3, <1>5, <1>7
  <2>2. QED
    BY <1>1, <1>3, <1>6, <1>7, <2>1 DEF t, n
<1>8. CASE asDone # t + n
  <2>1. DEFINE d == asDone - t + 1
  <2>2. d \in later /\ \A j \in later : d <= j /\ j \in Nat /\ d \in Nat
    <3>1. d \in 1..n /\ t + d > asDone /\ d \in Nat
      BY <1>1, <1>3, <1>8
    <3>2. \A j \in 1..n : t + j > asDone => d <= j
      BY <1>1, <1>3, <1>8
    <3>3. HIDE DEF d, later
    <3>4. QED
      BY <1>5, <3>1, <3>2
  <2>3. HIDE DEF d, later
  <2>4. (CHOOSE i \in later : \A j \in later : i <= j) = d
    <3>1. DEFINE c == CHOOSE i \in later : \A j \in later : i <= j
    <3>2. c \in later /\ \A j \in later : c <= j
      BY <2>2
    <3>3. QED
      BY <2>2, <3>2
  <2>5. DoneCount = d - 1
    BY <1>6, <2>2, <2>4
  <2>6. QED
    BY <1>1, <1>3, <1>8, <2>5 DEF d, t, n
<1>9. QED
  BY <1>7, <1>8

(* Every set of numbers up to n has a greatest one. *)
LEMMA HasGreatest ==
  ASSUME NEW S, NEW n \in Nat, S \subseteq 1..n, S # {}
  PROVE  \E m \in S : \A k \in S : k <= m
<1>1. DEFINE T == {n - k : k \in S}
<1>2. T \subseteq Nat /\ T # {}
  <2>1. \A k \in S : n - k \in Nat
    OBVIOUS
  <2>2. QED
    BY <2>1
<1>3. PICK l \in T : \A k \in T : l <= k
  BY <1>2, HasLeast
<1>4. PICK m \in S : l = n - m
  BY <1>3
<1>5. \A k \in S : n - m <= n - k
  BY <1>3, <1>4
<1>6. QED
  BY <1>4, <1>5

(* The last submission in flight that uses a structure. *)
LEMMA LastUseIs ==
  ASSUME AccelTypes, NEW b
  PROVE  /\ \A i, j \in LastUse(b) : i = j
         /\ LastUse(b) \subseteq DOMAIN inFlight
         /\ \A i \in LastUse(b), k \in DOMAIN inFlight : b \in inFlight[k].uses => k <= i
         /\ \A k \in DOMAIN inFlight : b \in inFlight[k].uses => LastUse(b) # {}
<1>1. DOMAIN inFlight = 1..Len(inFlight) /\ Len(inFlight) \in Nat
  BY DEF AccelTypes
<1>2. ASSUME NEW i \in LastUse(b), NEW k \in DOMAIN inFlight, b \in inFlight[k].uses
      PROVE  k <= i
  <2>1. i \in DOMAIN inFlight /\ \A j \in (i + 1)..Len(inFlight) : b \notin inFlight[j].uses
    BY DEF LastUse
  <2>2. k \notin (i + 1)..Len(inFlight)
    BY <1>2, <2>1
  <2>3. QED
    BY <1>1, <2>1, <2>2
<1>3. ASSUME NEW k \in DOMAIN inFlight, b \in inFlight[k].uses PROVE LastUse(b) # {}
  <2>1. DEFINE S == {j \in 1..Len(inFlight) : b \in inFlight[j].uses}
  <2>2. PICK m \in S : \A j \in S : j <= m
    BY <1>1, <1>3, HasGreatest
  <2>3. m \in LastUse(b)
    BY <1>1, <2>2 DEF LastUse
  <2>4. QED
    BY <2>3
<1>4. ASSUME NEW i \in LastUse(b), NEW j \in LastUse(b) PROVE i = j
  <2>1. /\ i \in DOMAIN inFlight /\ j \in DOMAIN inFlight
        /\ b \in inFlight[i].uses /\ b \in inFlight[j].uses
    BY DEF LastUse
  <2>2. i <= j /\ j <= i
    BY <1>2, <2>1
  <2>3. QED
    BY <1>1, <2>1, <2>2
<1>5. QED
  BY <1>2, <1>3, <1>4 DEF LastUse

(* What is read back: each structure that is ready or listed with a        *)
(* submission that is done, once.                                          *)
LEMMA OnceJoined ==
  ASSUME NEW s \in Seq(Blas), NEW t \in Seq(Blas), Once(s), Once(t),
         \A b \in Blas : ~(In(s, b) /\ In(t, b))
  PROVE  /\ s \o t \in Seq(Blas) /\ Once(s \o t)
         /\ \A b : In(s \o t, b) <=> In(s, b) \/ In(t, b)
<1>1. DEFINE m == Len(s)
             n == Len(t)
             l == s \o t
<1>2. m \in Nat /\ n \in Nat /\ DOMAIN s = 1..m /\ DOMAIN t = 1..n
  OBVIOUS
<1>3. /\ l \in Seq(Blas) /\ Len(l) = m + n /\ DOMAIN l = 1..(m + n)
      /\ \A i \in 1..(m + n) : l[i] = IF i <= m THEN s[i] ELSE t[i - m]
  BY ConcatProperties
<1>4. HIDE DEF m, n, l
<1>5. \A i \in 1..(m + n) : \/ i \in 1..m /\ i <= m /\ l[i] = s[i]
                            \/ ~(i <= m) /\ i - m \in 1..n /\ l[i] = t[i - m]
  BY <1>2, <1>3
<1>6. /\ \A i \in 1..m : i \in 1..(m + n) /\ l[i] = s[i]
      /\ \A i \in 1..n : i + m \in 1..(m + n) /\ l[i + m] = t[i]
  <2>1. \A i \in 1..n : i + m \in 1..(m + n) /\ ~(i + m <= m) /\ (i + m) - m = i
    BY <1>2
  <2>2. \A i \in 1..m : i \in 1..(m + n) /\ i <= m
    BY <1>2
  <2>3. QED
    BY <1>3, <2>1, <2>2
<1>7. \A b : In(l, b) <=> In(s, b) \/ In(t, b)
  <2>1. ASSUME NEW b, In(l, b) PROVE In(s, b) \/ In(t, b)
    <3>1. PICK i \in 1..(m + n) : l[i] = b
      BY <1>3, <2>1 DEF In
    <3>2. CASE i \in 1..m /\ l[i] = s[i]
      BY <1>2, <3>1, <3>2 DEF In
    <3>3. CASE i - m \in 1..n /\ l[i] = t[i - m]
      BY <1>2, <3>1, <3>3 DEF In
    <3>4. QED
      BY <1>5, <3>2, <3>3
  <2>2. ASSUME NEW b, In(s, b) PROVE In(l, b)
    BY <1>2, <1>3, <1>6, <2>2 DEF In
  <2>3. ASSUME NEW b, In(t, b) PROVE In(l, b)
    BY <1>2, <1>3, <1>6, <2>3 DEF In
  <2>4. QED
    BY <2>1, <2>2, <2>3
<1>8. ASSUME NEW i \in 1..(m + n), NEW j \in 1..(m + n), l[i] = l[j] PROVE i = j
  <2>1. CASE i \in 1..m /\ j \in 1..m
    BY <1>2, <1>6, <1>8, <2>1 DEF Once
  <2>2. CASE i \notin 1..m /\ j \notin 1..m
    <3>1. i - m \in 1..n /\ j - m \in 1..n /\ t[i - m] = t[j - m]
      BY <1>5, <1>8, <2>2
    <3>2. i - m = j - m
      BY <1>2, <3>1 DEF Once
    <3>3. QED
      BY <1>2, <3>2
  <2>3. \A k \in 1..(m + n) : IF k \in 1..m THEN In(s, l[k]) ELSE In(t, l[k])
    <3>1. SUFFICES ASSUME NEW k \in 1..(m + n)
                   PROVE  IF k \in 1..m THEN In(s, l[k]) ELSE In(t, l[k])
      OBVIOUS
    <3>2. CASE k \in 1..m /\ l[k] = s[k]
      BY <1>2, <3>2 DEF In
    <3>3. CASE ~(k <= m) /\ k - m \in 1..n /\ l[k] = t[k - m]
      <4>1. In(t, l[k]) /\ k \notin 1..m
        BY <1>2, <3>3 DEF In
      <4>2. QED
        BY <4>1
    <3>4. QED
      BY <1>5, <3>2, <3>3
  <2>4. l[i] \in Blas
    <3>1. i \in 1..Len(l)
      BY <1>3
    <3>2. QED
      BY <1>3, <3>1, ElementOfSeq
  <2>5. (i \in 1..m) <=> (j \in 1..m)
    BY <1>8, <2>3, <2>4
  <2>6. QED
    BY <2>1, <2>2, <2>5
<1>9. Once(l)
  BY <1>3, <1>8 DEF Once
<1>10. QED
  BY <1>3, <1>7, <1>9 DEF l

(* Over all that are done. *)
LEMMA ReadBackHas ==
  ASSUME AccelTypes, FlightInv, ListInv
  PROVE  /\ ReadBack \in Seq(Blas) /\ Once(ReadBack)
         /\ \A b \in Blas : In(ReadBack, b) <=>
               \/ In(readyToCompact, b)
               \/ \E i \in 1..DoneCount : In(inFlight[i].readBack, b)
<1>1. /\ DOMAIN inFlight = 1..Len(inFlight) /\ Len(inFlight) \in Nat
      /\ \A i \in DOMAIN inFlight : inFlight[i].readBack \in Seq(Blas)
      /\ readyToCompact \in Seq(Blas)
  <2>1. \A i \in DOMAIN inFlight : inFlight[i] \in Tracked
    BY DEF AccelTypes
  <2>2. QED
    BY <2>1 DEF AccelTypes, Tracked
<1>2. DoneCount \in 0..Len(inFlight)
  BY DoneIs
<1>3. DEFINE d == DoneCount
             Has(b, i) == \/ In(readyToCompact, b)
                          \/ \E j \in 1..i : In(inFlight[j].readBack, b)
             P == [i \in 0..d |-> {l \in Seq(Blas) :
                                     Once(l) /\ \A b \in Blas : In(l, b) <=> Has(b, i)}]
<1>4. d \in Nat /\ 1..d \subseteq DOMAIN inFlight
  BY <1>1, <1>2
<1>5. HIDE DEF d
<1>6. readyToCompact \in P[0]
  <2>1. \A b : Has(b, 0) <=> In(readyToCompact, b)
    OBVIOUS
  <2>2. 0 \in 0..d
    BY <1>4
  <2>3. QED
    BY <1>1, <2>1, <2>2 DEF ListInv
<1>7. ASSUME NEW i \in 1..d, NEW l \in P[i - 1]
      PROVE  Turn("read back", l, inFlight[i]) \in P[i]
  <2>1. i - 1 \in 0..d /\ i \in 0..d /\ i \in DOMAIN inFlight /\ i \in Nat
    BY <1>4
  <2>2. l \in Seq(Blas) /\ Once(l) /\ \A b \in Blas : In(l, b) <=> Has(b, i - 1)
    BY <1>7, <2>1
  <2>3. inFlight[i].readBack \in Seq(Blas) /\ Once(inFlight[i].readBack)
    BY <1>1, <2>1 DEF ListInv
  <2>4. \A b \in Blas : ~(In(l, b) /\ In(inFlight[i].readBack, b))
    <3>1. \A j \in 1..(i - 1) : j \in DOMAIN inFlight /\ j # i
      BY <1>4, <2>1
    <3>2. QED
      BY <2>1, <2>2, <3>1 DEF ListInv
  <2>5. \A b : Has(b, i) <=> Has(b, i - 1) \/ In(inFlight[i].readBack, b)
    <3>1. \A j \in 1..i : j = i \/ j \in 1..(i - 1)
      BY <2>1
    <3>2. i \in 1..i /\ \A j \in 1..(i - 1) : j \in 1..i
      BY <2>1
    <3>3. QED
      BY <3>1, <3>2
  <2>6. HIDE DEF Has
  <2>7. /\ l \o inFlight[i].readBack \in Seq(Blas) /\ Once(l \o inFlight[i].readBack)
        /\ \A b \in Blas : In(l \o inFlight[i].readBack, b) <=> Has(b, i)
    BY <2>2, <2>3, <2>4, <2>5, OnceJoined
  <2>8. Turn("read back", l, inFlight[i]) = l \o inFlight[i].readBack
    BY DEF Turn
  <2>9. QED
    BY <2>1, <2>7, <2>8
<1>8. HIDE DEF P
<1>9. LoopEnd("read back", readyToCompact, inFlight, d) \in P[d]
  BY <1>4, <1>6, <1>7, LoopKeeps
<1>10. ReadBack = LoopEnd("read back", readyToCompact, inFlight, d)
  BY ReadBackIs DEF d
<1>11. d \in 0..d
  BY <1>4
<1>12. QED
  BY <1>9, <1>10, <1>11 DEF P, d

(* What is read back is read back once. *)
LEMMA TimesIs ==
  ASSUME NEW b, ReadBack \in Seq(Blas), Once(ReadBack)
  PROVE  /\ In(ReadBack, b) => Times(b) = 1
         /\ ~In(ReadBack, b) => Times(b) = 0
<1>1. DEFINE S == {i \in DOMAIN ReadBack : ReadBack[i] = b}
<1>2. Times(b) = Cardinality(S)
  BY DEF Times
<1>3. CASE In(ReadBack, b)
  <2>1. PICK i \in DOMAIN ReadBack : ReadBack[i] = b
    BY <1>3 DEF In
  <2>2. S = {i}
    BY <2>1 DEF Once
  <2>3. QED
    BY <1>2, <1>3, <2>2, FS_Singleton
<1>4. CASE ~In(ReadBack, b)
  <2>1. S = {}
    BY <1>4 DEF In
  <2>2. QED
    BY <1>2, <1>4, <2>1, FS_EmptySet
<1>5. QED
  BY <1>3, <1>4

--------------------------------------------------------------------------------
(* The steps: validation *)

(* Validation. *)
LEMMA ValidateSound ==
  ASSUME AccelSound, ~gap, NEW batch \in AsBatch, NEW fails \in BOOLEAN,
         SubmitValidate(batch, fails), ~gap'
  PROVE  AccelSound'
<1>1. DEFINE v == Validated(batch)
<1>2. submitting = Nothing /\ AccelTypes
  BY DEF SubmitValidate, AccelSound
<1>3. ValidSoFar(v)
  BY <1>2, ValidatedSound DEF AccelSound
<1>4. /\ compactState' = v.compact /\ blasBuilt' = v.blas /\ tlasBuilt' = v.tlas
      /\ nextBuild' = v.next
      /\ submitting' = IF v.ok /\ ~fails THEN v.ran ELSE Nothing
      /\ ((~v.ok \/ fails) => v.next = nextBuild)
      /\ (copying # Nothing => ~Built(v.ran, copying.blas))
      /\ UNCHANGED <<copying, pendingCopies, inFlight, readyToCompact, asSubmitted, asDone,
                     stream, compacts, asPanic>>
  BY DEF SubmitValidate, Built, BuildsBlas
<1>5. HIDE DEF v
<1>6. /\ v \in Validating /\ v.compact \in [Blas -> CompactStates] /\ v.blas \in [Blas -> Nat]
      /\ v.tlas \in [Tlas -> TlasStates] /\ v.next \in Nat /\ v.ran \in Seq(AsRan)
      /\ v.ok \in BOOLEAN /\ nextBuild <= v.next
  BY <1>3 DEF ValidSoFar, Validating
<1>7. CASE ~v.ok \/ fails
  <2>1. UNCHANGED <<compactState, blasBuilt, tlasBuilt, nextBuild, submitting, copying,
                    pendingCopies, inFlight, readyToCompact, asSubmitted, asDone, stream,
                    asPanic>>
    BY <1>2, <1>3, <1>4, <1>7 DEF ValidSoFar
  <2>2. QED
    BY <2>1 DEF AccelSound, AccelTypes, RecordInv, CopyInv, FlightInv, ListInv, WaitingInv,
                ReadyInv, BuiltBy, Building, Listed, Triaged
<1>8. CASE v.ok /\ ~fails
  <2>1. submitting' = v.ran
    BY <1>4, <1>8
  <2>2. AccelTypes'
    <3>1. v.ran \in Seq(AsBuilds \cup AsUses)
      BY <1>6 DEF AsRan
    <3>2. v.next # 0
      BY <1>2, <1>6 DEF AccelTypes
    <3>3. QED
      BY <1>2, <1>4, <1>6, <2>1, <3>1, <3>2 DEF AccelTypes
  <2>3. RecordInv'
    BY <1>3, <1>4, <1>8, <2>1 DEF ValidSoFar, RecordInv
  <2>4. ASSUME NEW b PROVE Building(b)' <=> Built(v.ran, b)
    <3>1. v.ran = <<>> => ~Built(v.ran, b)
      BY DEF Built
    <3>2. QED
      BY <2>1, <3>1 DEF Building, Built, BuildsBlas, Nothing
  <2>5. CopyInv'
    BY <1>4, <2>4 DEF AccelSound, CopyInv
  <2>6. FlightInv' /\ ListInv'
    BY <1>4 DEF AccelSound, FlightInv, ListInv, Triaged
  <2>7. \A b \in Blas : /\ v.compact[b] = IF Built(v.ran, b) THEN IdleState ELSE compactState[b]
                        /\ ~Built(v.ran, b) => v.blas[b] = blasBuilt[b]
    BY <1>3 DEF ValidSoFar
  <2>8. ASSUME NEW b \in Blas, compactState'[b].st # "idle"
        PROVE  /\ compactState'[b] = compactState[b] /\ blasBuilt'[b] = blasBuilt[b]
               /\ ~Building(b)'
    BY <1>4, <2>4, <2>7, <2>8 DEF IdleState
  <2>9. \A b \in Blas : \A x : blasBuilt'[b] = blasBuilt[b] => (BuiltBy(b, x) => BuiltBy(b, x)')
    BY <1>4 DEF BuiltBy
  <2>10. WaitingInv'
    <3>1. SUFFICES ASSUME NEW b \in Blas, compactState'[b].st = "waiting"
                   PROVE  /\ ~Building(b)'
                          /\ \/ In(readyToCompact, b) /\ BuiltBy(b, asDone)'
                             \/ \E i \in DOMAIN inFlight :
                                   In(inFlight[i].readBack, b) /\ BuiltBy(b, inFlight[i].index)'
      BY <1>4 DEF WaitingInv
    <3>2. \/ In(readyToCompact, b) /\ BuiltBy(b, asDone)
          \/ \E i \in DOMAIN inFlight :
                In(inFlight[i].readBack, b) /\ BuiltBy(b, inFlight[i].index)
      BY <2>8, <3>1 DEF AccelSound, WaitingInv
    <3>3. QED
      BY <1>4, <2>8, <2>9, <3>1, <3>2
  <2>11. ReadyInv'
    <3>1. SUFFICES ASSUME NEW b \in Blas, compactState'[b].st = "ready"
                   PROVE  /\ ~Building(b)' /\ ~Listed(b)'
                          /\ compactState'[b].size = blasBuilt'[b] /\ BuiltBy(b, asDone)'
      BY DEF ReadyInv
    <3>2. ~Listed(b) /\ compactState[b].size = blasBuilt[b] /\ BuiltBy(b, asDone)
      BY <2>8, <3>1 DEF AccelSound, ReadyInv
    <3>3. Listed(b)' <=> Listed(b)
      BY <1>4 DEF Listed
    <3>4. QED
      BY <1>4, <2>8, <2>9, <3>1, <3>2, <3>3
  <2>12. QED
    BY <1>4, <2>2, <2>3, <2>5, <2>6, <2>10, <2>11 DEF AccelSound
<1>9. QED
  BY <1>6, <1>7, <1>8

(* Tracking: what the stream is then. *)
LEMMA StreamGrows ==
  ASSUME AccelTypes, SubmitTrack
  PROVE  /\ stream' \in Seq(Streamed) /\ DOMAIN stream \subseteq DOMAIN stream'
         /\ \A n \in DOMAIN stream : stream'[n] = stream[n]
         /\ \A n \in DOMAIN stream' : n \notin DOMAIN stream =>
               /\ n > Len(stream) /\ stream'[n].sub = asSubmitted + 1
               /\ \/ \E k \in DOMAIN pendingCopies :
                        n = Len(stream) + k /\ stream'[n].act = pendingCopies[k]
                  \/ \E k \in DOMAIN submitting :
                        /\ n = Len(stream) + Len(pendingCopies) + k
                        /\ stream'[n].act = submitting[k]
         /\ Acts(stream') = (Acts(stream) \o pendingCopies) \o submitting
<1>1. DEFINE m == Len(stream)
             p == Len(pendingCopies)
             s == Len(submitting)
             e == [i \in 1..(p + s) |->
                     [sub |-> asSubmitted',
                      act |-> IF i <= p THEN pendingCopies[i] ELSE submitting[i - p]]]
<1>2. /\ m \in Nat /\ p \in Nat /\ s \in Nat /\ asSubmitted \in Nat
      /\ DOMAIN stream = 1..m /\ DOMAIN pendingCopies = 1..p /\ DOMAIN submitting = 1..s
      /\ stream \in Seq(Streamed) /\ pendingCopies \in Seq(AsCopies)
      /\ submitting \in Seq(AsRan)
  BY DEF AccelTypes, AsRan
<1>3. stream' = stream \o e /\ asSubmitted' = asSubmitted + 1
  BY DEF SubmitTrack
<1>4. ASSUME NEW i \in 1..(p + s)
      PROVE  /\ e[i] \in Streamed /\ e[i].sub = asSubmitted + 1
             /\ e[i].act = IF i <= p THEN pendingCopies[i] ELSE submitting[i - p]
             /\ i <= p => i \in 1..p
             /\ ~(i <= p) => i - p \in 1..s
  <2>1. (i <= p => i \in 1..p) /\ (~(i <= p) => i - p \in 1..s)
    BY <1>2
  <2>2. (IF i <= p THEN pendingCopies[i] ELSE submitting[i - p]) \in AsBuilds \cup AsUses \cup AsCopies
    <3>1. i \in 1..p => pendingCopies[i] \in AsCopies
      BY <1>2
    <3>2. i - p \in 1..s => submitting[i - p] \in AsRan
      BY <1>2
    <3>3. QED
      BY <2>1, <3>1, <3>2 DEF AsRan
  <2>3. e[i] = [sub |-> asSubmitted + 1,
                act |-> IF i <= p THEN pendingCopies[i] ELSE submitting[i - p]]
    BY <1>3
  <2>4. QED
    BY <1>2, <2>1, <2>2, <2>3 DEF Streamed
<1>5. e \in Seq(Streamed) /\ Len(e) = p + s
  <2>1. p + s \in Nat
    BY <1>2
  <2>2. DOMAIN e = 1..(p + s) /\ e = [i \in 1..(p + s) |-> e[i]]
    BY Zenon
  <2>3. HIDE DEF e
  <2>4. e \in [1..(p + s) -> Streamed]
    BY <1>4, <2>2
  <2>5. QED
    BY <2>1, <2>2, <2>4
<1>6. HIDE DEF e, m, p, s
<1>7. /\ stream' \in Seq(Streamed) /\ Len(stream') = m + (p + s)
      /\ \A n \in 1..(m + (p + s)) : stream'[n] = IF n <= m THEN stream[n] ELSE e[n - m]
  <2>1. /\ stream \o e \in Seq(Streamed) /\ Len(stream \o e) = m + Len(e)
        /\ \A n \in 1..(m + Len(e)) : (stream \o e)[n] = IF n <= m THEN stream[n] ELSE e[n - m]
    BY <1>2, <1>5, ConcatProperties DEF m
  <2>2. QED
    BY <1>3, <1>5, <2>1
<1>8. DOMAIN stream' = 1..(m + (p + s))
  BY <1>7
<1>9. \A n \in 1..m : n \in 1..(m + (p + s)) /\ n <= m
  BY <1>2
<1>10. ASSUME NEW n \in DOMAIN stream', n \notin DOMAIN stream
       PROVE  /\ n > m /\ stream'[n].sub = asSubmitted + 1
              /\ \/ \E k \in DOMAIN pendingCopies : n = m + k /\ stream'[n].act = pendingCopies[k]
                 \/ \E k \in DOMAIN submitting : n = m + p + k /\ stream'[n].act = submitting[k]
  <2>1. n > m /\ n - m \in 1..(p + s) /\ stream'[n] = e[n - m] /\ n \in Nat
    BY <1>2, <1>7, <1>8, <1>10
  <2>2. CASE n - m <= p
    <3>1. n - m \in 1..p /\ n = m + (n - m)
      BY <1>2, <1>4, <2>1, <2>2
    <3>2. QED
      BY <1>2, <1>4, <2>1, <2>2, <3>1
  <2>3. CASE ~(n - m <= p)
    <3>1. (n - m) - p \in 1..s /\ n = m + p + ((n - m) - p)
      BY <1>2, <1>4, <2>1, <2>3
    <3>2. QED
      BY <1>2, <1>4, <2>1, <2>3, <3>1
  <2>4. QED
    BY <2>2, <2>3
<1>11. Acts(stream') = (Acts(stream) \o pendingCopies) \o submitting
  <2>1. DEFINE l == (Acts(stream) \o pendingCopies) \o submitting
  <2>2. /\ Acts(stream) \in Seq(AsActs) /\ Len(Acts(stream)) = m
        /\ \A n \in DOMAIN stream : Acts(stream)[n] = stream[n].act
        /\ submitting \in Seq(AsActs) /\ pendingCopies \in Seq(AsActs)
    BY <1>2, ActsTyped DEF AsActs, m
  <2>3. /\ Acts(stream) \o pendingCopies \in Seq(AsActs)
        /\ Len(Acts(stream) \o pendingCopies) = m + p
        /\ \A n \in 1..(m + p) : (Acts(stream) \o pendingCopies)[n] =
              IF n <= m THEN Acts(stream)[n] ELSE pendingCopies[n - m]
    BY <2>2, ConcatProperties DEF p
  <2>4. /\ l \in Seq(AsActs) /\ Len(l) = m + p + s
        /\ \A n \in 1..(m + p + s) : l[n] =
              IF n <= m + p THEN (Acts(stream) \o pendingCopies)[n] ELSE submitting[n - (m + p)]
    BY <2>2, <2>3, ConcatProperties DEF s
  <2>5. m + (p + s) = m + p + s
    BY <1>2
  <2>6. Acts(stream') = [n \in 1..(m + p + s) |-> stream'[n].act]
    BY <1>8, <2>5 DEF Acts
  <2>7. DOMAIN l = 1..(m + p + s)
    BY <2>4
  <2>8. ASSUME NEW n \in 1..(m + p + s) PROVE l[n] = stream'[n].act
    <3>1. CASE n <= m
      <4>1. /\ n \in 1..m /\ n \in 1..(m + p) /\ n <= m + p
            /\ n \in 1..(m + (p + s))
        BY <1>2, <3>1
      <4>2. l[n] = (Acts(stream) \o pendingCopies)[n]
        BY <2>4, <4>1
      <4>3. (Acts(stream) \o pendingCopies)[n] = Acts(stream)[n]
        BY <2>3, <3>1, <4>1
      <4>4. Acts(stream)[n] = stream[n].act
        BY <1>2, <2>2, <4>1
      <4>5. stream'[n] = stream[n]
        BY <1>7, <3>1, <4>1
      <4>6. QED
        BY <4>2, <4>3, <4>4, <4>5
    <3>2. CASE n > m /\ n <= m + p
      <4>1. /\ n \in 1..(m + p) /\ ~(n <= m) /\ n - m \in 1..(p + s) /\ n - m <= p
            /\ n \in 1..(m + (p + s))
        BY <1>2, <3>2
      <4>2. l[n] = pendingCopies[n - m]
        BY <2>3, <2>4, <3>2, <4>1
      <4>3. stream'[n].act = pendingCopies[n - m]
        BY <1>4, <1>7, <4>1
      <4>4. QED
        BY <4>2, <4>3
    <3>3. CASE n > m + p
      <4>1. /\ ~(n <= m) /\ ~(n <= m + p) /\ n - m \in 1..(p + s) /\ ~(n - m <= p)
            /\ (n - m) - p = n - (m + p) /\ n \in 1..(m + (p + s))
        BY <1>2, <3>3
      <4>2. QED
        BY <1>4, <1>7, <2>4, <4>1
    <3>4. \/ n <= m
          \/ n > m /\ n <= m + p
          \/ n > m + p
      BY <1>2
    <3>5. QED
      BY <3>1, <3>2, <3>3, <3>4, Zenon
  <2>9. HIDE DEF l
  <2>10. l = [n \in 1..(m + p + s) |-> l[n]]
    BY <2>4, <2>7
  <2>11. Acts(stream') = l
    BY <2>6, <2>8, <2>10
  <2>12. QED
    BY <2>11 DEF l
<1>12. QED
  BY <1>2, <1>7, <1>8, <1>9, <1>10, <1>11 DEF m, p

--------------------------------------------------------------------------------
(* The steps: tracking *)

(* What was built last still is, after a stream that does not build it. *)
LEMMA LastCarries ==
  ASSUME AccelTypes, SubmitTrack, NEW b, ~Building(b)
  PROVE  /\ \A n \in DOMAIN stream' : n \notin DOMAIN stream => ~BuildsBlas(stream'[n].act, b)
         /\ \A i \in DOMAIN stream : LastBlas(Acts(stream), b, i) => LastBlas(Acts(stream'), b, i)
<1>1. /\ \A k \in DOMAIN pendingCopies : ~BuildsBlas(pendingCopies[k], b)
      /\ \A k \in DOMAIN submitting : ~BuildsBlas(submitting[k], b)
  <2>1. \A k \in DOMAIN pendingCopies : pendingCopies[k] \in AsCopies
    BY DEF AccelTypes
  <2>2. \A k \in DOMAIN pendingCopies : ~BuildsBlas(pendingCopies[k], b)
    BY <2>1 DEF AsCopies, BuildsBlas
  <2>3. QED
    BY <2>2, BuildingIs DEF Built
<1>2. /\ DOMAIN stream \subseteq DOMAIN stream'
      /\ \A n \in DOMAIN stream : stream'[n] = stream[n]
      /\ \A n \in DOMAIN stream' : n \notin DOMAIN stream =>
            \/ \E k \in DOMAIN pendingCopies : stream'[n].act = pendingCopies[k]
            \/ \E k \in DOMAIN submitting : stream'[n].act = submitting[k]
  BY StreamGrows
<1>3. \A n \in DOMAIN stream' : n \notin DOMAIN stream => ~BuildsBlas(stream'[n].act, b)
  BY <1>1, <1>2
<1>4. /\ DOMAIN Acts(stream) = DOMAIN stream /\ \A n \in DOMAIN stream : Acts(stream)[n] = stream[n].act
      /\ DOMAIN Acts(stream') = DOMAIN stream'
      /\ \A n \in DOMAIN stream' : Acts(stream')[n] = stream'[n].act
  BY DEF Acts
<1>5. QED
  BY <1>2, <1>3, <1>4 DEF LastBlas

(* Tracking keeps what is recorded, *)
LEMMA TrackKeepsRecord ==
  ASSUME AccelTypes, RecordInv, SubmitTrack
  PROVE  RecordInv'
<1>1. DEFINE A == Acts(stream)
<1>2. /\ A \in Seq(AsActs) /\ pendingCopies \in Seq(AsCopies) /\ submitting \in Seq(AsActs)
      /\ pendingCopies \in Seq(AsActs)
  <2>1. pendingCopies \in Seq(AsCopies)
    BY DEF AccelTypes
  <2>2. QED
    BY <2>1, ActsTyped DEF AsActs
<1>3. Acts(stream') = (A \o pendingCopies) \o submitting
  BY StreamGrows
<1>4. HIDE DEF A
<1>5. /\ A \o submitting \in Seq(AsActs)
      /\ (A \o pendingCopies) \o submitting \in Seq(AsActs)
  <2>1. A \o pendingCopies \in Seq(AsActs)
    BY <1>2, ConcatProperties
  <2>2. QED
    BY <1>2, <2>1, ConcatProperties
<1>6. PICK f : Spread(A \o submitting, (A \o pendingCopies) \o submitting, f)
  BY <1>2, CopiesBetween
<1>7. Recorded(A \o submitting, blasBuilt, tlasBuilt, nextBuild)
  BY DEF RecordInv, A
<1>8. Recorded((A \o pendingCopies) \o submitting, blasBuilt, tlasBuilt, nextBuild)
  BY <1>5, <1>6, <1>7, SpreadRecorded
<1>9. Acts(stream') \o <<>> = Acts(stream')
  <2>1. Acts(stream') \in Seq(AsActs)
    BY <1>3, <1>5
  <2>2. QED
    BY <2>1
<1>10. /\ submitting' = <<>> /\ blasBuilt' = blasBuilt /\ tlasBuilt' = tlasBuilt
       /\ nextBuild' = nextBuild
  BY DEF SubmitTrack, Nothing
<1>11. Recorded(Acts(stream') \o <<>>, blasBuilt, tlasBuilt, nextBuild)
  BY <1>3, <1>8, <1>9
<1>12. QED
  BY <1>10, <1>11 DEF RecordInv

(* The submission that is tracked, after those in flight. *)
LEMMA FlightGrows ==
  ASSUME AccelTypes, FlightInv, SubmitTrack
  PROVE  /\ inFlight' \in Seq(Tracked) /\ Triaged' = Triaged
         /\ \A i \in DOMAIN inFlight : i \in DOMAIN inFlight' /\ inFlight'[i] = inFlight[i]
         /\ \E l \in DOMAIN inFlight' :
               /\ l = asSubmitted + 1 - Triaged
               /\ inFlight'[l].index = asSubmitted + 1 /\ inFlight'[l].readBack = <<>>
               /\ \A k \in DOMAIN submitting : submitting[k].op = "build" =>
                     submitting[k].blas \subseteq inFlight'[l].uses
               /\ \A i \in DOMAIN inFlight' : i \in DOMAIN inFlight \/ i = l
<1>1. DEFINE U == (UNION {submitting[i].deps : i \in DOMAIN submitting})
                  \cup (UNION {submitting[i].blas :
                                i \in {j \in DOMAIN submitting : submitting[j].op = "build"}})
                  \cup {pendingCopies[i].blas : i \in DOMAIN pendingCopies}
             r == [index |-> asSubmitted + 1, readBack |-> <<>>, uses |-> U]
<1>2. /\ inFlight \in Seq(Tracked) /\ asSubmitted \in Nat
      /\ \A i \in DOMAIN submitting : submitting[i] \in AsBuilds \cup AsUses
      /\ \A i \in DOMAIN pendingCopies : pendingCopies[i] \in AsCopies
  BY DEF AccelTypes
<1>3. U \in SUBSET Blas
  <2>1. \A i \in DOMAIN submitting : submitting[i].deps \in SUBSET Blas
    BY <1>2 DEF AsBuilds, AsUses
  <2>2. \A i \in DOMAIN submitting : submitting[i].op = "build" => submitting[i].blas \in SUBSET Blas
    BY <1>2 DEF AsBuilds, AsUses
  <2>3. \A i \in DOMAIN pendingCopies : pendingCopies[i].blas \in Blas
    BY <1>2 DEF AsCopies
  <2>4. QED
    BY <2>1, <2>2, <2>3
<1>4. \A k \in DOMAIN submitting : submitting[k].op = "build" => submitting[k].blas \subseteq U
  OBVIOUS
<1>5. inFlight' = Append(inFlight, r) /\ asSubmitted' = asSubmitted + 1
  BY DEF SubmitTrack
<1>6. HIDE DEF U
<1>7. r \in Tracked /\ r.index = asSubmitted + 1 /\ r.readBack = <<>> /\ r.uses = U
  BY <1>2, <1>3 DEF Tracked
<1>8. HIDE DEF r
<1>9. DEFINE l == Len(inFlight) + 1
<1>10. /\ inFlight' \in Seq(Tracked) /\ l \in DOMAIN inFlight' /\ inFlight'[l] = r
       /\ \A i \in DOMAIN inFlight : i \in DOMAIN inFlight' /\ inFlight'[i] = inFlight[i]
       /\ \A i \in DOMAIN inFlight' : i \in DOMAIN inFlight \/ i = l
  BY <1>2, <1>5, <1>7, Appended
<1>11. Len(inFlight') = Len(inFlight) + 1 /\ Len(inFlight) \in Nat
  BY <1>2, <1>5
<1>12. Triaged' = Triaged /\ l = asSubmitted + 1 - Triaged
  BY <1>2, <1>5, <1>11 DEF Triaged
<1>13. HIDE DEF l
<1>14. QED
  BY <1>4, <1>7, <1>10, <1>12

(* Every copy in the grown stream has the size of the build it copies. *)
LEMMA TrackKeepsCopies ==
  ASSUME AccelTypes, CopyInv, SubmitTrack
  PROVE  CopyInv'
<1>1. DEFINE A == Acts(stream)
             B == Acts(stream')
<1>2. /\ DOMAIN stream = 1..Len(stream) /\ Len(stream) \in Nat
      /\ DOMAIN pendingCopies = 1..Len(pendingCopies) /\ Len(pendingCopies) \in Nat
      /\ \A k \in DOMAIN pendingCopies : pendingCopies[k] \in AsCopies
      /\ \A k \in DOMAIN submitting : submitting[k] \in AsBuilds \cup AsUses
      /\ DOMAIN submitting = 1..Len(submitting) /\ Len(submitting) \in Nat
  BY DEF AccelTypes
<1>3. /\ stream' \in Seq(Streamed) /\ DOMAIN stream \subseteq DOMAIN stream'
      /\ \A n \in DOMAIN stream : stream'[n] = stream[n]
      /\ \A n \in DOMAIN stream' : n \notin DOMAIN stream =>
            /\ n > Len(stream)
            /\ \/ \E k \in DOMAIN pendingCopies :
                     n = Len(stream) + k /\ stream'[n].act = pendingCopies[k]
               \/ \E k \in DOMAIN submitting :
                     /\ n = Len(stream) + Len(pendingCopies) + k
                     /\ stream'[n].act = submitting[k]
  BY StreamGrows
<1>4. /\ DOMAIN A = DOMAIN stream /\ DOMAIN B = DOMAIN stream'
      /\ \A n \in DOMAIN stream : A[n] = stream[n].act /\ B[n] = stream[n].act
      /\ \A n \in DOMAIN stream' : B[n] = stream'[n].act
  BY <1>3 DEF Acts
<1>5. \A n \in DOMAIN stream' : n \in Nat /\ 1 <= n
  <2>1. DOMAIN stream' = 1..Len(stream') /\ Len(stream') \in Nat
    BY <1>3
  <2>2. QED
    BY <2>1
<1>6. HIDE DEF A, B
<1>7. ASSUME NEW n \in DOMAIN stream', stream'[n].act.op = "copy" PROVE CopyRight(B, n)
  <2>1. CASE n \in DOMAIN stream
    <3>1. CopyRight(A, n)
      BY <1>3, <1>7, <2>1 DEF CopyInv, A
    <3>2. A[n] = B[n]
      BY <1>3, <1>4, <2>1
    <3>3. PICK i \in DOMAIN A :
            /\ i <= n /\ BuildsBlas(A[i], A[n].blas) /\ A[i].index = A[n].size
            /\ \A j \in DOMAIN A : i < j /\ j <= n => ~BuildsBlas(A[j], A[n].blas)
      BY <3>1 DEF CopyRight
    <3>4. \A j \in DOMAIN B : j <= n => j \in DOMAIN A
      BY <1>2, <1>4, <1>5, <2>1
    <3>5. \A j \in DOMAIN A : j \in DOMAIN B /\ A[j] = B[j]
      BY <1>3, <1>4
    <3>6. QED
      BY <3>2, <3>3, <3>4, <3>5 DEF CopyRight
  <2>2. CASE n \notin DOMAIN stream
    <3>1. \A k \in DOMAIN submitting : submitting[k].op # "copy"
      BY <1>2 DEF AsBuilds, AsUses
    <3>2. PICK k \in DOMAIN pendingCopies : n = Len(stream) + k /\ stream'[n].act = pendingCopies[k]
      BY <1>3, <1>7, <2>2, <3>1
    <3>3. CopyReady(A, pendingCopies[k])
      BY DEF CopyInv, A
    <3>4. DEFINE b == pendingCopies[k].blas
    <3>5. PICK i \in DOMAIN A : LastBlas(A, b, i) /\ A[i].index = pendingCopies[k].size
      BY <3>3 DEF CopyReady
    <3>6. B[n] = pendingCopies[k]
      BY <1>4, <3>2
    <3>7. HIDE DEF b
    <3>8. \A j \in DOMAIN B : j <= n => \/ j \in DOMAIN A /\ B[j] = A[j]
                                        \/ ~BuildsBlas(B[j], b)
      <4>1. SUFFICES ASSUME NEW j \in DOMAIN stream', j <= n, j \notin DOMAIN stream
                     PROVE  ~BuildsBlas(B[j], b)
        BY <1>4
      <4>2. CASE \E q \in DOMAIN pendingCopies : stream'[j].act = pendingCopies[q]
        BY <1>2, <1>4, <4>2 DEF AsCopies, BuildsBlas
      <4>3. CASE \E q \in DOMAIN submitting : j = Len(stream) + Len(pendingCopies) + q
        BY <1>2, <3>2, <4>1, <4>3
      <4>4. QED
        BY <1>3, <4>1, <4>2, <4>3
    <3>9. i <= n /\ i \in DOMAIN B /\ B[i] = A[i]
      <4>1. n > Len(stream) /\ n \in Nat
        BY <1>3, <1>5, <2>2
      <4>2. i \in 1..Len(stream) /\ i \in DOMAIN stream
        BY <1>2, <1>4
      <4>3. i <= n
        BY <1>2, <4>1, <4>2
      <4>4. QED
        BY <1>3, <1>4, <4>2, <4>3
    <3>10. \A j \in DOMAIN B : i < j /\ j <= n => ~BuildsBlas(B[j], b)
      <4>1. \A j \in DOMAIN A : BuildsBlas(A[j], b) => j <= i
        BY <3>5 DEF LastBlas
      <4>2. \A j \in DOMAIN A : j \in Nat
        BY <1>2, <1>4
      <4>3. QED
        BY <3>8, <4>1, <4>2
    <3>11. BuildsBlas(B[i], b) /\ B[i].index = pendingCopies[k].size
      BY <3>5, <3>9 DEF LastBlas
    <3>12. QED
      BY <3>6, <3>9, <3>10, <3>11 DEF CopyRight, b
  <2>3. QED
    BY <2>1, <2>2
<1>8. ASSUME copying # Nothing PROVE CopyReady(B, copying)
  <2>1. ~Building(copying.blas) /\ CopyReady(A, copying)
    BY <1>8 DEF CopyInv, A
  <2>2. PICK i \in DOMAIN A : LastBlas(A, copying.blas, i) /\ A[i].index = copying.size
    BY <2>1 DEF CopyReady
  <2>3. LastBlas(B, copying.blas, i)
    BY <1>4, <2>1, <2>2, LastCarries DEF A, B
  <2>4. i \in DOMAIN B /\ B[i] = A[i]
    BY <1>3, <1>4
  <2>5. QED
    BY <2>2, <2>3, <2>4 DEF CopyReady
<1>9. pendingCopies' = <<>> /\ submitting' = Nothing /\ copying' = copying
  BY DEF SubmitTrack
<1>10. \A c : ~Building(c)'
  BY <1>9 DEF Building
<1>11. QED
  BY <1>7, <1>8, <1>9, <1>10 DEF CopyInv, B

(* and the submissions in flight in their order. *)
LEMMA TrackKeepsFlight ==
  ASSUME AccelTypes, FlightInv, SubmitTrack
  PROVE  FlightInv'
<1>1. /\ DOMAIN inFlight = 1..Len(inFlight) /\ Len(inFlight) \in Nat
      /\ asDone \in Nat /\ asSubmitted \in Nat
      /\ \A k \in DOMAIN pendingCopies : pendingCopies[k].op = "copy"
  <2>1. \A k \in DOMAIN pendingCopies : pendingCopies[k] \in AsCopies
    BY DEF AccelTypes
  <2>2. \A k \in DOMAIN pendingCopies : pendingCopies[k].op = "copy"
    BY <2>1 DEF AsCopies
  <2>3. QED
    BY <2>2 DEF AccelTypes
<1>2. asSubmitted' = asSubmitted + 1 /\ asDone' = asDone
  BY DEF SubmitTrack
<1>3. /\ Triaged' = Triaged
      /\ \A i \in DOMAIN inFlight : i \in DOMAIN inFlight' /\ inFlight'[i] = inFlight[i]
  BY FlightGrows
<1>4. PICK l \in DOMAIN inFlight' :
               /\ l = asSubmitted + 1 - Triaged
               /\ inFlight'[l].index = asSubmitted + 1
               /\ \A k \in DOMAIN submitting : submitting[k].op = "build" =>
                     submitting[k].blas \subseteq inFlight'[l].uses
               /\ \A i \in DOMAIN inFlight' : i \in DOMAIN inFlight \/ i = l
  BY FlightGrows
<1>5. Triaged \in Nat /\ Triaged <= asDone /\ asDone <= asSubmitted
  BY <1>1 DEF FlightInv, Triaged
<1>6. \A i \in DOMAIN inFlight' : inFlight'[i].index = Triaged' + i
  BY <1>1, <1>3, <1>4, <1>5 DEF FlightInv
<1>7. ASSUME NEW n \in DOMAIN stream'
      PROVE  /\ 1 <= stream'[n].sub /\ stream'[n].sub <= asSubmitted'
             /\ stream'[n].sub > Triaged /\ stream'[n].act.op = "build" =>
                   stream'[n].act.blas \subseteq inFlight'[stream'[n].sub - Triaged].uses
  <2>1. CASE n \in DOMAIN stream
    <3>1. stream'[n] = stream[n]
      BY <2>1, StreamGrows
    <3>2. stream[n].sub \in Nat
      <4>1. stream[n] \in Streamed
        BY <2>1 DEF AccelTypes
      <4>2. QED
        BY <4>1 DEF Streamed
    <3>3. /\ 1 <= stream[n].sub /\ stream[n].sub <= asSubmitted
          /\ stream[n].sub > Triaged /\ stream[n].act.op = "build" =>
                stream[n].act.blas \subseteq inFlight[stream[n].sub - Triaged].uses
      BY <2>1 DEF FlightInv
    <3>4. stream[n].sub > Triaged => stream[n].sub - Triaged \in DOMAIN inFlight
      <4>1. asSubmitted - Triaged = Len(inFlight)
        BY <1>1 DEF Triaged
      <4>2. QED
        BY <1>1, <1>5, <3>2, <3>3, <4>1
    <3>5. stream[n].sub <= asSubmitted + 1
      BY <1>1, <3>2, <3>3
    <3>6. stream[n].sub > Triaged =>
             inFlight'[stream[n].sub - Triaged] = inFlight[stream[n].sub - Triaged]
      BY <1>3, <3>4
    <3>7. /\ 1 <= stream[n].sub /\ stream[n].sub <= asSubmitted'
          /\ stream[n].sub > Triaged /\ stream[n].act.op = "build" =>
                stream[n].act.blas \subseteq inFlight'[stream[n].sub - Triaged].uses
      BY <1>2, <3>3, <3>5, <3>6
    <3>8. QED
      BY <3>1, <3>7
  <2>2. CASE n \notin DOMAIN stream
    <3>1. /\ stream'[n].sub = asSubmitted + 1
          /\ \/ \E k \in DOMAIN pendingCopies : stream'[n].act = pendingCopies[k]
             \/ \E k \in DOMAIN submitting : stream'[n].act = submitting[k]
      BY <2>2, StreamGrows
    <3>2. stream'[n].act.op = "build" => stream'[n].act.blas \subseteq inFlight'[l].uses
      BY <1>1, <1>4, <3>1
    <3>3. 1 <= asSubmitted + 1 /\ stream'[n].sub - Triaged = l
      BY <1>1, <1>4, <1>5, <3>1
    <3>4. 1 <= stream'[n].sub /\ stream'[n].sub <= asSubmitted'
      BY <1>1, <1>2, <3>1
    <3>5. QED
      BY <3>2, <3>3, <3>4
  <2>3. QED
    BY <2>1, <2>2
<1>8. QED
  BY <1>1, <1>2, <1>3, <1>5, <1>6, <1>7 DEF FlightInv

(* A submission is tracked. *)
LEMMA TrackSound ==
  ASSUME AccelSound, SubmitTrack
  PROVE  AccelSound'
<1>1. /\ AccelTypes /\ RecordInv /\ CopyInv /\ FlightInv /\ ListInv /\ WaitingInv /\ ReadyInv
      /\ ~asPanic
  BY DEF AccelSound
<1>2. /\ pendingCopies' = <<>> /\ submitting' = Nothing /\ asSubmitted' = asSubmitted + 1
      /\ UNCHANGED <<compactState, blasBuilt, tlasBuilt, nextBuild, copying, readyToCompact,
                     asDone, asPanic>>
  BY DEF SubmitTrack
<1>3. RecordInv' /\ CopyInv' /\ FlightInv'
  BY <1>1, TrackKeepsRecord, TrackKeepsCopies, TrackKeepsFlight
<1>4. /\ inFlight' \in Seq(Tracked)
      /\ \A i \in DOMAIN inFlight : i \in DOMAIN inFlight' /\ inFlight'[i] = inFlight[i]
      /\ \A i \in DOMAIN inFlight' : i \in DOMAIN inFlight \/ inFlight'[i].readBack = <<>>
  BY <1>1, FlightGrows
<1>5. AccelTypes'
  <2>1. asSubmitted + 1 \in Nat
    BY <1>1 DEF AccelTypes
  <2>2. stream' \in Seq(Streamed)
    BY <1>1, StreamGrows
  <2>3. submitting' \in Seq(AsBuilds \cup AsUses) /\ pendingCopies' \in Seq(AsCopies)
    BY <1>2 DEF Nothing
  <2>4. QED
    BY <1>1, <1>2, <1>4, <2>1, <2>2, <2>3 DEF AccelTypes
<1>6. Once(<<>>) /\ \A b : ~In(<<>>, b)
  BY DEF Once, In
<1>7. ListInv'
  BY <1>1, <1>2, <1>4, <1>6 DEF ListInv
<1>8. \A b : ~Building(b)'
  BY <1>2 DEF Building
<1>9. DEFINE Still(b, x) ==
                \E i \in DOMAIN stream' :
                    /\ LastBlas(Acts(stream'), b, i)
                    /\ stream'[i].act.index = blasBuilt[b] /\ stream'[i].sub <= x
<1>10. \A b \in Blas : \A x : ~Building(b) /\ BuiltBy(b, x) => Still(b, x)
  <2>1. SUFFICES ASSUME NEW b \in Blas, NEW x, ~Building(b), BuiltBy(b, x)
                 PROVE  Still(b, x)
    OBVIOUS
  <2>2. PICK i \in DOMAIN stream : /\ LastBlas(Acts(stream), b, i)
                                   /\ stream[i].act.index = blasBuilt[b] /\ stream[i].sub <= x
    BY <2>1 DEF BuiltBy
  <2>3. LastBlas(Acts(stream'), b, i)
    BY <1>1, <2>1, <2>2, LastCarries
  <2>4. i \in DOMAIN stream' /\ stream'[i] = stream[i]
    BY <1>1, StreamGrows
  <2>5. QED
    BY <2>2, <2>3, <2>4
<1>11. WaitingInv'
  <2>1. SUFFICES ASSUME NEW b \in Blas, compactState[b].st = "waiting"
                 PROVE  \/ In(readyToCompact, b) /\ Still(b, asDone)
                        \/ \E i \in DOMAIN inFlight' :
                              In(inFlight'[i].readBack, b) /\ Still(b, inFlight'[i].index)
    BY <1>2, <1>8 DEF WaitingInv, BuiltBy
  <2>2. /\ ~Building(b)
        /\ \/ In(readyToCompact, b) /\ BuiltBy(b, asDone)
           \/ \E i \in DOMAIN inFlight :
                 In(inFlight[i].readBack, b) /\ BuiltBy(b, inFlight[i].index)
    BY <1>1, <2>1 DEF WaitingInv
  <2>3. CASE In(readyToCompact, b) /\ BuiltBy(b, asDone)
    BY <1>2, <1>10, <2>2, <2>3
  <2>4. CASE \E i \in DOMAIN inFlight : In(inFlight[i].readBack, b) /\ BuiltBy(b, inFlight[i].index)
    <3>1. PICK i \in DOMAIN inFlight : In(inFlight[i].readBack, b) /\ BuiltBy(b, inFlight[i].index)
      BY <2>4
    <3>2. Still(b, inFlight'[i].index)
      BY <1>4, <1>10, <2>2, <3>1
    <3>3. QED
      BY <1>4, <3>1, <3>2
  <2>5. QED
    BY <2>2, <2>3, <2>4
<1>12. ReadyInv'
  <2>1. SUFFICES ASSUME NEW b \in Blas, compactState[b].st = "ready"
                 PROVE  ~Listed(b)' /\ compactState[b].size = blasBuilt[b] /\ Still(b, asDone)
    BY <1>2, <1>8 DEF ReadyInv, BuiltBy
  <2>2. /\ ~Building(b) /\ ~Listed(b)
        /\ compactState[b].size = blasBuilt[b] /\ BuiltBy(b, asDone)
    BY <1>1, <2>1 DEF ReadyInv
  <2>3. ~Listed(b)'
    BY <1>2, <1>4, <2>2 DEF Listed
  <2>4. QED
    BY <1>2, <1>10, <2>2, <2>3
<1>13. QED
  BY <1>1, <1>2, <1>3, <1>5, <1>7, <1>11, <1>12 DEF AccelSound

--------------------------------------------------------------------------------
(* The steps: the GPU, compaction *)

(* A list without b, and b after it. *)
LEMMA AppendedIn ==
  ASSUME NEW s \in Seq(Blas), NEW b \in Blas, ~In(s, b), Once(s)
  PROVE  /\ Append(s, b) \in Seq(Blas) /\ Once(Append(s, b))
         /\ \A c : In(Append(s, b), c) <=> In(s, c) \/ c = b
<1>1. DEFINE l == Append(s, b)
             m == Len(s) + 1
<1>2. /\ l \in Seq(Blas) /\ m \in DOMAIN l /\ l[m] = b
      /\ \A i \in DOMAIN s : i \in DOMAIN l /\ l[i] = s[i]
      /\ \A i \in DOMAIN l : i \in DOMAIN s \/ i = m
  BY Appended
<1>3. HIDE DEF l, m
<1>4. \A c : In(l, c) <=> In(s, c) \/ c = b
  BY <1>2 DEF In
<1>5. Once(l)
  BY <1>2 DEF Once, In
<1>6. QED
  BY <1>2, <1>4, <1>5 DEF l

(* The GPU ends a submission. *)
LEMMA GpuSound ==
  ASSUME AccelSound, GpuEnds
  PROVE  AccelSound'
<1>1. /\ AccelTypes /\ RecordInv /\ CopyInv /\ FlightInv /\ ListInv /\ WaitingInv /\ ReadyInv
      /\ ~asPanic
  BY DEF AccelSound
<1>2. /\ asDone' = asDone + 1 /\ asDone < asSubmitted /\ asDone \in Nat /\ asSubmitted \in Nat
      /\ UNCHANGED <<compactState, blasBuilt, tlasBuilt, nextBuild, submitting, copying,
                     pendingCopies, inFlight, readyToCompact, asSubmitted, stream, asPanic>>
  BY <1>1 DEF GpuEnds, AccelTypes
<1>3. AccelTypes'
  BY <1>1, <1>2 DEF AccelTypes
<1>4. RecordInv' /\ CopyInv' /\ ListInv'
  BY <1>1, <1>2 DEF RecordInv, CopyInv, ListInv, Building
<1>5. FlightInv'
  <2>1. Triaged \in Int
    <3>1. Len(inFlight) \in Nat
      BY <1>1 DEF AccelTypes
    <3>2. QED
      BY <1>2, <3>1 DEF Triaged
  <2>2. Triaged' = Triaged
    BY <1>2 DEF Triaged
  <2>3. Triaged <= asDone' /\ asDone' <= asSubmitted
    BY <1>1, <1>2, <2>1 DEF FlightInv
  <2>4. QED
    BY <1>1, <1>2, <2>2, <2>3 DEF FlightInv
<1>6. \A i \in DOMAIN stream : stream[i].sub \in Nat
  <2>1. \A i \in DOMAIN stream : stream[i] \in Streamed
    BY <1>1 DEF AccelTypes
  <2>2. QED
    BY <2>1 DEF Streamed
<1>7. \A b : BuiltBy(b, asDone) => BuiltBy(b, asDone + 1)
  <2>1. \A i \in DOMAIN stream : stream[i].sub <= asDone => stream[i].sub <= asDone + 1
    BY <1>2, <1>6
  <2>2. QED
    BY <2>1 DEF BuiltBy
<1>8. \A b, x : BuiltBy(b, x)' <=> BuiltBy(b, x)
  BY <1>2 DEF BuiltBy
<1>9. \A b : BuiltBy(b, asDone) => BuiltBy(b, asDone)'
  BY <1>2, <1>7 DEF BuiltBy
<1>10. WaitingInv'
  <2>1. SUFFICES ASSUME NEW b \in Blas, compactState[b].st = "waiting"
                 PROVE  /\ ~Building(b)'
                        /\ \/ In(readyToCompact, b) /\ BuiltBy(b, asDone)'
                           \/ \E i \in DOMAIN inFlight :
                                 In(inFlight[i].readBack, b) /\ BuiltBy(b, inFlight[i].index)'
    BY <1>2 DEF WaitingInv
  <2>2. Building(b)' <=> Building(b)
    BY <1>2 DEF Building
  <2>3. \A i : BuiltBy(b, inFlight[i].index)' <=> BuiltBy(b, inFlight[i].index)
    BY <1>2 DEF BuiltBy
  <2>4. QED
    BY <1>1, <1>9, <2>1, <2>2, <2>3 DEF WaitingInv
<1>11. ReadyInv'
  <2>1. \A b : (Building(b)' <=> Building(b)) /\ (Listed(b)' <=> Listed(b))
    BY <1>2 DEF Building, Listed
  <2>2. QED
    BY <1>1, <1>2, <1>9, <2>1 DEF ReadyInv
<1>12. QED
  BY <1>1, <1>2, <1>3, <1>4, <1>5, <1>10, <1>11 DEF AccelSound

(* The size of a compaction is read, of a structure that is not built meanwhile. *)
LEMMA ReadSound ==
  ASSUME AccelSound, NEW b \in Blas, CompactRead(b), ~gap'
  PROVE  AccelSound'
<1>1. /\ AccelTypes /\ RecordInv /\ CopyInv /\ FlightInv /\ ListInv /\ WaitingInv /\ ReadyInv
      /\ ~asPanic
  BY DEF AccelSound
<1>2. DEFINE c == [op |-> "copy", blas |-> b, size |-> compactState[b].size]
<1>3. /\ copying' = c /\ ~Building(b) /\ compactState[b].st = "ready"
      /\ UNCHANGED <<compactState, blasBuilt, tlasBuilt, nextBuild, submitting,
                     pendingCopies, inFlight, readyToCompact, asSubmitted, asDone, stream, asPanic>>
  BY DEF CompactRead
<1>4. compactState[b].size \in Nat /\ compactState[b].size = blasBuilt[b] /\ BuiltBy(b, asDone)
  <2>1. compactState[b] \in CompactStates
    BY <1>1 DEF AccelTypes
  <2>2. QED
    BY <1>1, <1>3, <2>1 DEF CompactStates, ReadyInv
<1>5. c \in AsCopies /\ c.blas = b /\ c.size = compactState[b].size
  BY <1>4 DEF AsCopies
<1>6. HIDE DEF c
<1>7. CopyReady(Acts(stream), c)
  <2>1. PICK i \in DOMAIN stream : LastBlas(Acts(stream), b, i) /\ stream[i].act.index = blasBuilt[b]
    BY <1>4 DEF BuiltBy
  <2>2. i \in DOMAIN Acts(stream) /\ Acts(stream)[i] = stream[i].act
    BY DEF Acts
  <2>3. QED
    BY <1>4, <1>5, <2>1, <2>2 DEF CopyReady
<1>8. \A x : Building(x)' <=> Building(x)
  BY <1>3 DEF Building
<1>9. CopyInv'
  BY <1>1, <1>3, <1>5, <1>7, <1>8 DEF CopyInv
<1>10. AccelTypes'
  BY <1>1, <1>3, <1>5 DEF AccelTypes
<1>11. RecordInv' /\ FlightInv' /\ ListInv' /\ WaitingInv' /\ ReadyInv'
  BY <1>1, <1>3, <1>8 DEF RecordInv, FlightInv, ListInv, WaitingInv, ReadyInv, Triaged, BuiltBy,
                          Listed
<1>12. QED
  BY <1>1, <1>3, <1>9, <1>10, <1>11 DEF AccelSound

(* The copy is recorded. *)
LEMMA RecordSound ==
  ASSUME AccelSound, CompactRecord
  PROVE  AccelSound'
<1>1. /\ AccelTypes /\ RecordInv /\ CopyInv /\ FlightInv /\ ListInv /\ WaitingInv /\ ReadyInv
      /\ ~asPanic
  BY DEF AccelSound
<1>2. /\ copying # Nothing /\ pendingCopies' = Append(pendingCopies, copying)
      /\ nextBuild' = nextBuild + 1 /\ copying' = Nothing
      /\ UNCHANGED <<compactState, blasBuilt, tlasBuilt, submitting, inFlight, readyToCompact,
                     asSubmitted, asDone, stream, asPanic>>
  BY DEF CompactRecord
<1>3. /\ pendingCopies' \in Seq(AsCopies)
      /\ \A i \in DOMAIN pendingCopies' :
            \/ i \in DOMAIN pendingCopies /\ pendingCopies'[i] = pendingCopies[i]
            \/ pendingCopies'[i] = copying
  <2>1. pendingCopies \in Seq(AsCopies) /\ copying \in AsCopies
    BY <1>1, <1>2 DEF AccelTypes
  <2>2. QED
    BY <1>2, <2>1, Appended
<1>4. AccelTypes'
  <2>1. nextBuild + 1 \in Nat /\ nextBuild + 1 # 0
    BY <1>1 DEF AccelTypes
  <2>2. QED
    BY <1>1, <1>2, <1>3, <2>1 DEF AccelTypes
<1>5. RecordInv'
  <2>1. DEFINE s == Acts(stream) \o submitting
  <2>2. s \in Seq(AsActs)
    BY <1>1, ActsTyped, ConcatProperties
  <2>3. s' = s
    BY <1>2 DEF Acts
  <2>4. Recorded(s, blasBuilt, tlasBuilt, nextBuild)
    BY <1>1 DEF RecordInv
  <2>5. HIDE DEF s
  <2>6. \A i \in DOMAIN s : s[i].op = "build" => s[i].index \in Nat
    <3>1. \A i \in DOMAIN s : s[i] \in AsActs
      BY <2>2
    <3>2. QED
      BY <3>1 DEF AsActs, AsBuilds, AsUses, AsCopies
  <2>7. BuildsRise(s, nextBuild + 1)
    <3>1. nextBuild \in Nat
      BY <1>1 DEF AccelTypes
    <3>2. \A x \in Nat : x < nextBuild => x < nextBuild + 1
      BY <3>1
    <3>3. QED
      BY <2>4, <2>6, <3>2 DEF Recorded, BuildsRise
  <2>8. Recorded(s, blasBuilt, tlasBuilt, nextBuild + 1)
    BY <2>4, <2>7 DEF Recorded
  <2>9. QED
    BY <1>2, <2>8 DEF RecordInv, s
<1>6. \A x : Building(x)' <=> Building(x)
  BY <1>2 DEF Building
<1>7. CopyInv'
  BY <1>1, <1>2, <1>3 DEF CopyInv
<1>8. FlightInv' /\ ListInv' /\ WaitingInv' /\ ReadyInv'
  BY <1>1, <1>2, <1>6 DEF FlightInv, ListInv, WaitingInv, ReadyInv, Triaged, BuiltBy, Listed
<1>9. QED
  BY <1>1, <1>2, <1>4, <1>5, <1>7, <1>8 DEF AccelSound

--------------------------------------------------------------------------------
(* The steps: preparation *)

(* The last build of a structure that no submission builds just now is in  *)
(* the stream, and has ended or is of a submission in flight that uses it. *)
LEMMA BuiltKnown ==
  ASSUME AccelSound, NEW b \in Blas, blasBuilt[b] # 0, ~Building(b)
  PROVE  \E i \in DOMAIN stream :
            /\ LastBlas(Acts(stream), b, i) /\ stream[i].act.index = blasBuilt[b]
            /\ stream[i].sub \in Nat
            /\ stream[i].sub > Triaged =>
                  /\ stream[i].sub - Triaged \in DOMAIN inFlight
                  /\ b \in inFlight[stream[i].sub - Triaged].uses
<1>1. AccelTypes /\ RecordInv /\ FlightInv
  BY DEF AccelSound
<1>2. DEFINE A == Acts(stream)
             s == A \o submitting
             m == Len(stream)
<1>3. /\ A \in Seq(AsActs) /\ submitting \in Seq(AsActs) /\ Len(A) = m
      /\ DOMAIN A = DOMAIN stream /\ \A n \in DOMAIN stream : A[n] = stream[n].act
  BY <1>1, ActsTyped
<1>4. /\ m \in Nat /\ DOMAIN stream = 1..m
  BY <1>1 DEF AccelTypes
<1>5. HIDE DEF A
<1>6. /\ s \in Seq(AsActs) /\ Len(s) = m + Len(submitting) /\ Len(submitting) \in Nat
      /\ \A i \in 1..(m + Len(submitting)) : s[i] = IF i <= m THEN A[i] ELSE submitting[i - m]
      /\ DOMAIN submitting = 1..Len(submitting) /\ DOMAIN s = 1..(m + Len(submitting))
  <2>1. HIDE DEF m
  <2>2. /\ s \in Seq(AsActs) /\ Len(s) = m + Len(submitting)
        /\ \A i \in 1..(m + Len(submitting)) : s[i] = IF i <= m THEN A[i] ELSE submitting[i - m]
    BY <1>3, ConcatProperties
  <2>3. Len(submitting) \in Nat /\ DOMAIN submitting = 1..Len(submitting)
    BY <1>3
  <2>4. HIDE DEF s
  <2>5. DOMAIN s = 1..(m + Len(submitting))
    BY <2>2
  <2>6. QED
    BY <2>2, <2>3, <2>5
<1>7. HIDE DEF s, m
<1>8. PICK i \in DOMAIN s : LastBlas(s, b, i) /\ s[i].index = blasBuilt[b]
  BY <1>1 DEF RecordInv, Recorded, BlasKnown, s, A
<1>9. i <= m
  <2>1. SUFFICES ASSUME ~(i <= m) PROVE FALSE
    OBVIOUS
  <2>2. i - m \in DOMAIN submitting /\ s[i] = submitting[i - m]
    BY <1>4, <1>6, <2>1
  <2>3. BuildsBlas(submitting[i - m], b)
    BY <1>8, <2>2 DEF LastBlas
  <2>4. Built(submitting, b)
    BY <2>2, <2>3 DEF Built
  <2>5. QED
    BY <2>4, BuildingIs
<1>10. /\ i \in DOMAIN stream /\ s[i] = A[i] /\ A[i] = stream[i].act
       /\ \A j \in DOMAIN A : j \in DOMAIN s /\ s[j] = A[j]
  <2>1. \A j \in DOMAIN A : j <= m /\ j \in 1..(m + Len(submitting))
    BY <1>3, <1>4, <1>6
  <2>2. i \in 1..m
    BY <1>4, <1>6, <1>9
  <2>3. QED
    BY <1>3, <1>4, <1>6, <2>1, <2>2
<1>11. LastBlas(A, b, i) /\ stream[i].act.index = blasBuilt[b]
  BY <1>3, <1>8, <1>10 DEF LastBlas
<1>12. stream[i].sub \in Nat
  <2>1. stream[i] \in Streamed
    BY <1>1, <1>10 DEF AccelTypes
  <2>2. QED
    BY <2>1 DEF Streamed
<1>13. /\ stream[i].sub <= asSubmitted
       /\ stream[i].sub > Triaged => b \in inFlight[stream[i].sub - Triaged].uses
  <2>1. stream[i].act.op = "build" /\ b \in stream[i].act.blas
    BY <1>10, <1>11 DEF LastBlas, BuildsBlas
  <2>2. QED
    BY <1>1, <1>10, <2>1 DEF FlightInv
<1>14. stream[i].sub > Triaged => stream[i].sub - Triaged \in DOMAIN inFlight
  <2>1. /\ DOMAIN inFlight = 1..Len(inFlight) /\ Len(inFlight) \in Nat /\ asSubmitted \in Nat
        /\ Triaged = asSubmitted - Len(inFlight)
    BY <1>1 DEF AccelTypes, Triaged
  <2>2. QED
    BY <1>12, <1>13, <2>1
<1>15. QED
  BY <1>10, <1>11, <1>12, <1>13, <1>14 DEF A

(* Where a structure may be listed. *)
LEMMA ListedIs ==
  ASSUME NEW b
  PROVE  Listed(b) <=> \/ In(readyToCompact, b)
                       \/ \E i \in DOMAIN inFlight : In(inFlight[i].readBack, b)
BY DEF Listed, In

(* A preparation lists its structure once, with a submission in flight     *)
(* that is not older than the last build, or as ready.                     *)
LEMMA PrepareLists ==
  ASSUME AccelSound, NEW b \in Blas, PrepareCompact(b), ~gap'
  PROVE  /\ inFlight' \in Seq(Tracked) /\ Len(inFlight') = Len(inFlight)
         /\ DOMAIN inFlight' = DOMAIN inFlight /\ readyToCompact' \in Seq(Blas)
         /\ \A i \in DOMAIN inFlight : /\ inFlight'[i].index = inFlight[i].index
                                       /\ inFlight'[i].uses = inFlight[i].uses
         /\ ListInv'
         /\ \A c \in Blas : c # b =>
               /\ In(readyToCompact', c) <=> In(readyToCompact, c)
               /\ \A i \in DOMAIN inFlight :
                     In(inFlight'[i].readBack, c) <=> In(inFlight[i].readBack, c)
         /\ \/ In(readyToCompact', b) /\ LastUse(b) = {}
            \/ \E i \in LastUse(b) : In(inFlight'[i].readBack, b)
<1>1. AccelTypes /\ ListInv
  BY DEF AccelSound
<1>2. /\ DOMAIN inFlight = 1..Len(inFlight) /\ Len(inFlight) \in Nat
      /\ \A i \in DOMAIN inFlight : inFlight[i] \in Tracked
      /\ readyToCompact \in Seq(Blas)
  BY <1>1 DEF AccelTypes
<1>3. ~Listed(b)
  BY DEF PrepareCompact, Preparable
<1>4. ~In(readyToCompact, b) /\ \A i \in DOMAIN inFlight : ~In(inFlight[i].readBack, b)
  BY <1>3, ListedIs
<1>5. DEFINE new(i) == IF i \in LastUse(b)
                         THEN [inFlight[i] EXCEPT !.readBack = Append(inFlight[i].readBack, b)]
                         ELSE inFlight[i]
<1>6. /\ inFlight' = [i \in DOMAIN inFlight |-> new(i)]
      /\ readyToCompact' = IF LastUse(b) = {} THEN Append(readyToCompact, b) ELSE readyToCompact
  BY DEF PrepareCompact
<1>7. ASSUME NEW i \in DOMAIN inFlight
      PROVE  /\ new(i) \in Tracked
             /\ new(i).index = inFlight[i].index /\ new(i).uses = inFlight[i].uses
             /\ Once(new(i).readBack)
             /\ \A c : In(new(i).readBack, c) <=>
                   In(inFlight[i].readBack, c) \/ (i \in LastUse(b) /\ c = b)
  <2>1. /\ inFlight[i].readBack \in Seq(Blas) /\ inFlight[i].index \in Nat
        /\ inFlight[i].uses \in SUBSET Blas
        /\ inFlight[i] = [index |-> inFlight[i].index, uses |-> inFlight[i].uses,
                          readBack |-> inFlight[i].readBack]
    BY <1>2 DEF Tracked
  <2>2. Once(inFlight[i].readBack) /\ ~In(inFlight[i].readBack, b)
    BY <1>1, <1>4 DEF ListInv
  <2>3. DEFINE l == Append(inFlight[i].readBack, b)
  <2>4. /\ l \in Seq(Blas) /\ Once(l)
        /\ \A c : In(l, c) <=> In(inFlight[i].readBack, c) \/ c = b
    BY <2>1, <2>2, AppendedIn
  <2>5. HIDE DEF l
  <2>6. CASE i \in LastUse(b)
    <3>1. new(i) = [inFlight[i] EXCEPT !.readBack = l]
      BY <2>6 DEF l
    <3>2. new(i) = [index |-> inFlight[i].index, uses |-> inFlight[i].uses, readBack |-> l]
      BY <2>1, <3>1
    <3>3. HIDE DEF new
    <3>4. QED
      BY <2>1, <2>4, <2>6, <3>2 DEF Tracked
  <2>7. CASE i \notin LastUse(b)
    <3>1. new(i) = inFlight[i]
      BY <2>7
    <3>2. HIDE DEF new
    <3>3. QED
      BY <1>2, <2>2, <2>7, <3>1
  <2>8. QED
    BY <2>6, <2>7
<1>8. HIDE DEF new
<1>9. \A i \in DOMAIN inFlight : inFlight'[i] = new(i)
  BY <1>6
<1>10. /\ inFlight' \in Seq(Tracked) /\ Len(inFlight') = Len(inFlight)
       /\ DOMAIN inFlight' = DOMAIN inFlight
  <2>1. inFlight' \in [1..Len(inFlight) -> Tracked]
    BY <1>2, <1>6, <1>7
  <2>2. QED
    BY <1>2, <2>1
<1>11. /\ \A i, j \in LastUse(b) : i = j
       /\ LastUse(b) \subseteq DOMAIN inFlight
  BY <1>1, LastUseIs
<1>12. /\ readyToCompact' \in Seq(Blas) /\ Once(readyToCompact')
       /\ \A c : In(readyToCompact', c) <=> In(readyToCompact, c) \/ (LastUse(b) = {} /\ c = b)
  <2>1. CASE LastUse(b) = {}
    BY <1>1, <1>2, <1>4, <1>6, <2>1, AppendedIn DEF ListInv
  <2>2. CASE LastUse(b) # {}
    BY <1>1, <1>2, <1>6, <2>2 DEF ListInv
  <2>3. QED
    BY <2>1, <2>2
<1>13. /\ \A i \in DOMAIN inFlight : /\ Once(inFlight'[i].readBack)
                                     /\ inFlight'[i].index = inFlight[i].index
                                     /\ inFlight'[i].uses = inFlight[i].uses
       /\ \A i \in DOMAIN inFlight : \A c : In(inFlight'[i].readBack, c) <=>
              In(inFlight[i].readBack, c) \/ (i \in LastUse(b) /\ c = b)
  BY <1>7, <1>9
<1>14. ListInv'
  <2>1. SUFFICES ASSUME NEW c \in Blas, NEW i \in DOMAIN inFlight, In(inFlight'[i].readBack, c)
                 PROVE  /\ ~In(readyToCompact', c)
                        /\ \A j \in DOMAIN inFlight : In(inFlight'[j].readBack, c) => i = j
    BY <1>10, <1>12, <1>13 DEF ListInv
  <2>2. CASE c = b
    BY <1>4, <1>11, <1>12, <1>13, <2>1, <2>2
  <2>3. CASE c # b
    BY <1>1, <1>12, <1>13, <2>1, <2>3 DEF ListInv
  <2>4. QED
    BY <2>2, <2>3
<1>15. \/ In(readyToCompact', b) /\ LastUse(b) = {}
       \/ \E i \in LastUse(b) : In(inFlight'[i].readBack, b)
  BY <1>11, <1>12, <1>13
<1>16. QED
  BY <1>10, <1>12, <1>13, <1>14, <1>15

(* A preparation. *)
LEMMA PrepareSound ==
  ASSUME AccelSound, NEW b \in Blas, PrepareCompact(b), ~gap'
  PROVE  AccelSound'
<1>1. /\ AccelTypes /\ RecordInv /\ CopyInv /\ FlightInv /\ ListInv /\ WaitingInv /\ ReadyInv
      /\ ~asPanic
  BY DEF AccelSound
<1>2. DEFINE w == [st |-> "waiting", size |-> 0]
<1>3. /\ blasBuilt[b] # 0 /\ compactState[b].st = "idle" /\ ~Building(b)
      /\ compactState' = [compactState EXCEPT ![b] = w]
      /\ UNCHANGED <<blasBuilt, tlasBuilt, nextBuild, submitting, copying, pendingCopies,
                     asSubmitted, asDone, stream, asPanic>>
  BY DEF PrepareCompact, Preparable
<1>4. /\ compactState' \in [Blas -> CompactStates] /\ compactState'[b].st = "waiting"
      /\ \A c \in Blas : c # b => compactState'[c] = compactState[c]
  <2>1. w \in CompactStates /\ w.st = "waiting"
    BY DEF CompactStates
  <2>2. compactState \in [Blas -> CompactStates]
    BY <1>1 DEF AccelTypes
  <2>3. HIDE DEF w
  <2>4. QED
    BY <1>3, <2>1, <2>2
<1>5. HIDE DEF w
<1>6. /\ inFlight' \in Seq(Tracked) /\ Len(inFlight') = Len(inFlight)
      /\ DOMAIN inFlight' = DOMAIN inFlight /\ readyToCompact' \in Seq(Blas)
      /\ \A i \in DOMAIN inFlight : /\ inFlight'[i].index = inFlight[i].index
                                    /\ inFlight'[i].uses = inFlight[i].uses
      /\ ListInv'
      /\ \A c \in Blas : c # b =>
            /\ In(readyToCompact', c) <=> In(readyToCompact, c)
            /\ \A i \in DOMAIN inFlight :
                  In(inFlight'[i].readBack, c) <=> In(inFlight[i].readBack, c)
      /\ \/ In(readyToCompact', b) /\ LastUse(b) = {}
         \/ \E i \in LastUse(b) : In(inFlight'[i].readBack, b)
  BY PrepareLists
<1>7. AccelTypes'
  BY <1>1, <1>3, <1>4, <1>6 DEF AccelTypes
<1>8. \A c : Building(c)' <=> Building(c)
  BY <1>3 DEF Building
<1>9. RecordInv' /\ CopyInv'
  BY <1>1, <1>3, <1>8 DEF RecordInv, CopyInv
<1>10. FlightInv'
  <2>1. Triaged' = Triaged
    BY <1>3, <1>6 DEF Triaged
  <2>2. \A n \in DOMAIN stream : stream[n].sub > Triaged =>
            stream[n].sub - Triaged \in DOMAIN inFlight
    <3>1. /\ DOMAIN inFlight = 1..Len(inFlight) /\ Len(inFlight) \in Nat /\ asSubmitted \in Nat
          /\ Triaged = asSubmitted - Len(inFlight)
      BY <1>1 DEF AccelTypes, Triaged
    <3>2. \A n \in DOMAIN stream : stream[n].sub \in Nat
      <4>1. \A n \in DOMAIN stream : stream[n] \in Streamed
        BY <1>1 DEF AccelTypes
      <4>2. QED
        BY <4>1 DEF Streamed
    <3>3. \A n \in DOMAIN stream : stream[n].sub <= asSubmitted
      BY <1>1 DEF FlightInv
    <3>4. QED
      BY <3>1, <3>2, <3>3
  <2>3. \A n \in DOMAIN stream :
            stream[n].sub > Triaged /\ stream[n].act.op = "build" =>
               stream[n].act.blas \subseteq inFlight'[stream[n].sub - Triaged].uses
    BY <1>1, <1>6, <2>2 DEF FlightInv
  <2>4. QED
    BY <1>1, <1>3, <1>6, <2>1, <2>3 DEF FlightInv
<1>11. PICK n \in DOMAIN stream :
            /\ LastBlas(Acts(stream), b, n) /\ stream[n].act.index = blasBuilt[b]
            /\ stream[n].sub \in Nat
            /\ stream[n].sub > Triaged =>
                  /\ stream[n].sub - Triaged \in DOMAIN inFlight
                  /\ b \in inFlight[stream[n].sub - Triaged].uses
  BY <1>3, BuiltKnown
<1>12. \A x : BuiltBy(b, x) <=> BuiltBy(b, x)'
  BY <1>3 DEF BuiltBy
<1>13. \/ In(readyToCompact', b) /\ BuiltBy(b, asDone)
       \/ \E i \in DOMAIN inFlight : In(inFlight'[i].readBack, b) /\ BuiltBy(b, inFlight[i].index)
  <2>1. /\ LastUse(b) \subseteq DOMAIN inFlight
        /\ \A i \in LastUse(b), k \in DOMAIN inFlight : b \in inFlight[k].uses => k <= i
        /\ \A k \in DOMAIN inFlight : b \in inFlight[k].uses => LastUse(b) # {}
    BY <1>1, LastUseIs
  <2>2. /\ Triaged \in Nat /\ Triaged <= asDone /\ asDone \in Nat
        /\ \A i \in DOMAIN inFlight : inFlight[i].index = Triaged + i /\ i \in Nat
    <3>1. /\ DOMAIN inFlight = 1..Len(inFlight) /\ Len(inFlight) \in Nat
          /\ asDone \in Nat /\ asSubmitted \in Nat
      BY <1>1 DEF AccelTypes
    <3>2. Triaged \in Int
      BY <3>1 DEF Triaged
    <3>3. QED
      BY <1>1, <3>1, <3>2 DEF FlightInv
  <2>3. CASE In(readyToCompact', b) /\ LastUse(b) = {}
    <3>1. ~(stream[n].sub > Triaged)
      BY <1>11, <2>1, <2>3
    <3>2. stream[n].sub <= asDone
      BY <1>11, <2>2, <3>1
    <3>3. QED
      BY <1>11, <2>3, <3>2 DEF BuiltBy
  <2>4. CASE \E i \in LastUse(b) : In(inFlight'[i].readBack, b)
    <3>1. PICK i \in LastUse(b) : In(inFlight'[i].readBack, b)
      BY <2>4
    <3>2. i \in DOMAIN inFlight /\ i \in Nat /\ inFlight[i].index = Triaged + i
      BY <2>1, <2>2
    <3>3. stream[n].sub > Triaged => stream[n].sub - Triaged <= i
      BY <1>11, <2>1
    <3>4. stream[n].sub <= inFlight[i].index
      BY <1>11, <2>2, <3>2, <3>3
    <3>5. QED
      BY <1>11, <3>1, <3>2, <3>4 DEF BuiltBy
  <2>5. QED
    BY <1>6, <2>3, <2>4
<1>14. DEFINE Then(c, x) == \E i \in DOMAIN stream :
                               /\ LastBlas(Acts(stream), c, i)
                               /\ stream[i].act.index = blasBuilt[c] /\ stream[i].sub <= x
<1>15. \A c, x : BuiltBy(c, x) <=> Then(c, x)
  BY DEF BuiltBy
<1>16. WaitingInv'
  <2>1. SUFFICES ASSUME NEW c \in Blas, compactState'[c].st = "waiting"
                 PROVE  /\ ~Building(c)
                        /\ \/ In(readyToCompact', c) /\ Then(c, asDone)
                           \/ \E i \in DOMAIN inFlight :
                                 In(inFlight'[i].readBack, c) /\ Then(c, inFlight'[i].index)
    BY <1>3, <1>6, <1>8 DEF WaitingInv, BuiltBy
  <2>2. HIDE DEF Then
  <2>3. CASE c = b
    BY <1>3, <1>6, <1>13, <1>15, <2>3
  <2>4. CASE c # b
    <3>1. compactState[c].st = "waiting"
      BY <1>4, <2>1, <2>4
    <3>2. /\ ~Building(c)
          /\ \/ In(readyToCompact, c) /\ BuiltBy(c, asDone)
             \/ \E i \in DOMAIN inFlight :
                   In(inFlight[i].readBack, c) /\ BuiltBy(c, inFlight[i].index)
      BY <1>1, <3>1 DEF WaitingInv
    <3>3. QED
      BY <1>6, <1>15, <2>4, <3>2
  <2>5. QED
    BY <2>3, <2>4
<1>17. ReadyInv'
  <2>1. SUFFICES ASSUME NEW c \in Blas, compactState'[c].st = "ready"
                 PROVE  /\ ~Building(c) /\ ~Listed(c)'
                        /\ compactState'[c].size = blasBuilt[c] /\ Then(c, asDone)
    BY <1>3, <1>8 DEF ReadyInv, BuiltBy
  <2>2. HIDE DEF Then
  <2>3. c # b /\ compactState'[c] = compactState[c]
    BY <1>4, <2>1
  <2>4. ~Building(c) /\ ~Listed(c) /\ compactState[c].size = blasBuilt[c] /\ BuiltBy(c, asDone)
    BY <1>1, <2>1, <2>3 DEF ReadyInv
  <2>5. Listed(c)' <=> \/ In(readyToCompact', c)
                       \/ \E i \in DOMAIN inFlight' : In(inFlight'[i].readBack, c)
    BY DEF Listed, In
  <2>6. ~Listed(c)'
    BY <1>6, <2>3, <2>4, <2>5, ListedIs
  <2>7. QED
    BY <1>15, <2>3, <2>4, <2>6
<1>18. QED
  BY <1>1, <1>3, <1>6, <1>7, <1>9, <1>10, <1>16, <1>17 DEF AccelSound

--------------------------------------------------------------------------------
(* The steps: polling *)

(* What a poll leaves in flight. *)
LEMMA PollLeaves ==
  ASSUME AccelTypes, FlightInv, NEW maps, AsPoll(maps)
  PROVE  /\ DoneCount \in Nat /\ DoneCount = asDone - Triaged /\ Triaged \in Nat
         /\ asDone \in Nat
         /\ inFlight' \in Seq(Tracked) /\ Triaged' = asDone
         /\ \A i \in DOMAIN inFlight' :
               /\ i \in Nat /\ i + DoneCount \in DOMAIN inFlight
               /\ inFlight'[i] = inFlight[i + DoneCount]
         /\ \A i \in DOMAIN inFlight : i \in Nat
         /\ \A i \in DOMAIN inFlight : i \notin 1..DoneCount =>
               i - DoneCount \in DOMAIN inFlight' /\ (i - DoneCount) + DoneCount = i
<1>1. DEFINE d == DoneCount
             n == Len(inFlight)
<1>2. /\ inFlight \in Seq(Tracked) /\ n \in Nat /\ DOMAIN inFlight = 1..n
      /\ asDone \in Nat /\ asSubmitted \in Nat
  BY DEF AccelTypes
<1>3. d = asDone - Triaged /\ d \in 0..n
  BY DoneIs
<1>4. Triaged = asSubmitted - n /\ 0 <= Triaged /\ Triaged \in Nat
  BY <1>2 DEF FlightInv, Triaged
<1>5. inFlight' = SubSeq(inFlight, d + 1, n) /\ asSubmitted' = asSubmitted
  BY DEF AsPoll
<1>6. HIDE DEF d, n
<1>7. d + 1 \in 1..(n + 1) /\ n \in 0..n /\ d \in Nat
  BY <1>2, <1>3
<1>8. /\ inFlight' \in Seq(Tracked) /\ Len(inFlight') = n - d
      /\ \A i \in 1..(n - d) : inFlight'[i] = inFlight[i + d]
  <2>1. SubSeq(inFlight, d + 1, n) \in Seq(Tracked)
    <3>1. \A i \in (d + 1)..n : inFlight[i] \in Tracked
      BY <1>2, <1>7
    <3>2. QED
      BY <1>2, <1>7, <3>1
  <2>2. Len(SubSeq(inFlight, d + 1, n)) = n - d
    BY <1>2, <1>3, <1>7
  <2>3. \A i \in 1..(n - d) : SubSeq(inFlight, d + 1, n)[i] = inFlight[i + d]
    BY <1>2, <1>3, <1>7
  <2>4. QED
    BY <1>5, <2>1, <2>2, <2>3
<1>9. DOMAIN inFlight' = 1..(n - d)
  BY <1>8
<1>10. \A i \in 1..(n - d) : i \in Nat /\ i + d \in 1..n
  BY <1>2, <1>7, <1>3
<1>11. \A i \in 1..n : i \notin 1..d => i - d \in 1..(n - d) /\ (i - d) + d = i
  BY <1>2, <1>7, <1>3
<1>12. Triaged' = asDone
  <2>1. Len(inFlight') = n - d
    BY <1>8
  <2>2. asSubmitted - (n - d) = asDone
    BY <1>2, <1>3, <1>4, <1>7
  <2>3. QED
    BY <1>5, <2>1, <2>2 DEF Triaged
<1>13. /\ \A i \in DOMAIN inFlight' :
             i \in Nat /\ i + d \in DOMAIN inFlight /\ inFlight'[i] = inFlight[i + d]
       /\ \A i \in DOMAIN inFlight : i \in Nat
       /\ \A i \in DOMAIN inFlight : i \notin 1..d =>
             i - d \in DOMAIN inFlight' /\ (i - d) + d = i
  <2>1. \A i \in 1..n : i \in Nat
    BY <1>2
  <2>2. QED
    BY <1>2, <1>8, <1>9, <1>10, <1>11, <2>1
<1>14. QED
  BY <1>2, <1>3, <1>4, <1>7, <1>8, <1>12, <1>13 DEF d

(* A waiting structure that is read back has its build ended, and is no    *)
(* longer listed; one that is not read back is with a later submission.    *)
LEMMA WaitingRead ==
  ASSUME AccelSound, NEW maps, AsPoll(maps), NEW b \in Blas, compactState[b].st = "waiting"
  PROVE  /\ In(ReadBack, b) =>
               /\ BuiltBy(b, asDone)
               /\ \A i \in DOMAIN inFlight' : ~In(inFlight'[i].readBack, b)
         /\ ~In(ReadBack, b) =>
               \E i \in DOMAIN inFlight' :
                  In(inFlight'[i].readBack, b) /\ BuiltBy(b, inFlight'[i].index)
<1>1. AccelTypes /\ FlightInv /\ ListInv /\ WaitingInv
  BY DEF AccelSound
<1>2. /\ DoneCount \in Nat /\ DoneCount = asDone - Triaged /\ Triaged \in Nat /\ asDone \in Nat
      /\ \A i \in DOMAIN inFlight' :
            /\ i \in Nat /\ i + DoneCount \in DOMAIN inFlight
            /\ inFlight'[i] = inFlight[i + DoneCount]
      /\ \A i \in DOMAIN inFlight : i \in Nat
      /\ \A i \in DOMAIN inFlight : i \notin 1..DoneCount =>
            i - DoneCount \in DOMAIN inFlight' /\ (i - DoneCount) + DoneCount = i
  BY <1>1, PollLeaves
<1>3. In(ReadBack, b) <=> \/ In(readyToCompact, b)
                          \/ \E i \in 1..DoneCount : In(inFlight[i].readBack, b)
  BY <1>1, ReadBackHas
<1>4. \A i \in 1..DoneCount : i \in DOMAIN inFlight
  <2>1. DoneCount \in 0..Len(inFlight) /\ DOMAIN inFlight = 1..Len(inFlight)
    BY <1>1, DoneIs DEF AccelTypes
  <2>2. Len(inFlight) \in Nat
    BY <1>1 DEF AccelTypes
  <2>3. QED
    BY <2>1, <2>2
<1>5. \A i \in DOMAIN inFlight : In(inFlight[i].readBack, b) =>
         /\ ~In(readyToCompact, b)
         /\ \A j \in DOMAIN inFlight : In(inFlight[j].readBack, b) => i = j
  BY <1>1 DEF ListInv
<1>6. \/ In(readyToCompact, b) /\ BuiltBy(b, asDone)
      \/ \E i \in DOMAIN inFlight :
            In(inFlight[i].readBack, b) /\ BuiltBy(b, inFlight[i].index)
  BY <1>1 DEF WaitingInv
<1>7. CASE In(readyToCompact, b) /\ BuiltBy(b, asDone)
  BY <1>2, <1>3, <1>5, <1>7
<1>8. CASE \E i \in DOMAIN inFlight :
               In(inFlight[i].readBack, b) /\ BuiltBy(b, inFlight[i].index)
  <2>1. PICK i \in DOMAIN inFlight : In(inFlight[i].readBack, b) /\ BuiltBy(b, inFlight[i].index)
    BY <1>8
  <2>2. In(ReadBack, b) <=> i \in 1..DoneCount
    BY <1>3, <1>4, <1>5, <2>1
  <2>3. CASE i \in 1..DoneCount
    <3>1. inFlight[i].index <= asDone /\ inFlight[i].index \in Nat
      BY <1>1, <1>2, <2>3 DEF FlightInv
    <3>2. \A k \in DOMAIN stream : stream[k].sub \in Nat
      <4>1. \A k \in DOMAIN stream : stream[k] \in Streamed
        BY <1>1 DEF AccelTypes
      <4>2. QED
        BY <4>1 DEF Streamed
    <3>3. \A k \in DOMAIN stream : stream[k].sub <= inFlight[i].index => stream[k].sub <= asDone
      BY <1>2, <3>1, <3>2
    <3>4. BuiltBy(b, asDone)
      BY <2>1, <3>3 DEF BuiltBy
    <3>5. ASSUME NEW k \in DOMAIN inFlight', In(inFlight'[k].readBack, b) PROVE FALSE
      <4>1. k + DoneCount = i
        BY <1>2, <1>5, <2>1, <3>5
      <4>2. k >= 1
        <5>1. inFlight' \in Seq(Tracked)
          BY <1>1, PollLeaves
        <5>2. QED
          BY <5>1
      <4>3. QED
        BY <1>2, <2>3, <4>1, <4>2
    <3>6. QED
      BY <2>2, <2>3, <3>4, <3>5
  <2>4. CASE i \notin 1..DoneCount
    <3>1. i - DoneCount \in DOMAIN inFlight' /\ (i - DoneCount) + DoneCount = i
      BY <1>2, <2>4
    <3>2. inFlight'[i - DoneCount] = inFlight[i]
      BY <1>2, <3>1
    <3>3. QED
      BY <2>1, <2>2, <2>4, <3>1, <3>2
  <2>5. QED
    BY <2>3, <2>4
<1>9. QED
  BY <1>6, <1>7, <1>8

(* A poll: what is read back becomes ready, or idle. *)
LEMMA PollSound ==
  ASSUME AccelSound, NEW maps \in BOOLEAN, AsPoll(maps)
  PROVE  AccelSound'
<1>1. /\ AccelTypes /\ RecordInv /\ CopyInv /\ FlightInv /\ ListInv /\ WaitingInv /\ ReadyInv
      /\ ~asPanic
  BY DEF AccelSound
<1>2. DEFINE new(b) == IF Times(b) = 0 \/ compactState[b].st # "waiting" THEN compactState[b]
                       ELSE IF maps THEN [st |-> "ready", size |-> SizeWritten(b)]
                       ELSE IdleState
<1>3. /\ readyToCompact' = <<>>
      /\ asPanic' = (asPanic \/ \E b \in Blas :
            \/ Times(b) > 0 /\ compactState[b].st = "ready"
            \/ Times(b) > 1 /\ compactState[b].st = "waiting" /\ maps)
      /\ compactState' = [b \in Blas |-> new(b)]
      /\ UNCHANGED <<blasBuilt, tlasBuilt, nextBuild, submitting, copying, pendingCopies,
                     asSubmitted, asDone, stream>>
  BY DEF AsPoll
<1>4. \A b \in Blas : /\ In(ReadBack, b) => Times(b) = 1
                      /\ ~In(ReadBack, b) => Times(b) = 0
  <2>1. ReadBack \in Seq(Blas) /\ Once(ReadBack)
    BY <1>1, ReadBackHas
  <2>2. QED
    BY <2>1, TimesIs
<1>5. /\ DoneCount \in Nat /\ DoneCount = asDone - Triaged /\ Triaged \in Nat /\ asDone \in Nat
      /\ inFlight' \in Seq(Tracked) /\ Triaged' = asDone
      /\ \A i \in DOMAIN inFlight' :
            /\ i \in Nat /\ i + DoneCount \in DOMAIN inFlight
            /\ inFlight'[i] = inFlight[i + DoneCount]
      /\ \A i \in DOMAIN inFlight : i \in Nat
      /\ \A i \in DOMAIN inFlight : i \notin 1..DoneCount =>
            i - DoneCount \in DOMAIN inFlight' /\ (i - DoneCount) + DoneCount = i
  BY <1>1, PollLeaves
<1>6. \A b \in Blas : In(ReadBack, b) => Listed(b)
  <2>1. DoneCount \in 0..Len(inFlight) /\ DOMAIN inFlight = 1..Len(inFlight)
        /\ Len(inFlight) \in Nat
    BY <1>1, DoneIs DEF AccelTypes
  <2>2. \A i \in 1..DoneCount : i \in DOMAIN inFlight
    BY <2>1
  <2>3. \A b \in Blas : In(ReadBack, b) <=>
               \/ In(readyToCompact, b)
               \/ \E i \in 1..DoneCount : In(inFlight[i].readBack, b)
    BY <1>1, ReadBackHas
  <2>4. QED
    BY <2>2, <2>3, ListedIs
<1>7. ASSUME NEW b \in Blas
      PROVE  /\ new(b) \in CompactStates
             /\ new(b).st = "waiting" => compactState[b].st = "waiting" /\ ~In(ReadBack, b)
             /\ new(b).st = "ready" =>
                   \/ compactState[b].st = "ready" /\ new(b) = compactState[b]
                   \/ /\ compactState[b].st = "waiting" /\ In(ReadBack, b)
                      /\ new(b).size = blasBuilt[b]
             /\ ~(Times(b) > 0 /\ compactState[b].st = "ready")
             /\ ~(Times(b) > 1)
  <2>1. compactState[b] \in CompactStates /\ blasBuilt[b] \in Nat
    BY <1>1 DEF AccelTypes
  <2>2. ~(Times(b) > 1)
    BY <1>4
  <2>3. ~(Times(b) > 0 /\ compactState[b].st = "ready")
    BY <1>1, <1>4, <1>6 DEF ReadyInv
  <2>4. CASE Times(b) = 0 \/ compactState[b].st # "waiting"
    <3>1. new(b) = compactState[b]
      BY <2>4
    <3>2. HIDE DEF new
    <3>3. QED
      BY <1>4, <2>1, <2>2, <2>3, <2>4, <3>1
  <2>5. CASE ~(Times(b) = 0 \/ compactState[b].st # "waiting")
    <3>1. In(ReadBack, b) /\ compactState[b].st = "waiting"
      BY <1>4, <2>5
    <3>2. SizeWritten(b) = blasBuilt[b]
      BY <1>1, <3>1, WaitingRead, SizeIs
    <3>3. new(b) = IF maps THEN [st |-> "ready", size |-> blasBuilt[b]] ELSE IdleState
      BY <2>5, <3>2
    <3>4. HIDE DEF new
    <3>5. CASE maps
      <4>1. new(b) = [st |-> "ready", size |-> blasBuilt[b]]
        BY <3>3, <3>5
      <4>2. QED
        BY <2>1, <2>2, <2>3, <3>1, <4>1 DEF CompactStates
    <3>6. CASE ~maps
      <4>1. new(b) = [st |-> "idle", size |-> 0]
        BY <3>3, <3>6 DEF IdleState
      <4>2. QED
        BY <2>1, <2>2, <2>3, <3>1, <4>1 DEF CompactStates
    <3>7. QED
      BY <3>5, <3>6
  <2>6. QED
    BY <2>4, <2>5
<1>8. HIDE DEF new
<1>9. \A b \in Blas : compactState'[b] = new(b)
  BY <1>3
<1>10. AccelTypes'
  <2>1. compactState' \in [Blas -> CompactStates]
    BY <1>3, <1>7
  <2>2. readyToCompact' \in Seq(Blas)
    BY <1>3
  <2>3. QED
    BY <1>1, <1>3, <1>5, <2>1, <2>2 DEF AccelTypes
<1>11. \A b : Building(b)' <=> Building(b)
  BY <1>3 DEF Building
<1>12. RecordInv' /\ CopyInv'
  BY <1>1, <1>3, <1>11 DEF RecordInv, CopyInv
<1>13. \A n \in DOMAIN stream : stream[n].sub \in Nat /\ stream[n].sub <= asSubmitted
  <2>1. \A n \in DOMAIN stream : stream[n] \in Streamed
    BY <1>1 DEF AccelTypes
  <2>2. \A n \in DOMAIN stream : stream[n].sub \in Nat
    BY <2>1 DEF Streamed
  <2>3. QED
    BY <1>1, <2>2 DEF FlightInv
<1>14. FlightInv'
  <2>1. /\ 0 <= asDone /\ asDone <= asSubmitted /\ asSubmitted \in Nat
    BY <1>1, <1>5 DEF FlightInv, AccelTypes
  <2>2. \A i \in DOMAIN inFlight' : inFlight'[i].index = asDone + i
    <3>1. \A i \in DOMAIN inFlight : inFlight[i].index = Triaged + i
      BY <1>1 DEF FlightInv
    <3>2. \A i \in DOMAIN inFlight' : inFlight'[i].index = Triaged + (i + DoneCount)
      BY <1>5, <3>1
    <3>3. QED
      BY <1>5, <3>2
  <2>3. ASSUME NEW n \in DOMAIN stream, stream[n].sub > asDone, stream[n].act.op = "build"
        PROVE  stream[n].act.blas \subseteq inFlight'[stream[n].sub - asDone].uses
    <3>1. DEFINE i == stream[n].sub - Triaged
    <3>2. /\ DOMAIN inFlight = 1..Len(inFlight) /\ Len(inFlight) \in Nat
          /\ Triaged = asSubmitted - Len(inFlight)
      BY <1>1 DEF AccelTypes, Triaged
    <3>3. /\ stream[n].sub > Triaged /\ i \in DOMAIN inFlight /\ i \notin 1..DoneCount
          /\ i - DoneCount = stream[n].sub - asDone
      BY <1>5, <1>13, <2>1, <2>3, <3>2
    <3>4. stream[n].act.blas \subseteq inFlight[i].uses
      BY <1>1, <2>3, <3>3 DEF FlightInv
    <3>5. HIDE DEF i
    <3>6. i - DoneCount \in DOMAIN inFlight' /\ (i - DoneCount) + DoneCount = i
      BY <1>5, <3>3
    <3>7. inFlight'[i - DoneCount] = inFlight[i]
      BY <1>5, <3>6
    <3>8. QED
      BY <3>3, <3>4, <3>7
  <2>4. \A n \in DOMAIN stream : 1 <= stream[n].sub
    BY <1>1 DEF FlightInv
  <2>5. /\ asDone \in Nat /\ asDone <= asDone
    BY <1>5
  <2>6. QED
    BY <1>3, <1>5, <1>13, <2>1, <2>2, <2>3, <2>4, <2>5 DEF FlightInv
<1>15. ListInv'
  <2>1. Once(<<>>) /\ \A b : ~In(<<>>, b)
    BY DEF Once, In
  <2>2. \A i \in DOMAIN inFlight' : Once(inFlight'[i].readBack)
    BY <1>1, <1>5 DEF ListInv
  <2>3. ASSUME NEW b \in Blas, NEW i \in DOMAIN inFlight', NEW j \in DOMAIN inFlight',
               In(inFlight'[i].readBack, b), In(inFlight'[j].readBack, b)
        PROVE  i = j
    <3>1. i + DoneCount = j + DoneCount
      BY <1>1, <1>5, <2>3 DEF ListInv
    <3>2. QED
      BY <1>5, <3>1
  <2>4. QED
    BY <1>3, <2>1, <2>2, <2>3 DEF ListInv
<1>16. DEFINE Then(b, x) == \E i \in DOMAIN stream :
                               /\ LastBlas(Acts(stream), b, i)
                               /\ stream[i].act.index = blasBuilt[b] /\ stream[i].sub <= x
<1>17. \A b, x : BuiltBy(b, x) <=> Then(b, x)
  BY DEF BuiltBy
<1>18. WaitingInv'
  <2>1. SUFFICES ASSUME NEW b \in Blas, new(b).st = "waiting"
                 PROVE  /\ ~Building(b)
                        /\ \E i \in DOMAIN inFlight' :
                              In(inFlight'[i].readBack, b) /\ Then(b, inFlight'[i].index)
    BY <1>3, <1>9, <1>11 DEF WaitingInv, BuiltBy
  <2>2. compactState[b].st = "waiting" /\ ~In(ReadBack, b)
    BY <1>7, <2>1
  <2>3. ~Building(b)
    BY <1>1, <2>2 DEF WaitingInv
  <2>4. \E i \in DOMAIN inFlight' :
           In(inFlight'[i].readBack, b) /\ BuiltBy(b, inFlight'[i].index)
    BY <2>2, WaitingRead
  <2>5. HIDE DEF Then
  <2>6. QED
    BY <1>17, <2>3, <2>4
<1>19. ReadyInv'
  <2>1. SUFFICES ASSUME NEW b \in Blas, new(b).st = "ready"
                 PROVE  /\ ~Building(b)
                        /\ \A i \in DOMAIN inFlight' : ~In(inFlight'[i].readBack, b)
                        /\ new(b).size = blasBuilt[b] /\ Then(b, asDone)
    BY <1>3, <1>9, <1>11 DEF ReadyInv, BuiltBy, Listed, In
  <2>2. HIDE DEF Then
  <2>3. CASE compactState[b].st = "ready" /\ new(b) = compactState[b]
    <3>1. /\ ~Building(b) /\ ~Listed(b)
          /\ compactState[b].size = blasBuilt[b] /\ BuiltBy(b, asDone)
      BY <1>1, <2>3 DEF ReadyInv
    <3>2. \A i \in DOMAIN inFlight : ~In(inFlight[i].readBack, b)
      BY <3>1, ListedIs
    <3>3. QED
      BY <1>5, <1>17, <2>3, <3>1, <3>2
  <2>4. CASE /\ compactState[b].st = "waiting" /\ In(ReadBack, b)
             /\ new(b).size = blasBuilt[b]
    <3>1. ~Building(b)
      BY <1>1, <2>4 DEF WaitingInv
    <3>2. BuiltBy(b, asDone) /\ \A i \in DOMAIN inFlight' : ~In(inFlight'[i].readBack, b)
      BY <2>4, WaitingRead
    <3>3. QED
      BY <1>17, <2>4, <3>1, <3>2
  <2>5. QED
    BY <1>7, <2>1, <2>3, <2>4
<1>20. ~asPanic'
  BY <1>1, <1>3, <1>7
<1>21. QED
  BY <1>10, <1>12, <1>14, <1>15, <1>18, <1>19, <1>20 DEF AccelSound

--------------------------------------------------------------------------------
(* The theorems *)

(* Nothing was submitted yet. *)
LEMMA AccelBegins ==
  ASSUME AccelInit
  PROVE  AccelSound
<1>1. /\ compactState = [b \in Blas |-> IdleState] /\ blasBuilt = [b \in Blas |-> 0]
      /\ tlasBuilt = [t \in Tlas |-> [index |-> 0, deps |-> {}]]
      /\ nextBuild = 1 /\ submitting = <<>> /\ copying = <<>> /\ pendingCopies = <<>>
      /\ inFlight = <<>> /\ readyToCompact = <<>> /\ asSubmitted = 0 /\ asDone = 0
      /\ stream = <<>> /\ asPanic = FALSE
  BY DEF AccelInit, Nothing
<1>2. IdleState \in CompactStates /\ IdleState.st = "idle"
  BY DEF IdleState, CompactStates
<1>3. AccelTypes
  <2>1. compactState \in [Blas -> CompactStates]
    BY <1>1, <1>2
  <2>2. tlasBuilt \in [Tlas -> TlasStates]
    BY <1>1 DEF TlasStates
  <2>3. QED
    BY <1>1, <2>1, <2>2 DEF AccelTypes, Nothing
<1>4. RecordInv
  <2>1. Acts(<<>>) = <<>>
    BY DEF Acts
  <2>2. <<>> \o <<>> = <<>>
    OBVIOUS
  <2>3. \A t \in Tlas : tlasBuilt[t].index = 0
    BY <1>1
  <2>4. Recorded(<<>>, blasBuilt, tlasBuilt, 1)
    BY <1>1, <2>3 DEF Recorded, BuildsRise, BlasKnown, TlasKnown, UsesRight
  <2>5. QED
    BY <1>1, <2>1, <2>2, <2>4 DEF RecordInv
<1>5. CopyInv /\ ListInv
  BY <1>1 DEF CopyInv, ListInv, Once, Nothing
<1>6. FlightInv
  <2>1. Triaged = 0
    <3>1. Len(<<>>) = 0
      OBVIOUS
    <3>2. Len(inFlight) = 0 /\ asSubmitted = 0
      BY <1>1, <3>1
    <3>3. QED
      BY <3>2 DEF Triaged
  <2>2. QED
    BY <1>1, <2>1 DEF FlightInv
<1>7. WaitingInv /\ ReadyInv
  BY <1>1, <1>2 DEF WaitingInv, ReadyInv
<1>8. QED
  BY <1>1, <1>3, <1>4, <1>5, <1>6, <1>7 DEF AccelSound

(* Every step that leads into no gap keeps the invariant. *)
LEMMA AccelKeeps ==
  ASSUME AccelInv, [AccelNext]_asVars
  PROVE  AccelInv'
<1>1. CASE AccelNext
  <2>1. SUFFICES ASSUME ~gap' PROVE AccelSound'
    BY DEF AccelInv
  <2>2. ~gap /\ AccelSound
    BY <1>1 DEF AccelNext, AccelInv
  <2>3. CASE \E batch \in AsBatch, fails \in BOOLEAN : SubmitValidate(batch, fails)
    BY <2>1, <2>2, <2>3, ValidateSound
  <2>4. CASE SubmitTrack
    BY <2>2, <2>4, TrackSound
  <2>5. CASE GpuEnds
    BY <2>2, <2>5, GpuSound
  <2>6. CASE CompactRecord
    BY <2>2, <2>6, RecordSound
  <2>7. CASE \E b \in Blas : PrepareCompact(b)
    BY <2>1, <2>2, <2>7, PrepareSound
  <2>8. CASE \E b \in Blas : CompactRead(b)
    BY <2>1, <2>2, <2>8, ReadSound
  <2>9. CASE \E maps \in BOOLEAN : AsPoll(maps)
    BY <2>2, <2>9, PollSound
  <2>10. QED
    BY <1>1, <2>3, <2>4, <2>5, <2>6, <2>7, <2>8, <2>9 DEF AccelNext
<1>2. CASE UNCHANGED asVars
  <2>1. UNCHANGED <<compactState, blasBuilt, tlasBuilt, nextBuild, submitting, copying,
                    pendingCopies, inFlight, readyToCompact, asSubmitted, asDone, stream,
                    asPanic, gap>>
    BY <1>2 DEF asVars
  <2>2. QED
    BY <2>1 DEF AccelInv, AccelSound, AccelTypes, RecordInv, CopyInv, FlightInv, ListInv,
                WaitingInv, ReadyInv, BuiltBy, Building, Listed, Triaged
<1>3. QED
  BY <1>1, <1>2

(* The inductive invariant. *)
THEOREM AccelAlwaysSound == AccelSpec => []AccelInv
<1>1. AccelInit => AccelInv
  BY AccelBegins DEF AccelInv
<1>2. AccelInv /\ [AccelNext]_asVars => AccelInv'
  BY AccelKeeps
<1>3. QED
  BY <1>1, <1>2, PTL DEF AccelSpec

(* The last of a set of positions. *)
LEMMA LastOfIs ==
  ASSUME NEW S \in SUBSET Nat, NEW i \in S, \A j \in S : j <= i
  PROVE  LastOf(S) = i
<1>1. \A j \in S : i >= j
  OBVIOUS
<1>2. DEFINE c == LastOf(S)
<1>3. c \in S /\ \A j \in S : c >= j
  BY <1>1 DEF LastOf
<1>4. HIDE DEF c
<1>5. c >= i /\ c <= i /\ c \in Nat /\ i \in Nat
  BY <1>3
<1>6. QED
  BY <1>5 DEF c

(* Queue::compact_blas makes its copy with the size of the last build, and *)
(* the GPU finds that build in the structure that it copies.               *)
THEOREM CompactSizeAlwaysRight == AccelSpec => []CompactSizeRight
<1>1. AccelInv => CompactSizeRight
  <2>1. SUFFICES ASSUME AccelSound
                 PROVE  /\ \A b \in Blas : compactState[b].st = "ready" =>
                              compactState[b].size = blasBuilt[b] /\ SizeWritten(b) = blasBuilt[b]
                        /\ \A n \in DOMAIN stream : stream[n].act.op = "copy" =>
                              /\ Builds(stream[n].act.blas, n) # {}
                              /\ stream[LastOf(Builds(stream[n].act.blas, n))].act.index =
                                    stream[n].act.size
    BY DEF AccelInv, CompactSizeRight
  <2>2. AccelTypes /\ ReadyInv /\ CopyInv
    BY <2>1 DEF AccelSound
  <2>3. \A b \in Blas : compactState[b].st = "ready" =>
           compactState[b].size = blasBuilt[b] /\ SizeWritten(b) = blasBuilt[b]
    BY <2>2, SizeIs DEF ReadyInv
  <2>4. ASSUME NEW n \in DOMAIN stream, stream[n].act.op = "copy"
        PROVE  /\ Builds(stream[n].act.blas, n) # {}
               /\ stream[LastOf(Builds(stream[n].act.blas, n))].act.index = stream[n].act.size
    <3>1. DEFINE b == stream[n].act.blas
                 S == Builds(b, n)
    <3>2. DOMAIN stream = 1..Len(stream) /\ Len(stream) \in Nat
      BY <2>2 DEF AccelTypes
    <3>3. /\ DOMAIN Acts(stream) = DOMAIN stream
          /\ \A i \in DOMAIN stream : Acts(stream)[i] = stream[i].act
      BY DEF Acts
    <3>4. CopyRight(Acts(stream), n)
      BY <2>2, <2>4 DEF CopyInv
    <3>5. PICK i \in DOMAIN stream :
             /\ i <= n /\ BuildsBlas(stream[i].act, b) /\ stream[i].act.index = stream[n].act.size
             /\ \A j \in DOMAIN stream : i < j /\ j <= n => ~BuildsBlas(stream[j].act, b)
      BY <3>3, <3>4 DEF CopyRight
    <3>6. \A j \in 1..n : j \in DOMAIN stream
      BY <3>2
    <3>7. i \in 1..n
      BY <3>2, <3>5
    <3>8. S = {j \in 1..n : BuildsBlas(stream[j].act, b)}
      BY DEF Builds, BuildsBlas
    <3>9. HIDE DEF S, b
    <3>10. S \in SUBSET Nat /\ i \in S /\ \A j \in S : j <= i
      BY <3>2, <3>5, <3>6, <3>7, <3>8
    <3>11. LastOf(S) = i
      BY <3>10, LastOfIs
    <3>12. QED
      BY <3>5, <3>10, <3>11 DEF S, b
  <2>5. QED
    BY <2>3, <2>4
<1>2. QED
  BY <1>1, AccelAlwaysSound, PTL

(* The GPU uses a top-level structure after its build, with bottom-level   *)
(* structures that were built before it and not since: what the indices    *)
(* of Queue::submit's validation are compared for.                         *)
THEOREM TlasAlwaysCurrent == AccelSpec => []TlasCurrent
<1>1. AccelInv => TlasCurrent
  <2>1. SUFFICES ASSUME AccelSound, NEW n \in DOMAIN stream, stream[n].act.op = "use",
                        NEW t \in stream[n].act.tlas
                 PROVE  LET S == {i \in 1..n : stream[i].act.op = "build" /\ t \in stream[i].act.tlas}
                        IN  /\ S # {}
                            /\ \A b \in stream[LastOf(S)].act.deps :
                                  /\ Builds(b, n) # {}
                                  /\ LastOf(Builds(b, n)) <= LastOf(S)
    BY DEF AccelInv, TlasCurrent
  <2>2. AccelTypes /\ RecordInv
    BY <2>1 DEF AccelSound
  <2>3. DEFINE s == Acts(stream) \o submitting
               S == {i \in 1..n : BuildsTlas(stream[i].act, t)}
  <2>4. /\ n \in Nat /\ \A j \in 1..n : j \in DOMAIN stream
        /\ \A j \in DOMAIN s : j \in Nat /\ 1 <= j
        /\ \A j \in DOMAIN stream : j \in DOMAIN s /\ s[j] = stream[j].act
    <3>1. /\ Acts(stream) \in Seq(AsActs) /\ submitting \in Seq(AsActs)
          /\ DOMAIN Acts(stream) = DOMAIN stream
          /\ \A j \in DOMAIN stream : Acts(stream)[j] = stream[j].act
      BY <2>2, ActsTyped
    <3>2. DOMAIN stream = 1..Len(stream) /\ Len(stream) \in Nat
      BY <2>2 DEF AccelTypes
    <3>3. DEFINE A == Acts(stream)
    <3>4. HIDE DEF A
    <3>5. /\ A \o submitting \in Seq(AsActs) /\ Len(A \o submitting) = Len(A) + Len(submitting)
          /\ \A i \in 1..(Len(A) + Len(submitting)) : (A \o submitting)[i] =
                IF i <= Len(A) THEN A[i] ELSE submitting[i - Len(A)]
      BY <3>1, ConcatProperties DEF A
    <3>6. Len(A) \in Nat /\ Len(submitting) \in Nat /\ DOMAIN A = 1..Len(A)
      BY <3>1 DEF A
    <3>7. DOMAIN (A \o submitting) = 1..(Len(A) + Len(submitting))
      BY <3>5
    <3>8. \A j \in 1..Len(A) : j <= Len(A) /\ j \in 1..(Len(A) + Len(submitting))
      BY <3>6
    <3>9. \A j \in DOMAIN A : j \in DOMAIN (A \o submitting) /\ (A \o submitting)[j] = A[j]
      BY <3>5, <3>6, <3>7, <3>8
    <3>10. \A j \in DOMAIN (A \o submitting) : j \in Nat /\ 1 <= j
      BY <3>6, <3>7
    <3>11. n \in Nat /\ \A j \in 1..n : j \in DOMAIN stream
      BY <3>2
    <3>12. QED
      BY <3>1, <3>9, <3>10, <3>11 DEF A
  <2>5. UseRight(s, n, t)
    BY <2>1, <2>2, <2>4 DEF RecordInv, Recorded, UsesRight
  <2>6. HIDE DEF s
  <2>7. PICK i \in DOMAIN s :
          /\ i <= n /\ BuildsTlas(s[i], t)
          /\ \A j \in DOMAIN s : i < j /\ j <= n => ~BuildsTlas(s[j], t)
          /\ \A b \in s[i].deps : \E j \in DOMAIN s :
                /\ j <= i /\ BuildsBlas(s[j], b)
                /\ \A k \in DOMAIN s : j < k /\ k <= n => ~BuildsBlas(s[k], b)
    BY <2>5 DEF UseRight
  <2>8. i \in 1..n /\ i \in DOMAIN stream /\ s[i] = stream[i].act
    BY <2>4, <2>7
  <2>9. HIDE DEF S
  <2>10. S \in SUBSET Nat /\ i \in S /\ \A j \in S : j <= i
    BY <2>4, <2>7, <2>8 DEF S
  <2>11. LastOf(S) = i
    BY <2>10, LastOfIs
  <2>12. ASSUME NEW b \in stream[i].act.deps PROVE Builds(b, n) # {} /\ LastOf(Builds(b, n)) <= i
    <3>1. PICK j \in DOMAIN s :
             /\ j <= i /\ BuildsBlas(s[j], b)
             /\ \A k \in DOMAIN s : j < k /\ k <= n => ~BuildsBlas(s[k], b)
      BY <2>7, <2>8, <2>12
    <3>2. DEFINE T == Builds(b, n)
    <3>3. T = {k \in 1..n : BuildsBlas(stream[k].act, b)}
      BY DEF Builds, BuildsBlas
    <3>4. HIDE DEF T
    <3>5. j \in 1..n
      BY <2>4, <2>8, <3>1
    <3>6. T \in SUBSET Nat /\ j \in T /\ \A k \in T : k <= j
      BY <2>4, <3>1, <3>3, <3>5
    <3>7. LastOf(T) = j
      BY <3>6, LastOfIs
    <3>8. QED
      BY <3>1, <3>6, <3>7 DEF T
  <2>13. S = {k \in 1..n : stream[k].act.op = "build" /\ t \in stream[k].act.tlas}
    BY DEF S, BuildsTlas
  <2>14. S # {} /\ \A b \in stream[LastOf(S)].act.deps :
                      Builds(b, n) # {} /\ LastOf(Builds(b, n)) <= LastOf(S)
    BY <2>10, <2>11, <2>12
  <2>15. QED
    BY <2>13, <2>14
<1>2. QED
  BY <1>1, AccelAlwaysSound, PTL

(* A preparation that waits is listed once, and reading back never meets a *)
(* structure in a state that handle_compact_read_back does not expect.     *)
THEOREM PrepareAlwaysAnswered == AccelSpec => []PrepareAnswered
<1>1. AccelInv => PrepareAnswered
  <2>1. SUFFICES ASSUME AccelSound, NEW b \in Blas, compactState[b].st = "waiting"
                 PROVE  LET InReady == {i \in DOMAIN readyToCompact : readyToCompact[i] = b}
                            InLists == UNION {{<<i, k>> : k \in {m \in DOMAIN inFlight[i].readBack :
                                                   inFlight[i].readBack[m] = b}} : i \in DOMAIN inFlight}
                        IN  /\ Cardinality(InReady) + Cardinality(InLists) = 1
                            /\ InReady # {} => SizeWritten(b) = blasBuilt[b]
    BY DEF AccelInv, PrepareAnswered, AccelSound
  <2>2. AccelTypes /\ ListInv /\ WaitingInv
    BY <2>1 DEF AccelSound
  <2>3. DEFINE R == {i \in DOMAIN readyToCompact : readyToCompact[i] = b}
               Q(i) == {<<i, k>> : k \in {m \in DOMAIN inFlight[i].readBack :
                                             inFlight[i].readBack[m] = b}}
               L == UNION {Q(i) : i \in DOMAIN inFlight}
  <2>4. \/ In(readyToCompact, b) /\ BuiltBy(b, asDone)
        \/ \E i \in DOMAIN inFlight : In(inFlight[i].readBack, b)
    BY <2>1, <2>2 DEF WaitingInv
  <2>5. CASE In(readyToCompact, b) /\ BuiltBy(b, asDone)
    <3>1. PICK i \in DOMAIN readyToCompact : readyToCompact[i] = b
      BY <2>5 DEF In
    <3>2. R = {i}
      BY <2>2, <3>1 DEF ListInv, Once
    <3>3. \A j \in DOMAIN inFlight : ~In(inFlight[j].readBack, b)
      BY <2>2, <2>5 DEF ListInv
    <3>4. \A j \in DOMAIN inFlight : Q(j) = {}
      BY <3>3 DEF In
    <3>5. HIDE DEF Q
    <3>6. L = {}
      BY <3>4
    <3>7. HIDE DEF R, L
    <3>8. Cardinality(R) = 1 /\ Cardinality(L) = 0
      BY <3>2, <3>6, FS_Singleton, FS_EmptySet
    <3>9. SizeWritten(b) = blasBuilt[b]
      BY <2>2, <2>5, SizeIs
    <3>10. Cardinality(R) + Cardinality(L) = 1
      BY <3>8
    <3>11. QED
      BY <3>9, <3>10 DEF R, L, Q
  <2>6. CASE \E i \in DOMAIN inFlight : In(inFlight[i].readBack, b)
    <3>1. PICK i \in DOMAIN inFlight : In(inFlight[i].readBack, b)
      BY <2>6
    <3>2. /\ ~In(readyToCompact, b)
          /\ \A j \in DOMAIN inFlight : In(inFlight[j].readBack, b) => i = j
      BY <2>2, <3>1 DEF ListInv
    <3>3. R = {}
      BY <3>2 DEF In
    <3>4. PICK k \in DOMAIN inFlight[i].readBack : inFlight[i].readBack[k] = b
      BY <3>1 DEF In
    <3>5. Q(i) = {<<i, k>>}
      <4>1. Once(inFlight[i].readBack)
        BY <2>2 DEF ListInv
      <4>2. {m \in DOMAIN inFlight[i].readBack : inFlight[i].readBack[m] = b} = {k}
        BY <3>4, <4>1 DEF Once
      <4>3. QED
        BY <4>2
    <3>6. \A j \in DOMAIN inFlight : j # i => Q(j) = {}
      <4>1. \A j \in DOMAIN inFlight : j # i => ~In(inFlight[j].readBack, b)
        BY <3>2
      <4>2. QED
        BY <4>1 DEF In
    <3>7. HIDE DEF Q
    <3>8. L = {<<i, k>>}
      BY <3>5, <3>6
    <3>9. HIDE DEF R, L
    <3>10. Cardinality(R) = 0 /\ Cardinality(L) = 1
      BY <3>3, <3>8, FS_Singleton, FS_EmptySet
    <3>11. Cardinality(R) + Cardinality(L) = 1
      BY <3>10
    <3>12. QED
      BY <3>3, <3>11 DEF R, L, Q
  <2>7. QED
    BY <2>4, <2>5, <2>6
<1>2. QED
  BY <1>1, AccelAlwaysSound, PTL

--------------------------------------------------------------------------------
(* The resource pool *)

(* The invariant holds of an empty pool. *)
LEMMA InitInv == Init => IndInv
<1>1. AnyKey \in Key
  BY KeyAssumption DEF AnyKey
<1>2. QED
  BY <1>1, NoSlotAssumption
  DEF Init, IndInv, TypeOK, AliveIsMapped, RemovesItsOwn, OneConstructor,
      UnsetIsMapped, SlotFound, EntriesMatch, Alive

(* Every step of get_or_init, of an owner and of remove preserves it. *)
LEMMA NextInv == IndInv /\ [Next]_vars => IndInv'
<1> SUFFICES ASSUME IndInv, [Next]_vars PROVE IndInv'
  OBVIOUS
<1> USE NoSlotAssumption
<1> USE DEF IndInv, TypeOK, AliveIsMapped, RemovesItsOwn, OneConstructor,
            UnsetIsMapped, SlotFound, EntriesMatch, Alive
<1>1. ASSUME NEW t \in Thread, Get(t) PROVE IndInv'
  BY <1>1 DEF Get
<1>2. ASSUME NEW t \in Thread, Release(t) PROVE IndInv'
  <2>1. PICK s \in Slot :
          /\ t \in owners[s]
          /\ owners' = [owners EXCEPT ![s] = @ \ {t}]
          /\ IF owners[s] = {t}
             THEN /\ pc' = [pc EXCEPT ![t] = "remove"]
                  /\ slot' = [slot EXCEPT ![t] = s]
             ELSE UNCHANGED <<pc, slot>>
    BY <1>2 DEF Release
  <2>2. pc[t] = "idle" /\ UNCHANGED <<map, key, cell, want, gets>>
    BY <1>2 DEF Release
  <2>3. cell[s] = "set" /\ map[key[s]] = s
    BY <2>1
  <2>4. TypeOK' /\ AliveIsMapped' /\ OneConstructor'
        /\ UnsetIsMapped' /\ SlotFound' /\ EntriesMatch'
    BY <2>1, <2>2
  <2>5. RemovesItsOwn'
    BY <2>1, <2>2, <2>3
  <2>6. QED
    BY <2>4, <2>5
<1>3. ASSUME NEW t \in Thread, LookupOccupied(t) PROVE IndInv'
  BY <1>3 DEF LookupOccupied, Vacant
<1>4. ASSUME NEW t \in Thread, LookupVacant(t) PROVE IndInv'
  <2>1. PICK s \in Slot :
          /\ Fresh(s)
          /\ map' = [map EXCEPT ![want[t]] = s]
          /\ key' = [key EXCEPT ![s] = want[t]]
          /\ cell' = [cell EXCEPT ![s] = "empty"]
          /\ slot' = [slot EXCEPT ![t] = s]
    BY <1>4 DEF LookupVacant
  <2>2. /\ pc[t] = "lookup" /\ map[want[t]] = NoSlot
        /\ pc' = [pc EXCEPT ![t] = "slot"]
        /\ UNCHANGED <<owners, want, gets>>
    BY <1>4 DEF LookupVacant, Vacant
  <2>3. /\ owners[s] = {} /\ \A u \in Thread : slot[u] # s
        /\ \A k \in Key : map[k] # s
    BY <2>1 DEF Fresh
  <2>4. TypeOK'
    BY <2>1, <2>2
  <2>5. AliveIsMapped'
    BY <2>1, <2>2, <2>3
  <2>6. RemovesItsOwn'
    BY <2>1, <2>2, <2>3
  <2>7. OneConstructor' /\ SlotFound'
    BY <2>1, <2>2, <2>3
  <2>8. UnsetIsMapped' /\ EntriesMatch'
    BY <2>1, <2>2, <2>3
  <2>9. QED
    BY <2>4, <2>5, <2>6, <2>7, <2>8
<1>5. ASSUME NEW t \in Thread, Construct(t) PROVE IndInv'
  BY <1>5 DEF Construct
<1>6. ASSUME NEW t \in Thread, Constructed(t) PROVE IndInv'
  BY <1>6 DEF Constructed, Leave
<1>7. ASSUME NEW t \in Thread, ConstructFails(t) PROVE IndInv'
  BY <1>7 DEF ConstructFails, AfterFailure, Leave
<1>8. ASSUME NEW t \in Thread, Upgrade(t) PROVE IndInv'
  BY <1>8 DEF Upgrade, Upgrades, Leave
<1>9. ASSUME NEW t \in Thread, Race(t) PROVE IndInv'
  BY <1>9 DEF Race
<1>10. ASSUME NEW t \in Thread, Remove(t) PROVE IndInv'
  <2>1. /\ pc[t] = "remove" /\ slot[t] \in Slot /\ ~Alive(slot[t])
        /\ cell[slot[t]] = "set" /\ map[key[slot[t]]] = slot[t]
    BY <1>10 DEF Remove
  <2>2. /\ map' = [map EXCEPT ![key[slot[t]]] = NoSlot]
        /\ pc' = [pc EXCEPT ![t] = "idle"] /\ slot' = [slot EXCEPT ![t] = NoSlot]
        /\ UNCHANGED <<key, cell, owners, want, gets>>
    BY <1>10 DEF Remove, Leave
  <2>3. TypeOK' /\ OneConstructor' /\ SlotFound' /\ EntriesMatch'
    BY <2>1, <2>2
  <2>4. AliveIsMapped' /\ UnsetIsMapped'
    BY <2>1, <2>2
  <2>5. RemovesItsOwn'
    BY <2>1, <2>2
  <2>6. QED
    BY <2>3, <2>4, <2>5
<1>11. CASE UNCHANGED vars
  BY <1>11 DEF vars
<1>12. QED
  BY <1>1, <1>2, <1>3, <1>4, <1>5, <1>6, <1>7, <1>8, <1>9, <1>10, <1>11
  DEF Next, Step

(* IndInv is an invariant of the pool. *)
THEOREM Invariance == Spec => []IndInv
BY InitInv, NextInv, PTL DEF Spec

(* "only one resource will be created for each unique entry map at any one  *)
(* time": two resources that are alive are of different keys, for both are  *)
(* the entry of their key.                                                  *)
THEOREM Uniqueness == Spec => []AtMostOneAlive
<1>1. IndInv => AtMostOneAlive
  BY DEF IndInv, AliveIsMapped, AtMostOneAlive
<1>2. QED
  BY <1>1, Invariance, PTL

(* "The entry will never be empty while the BGL is still alive". *)
THEOREM EntryKept == Spec => []EntryWhileAlive
<1>1. IndInv => EntryWhileAlive
  BY DEF IndInv, AliveIsMapped, EntryWhileAlive
<1>2. QED
  BY <1>1, Invariance, PTL

(* remove takes away the entry of the resource that died, and no other. *)
THEOREM SafeRemoval == Spec => []RemovesItsOwn
<1>1. IndInv => RemovesItsOwn
  BY DEF IndInv
<1>2. QED
  BY <1>1, Invariance, PTL

--------------------------------------------------------------------------------
(* The Vulkan backend's fence *)

(* The names of semaphores and of Vulkan fences. *)
Semaphores == {"relay", "acquire", "present"} \X Nat \X Nat
VkFences == {"fence"} \X Nat \X {0}
Batches == [op : {"submit", "present"}, value : Nat, image : 0..Images,
            waits : SUBSET Semaphores, signals : SUBSET Semaphores,
            raises : SUBSET VkFences, started : BOOLEAN]
FenceUses == [value : Nat, raw : VkFences]

VulkanType ==
    /\ relay \in [wait : SUBSET Semaphores, signal : Semaphores]
    /\ timeline \in BOOLEAN
    /\ counter \in Nat /\ lastCompleted \in Nat /\ submitted \in Nat
    /\ finished \in Nat /\ frames \in Nat
    /\ active \in Seq(FenceUses) /\ free \in Seq(VkFences)
    /\ acquireSem \in [1..Images -> [wait : BOOLEAN, used : Nat]]
    /\ nextAcquire \in 1..Images
    /\ presentSem \in [1..Images -> [made : Nat, index : Nat]]
    /\ frame \in [image : 0..Images, slot : 0..Images]
    /\ frame # None => frame.image \in 1..Images /\ frame.slot \in 1..Images
    /\ queue \in Seq(Batches)
    /\ signaled \subseteq Semaphores \cup VkFences
    /\ engine \subseteq 1..Images
    /\ mishap \in BOOLEAN /\ clash \in BOOLEAN

(* The values the fence still counts, and what it knows of them. *)
Counted ==
    /\ lastCompleted <= finished /\ finished <= submitted
    /\ timeline => counter = finished /\ active = <<>>
    /\ ~timeline => Len(active) = submitted - lastCompleted
    /\ \A i \in DOMAIN active : active[i].value = lastCompleted + i

(* The Vulkan fences of the pool: each is in one place. *)
Pooled == Len(active) + Len(free)
PoolKept ==
    /\ \A i \in DOMAIN active : active[i].raw[2] \in 1..Pooled
    /\ \A i \in DOMAIN free : free[i][2] \in 1..Pooled
    /\ \A i, j \in DOMAIN active : i # j => active[i].raw # active[j].raw
    /\ \A i, j \in DOMAIN free : i # j => free[i] # free[j]
    /\ \A i \in DOMAIN active, j \in DOMAIN free : active[i].raw # free[j]
    /\ \A i \in DOMAIN active : active[i].raw \in signaled <=> active[i].value <= finished
    /\ \A i \in DOMAIN free : free[i] \notin signaled
    /\ \A f \in signaled \cap VkFences : f[2] <= Pooled

(* What the queue holds: the submissions that have not ended. *)
QueueInOrder ==
    /\ \A i \in DOMAIN queue : queue[i].op = "submit" =>
          /\ finished < queue[i].value /\ queue[i].value <= submitted
          /\ queue[i].raises = IF timeline THEN {}
                               ELSE {active[queue[i].value - lastCompleted].raw}
    /\ \A i \in DOMAIN queue : queue[i].op # "submit" =>
          queue[i].raises = {} /\ queue[i].image \in 1..Images
    /\ \A i, j \in DOMAIN queue : queue[i].op = "submit" /\ queue[j].op = "submit" /\ i < j
          => queue[i].value < queue[j].value
    /\ \A v \in (finished + 1)..submitted : \E i \in DOMAIN queue :
          queue[i].op = "submit" /\ queue[i].value = v

FenceInv == VulkanType /\ Counted /\ PoolKept /\ QueueInOrder

(* The fence's loops over its uses: what it frees, and what it retains.    *)
Pushes(p, fr, act, len, latest) ==
    p = [n \in 0..len |->
            IF n = 0 THEN fr
            ELSE IF act[n].value <= latest THEN Append(p[n - 1], act[n].raw)
            ELSE p[n - 1]]
Retains(p, act, len, latest) ==
    p = [n \in 0..len |->
            IF n = 0 THEN <<>>
            ELSE IF act[n].value > latest THEN Append(p[n - 1], act[n])
            ELSE p[n - 1]]

PushedBy(fr, act, len, latest) == (CHOOSE p : Pushes(p, fr, act, len, latest))[len]
RetainedBy(act, len, latest) == (CHOOSE p : Retains(p, act, len, latest))[len]

Raws(act, k) == [i \in 1..k |-> act[i].raw]

(* The first k of the uses have passed.                                    *)
LEMMA PushedIs ==
  ASSUME NEW F, NEW fr \in Seq(F), NEW act, NEW len \in Nat, NEW k \in 0..len,
         \A i \in 1..len : act[i].raw \in F, NEW latest,
         \A i \in 1..len : act[i].value <= latest <=> i <= k
  PROVE  PushedBy(fr, act, len, latest) = fr \o Raws(act, k)
<1>1. DEFINE c(n) == fr \o [i \in 1..n |-> act[i].raw]
             C == [n \in 0..len |-> IF n <= k THEN c(n) ELSE c(k)]
             Is(p) == Pushes(p, fr, act, len, latest)
             P == CHOOSE p : Is(p)
<1>2. c(0) = fr
  OBVIOUS
<1>3. ASSUME NEW n \in 1..k PROVE Append(c(n - 1), act[n].raw) = c(n)
  <2>1. DEFINE a == [i \in 1..(n - 1) |-> act[i].raw]
               b == [i \in 1..n |-> act[i].raw]
  <2>2. a \in Seq(F) /\ Len(a) = n - 1 /\ b \in Seq(F) /\ Len(b) = n
    <3>1. n \in Nat /\ n - 1 \in Nat /\ n <= len
      OBVIOUS
    <3>2. \A i \in 1..n : act[i].raw \in F
      BY <3>1
    <3>3. a \in [1..(n - 1) -> F] /\ b \in [1..n -> F]
      BY <3>1, <3>2
    <3>4. a \in Seq(F) /\ b \in Seq(F)
      BY <3>1, <3>3
    <3>5. Len(a) = n - 1
      BY <3>1
    <3>6. Len(b) = n
      BY <3>1
    <3>7. QED
      BY <3>4, <3>5, <3>6
  <2>3. b = Append(a, act[n].raw)
    OBVIOUS
  <2>4. HIDE DEF a, b
  <2>5. Append(fr \o a, act[n].raw) = fr \o Append(a, act[n].raw)
    <3>1. /\ Append(fr \o a, act[n].raw) = (fr \o a) \o <<act[n].raw>>
          /\ Append(a, act[n].raw) = a \o <<act[n].raw>>
          /\ <<act[n].raw>> \in Seq(F)
      <4>1. act[n].raw \in F
        OBVIOUS
      <4>2. fr \o a \in Seq(F)
        BY <2>2, ConcatProperties
      <4>3. QED
        BY <2>2, <4>1, <4>2, AppendIsConcat
    <3>2. (fr \o a) \o <<act[n].raw>> = fr \o (a \o <<act[n].raw>>)
      <4>1. fr \in Seq(F) /\ a \in Seq(F) /\ <<act[n].raw>> \in Seq(F)
        BY <2>2, <3>1
      <4>2. \A x, y, z \in Seq(F) : (x \o y) \o z = x \o (y \o z)
        BY ConcatAssociative
      <4>3. QED
        BY <4>1, <4>2, Zenon
    <3>3. QED
      BY <3>1, <3>2, Zenon
  <2>6. c(n - 1) = fr \o a
    BY DEF a
  <2>7. c(n) = fr \o b
    BY DEF b
  <2>8. HIDE DEF c
  <2>9. QED
    BY <2>3, <2>5, <2>6, <2>7
<1>4. Is(C)
  <2>1. HIDE DEF c
  <2>2. ASSUME NEW n \in 0..len
        PROVE  C[n] = IF n = 0 THEN fr
                      ELSE IF act[n].value <= latest THEN Append(C[n - 1], act[n].raw)
                      ELSE C[n - 1]
    <3>1. CASE n = 0
      BY <1>2, <3>1
    <3>2. CASE n # 0 /\ n <= k
      <4>1. n - 1 \in 0..len /\ n - 1 <= k /\ n \in 1..k /\ n \in 1..len
        <5>1. n \in Nat /\ n >= 1 /\ n <= k /\ n <= len /\ k \in Nat /\ len \in Nat
          BY <3>2
        <5>2. n \in 1..k /\ n \in 1..len
          BY <5>1
        <5>3. n - 1 \in 0..len /\ n - 1 <= k
          BY <5>1
        <5>4. QED
          BY <5>2, <5>3
      <4>2. C[n] = c(n) /\ C[n - 1] = c(n - 1)
        BY <4>1, <3>2
      <4>3. QED
        BY <4>1, <4>2, <3>2, <1>3
    <3>3. CASE n # 0 /\ ~(n <= k)
      <4>1. n - 1 \in 0..len /\ n \in 1..len /\ (n - 1 <= k => n - 1 = k)
        BY <3>3
      <4>2. C[n] = c(k) /\ C[n - 1] = c(k)
        BY <4>1, <3>3
      <4>3. QED
        BY <4>1, <4>2, <3>3
    <3>4. QED
      BY <3>1, <3>2, <3>3
  <2>3. QED
    BY <2>2, Zenon DEF Pushes
<1>5. Is(P)
  BY <1>4, Zenon
<1>6. HIDE DEF P, C
<1>7. ASSUME NEW n \in 0..len
      PROVE  /\ P[n] = IF n = 0 THEN fr
                       ELSE IF act[n].value <= latest THEN Append(P[n - 1], act[n].raw)
                       ELSE P[n - 1]
             /\ C[n] = IF n = 0 THEN fr
                       ELSE IF act[n].value <= latest THEN Append(C[n - 1], act[n].raw)
                       ELSE C[n - 1]
  BY <1>4, <1>5, Zenon DEF Pushes
<1>8. P[len] = C[len]
  <2>1. DEFINE D == {n \in 0..len : P[n] # C[n]}
  <2>2. SUFFICES ASSUME D # {} PROVE FALSE
    OBVIOUS
  <2>3. PICK d \in D : \A n \in D : d <= n
    <3>1. D \subseteq Nat
      OBVIOUS
    <3>2. QED
      BY <2>2, <3>1, HasLeast
  <2>4. d # 0
    BY <1>7, <2>3
  <2>5. d - 1 \in 0..len /\ d - 1 \notin D
    BY <2>3, <2>4
  <2>6. P[d - 1] = C[d - 1]
    BY <2>5
  <2>7. QED
    BY <2>3, <2>4, <2>6, <1>7
<1>9. C[len] = fr \o [i \in 1..k |-> act[i].raw]
  BY DEF C
<1>10. QED
  BY <1>8, <1>9, Zenon DEF P, PushedBy, Raws

LEMMA RetainedIs ==
  ASSUME NEW U, NEW act \in Seq(U), NEW len \in Nat, len = Len(act), NEW k \in 0..len,
         NEW latest, \A i \in 1..len : act[i].value > latest <=> i > k
  PROVE  RetainedBy(act, len, latest) = SubSeq(act, k + 1, len)
<1>1. DEFINE c(n) == SubSeq(act, k + 1, n)
             C == [n \in 0..len |-> IF n > k THEN c(n) ELSE <<>>]
             Is(p) == Retains(p, act, len, latest)
             P == CHOOSE p : Is(p)
<1>2. c(k) = <<>>
  OBVIOUS
<1>3. ASSUME NEW n \in (k + 1)..len PROVE Append(c(n - 1), act[n]) = c(n)
  <2>1. DEFINE m == n - 1
               l == n - k
               a == SubSeq(act, k + 1, m)
               b == SubSeq(act, k + 1, n)
  <2>2. l \in Nat /\ l >= 1 /\ n \in DOMAIN act /\ act[n] \in U /\ k + l = n
    OBVIOUS
  <2>3. a \in Seq(U) /\ Len(a) = l - 1 /\ \A i \in 1..(l - 1) : a[i] = act[k + i]
    OBVIOUS
  <2>4. b \in Seq(U) /\ Len(b) = l /\ \A i \in 1..l : b[i] = act[k + i]
    OBVIOUS
  <2>5. HIDE DEF a, b, l
  <2>6. Append(a, act[n]) = b
    BY <2>2, <2>3, <2>4
  <2>7. QED
    BY <2>6 DEF a, b
<1>4. Is(C)
  <2>1. HIDE DEF c
  <2>2. ASSUME NEW n \in 0..len
        PROVE  C[n] = IF n = 0 THEN <<>>
                      ELSE IF act[n].value > latest THEN Append(C[n - 1], act[n])
                      ELSE C[n - 1]
    <3>1. CASE n = 0
      BY <3>1
    <3>2. CASE n # 0 /\ n <= k
      <4>1. n - 1 \in 0..len /\ ~(n - 1 > k) /\ n \in 1..len /\ ~(n > k)
        BY <3>2
      <4>2. QED
        BY <4>1, <3>2
    <3>3. CASE n # 0 /\ n > k
      <4>1. n - 1 \in 0..len /\ n \in 1..len /\ n \in (k + 1)..len
            /\ (~(n - 1 > k) => n - 1 = k)
        BY <3>3
      <4>2. C[n] = c(n) /\ C[n - 1] = c(n - 1)
        BY <4>1, <3>3, <1>2
      <4>3. QED
        BY <4>1, <4>2, <3>3, <1>3
    <3>4. QED
      BY <3>1, <3>2, <3>3
  <2>3. QED
    BY <2>2, Zenon DEF Retains
<1>5. Is(P)
  BY <1>4, Zenon
<1>6. HIDE DEF P, C
<1>7. ASSUME NEW n \in 0..len
      PROVE  /\ P[n] = IF n = 0 THEN <<>>
                       ELSE IF act[n].value > latest THEN Append(P[n - 1], act[n])
                       ELSE P[n - 1]
             /\ C[n] = IF n = 0 THEN <<>>
                       ELSE IF act[n].value > latest THEN Append(C[n - 1], act[n])
                       ELSE C[n - 1]
  BY <1>4, <1>5, Zenon DEF Retains
<1>8. P[len] = C[len]
  <2>1. DEFINE D == {n \in 0..len : P[n] # C[n]}
  <2>2. SUFFICES ASSUME D # {} PROVE FALSE
    OBVIOUS
  <2>3. PICK d \in D : \A n \in D : d <= n
    <3>1. D \subseteq Nat
      OBVIOUS
    <3>2. QED
      BY <2>2, <3>1, HasLeast
  <2>4. d # 0
    BY <1>7, <2>3
  <2>5. d - 1 \in 0..len /\ d - 1 \notin D
    BY <2>3, <2>4
  <2>6. P[d - 1] = C[d - 1]
    BY <2>5
  <2>7. QED
    BY <2>3, <2>4, <2>6, <1>7
<1>9. C[len] = SubSeq(act, k + 1, len)
  BY <1>2 DEF C
<1>10. QED
  BY <1>8, <1>9, Zenon DEF P, RetainedBy

LEMMA UseFields ==
  ASSUME active \in Seq(FenceUses), NEW i \in DOMAIN active
  PROVE  active[i].value \in Nat /\ active[i].raw \in VkFences
<1>1. active[i] \in FenceUses
  OBVIOUS
<1>2. QED
  BY <1>1 DEF FenceUses

PassedUses == finished - lastCompleted

LEMMA FenceLatest == FenceInv => GetLatest = finished
<1>1. SUFFICES ASSUME FenceInv PROVE GetLatest = finished
  OBVIOUS
<1>2. /\ lastCompleted \in Nat /\ finished \in Nat /\ submitted \in Nat /\ counter \in Nat
      /\ active \in Seq(FenceUses) /\ timeline \in BOOLEAN
  BY <1>1 DEF FenceInv, VulkanType
<1>3. CASE timeline
  BY <1>1, <1>3 DEF FenceInv, Counted, GetLatest
<1>4. CASE ~timeline
  <2>1. DEFINE S == {lastCompleted} \cup
                      {active[i].value : i \in {j \in DOMAIN active : active[j].raw \in signaled}}
  <2>2. finished \in S
    <3>1. CASE finished = lastCompleted
      BY <3>1
    <3>2. CASE finished # lastCompleted
      <4>1. finished - lastCompleted \in 1..Len(active)
        BY <1>1, <1>2, <1>4, <3>2 DEF FenceInv, Counted
      <4>2. PICK i \in DOMAIN active : i = finished - lastCompleted
        BY <4>1, <1>2
      <4>3. active[i].value = finished
        BY <1>1, <1>2, <4>2 DEF FenceInv, Counted
      <4>4. active[i].raw \in signaled
        BY <1>1, <1>2, <4>3 DEF FenceInv, PoolKept
      <4>5. QED
        BY <4>3, <4>4
    <3>3. QED
      BY <3>1, <3>2
  <2>3. \A m \in S : m \in Nat /\ finished >= m
    <3>1. lastCompleted <= finished
      BY <1>1 DEF FenceInv, Counted
    <3>2. ASSUME NEW i \in DOMAIN active, active[i].raw \in signaled
          PROVE  active[i].value \in Nat /\ finished >= active[i].value
      BY <1>1, <1>2, <3>2, UseFields DEF FenceInv, PoolKept
    <3>3. QED
      BY <1>2, <3>1, <3>2
  <2>4. GetLatest = Highest(S)
    BY <1>4 DEF GetLatest
  <2>5. HIDE DEF S
  <2>6. \A n \in S : (\A m \in S : n >= m) => n = finished
    BY <2>2, <2>3
  <2>7. Highest(S) = finished
    BY <2>2, <2>3, <2>6 DEF Highest
  <2>8. QED
    BY <2>4, <2>7
<1>5. QED
  BY <1>2, <1>3, <1>4

(* What a submission finds in the pool: the uses that have passed are a    *)
(* prefix.                                                                 *)
LEMMA Maintained ==
  ASSUME FenceInv, ~timeline
  PROVE  /\ PassedUses \in 0..Len(active)
         /\ Recycled = free \o Raws(active, PassedUses)
         /\ Remaining = SubSeq(active, PassedUses + 1, Len(active))
         /\ Reset = {active[i].raw : i \in 1..PassedUses}
<1>1. /\ lastCompleted \in Nat /\ finished \in Nat /\ submitted \in Nat
      /\ active \in Seq(FenceUses) /\ free \in Seq(VkFences)
      /\ lastCompleted <= finished /\ finished <= submitted
      /\ Len(active) = submitted - lastCompleted
      /\ \A i \in DOMAIN active : active[i].value = lastCompleted + i
  BY DEF FenceInv, VulkanType, Counted
<1>2. DEFINE len == Len(active)
             latest == GetLatest
             k == PassedUses
<1>3. len \in Nat /\ DOMAIN active = 1..len /\ k \in 0..len /\ latest = finished
  BY <1>1, FenceLatest DEF PassedUses
<1>4. \A i \in 1..len : active[i].raw \in VkFences
  BY <1>1, <1>3, UseFields
<1>5. \A i \in 1..len : /\ active[i].value <= latest <=> i <= k
                        /\ active[i].value > latest <=> i > k
  BY <1>1, <1>3 DEF PassedUses
<1>6. Recycled = PushedBy(free, active, len, latest)
  BY Zenon DEF Recycled, Pushes, PushedBy
<1>7. Remaining = RetainedBy(active, len, latest)
  BY Zenon DEF Remaining, Retains, RetainedBy
<1>8. Reset = {active[i].raw : i \in 1..k}
  BY <1>3, <1>5 DEF Reset
<1>9. len = Len(active) /\ k = PassedUses
  OBVIOUS
<1>14. /\ \A i \in 1..len : active[i].value <= latest <=> i <= k
       /\ \A i \in 1..len : active[i].value > latest <=> i > k
  BY <1>5
<1>10. HIDE DEF len, latest, k
<1>15. len \in Nat /\ k \in 0..len
  BY <1>3
<1>16. free \in Seq(VkFences) /\ active \in Seq(FenceUses)
  BY <1>1
<1>11. Recycled = free \o Raws(active, k)
  <2>1. \A i \in 1..len : active[i].value <= latest <=> i <= k
    BY <1>14
  <2>2. PushedBy(free, active, len, latest) = free \o Raws(active, k)
    BY <1>4, <1>15, <1>16, <2>1, PushedIs
  <2>3. QED
    BY <1>6, <2>2
<1>12. Remaining = SubSeq(active, k + 1, len)
  BY <1>7, <1>9, <1>14, <1>15, <1>16, RetainedIs
<1>13. QED
  BY <1>3, <1>8, <1>9, <1>11, <1>12

(* The fences that a submission frees, with those that were free.          *)
LEMMA RecycledIs ==
  ASSUME FenceInv, ~timeline
  PROVE  /\ Recycled \in Seq(VkFences)
         /\ Len(Recycled) = Len(free) + PassedUses
         /\ \A i \in 1..Len(Recycled) :
               /\ Recycled[i][2] \in 1..Pooled
               /\ Recycled[i] \notin signaled \ Reset
               /\ \A j \in (PassedUses + 1)..Len(active) : active[j].raw # Recycled[i]
         /\ \A i, j \in 1..Len(Recycled) : i # j => Recycled[i] # Recycled[j]
<1>1. /\ active \in Seq(FenceUses) /\ free \in Seq(VkFences) /\ PoolKept
      /\ Len(active) \in Nat /\ Len(free) \in Nat
      /\ DOMAIN active = 1..Len(active) /\ DOMAIN free = 1..Len(free)
  BY DEF FenceInv, VulkanType
<1>2. /\ PassedUses \in 0..Len(active) /\ Recycled = free \o Raws(active, PassedUses)
      /\ Reset = {active[i].raw : i \in 1..PassedUses}
  BY Maintained
<1>3. /\ Raws(active, PassedUses) \in Seq(VkFences) /\ Len(Raws(active, PassedUses)) = PassedUses
      /\ \A i \in 1..PassedUses : Raws(active, PassedUses)[i] = active[i].raw
  <2>1. \A i \in 1..PassedUses : active[i].raw \in VkFences
    BY <1>1, <1>2, UseFields
  <2>2. QED
    BY <1>2, <2>1 DEF Raws
<1>4. /\ Recycled \in Seq(VkFences) /\ Len(Recycled) = Len(free) + PassedUses
      /\ \A i \in 1..Len(Recycled) :
            Recycled[i] = IF i <= Len(free) THEN free[i] ELSE active[i - Len(free)].raw
  <2>1. DEFINE raws == Raws(active, PassedUses)
  <2>2. raws \in Seq(VkFences) /\ Len(raws) = PassedUses /\ Recycled = free \o raws
        /\ \A i \in 1..PassedUses : raws[i] = active[i].raw
    BY <1>2, <1>3
  <2>3. HIDE DEF raws
  <2>4. /\ free \o raws \in Seq(VkFences) /\ Len(free \o raws) = Len(free) + Len(raws)
        /\ \A i \in 1..Len(free) + Len(raws) :
              (free \o raws)[i] = IF i <= Len(free) THEN free[i] ELSE raws[i - Len(free)]
    BY <1>1, <2>2, ConcatProperties
  <2>5. ASSUME NEW i \in 1..Len(Recycled), ~(i <= Len(free))
        PROVE  raws[i - Len(free)] = active[i - Len(free)].raw
    <3>1. i - Len(free) \in 1..PassedUses
      BY <1>1, <1>2, <2>2, <2>4, <2>5
    <3>2. QED
      BY <3>1, <2>2
  <2>6. QED
    BY <2>2, <2>4, <2>5
<1>5. ASSUME NEW i \in 1..Len(Recycled)
      PROVE  \/ i \in DOMAIN free /\ Recycled[i] = free[i]
             \/ /\ i - Len(free) \in 1..PassedUses /\ i - Len(free) \in DOMAIN active
                /\ i > Len(free)
                /\ Recycled[i] = active[i - Len(free)].raw
  BY <1>1, <1>2, <1>4
<1>6. ASSUME NEW i \in 1..Len(Recycled)
      PROVE  /\ Recycled[i][2] \in 1..Pooled
             /\ Recycled[i] \notin signaled \ Reset
             /\ \A j \in (PassedUses + 1)..Len(active) : active[j].raw # Recycled[i]
  <2>1. \A j \in (PassedUses + 1)..Len(active) : j \in DOMAIN active /\ j \notin 1..PassedUses
    BY <1>1, <1>2
  <2>2. CASE i \in DOMAIN free /\ Recycled[i] = free[i]
    BY <1>1, <2>1, <2>2 DEF PoolKept
  <2>3. CASE /\ i - Len(free) \in 1..PassedUses /\ i - Len(free) \in DOMAIN active
             /\ Recycled[i] = active[i - Len(free)].raw
    <3>1. DEFINE m == i - Len(free)
    <3>2. m \in 1..PassedUses /\ m \in DOMAIN active /\ Recycled[i] = active[m].raw
      BY <2>3
    <3>3. HIDE DEF m
    <3>4. QED
      BY <1>1, <1>2, <2>1, <3>2 DEF PoolKept
  <2>4. QED
    BY <1>5, <2>2, <2>3
<1>7. ASSUME NEW i \in 1..Len(Recycled), NEW j \in 1..Len(Recycled), i # j
      PROVE  Recycled[i] # Recycled[j]
  <2>1. DEFINE m == i - Len(free)
               n == j - Len(free)
  <2>2. /\ \/ (i \in DOMAIN free /\ Recycled[i] = free[i])
           \/ (m \in DOMAIN active /\ Recycled[i] = active[m].raw)
        /\ \/ (j \in DOMAIN free /\ Recycled[j] = free[j])
           \/ (n \in DOMAIN active /\ Recycled[j] = active[n].raw)
    BY <1>5
  <2>3. m # n
    BY <1>1, <1>7, <1>4
  <2>4. HIDE DEF m, n
  <2>5. QED
    BY <1>1, <1>7, <2>2, <2>3 DEF PoolKept
<1>8. QED
  BY <1>4, <1>6, <1>7

(* What is left of them when the submission has taken one.                 *)
FreeLeft == IF Recycled # <<>> THEN SubSeq(Recycled, 1, Len(Recycled) - 1) ELSE <<>>
PoolAfter == Len(FreeLeft) + Len(active) - PassedUses + 1

LEMMA FenceGiven ==
  ASSUME FenceInv, ~timeline
  PROVE  /\ NextFence \in VkFences /\ FreeLeft \in Seq(VkFences)
         /\ PoolAfter \in Nat /\ Pooled \in Nat /\ Pooled <= PoolAfter
         /\ NextFence[2] \in 1..PoolAfter
         /\ NextFence \notin signaled \ Reset
         /\ \A j \in (PassedUses + 1)..Len(active) : active[j].raw # NextFence
         /\ \A i \in DOMAIN FreeLeft :
               /\ FreeLeft[i][2] \in 1..PoolAfter
               /\ FreeLeft[i] \notin signaled \ Reset
               /\ FreeLeft[i] # NextFence
               /\ \A j \in (PassedUses + 1)..Len(active) : active[j].raw # FreeLeft[i]
         /\ \A i, j \in DOMAIN FreeLeft : i # j => FreeLeft[i] # FreeLeft[j]
<1>1. DEFINE R == Recycled
<1>2. /\ R \in Seq(VkFences)
      /\ Len(R) = Len(free) + PassedUses
      /\ \A i \in 1..Len(R) :
            /\ R[i][2] \in 1..Pooled
            /\ R[i] \notin signaled \ Reset
            /\ \A j \in (PassedUses + 1)..Len(active) : active[j].raw # R[i]
      /\ \A i, j \in 1..Len(R) : i # j => R[i] # R[j]
  BY RecycledIs
<1>3. /\ active \in Seq(FenceUses) /\ free \in Seq(VkFences) /\ PoolKept
      /\ Len(active) \in Nat /\ Len(free) \in Nat /\ Len(R) \in Nat
      /\ DOMAIN active = 1..Len(active) /\ PassedUses \in 0..Len(active)
      /\ Pooled = Len(active) + Len(free)
  BY <1>2, Maintained DEF FenceInv, VulkanType, Pooled
<1>4. /\ NextFence = IF R # <<>> THEN R[Len(R)] ELSE VkFence(Len(active) + Len(free) + 1)
      /\ FreeLeft = IF R # <<>> THEN SubSeq(R, 1, Len(R) - 1) ELSE <<>>
  BY DEF NextFence, FreeLeft
<1>5. CASE R # <<>>
  <2>1. Len(R) \in 1..Len(R) /\ Len(R) # 0 /\ NextFence = R[Len(R)] /\ FreeLeft = SubSeq(R, 1, Len(R) - 1)
    BY <1>2, <1>3, <1>4, <1>5
  <2>2. /\ FreeLeft \in Seq(VkFences) /\ Len(FreeLeft) = Len(R) - 1
        /\ DOMAIN FreeLeft = 1..(Len(R) - 1)
        /\ \A i \in DOMAIN FreeLeft : i \in 1..Len(R) /\ FreeLeft[i] = R[i] /\ i # Len(R)
    <3>1. HIDE DEF R
    <3>2. QED
      BY <1>2, <1>3, <2>1
  <2>3. PoolAfter = Pooled /\ Pooled \in Nat
    BY <1>2, <1>3, <2>2 DEF PoolAfter
  <2>4. NextFence \in VkFences
    BY <1>2, <2>1
  <2>5. HIDE DEF R
  <2>6. /\ NextFence[2] \in 1..PoolAfter
        /\ NextFence \notin signaled \ Reset
        /\ \A j \in (PassedUses + 1)..Len(active) : active[j].raw # NextFence
    BY <1>2, <2>1, <2>3
  <2>7. ASSUME NEW i \in DOMAIN FreeLeft
        PROVE  /\ FreeLeft[i][2] \in 1..PoolAfter
               /\ FreeLeft[i] \notin signaled \ Reset
               /\ FreeLeft[i] # NextFence
               /\ \A j \in (PassedUses + 1)..Len(active) : active[j].raw # FreeLeft[i]
    BY <1>2, <2>1, <2>2, <2>3
  <2>8. \A i, j \in DOMAIN FreeLeft : i # j => FreeLeft[i] # FreeLeft[j]
    BY <1>2, <2>2
  <2>9. QED
    BY <2>2, <2>3, <2>4, <2>6, <2>7, <2>8
<1>6. CASE R = <<>>
  <2>1. Len(R) = 0 /\ Len(free) = 0 /\ PassedUses = 0
    BY <1>2, <1>3, <1>6
  <2>2. /\ FreeLeft = <<>> /\ NextFence = <<"fence", Len(active) + 1, 0>>
        /\ PoolAfter = Len(active) + 1 /\ Pooled = Len(active)
    BY <1>3, <1>4, <1>6, <2>1 DEF PoolAfter, VkFence
  <2>3. NextFence \in VkFences /\ NextFence[2] = Len(active) + 1
    BY <1>3, <2>2 DEF VkFences
  <2>4. NextFence \notin signaled
    BY <1>3, <2>2, <2>3 DEF PoolKept
  <2>5. ASSUME NEW j \in (PassedUses + 1)..Len(active) PROVE active[j].raw # NextFence
    <3>1. active[j].raw[2] \in 1..Pooled
      BY <1>3, <2>1 DEF PoolKept
    <3>2. QED
      BY <3>1, <2>2, <2>3, <1>3
  <2>6. DOMAIN FreeLeft = {} /\ FreeLeft \in Seq(VkFences)
    BY <2>2
  <2>7. QED
    BY <1>3, <2>2, <2>3, <2>4, <2>5, <2>6
<1>7. QED
  BY <1>5, <1>6

LEMMA HighestOfTwo ==
  ASSUME NEW m \in Nat, NEW n \in Nat
  PROVE  Highest({m, n}) \in Nat
<1>1. \E x \in {m, n} : \A y \in {m, n} : x >= y
  OBVIOUS
<1>2. Highest({m, n}) \in {m, n}
  BY <1>1 DEF Highest
<1>3. QED
  BY <1>2

LEMMA Named ==
  /\ \A i \in Nat : Relay(i) \in Semaphores /\ Acquire(i) \in Semaphores /\ VkFence(i) \in VkFences
  /\ \A i, j \in Nat : PresentSem(i, j) \in Semaphores
  /\ \A s \in Semaphores : s \notin VkFences
BY DEF Relay, Acquire, VkFence, PresentSem, Semaphores, VkFences

LEMMA FencesBegin == VulkanInit => FenceInv
<1>1. SUFFICES ASSUME VulkanInit PROVE FenceInv
  OBVIOUS
<1>2. VulkanType
  <2>1. relay \in [wait : SUBSET Semaphores, signal : Semaphores]
    <3>1. Relay(1) \in Semaphores
      BY Named
    <3>2. QED
      BY <1>1, <3>1 DEF VulkanInit
  <2>2. frame \in [image : 0..Images, slot : 0..Images] /\ frame = None
    BY <1>1, VulkanAssumption DEF VulkanInit, None
  <2>3. /\ acquireSem \in [1..Images -> [wait : BOOLEAN, used : Nat]]
        /\ presentSem \in [1..Images -> [made : Nat, index : Nat]]
    BY <1>1 DEF VulkanInit
  <2>4. nextAcquire \in 1..Images
    BY <1>1, VulkanAssumption DEF VulkanInit
  <2>5. active \in Seq(FenceUses) /\ free \in Seq(VkFences) /\ queue \in Seq(Batches)
    BY <1>1 DEF VulkanInit
  <2>6. QED
    BY <1>1, <2>1, <2>2, <2>3, <2>4, <2>5 DEF VulkanInit, VulkanType
<1>3. Counted /\ PoolKept /\ QueueInOrder
  BY <1>1 DEF VulkanInit, Counted, PoolKept, Pooled, QueueInOrder
<1>4. QED
  BY <1>2, <1>3 DEF FenceInv

(* A new submission in the queue.                                          *)
Submitted(waits, signals, raises, image) ==
    [op |-> "submit", value |-> submitted + 1, image |-> image, waits |-> waits,
     signals |-> signals, raises |-> raises, started |-> FALSE]

LEMMA SubmitIs ==
  ASSUME FenceInv, NEW draws \in BOOLEAN, Submit(draws)
  PROVE  \E waits \in SUBSET Semaphores, signals \in SUBSET Semaphores, image \in 0..Images :
            queue' = Append(queue, Submitted(waits, signals,
                                     IF timeline THEN {} ELSE {NextFence}, image))
<1>1. DEFINE place == frame.slot
             img == frame.image
             p == presentSem[img]
             waits == relay.wait \cup
                      (IF draws /\ acquireSem[place].wait THEN {Acquire(place)} ELSE {})
             signals == {relay.signal} \cup
                        (IF draws THEN {PresentSem(img, p.index + 1)} ELSE {})
             image == IF draws THEN img ELSE 0
<1>2. queue' = Append(queue, Submitted(waits, signals, IF timeline THEN {} ELSE {NextFence}, image))
  BY DEF Submit, Submitted
<1>3. /\ relay.wait \subseteq Semaphores /\ relay.signal \in Semaphores
      /\ place \in Nat /\ img \in 0..Images /\ img \in Nat
      /\ (draws => img \in 1..Images /\ p.index + 1 \in Nat)
  <2>1. /\ relay \in [wait : SUBSET Semaphores, signal : Semaphores]
        /\ presentSem \in [1..Images -> [made : Nat, index : Nat]]
        /\ frame \in [image : 0..Images, slot : 0..Images]
        /\ (frame # None => img \in 1..Images)
    BY DEF FenceInv, VulkanType
  <2>2. draws => frame # None
    BY DEF Submit
  <2>3. img \in 0..Images /\ img \in Nat /\ place \in Nat
    BY <2>1, VulkanAssumption
  <2>4. ASSUME draws PROVE p.index + 1 \in Nat
    BY <2>1, <2>2, <2>4
  <2>5. QED
    BY <2>1, <2>2, <2>3, <2>4
<1>4. waits \in SUBSET Semaphores /\ signals \in SUBSET Semaphores /\ image \in 0..Images
  <2>1. Acquire(place) \in Semaphores
    BY <1>3, Named
  <2>2. draws => PresentSem(img, p.index + 1) \in Semaphores
    BY <1>3, Named
  <2>3. image \in 0..Images
    BY <1>3, VulkanAssumption
  <2>4. QED
    BY <1>3, <2>1, <2>2, <2>3
<1>5. HIDE DEF waits, signals, image
<1>6. QED
  BY <1>2, <1>4

LEMMA SubmitTyped ==
  ASSUME FenceInv, NEW draws \in BOOLEAN, Submit(draws)
  PROVE  VulkanType'
<1>1. VulkanType
  BY DEF FenceInv
<1>2. relay' \in [wait : SUBSET Semaphores, signal : Semaphores]
  <2>1. relay \in [wait : SUBSET Semaphores, signal : Semaphores]
    BY <1>1 DEF VulkanType
  <2>2. Relay(2) \in Semaphores
    BY Named
  <2>3. relay.wait # {} => (CHOOSE s \in relay.wait : TRUE) \in relay.wait
    OBVIOUS
  <2>4. relay' = Advanced(relay)
    BY DEF Submit
  <2>5. QED
    BY <2>1, <2>2, <2>3, <2>4 DEF Advanced
<1>3. acquireSem' \in [1..Images -> [wait : BOOLEAN, used : Nat]]
  BY <1>1 DEF Submit, VulkanType
<1>4. presentSem' \in [1..Images -> [made : Nat, index : Nat]]
  <2>1. CASE draws
    <3>1. DEFINE img == frame.image
                 p == presentSem[img]
    <3>2. img \in 1..Images /\ p.made \in Nat /\ p.index + 1 \in Nat
      BY <1>1, <2>1 DEF Submit, VulkanType
    <3>3. Highest({p.made, p.index + 1}) \in Nat
      BY <3>2, HighestOfTwo
    <3>4. presentSem' = [presentSem EXCEPT ![img] =
                           [made |-> Highest({p.made, p.index + 1}), index |-> p.index + 1]]
      BY <2>1 DEF Submit
    <3>5. QED
      BY <1>1, <3>2, <3>3, <3>4 DEF VulkanType
  <2>2. CASE ~draws
    BY <1>1, <2>2 DEF Submit, VulkanType
  <2>3. QED
    BY <2>1, <2>2
<1>5. active' \in Seq(FenceUses) /\ free' \in Seq(VkFences) /\ lastCompleted' \in Nat
  <2>1. CASE timeline
    BY <1>1, <2>1 DEF Submit, MaintainAndPush, VulkanType
  <2>2. CASE ~timeline
    <3>1. /\ lastCompleted' = GetLatest /\ free' = FreeLeft
          /\ active' = Append(Remaining, [value |-> submitted + 1, raw |-> NextFence])
      BY <2>2 DEF Submit, MaintainAndPush, FreeLeft
    <3>2. NextFence \in VkFences /\ FreeLeft \in Seq(VkFences)
      BY <2>2, FenceGiven
    <3>3. Remaining \in Seq(FenceUses)
      <4>1. Remaining = SubSeq(active, PassedUses + 1, Len(active)) /\ PassedUses \in 0..Len(active)
        BY <2>2, Maintained
      <4>2. QED
        BY <1>1, <4>1 DEF VulkanType
    <3>4. [value |-> submitted + 1, raw |-> NextFence] \in FenceUses
      BY <1>1, <3>2 DEF FenceUses, VulkanType
    <3>5. QED
      BY <1>1, <3>1, <3>2, <3>3, <3>4, FenceLatest DEF VulkanType
  <2>3. QED
    BY <2>1, <2>2
<1>6. queue' \in Seq(Batches)
  <2>1. PICK waits \in SUBSET Semaphores, signals \in SUBSET Semaphores, image \in 0..Images :
            queue' = Append(queue, Submitted(waits, signals,
                                     IF timeline THEN {} ELSE {NextFence}, image))
    BY SubmitIs
  <2>2. (IF timeline THEN {} ELSE {NextFence}) \in SUBSET VkFences
    BY FenceGiven
  <2>3. Submitted(waits, signals, IF timeline THEN {} ELSE {NextFence}, image) \in Batches
    BY <1>1, <2>2 DEF Submitted, Batches, VulkanType
  <2>4. QED
    BY <1>1, <2>1, <2>3 DEF VulkanType
<1>7. /\ submitted' \in Nat /\ signaled' \subseteq Semaphores \cup VkFences
      /\ UNCHANGED <<timeline, nextAcquire, frame, frames, mishap, clash, counter, finished, engine>>
  BY <1>1 DEF Submit, VulkanType
<1>8. QED
  BY <1>1, <1>2, <1>3, <1>4, <1>5, <1>6, <1>7 DEF VulkanType

LEMMA ActiveAfter ==
  ASSUME FenceInv, ~timeline, NEW draws \in BOOLEAN, Submit(draws)
  PROVE  /\ lastCompleted' = finished /\ free' = FreeLeft /\ Pooled' = PoolAfter
         /\ active' \in Seq(FenceUses)
         /\ DOMAIN active' = 1..(Len(active) - PassedUses + 1)
         /\ Len(active') = Len(active) - PassedUses + 1
         /\ \A i \in 1..(Len(active) - PassedUses) :
               active'[i] = active[PassedUses + i] /\ PassedUses + i \in DOMAIN active
               /\ PassedUses + i \in (PassedUses + 1)..Len(active)
         /\ active'[Len(active) - PassedUses + 1].value = submitted + 1
         /\ active'[Len(active) - PassedUses + 1].raw = NextFence
<1>1. DEFINE use == [value |-> submitted + 1, raw |-> NextFence]
             k == PassedUses
             n == Len(active)
<1>2. /\ k \in 0..n /\ n \in Nat /\ active \in Seq(FenceUses) /\ DOMAIN active = 1..n
      /\ Remaining = SubSeq(active, k + 1, n)
  BY Maintained DEF FenceInv, VulkanType
<1>3. use \in FenceUses /\ use.value = submitted + 1 /\ use.raw = NextFence
  BY FenceGiven DEF FenceUses, FenceInv, VulkanType
<1>4. /\ lastCompleted' = finished /\ free' = FreeLeft
      /\ active' = Append(Remaining, use)
  BY FenceLatest DEF Submit, MaintainAndPush, FreeLeft
<1>5. k = PassedUses /\ n = Len(active)
  OBVIOUS
<1>6. HIDE DEF use, k, n
<1>7. /\ Remaining \in Seq(FenceUses) /\ Len(Remaining) = n - k
      /\ \A i \in 1..(n - k) : Remaining[i] = active[k + i] /\ k + i \in DOMAIN active
            /\ k + i \in (k + 1)..n
  <2>1. /\ SubSeq(active, k + 1, n) \in Seq(FenceUses)
        /\ Len(SubSeq(active, k + 1, n)) = n - k
        /\ \A i \in 1..(n - k) : SubSeq(active, k + 1, n)[i] = active[k + i]
    <3>1. \A i \in (k + 1)..n : active[i] \in FenceUses
      BY <1>2
    <3>2. k + 1 \in Int /\ n \in Int /\ n - (k + 1) + 1 = n - k /\ (~(k + 1 <= n) => n - k = 0)
      BY <1>2
    <3>3. DEFINE m == k + 1
    <3>4. m \in Int /\ \A i \in m..n : active[i] \in FenceUses
      BY <3>1, <3>2
    <3>5. HIDE DEF m
    <3>6. /\ SubSeq(active, m, n) \in Seq(FenceUses)
          /\ Len(SubSeq(active, m, n)) = IF m <= n THEN n - m + 1 ELSE 0
          /\ \A i \in 1..(n - m + 1) : SubSeq(active, m, n)[i] = active[m + i - 1]
      BY <3>2, <3>4, SubSeqProperties
    <3>7. \A i \in 1..(n - k) : i \in 1..(n - m + 1) /\ m + i - 1 = k + i
      BY <1>2 DEF m
    <3>8. Len(SubSeq(active, m, n)) = n - k
      BY <1>2, <3>2, <3>6 DEF m
    <3>9. \A i \in 1..(n - k) : SubSeq(active, m, n)[i] = active[k + i]
      BY <3>6, <3>7
    <3>10. QED
      BY <3>6, <3>8, <3>9 DEF m
  <2>2. \A i \in 1..(n - k) : k + i \in DOMAIN active /\ k + i \in (k + 1)..n
    BY <1>2
  <2>3. QED
    BY <1>2, <2>1, <2>2
<1>8. /\ active' \in Seq(FenceUses) /\ Len(active') = n - k + 1
      /\ DOMAIN active' = 1..(n - k + 1)
      /\ active'[n - k + 1] = use
      /\ \A i \in 1..(n - k) : active'[i] = Remaining[i]
  <2>1. DEFINE l == n - k
  <2>2. l \in Nat /\ Len(Remaining) = l
    BY <1>2, <1>7
  <2>3. HIDE DEF l
  <2>4. /\ active' \in Seq(FenceUses) /\ Len(active') = l + 1
        /\ active'[l + 1] = use /\ \A i \in 1..l : active'[i] = Remaining[i]
        /\ DOMAIN active' = 1..(l + 1)
    BY <1>3, <1>4, <1>7, <2>2
  <2>5. QED
    BY <2>4 DEF l
<1>9. Pooled' = PoolAfter
  <2>1. Len(FreeLeft) \in Nat
    BY FenceGiven
  <2>2. QED
    BY <1>2, <1>4, <1>5, <1>8, <2>1 DEF Pooled, PoolAfter
<1>10. QED
  BY <1>3, <1>4, <1>7, <1>8, <1>9 DEF k, n

LEMMA QueueAfter ==
  ASSUME FenceInv, NEW draws \in BOOLEAN, Submit(draws)
  PROVE  /\ Len(queue) \in Nat /\ DOMAIN queue = 1..Len(queue)
         /\ DOMAIN queue' = 1..(Len(queue) + 1)
         /\ \A i \in DOMAIN queue : queue'[i] = queue[i]
         /\ queue'[Len(queue) + 1].op = "submit"
         /\ queue'[Len(queue) + 1].value = submitted + 1
         /\ queue'[Len(queue) + 1].raises = IF timeline THEN {} ELSE {NextFence}
<1>1. PICK waits \in SUBSET Semaphores, signals \in SUBSET Semaphores, image \in 0..Images :
          queue' = Append(queue, Submitted(waits, signals,
                                   IF timeline THEN {} ELSE {NextFence}, image))
  BY SubmitIs
<1>2. DEFINE b == Submitted(waits, signals, IF timeline THEN {} ELSE {NextFence}, image)
<1>3. /\ b.op = "submit" /\ b.value = submitted + 1
      /\ b.raises = IF timeline THEN {} ELSE {NextFence}
  BY DEF Submitted
<1>4. queue \in Seq(Batches) /\ queue' = Append(queue, b)
  BY <1>1 DEF FenceInv, VulkanType
<1>5. HIDE DEF b
<1>6. /\ Len(queue) \in Nat /\ DOMAIN queue = 1..Len(queue)
      /\ DOMAIN queue' = 1..(Len(queue) + 1)
      /\ \A i \in DOMAIN queue : queue'[i] = queue[i]
      /\ queue'[Len(queue) + 1] = b
  BY <1>4
<1>7. QED
  BY <1>3, <1>6

LEMMA SubmitKeepsFence ==
  ASSUME FenceInv, NEW draws \in BOOLEAN, Submit(draws)
  PROVE  Counted' /\ PoolKept' /\ QueueInOrder'
<1>1. /\ lastCompleted \in Nat /\ finished \in Nat /\ submitted \in Nat /\ timeline \in BOOLEAN
      /\ active \in Seq(FenceUses) /\ free \in Seq(VkFences)
      /\ Counted /\ PoolKept /\ QueueInOrder
      /\ lastCompleted <= finished /\ finished <= submitted
      /\ Len(active) \in Nat /\ DOMAIN active = 1..Len(active)
      /\ queue \in Seq(Batches)
  BY DEF FenceInv, VulkanType, Counted
<1>2. /\ submitted' = submitted + 1 /\ timeline' = timeline /\ finished' = finished
      /\ counter' = counter /\ MaintainAndPush(submitted + 1)
      /\ signaled' = IF timeline THEN signaled ELSE signaled \ Reset
  BY DEF Submit
<1>3. \A i \in DOMAIN queue' :
         \/ i \in DOMAIN queue /\ queue'[i] = queue[i]
         \/ i = Len(queue) + 1
  BY QueueAfter
<1>4. ASSUME \A i \in DOMAIN queue : queue[i].op = "submit" =>
                queue[i].raises = IF timeline THEN {}
                                  ELSE {active'[queue[i].value - lastCompleted'].raw},
             ~timeline => active'[submitted + 1 - lastCompleted'].raw = NextFence
      PROVE  QueueInOrder'
  <2>1. \A i \in DOMAIN queue : queue[i].value \in Nat
    <3>1. \A i \in DOMAIN queue : queue[i] \in Batches
      BY <1>1
    <3>2. QED
      BY <3>1 DEF Batches
  <2>2. ASSUME NEW i \in DOMAIN queue', queue'[i].op = "submit"
        PROVE  /\ finished < queue'[i].value /\ queue'[i].value <= submitted + 1
               /\ queue'[i].raises = IF timeline THEN {}
                                     ELSE {active'[queue'[i].value - lastCompleted'].raw}
    <3>1. CASE i \in DOMAIN queue /\ queue'[i] = queue[i]
      <4>1. /\ finished < queue[i].value /\ queue[i].value <= submitted
            /\ queue[i].value \in Nat
        BY <1>1, <2>1, <2>2, <3>1 DEF QueueInOrder
      <4>2. queue[i].raises = IF timeline THEN {}
                              ELSE {active'[queue[i].value - lastCompleted'].raw}
        BY <1>4, <2>2, <3>1
      <4>3. QED
        BY <1>1, <3>1, <4>1, <4>2
    <3>2. CASE i = Len(queue) + 1
      <4>1. /\ queue'[i].value = submitted + 1
            /\ queue'[i].raises = IF timeline THEN {} ELSE {NextFence}
        BY <3>2, QueueAfter
      <4>2. queue'[i].raises = IF timeline THEN {}
                               ELSE {active'[queue'[i].value - lastCompleted'].raw}
        <5>1. CASE timeline
          BY <4>1, <5>1
        <5>2. CASE ~timeline
          <6>1. DEFINE v == queue'[i].value
          <6>2. v = submitted + 1 /\ queue'[i].raises = {NextFence}
            BY <4>1, <5>2
          <6>3. v - lastCompleted' = submitted + 1 - lastCompleted'
            <7>1. lastCompleted' \in Nat /\ v = submitted + 1
              BY <6>2, SubmitTyped DEF VulkanType
            <7>2. HIDE DEF v
            <7>3. QED
              BY <1>1, <7>1
          <6>4. active'[v - lastCompleted'].raw = NextFence
            BY <1>4, <5>2, <6>3
          <6>5. QED
            BY <5>2, <6>2, <6>4
        <5>3. QED
          BY <5>1, <5>2
      <4>3. QED
        BY <1>1, <4>1, <4>2
    <3>3. QED
      BY <1>3, <3>1, <3>2
  <2>3. ASSUME NEW i \in DOMAIN queue', queue'[i].op # "submit"
        PROVE  queue'[i].raises = {} /\ queue'[i].image \in 1..Images
    BY <1>1, <1>3, <2>3, QueueAfter DEF QueueInOrder
  <2>4. ASSUME NEW i \in DOMAIN queue', NEW j \in DOMAIN queue',
               queue'[i].op = "submit", queue'[j].op = "submit", i < j
        PROVE  queue'[i].value < queue'[j].value
    <3>1. i \in DOMAIN queue /\ queue'[i] = queue[i]
      BY <2>4, QueueAfter
    <3>2. CASE j \in DOMAIN queue /\ queue'[j] = queue[j]
      BY <1>1, <2>4, <3>1, <3>2 DEF QueueInOrder
    <3>3. CASE j = Len(queue) + 1
      <4>1. queue[i].value <= submitted
        BY <1>1, <2>4, <3>1 DEF QueueInOrder
      <4>2. QED
        BY <1>1, <2>1, <3>1, <3>3, <4>1, QueueAfter
    <3>4. QED
      BY <1>3, <3>2, <3>3
  <2>5. ASSUME NEW v \in (finished + 1)..(submitted + 1)
        PROVE  \E i \in DOMAIN queue' : queue'[i].op = "submit" /\ queue'[i].value = v
    <3>1. CASE v = submitted + 1
      BY <3>1, QueueAfter
    <3>2. CASE v # submitted + 1
      <4>1. v \in (finished + 1)..submitted
        BY <1>1, <3>2
      <4>2. PICK i \in DOMAIN queue : queue[i].op = "submit" /\ queue[i].value = v
        BY <1>1, <4>1 DEF QueueInOrder
      <4>3. QED
        BY <4>2, QueueAfter
    <3>3. QED
      BY <3>1, <3>2
  <2>6. QED
    BY <1>2, <2>2, <2>3, <2>4, <2>5 DEF QueueInOrder
<1>5. CASE timeline
  <2>1. UNCHANGED <<lastCompleted, active, free, signaled, finished, timeline, counter>>
    BY <1>2, <1>5 DEF MaintainAndPush
  <2>2. Counted'
    BY <1>1, <1>2, <1>5, <2>1 DEF Counted
  <2>3. PoolKept'
    BY <1>1, <2>1 DEF PoolKept, Pooled
  <2>4. QueueInOrder'
    BY <1>1, <1>4, <1>5 DEF QueueInOrder
  <2>5. QED
    BY <2>2, <2>3, <2>4
<1>6. CASE ~timeline
  <2>1. DEFINE k == PassedUses
               n == Len(active)
               l == n - k
  <2>2. /\ lastCompleted' = finished /\ free' = FreeLeft /\ Pooled' = PoolAfter
        /\ DOMAIN active' = 1..(l + 1) /\ Len(active') = l + 1
        /\ \A i \in 1..l :
              active'[i] = active[k + i] /\ k + i \in DOMAIN active /\ k + i \in (k + 1)..n
        /\ active'[l + 1].value = submitted + 1
        /\ active'[l + 1].raw = NextFence
    BY <1>6, ActiveAfter
  <2>3. /\ k = finished - lastCompleted /\ n = submitted - lastCompleted
        /\ k \in Nat /\ n \in Nat /\ l = submitted - finished /\ l \in Nat
        /\ \A i \in DOMAIN active : active[i].value = lastCompleted + i
    BY <1>1, <1>6 DEF PassedUses, Counted
  <2>4. (k + 1)..n = (PassedUses + 1)..Len(active)
    OBVIOUS
  <2>5. HIDE DEF k, n, l
  <2>6. \A i \in DOMAIN active' :
           \/ i \in 1..l /\ active'[i] = active[k + i] /\ k + i \in DOMAIN active /\ k + i \in (k + 1)..n
           \/ i = l + 1
    BY <2>2, <2>3
  <2>11. ASSUME NEW i \in 1..l PROVE active[k + i].value = finished + i
    <3>1. PICK m \in DOMAIN active : m = k + i
      BY <2>2
    <3>2. active[m].value = lastCompleted + m
      BY <2>3
    <3>3. QED
      BY <1>1, <2>3, <3>1, <3>2
  <2>7. Counted'
    <3>1. \A i \in DOMAIN active' : active'[i].value = lastCompleted' + i
      <4>1. \A i \in 1..l : active'[i].value = lastCompleted' + i
        BY <2>2, <2>11
      <4>2. active'[l + 1].value = lastCompleted' + (l + 1)
        BY <1>1, <2>2, <2>3
      <4>3. QED
        BY <2>6, <4>1, <4>2
    <3>2. QED
      BY <1>1, <1>2, <1>6, <2>2, <2>3, <3>1 DEF Counted
  <2>8. PoolKept'
    <3>1. \A i \in DOMAIN active' : active'[i].raw[2] \in 1..PoolAfter
      <4>1. ASSUME NEW i \in 1..l PROVE active'[i].raw[2] \in 1..PoolAfter
        <5>1. active[k + i].raw[2] \in 1..Pooled /\ active'[i] = active[k + i]
          BY <1>1, <2>2 DEF PoolKept
        <5>2. QED
          BY <5>1, <1>6, FenceGiven
      <4>2. QED
        BY <1>6, <2>2, <2>6, <4>1, FenceGiven
    <3>2. \A i, j \in DOMAIN active' : i # j => active'[i].raw # active'[j].raw
      <4>1. ASSUME NEW i \in 1..l PROVE active'[i].raw # NextFence
        BY <1>6, <2>2, <2>4, FenceGiven
      <4>2. ASSUME NEW i \in 1..l, NEW j \in 1..l, i # j PROVE active'[i].raw # active'[j].raw
        <5>1. k + i # k + j /\ k + i \in DOMAIN active /\ k + j \in DOMAIN active
          BY <2>2, <2>3, <4>2
        <5>2. QED
          BY <1>1, <2>2, <5>1 DEF PoolKept
      <4>3. QED
        BY <2>2, <2>6, <4>1, <4>2
    <3>3. ASSUME NEW i \in DOMAIN active', NEW j \in DOMAIN free' PROVE active'[i].raw # free'[j]
      BY <1>6, <2>2, <2>4, <2>6, FenceGiven
    <3>4. ASSUME NEW i \in DOMAIN active' PROVE active'[i].raw \in signaled' <=> active'[i].value <= finished
      <4>1. ASSUME NEW j \in 1..l, i = j PROVE active'[i].raw \notin signaled /\ ~(active'[i].value <= finished)
        <5>1. ~(active[k + j].value <= finished) /\ active'[i] = active[k + j] /\ k + j \in DOMAIN active
          <6>1. active[k + j].value = finished + j
            BY <2>11
          <6>2. QED
            BY <1>1, <2>2, <4>1, <6>1
        <5>2. QED
          BY <1>1, <5>1 DEF PoolKept
      <4>2. CASE i = l + 1
        BY <1>1, <1>2, <1>6, <2>2, <4>2, FenceGiven
      <4>3. QED
        BY <1>2, <2>6, <4>1, <4>2
    <3>5. \A f \in signaled' \cap VkFences : f[2] <= PoolAfter
      <4>1. ASSUME NEW f \in VkFences, f[2] <= Pooled PROVE f[2] <= PoolAfter
        <5>1. f[2] \in Nat
          BY DEF VkFences
        <5>2. QED
          BY <1>6, <4>1, <5>1, FenceGiven
      <4>2. QED
        BY <1>1, <1>2, <1>6, <4>1 DEF PoolKept
    <3>6. /\ \A i \in DOMAIN free' : free'[i][2] \in 1..PoolAfter /\ free'[i] \notin signaled'
          /\ \A i, j \in DOMAIN free' : i # j => free'[i] # free'[j]
      BY <1>2, <1>6, <2>2, FenceGiven
    <3>7. QED
      BY <1>2, <2>2, <3>1, <3>2, <3>3, <3>4, <3>5, <3>6 DEF PoolKept
  <2>9. QueueInOrder'
    <3>1. ASSUME NEW i \in DOMAIN queue, queue[i].op = "submit"
          PROVE  queue[i].raises = {active'[queue[i].value - lastCompleted'].raw}
      <4>1. /\ finished < queue[i].value /\ queue[i].value <= submitted
            /\ queue[i].raises = {active[queue[i].value - lastCompleted].raw}
        BY <1>1, <1>6, <3>1 DEF QueueInOrder
      <4>2. queue[i].value \in Nat
        <5>1. queue[i] \in Batches
          BY <1>1
        <5>2. QED
          BY <5>1 DEF Batches
      <4>6. DEFINE v == queue[i].value
      <4>7. v \in Nat /\ finished < v /\ v <= submitted
        BY <4>1, <4>2
      <4>8. finished \in Nat /\ lastCompleted \in Nat /\ submitted \in Nat
        BY <1>1
      <4>9. HIDE DEF v
      <4>3. PICK m \in 1..l : m = v - finished
        <5>1. v - finished \in 1..l
          BY <2>3, <4>7, <4>8
        <5>2. QED
          BY <5>1
      <4>10. k + m = v - lastCompleted /\ v - finished = m
        BY <2>3, <4>3, <4>7, <4>8
      <4>4. k + m = queue[i].value - lastCompleted /\ queue[i].value - lastCompleted' = m
        BY <2>2, <4>10 DEF v
      <4>5. QED
        BY <2>2, <4>1, <4>4
    <3>2. active'[submitted + 1 - lastCompleted'].raw = NextFence
      <4>1. submitted + 1 - lastCompleted' = l + 1
        BY <1>1, <2>2, <2>3
      <4>2. QED
        BY <2>2, <4>1
    <3>3. QED
      BY <1>4, <1>6, <3>1, <3>2
  <2>10. QED
    BY <2>7, <2>8, <2>9
<1>7. QED
  BY <1>1, <1>5, <1>6

(* Steps that leave the fence as it is.                                    *)
LEMMA FenceLeft ==
  ASSUME FenceInv, UNCHANGED <<submitted, fenceVars, counter, finished>>,
         signaled' \cap VkFences = signaled \cap VkFences
  PROVE  Counted' /\ PoolKept'
<1>1. Counted'
  BY DEF FenceInv, Counted, fenceVars
<1>2. /\ \A i \in DOMAIN active : active[i].raw \in VkFences
      /\ \A i \in DOMAIN free : free[i] \in VkFences
  BY UseFields DEF FenceInv, VulkanType
<1>3. \A f \in VkFences : f \in signaled' <=> f \in signaled
  OBVIOUS
<1>4. UNCHANGED <<active, free, finished>>
  BY DEF fenceVars
<1>5. Pooled' = Pooled
  BY <1>4 DEF Pooled
<1>6. PoolKept
  BY DEF FenceInv
<1>7. PoolKept'
  BY <1>2, <1>3, <1>4, <1>5, <1>6 DEF PoolKept
<1>8. QED
  BY <1>1, <1>7

LEMMA BatchFields ==
  ASSUME queue \in Seq(Batches), NEW i \in DOMAIN queue
  PROVE  /\ queue[i] \in Batches /\ queue[i].value \in Nat /\ queue[i].op \in {"submit", "present"}
         /\ queue[i].image \in 0..Images /\ queue[i].waits \subseteq Semaphores
         /\ queue[i].signals \subseteq Semaphores /\ queue[i].raises \subseteq VkFences
         /\ queue[i].started \in BOOLEAN
<1>1. queue[i] \in Batches
  OBVIOUS
<1>2. QED
  BY <1>1 DEF Batches

LEMMA AcquireKeepsFence ==
  ASSUME FenceInv, NEW image \in 1..Images, AcquireImage(image)
  PROVE  FenceInv'
<1>1. VulkanType /\ QueueInOrder
  BY DEF FenceInv
<1>2. Acquire(nextAcquire) \in Semaphores /\ Acquire(nextAcquire) \notin VkFences
  BY <1>1, Named, VulkanAssumption DEF VulkanType
<1>3. Counted' /\ PoolKept'
  <2>1. signaled' \cap VkFences = signaled \cap VkFences
    BY <1>2 DEF AcquireImage
  <2>2. QED
    BY <2>1, FenceLeft DEF AcquireImage, relayVars, fenceVars
<1>4. VulkanType'
  <2>1. UNCHANGED <<relay, submitted, timeline, lastCompleted, active, free, acquireSem,
                    presentSem, counter, queue, finished>>
    BY DEF AcquireImage, relayVars, fenceVars
  <2>2. nextAcquire' \in 1..Images
    BY <1>1, VulkanAssumption DEF AcquireImage, VulkanType
  <2>3. frame' = [image |-> image, slot |-> nextAcquire]
    BY DEF AcquireImage
  <2>4. /\ frame' \in [image : 0..Images, slot : 0..Images]
        /\ frame'.image \in 1..Images /\ frame'.slot \in 1..Images
    BY <1>1, <2>3, VulkanAssumption DEF VulkanType
  <2>5. signaled' \subseteq Semaphores \cup VkFences
    BY <1>1, <1>2 DEF AcquireImage, VulkanType
  <2>6. /\ mishap' \in BOOLEAN /\ clash' \in BOOLEAN /\ frames' \in Nat
        /\ engine' \subseteq 1..Images
    BY <1>1 DEF AcquireImage, VulkanType
  <2>7. QED
    BY <1>1, <2>1, <2>2, <2>4, <2>5, <2>6 DEF VulkanType
<1>5. QueueInOrder'
  BY <1>1 DEF QueueInOrder, AcquireImage, relayVars, fenceVars
<1>6. QED
  BY <1>3, <1>4, <1>5 DEF FenceInv

LEMMA DiscardKeepsFence ==
  ASSUME FenceInv, DiscardImage
  PROVE  FenceInv'
<1>1. VulkanType /\ QueueInOrder
  BY DEF FenceInv
<1>2. UNCHANGED <<relay, submitted, timeline, lastCompleted, active, free, acquireSem, nextAcquire,
                  presentSem, frames, clash, counter, queue, finished, signaled, engine>>
  BY DEF DiscardImage, relayVars, fenceVars, gpuVars
<1>3. Counted' /\ PoolKept'
  BY <1>2, FenceLeft DEF fenceVars
<1>4. frame' \in [image : 0..Images, slot : 0..Images] /\ frame' = None' /\ mishap' = TRUE
  BY VulkanAssumption DEF DiscardImage, None
<1>5. VulkanType'
  BY <1>1, <1>2, <1>4 DEF VulkanType
<1>6. QueueInOrder'
  BY <1>1, <1>2 DEF QueueInOrder
<1>7. QED
  BY <1>3, <1>5, <1>6 DEF FenceInv

LEMMA PresentKeepsFence ==
  ASSUME FenceInv, PresentImage
  PROVE  FenceInv'
<1>1. VulkanType /\ QueueInOrder
  BY DEF FenceInv
<1>2. UNCHANGED <<relay, submitted, timeline, lastCompleted, active, free, nextAcquire,
                  frames, clash, counter, finished, signaled, engine>>
  BY DEF PresentImage, relayVars, fenceVars
<1>3. Counted' /\ PoolKept'
  BY <1>2, FenceLeft DEF fenceVars
<1>4. frame.image \in 1..Images /\ frame.slot \in 1..Images
  BY <1>1 DEF VulkanType, PresentImage
<1>5. DEFINE waits == {PresentSem(frame.image, i) : i \in 1..presentSem[frame.image].index}
             b == [op |-> "present", value |-> 0, image |-> frame.image, waits |-> waits,
                   signals |-> {}, raises |-> {}, started |-> FALSE]
<1>6. waits \subseteq Semaphores
  BY <1>4, Named
<1>7. b \in Batches /\ b.op = "present" /\ b.raises = {} /\ b.image \in 1..Images
  <2>1. frame.image \in 0..Images
    BY <1>4, VulkanAssumption
  <2>2. HIDE DEF waits
  <2>3. QED
    BY <1>4, <1>6, <2>1 DEF Batches
<1>8. queue' = Append(queue, b) /\ queue \in Seq(Batches)
  BY <1>1 DEF PresentImage, VulkanType
<1>9. HIDE DEF waits, b
<1>10. /\ queue' \in Seq(Batches) /\ DOMAIN queue' = 1..(Len(queue) + 1)
       /\ DOMAIN queue = 1..Len(queue) /\ Len(queue) \in Nat
       /\ \A i \in DOMAIN queue : queue'[i] = queue[i] /\ i \in DOMAIN queue'
       /\ queue'[Len(queue) + 1] = b
  BY <1>7, <1>8
<1>11. QueueInOrder'
  <2>1. \A i \in DOMAIN queue' : i \in DOMAIN queue \/ i = Len(queue) + 1
    BY <1>10
  <2>2. \A i \in DOMAIN queue' : queue'[i].op = "submit" =>
           i \in DOMAIN queue /\ queue'[i] = queue[i]
    BY <1>7, <1>10, <2>1
  <2>3. \A i \in DOMAIN queue' : queue'[i].op # "submit" =>
              queue'[i].raises = {} /\ queue'[i].image \in 1..Images
    BY <1>1, <1>7, <1>10, <2>1 DEF QueueInOrder
  <2>4. \A v \in (finished + 1)..submitted : \E i \in DOMAIN queue' :
           queue'[i].op = "submit" /\ queue'[i].value = v
    BY <1>1, <1>10 DEF QueueInOrder
  <2>5. QED
    BY <1>1, <1>2, <2>2, <2>3, <2>4 DEF QueueInOrder
<1>12. VulkanType'
  <2>1. acquireSem' \in [1..Images -> [wait : BOOLEAN, used : Nat]]
    BY <1>1, <1>4 DEF PresentImage, VulkanType
  <2>2. presentSem' \in [1..Images -> [made : Nat, index : Nat]]
    BY <1>1, <1>4 DEF PresentImage, VulkanType, EndUsage
  <2>3. mishap' \in BOOLEAN
    BY <1>1 DEF PresentImage, VulkanType
  <2>4. frame' \in [image : 0..Images, slot : 0..Images] /\ frame' = None'
    BY VulkanAssumption DEF PresentImage, None
  <2>5. QED
    BY <1>1, <1>2, <1>10, <2>1, <2>2, <2>3, <2>4 DEF VulkanType
<1>13. QED
  BY <1>3, <1>11, <1>12 DEF FenceInv

LEMMA StartKeepsFence ==
  ASSUME FenceInv, NEW i \in DOMAIN queue, GpuStart(i)
  PROVE  FenceInv'
<1>1. VulkanType /\ QueueInOrder
  BY DEF FenceInv
<1>2. UNCHANGED <<relay, submitted, timeline, lastCompleted, active, free, nextAcquire, acquireSem,
                  presentSem, frame, mishap, frames, clash, counter, finished, engine>>
  BY DEF GpuStart, relayVars, fenceVars, chainVars
<1>3. Counted' /\ PoolKept'
  <2>1. queue[i].waits \subseteq Semaphores
    BY <1>1, BatchFields DEF VulkanType
  <2>2. signaled' \cap VkFences = signaled \cap VkFences
    BY <2>1, Named DEF GpuStart
  <2>3. QED
    BY <1>2, <2>2, FenceLeft DEF fenceVars
<1>4. queue' = [queue EXCEPT ![i].started = TRUE] /\ queue \in Seq(Batches)
  BY <1>1 DEF GpuStart, VulkanType
<1>5. /\ queue' \in Seq(Batches) /\ DOMAIN queue' = DOMAIN queue
      /\ \A j \in DOMAIN queue : /\ queue'[j].op = queue[j].op /\ queue'[j].value = queue[j].value
                                 /\ queue'[j].raises = queue[j].raises
                                 /\ queue'[j].image = queue[j].image
  <2>1. DEFINE b == [queue[i] EXCEPT !.started = TRUE]
  <2>2. /\ b \in Batches /\ b.op = queue[i].op /\ b.value = queue[i].value
        /\ b.raises = queue[i].raises /\ b.image = queue[i].image
    <3>1. queue[i] \in Batches
      BY <1>4
    <3>2. QED
      BY <3>1 DEF Batches
  <2>3. queue' = [queue EXCEPT ![i] = b]
    BY <1>4
  <2>4. HIDE DEF b
  <2>5. /\ queue' \in Seq(Batches) /\ DOMAIN queue' = DOMAIN queue /\ queue'[i] = b
        /\ \A j \in DOMAIN queue : j # i => queue'[j] = queue[j]
    <3>1. DEFINE r == [queue EXCEPT ![i] = b]
    <3>2. /\ r \in Seq(Batches) /\ DOMAIN r = DOMAIN queue /\ r[i] = b
          /\ \A j \in DOMAIN queue : j # i => r[j] = queue[j]
      BY <1>4, <2>2
    <3>3. queue' = r
      BY <2>3
    <3>4. HIDE DEF r
    <3>5. QED
      BY <3>2, <3>3
  <2>6. ASSUME NEW j \in DOMAIN queue
        PROVE  /\ queue'[j].op = queue[j].op /\ queue'[j].value = queue[j].value
               /\ queue'[j].raises = queue[j].raises /\ queue'[j].image = queue[j].image
    <3>1. CASE j = i
      BY <2>2, <2>5, <3>1
    <3>2. CASE j # i
      BY <2>5, <3>2
    <3>3. QED
      BY <3>1, <3>2
  <2>7. QED
    BY <2>5, <2>6
<1>6. QueueInOrder'
  <2>1. \A j \in DOMAIN queue' : queue'[j].op = "submit" =>
          /\ finished < queue'[j].value /\ queue'[j].value <= submitted
          /\ queue'[j].raises = IF timeline THEN {}
                                ELSE {active[queue'[j].value - lastCompleted].raw}
    BY <1>1, <1>5 DEF QueueInOrder
  <2>2. \A j \in DOMAIN queue' : queue'[j].op # "submit" =>
              queue'[j].raises = {} /\ queue'[j].image \in 1..Images
    BY <1>1, <1>5 DEF QueueInOrder
  <2>3. \A j, k \in DOMAIN queue' : queue'[j].op = "submit" /\ queue'[k].op = "submit" /\ j < k
          => queue'[j].value < queue'[k].value
    BY <1>1, <1>5 DEF QueueInOrder
  <2>4. \A v \in (finished + 1)..submitted : \E j \in DOMAIN queue' :
          queue'[j].op = "submit" /\ queue'[j].value = v
    BY <1>1, <1>5 DEF QueueInOrder
  <2>5. QED
    BY <1>2, <2>1, <2>2, <2>3, <2>4 DEF QueueInOrder
<1>7. VulkanType'
  <2>1. signaled' \subseteq Semaphores \cup VkFences
    BY <1>1 DEF GpuStart, VulkanType
  <2>2. QED
    BY <1>1, <1>2, <1>5, <2>1 DEF VulkanType
<1>8. QED
  BY <1>3, <1>6, <1>7 DEF FenceInv

LEMMA FinishKeepsFence ==
  ASSUME FenceInv, GpuFinish
  PROVE  FenceInv'
<1>1. /\ VulkanType /\ Counted /\ PoolKept /\ QueueInOrder /\ queue \in Seq(Batches)
      /\ lastCompleted \in Nat /\ finished \in Nat /\ submitted \in Nat /\ timeline \in BOOLEAN
      /\ lastCompleted <= finished /\ finished <= submitted
      /\ active \in Seq(FenceUses) /\ free \in Seq(VkFences)
  BY DEF FenceInv, VulkanType, Counted
<1>2. UNCHANGED <<relay, submitted, timeline, lastCompleted, active, free, nextAcquire, acquireSem,
                  presentSem, frame, mishap, frames>>
  BY DEF GpuFinish, relayVars, fenceVars
<1>3. DEFINE q == queue[1]
<1>4. /\ queue # <<>> /\ queue' = Tail(queue)
      /\ signaled' = signaled \cup q.signals \cup q.raises
      /\ clash' = (clash \/ q.signals \cap signaled # {})
      /\ finished' = IF q.op = "submit" THEN q.value ELSE finished
      /\ counter' = IF q.op = "submit" /\ timeline THEN q.value ELSE counter
      /\ engine' = IF q.op = "present" THEN engine \cup {q.image} ELSE engine
  BY DEF GpuFinish
<1>5. /\ queue' \in Seq(Batches) /\ Len(queue) \in Nat /\ Len(queue) # 0
      /\ DOMAIN queue = 1..Len(queue) /\ 1 \in DOMAIN queue
      /\ DOMAIN queue' = 1..(Len(queue) - 1)
      /\ \A i \in DOMAIN queue' : queue'[i] = queue[i + 1] /\ i + 1 \in DOMAIN queue /\ i + 1 > 1
  BY <1>1, <1>4
<1>6. /\ q.value \in Nat /\ q.op \in {"submit", "present"} /\ q.image \in 0..Images
      /\ q.signals \subseteq Semaphores /\ q.raises \subseteq VkFences
  BY <1>1, <1>5, BatchFields
<1>7. ASSUME NEW i \in DOMAIN queue', NEW j \in DOMAIN queue', i < j
      PROVE  i + 1 < j + 1
  BY <1>5, <1>7
<1>8. VulkanType'
  <2>1. finished' \in Nat /\ counter' \in Nat /\ clash' \in BOOLEAN
    BY <1>1, <1>4, <1>6 DEF VulkanType
  <2>2. signaled' \subseteq Semaphores \cup VkFences
    BY <1>1, <1>4, <1>6 DEF VulkanType
  <2>3. engine' \subseteq 1..Images
    <3>1. q.op = "present" => q.image \in 1..Images
      BY <1>1, <1>5 DEF QueueInOrder
    <3>2. QED
      BY <1>1, <1>4, <3>1 DEF VulkanType
  <2>4. QED
    BY <1>1, <1>2, <1>5, <2>1, <2>2, <2>3 DEF VulkanType
<1>9. CASE q.op = "submit"
  <2>1. q.value = finished + 1 /\ finished + 1 <= submitted
    <3>1. finished < q.value /\ q.value <= submitted
      BY <1>1, <1>5, <1>9 DEF QueueInOrder
    <3>2. finished + 1 \in (finished + 1)..submitted
      BY <1>1, <1>6, <3>1
    <3>3. PICK i \in DOMAIN queue : queue[i].op = "submit" /\ queue[i].value = finished + 1
      BY <1>1, <3>2 DEF QueueInOrder
    <3>4. i # 1 => q.value < queue[i].value
      <4>1. i # 1 => 1 < i
        BY <1>5
      <4>2. QED
        BY <1>1, <1>5, <1>9, <3>3, <4>1 DEF QueueInOrder
    <3>5. QED
      BY <1>1, <1>6, <3>1, <3>3, <3>4
  <2>2. finished' = finished + 1
    BY <1>4, <1>9, <2>1
  <2>3. Counted'
    <3>1. timeline => counter' = finished'
      BY <1>4, <1>9
    <3>2. QED
      BY <1>1, <1>2, <2>1, <2>2, <3>1 DEF Counted
  <2>4. PoolKept'
    <3>1. CASE timeline
      <4>1. q.raises = {}
        BY <1>1, <1>5, <1>9, <3>1 DEF QueueInOrder
      <4>2. active = <<>>
        BY <1>1, <3>1 DEF Counted
      <4>3. \A f \in VkFences : f \in signaled' <=> f \in signaled
        BY <1>4, <1>6, <4>1, Named
      <4>4. \A i \in DOMAIN free : free[i] \in VkFences
        BY <1>1
      <4>5. QED
        BY <1>1, <1>2, <4>2, <4>3, <4>4 DEF PoolKept, Pooled
    <3>2. CASE ~timeline
      <4>1. PICK m \in DOMAIN active : m = finished + 1 - lastCompleted
        BY <1>1, <2>1, <3>2 DEF Counted
      <4>2. q.raises = {active[m].raw}
        <5>1. q.raises = {active[q.value - lastCompleted].raw}
          BY <1>1, <1>5, <1>9, <3>2 DEF QueueInOrder
        <5>2. q.value - lastCompleted = m
          <6>1. q.value = finished + 1 /\ m = finished + 1 - lastCompleted
            BY <2>1, <4>1
          <6>2. finished \in Nat /\ lastCompleted \in Nat
            BY <1>1
          <6>3. HIDE DEF q
          <6>4. QED
            BY <6>1, <6>2
        <5>3. QED
          BY <5>1, <5>2
      <4>3. \A f \in VkFences : f \in signaled' <=> f \in signaled \/ f = active[m].raw
        BY <1>4, <1>6, <4>2, Named
      <4>4. active[m].raw \in VkFences
        BY <1>1, UseFields
      <4>5. ASSUME NEW i \in DOMAIN active
            PROVE  active[i].raw \in signaled' <=> active[i].value <= finished + 1
        <5>1. active[i].raw \in VkFences /\ active[i].value \in Nat
          BY <1>1, UseFields
        <5>2. active[i].raw \in signaled <=> active[i].value <= finished
          BY <1>1 DEF PoolKept
        <5>3. active[i].value = finished + 1 <=> i = m
          BY <1>1, <4>1 DEF Counted
        <5>4. active[i].raw = active[m].raw <=> i = m
          BY <1>1, <4>1 DEF PoolKept
        <5>5. QED
          BY <1>1, <4>3, <5>1, <5>2, <5>3, <5>4
      <4>6. \A i \in DOMAIN free : free[i] \notin signaled'
        <5>1. \A i \in DOMAIN free : free[i] \in VkFences
          BY <1>1
        <5>2. QED
          BY <1>1, <4>3, <5>1 DEF PoolKept
      <4>7. \A f \in signaled' \cap VkFences : f[2] <= Pooled
        <5>1. active[m].raw[2] \in 1..Pooled
          BY <1>1 DEF PoolKept
        <5>2. active[m].raw[2] <= Pooled
          BY <5>1
        <5>3. QED
          BY <1>1, <4>3, <5>2 DEF PoolKept
      <4>8. QED
        BY <1>1, <1>2, <2>2, <4>5, <4>6, <4>7 DEF PoolKept, Pooled
    <3>3. QED
      BY <1>1, <3>1, <3>2
  <2>5. QueueInOrder'
    <3>1. ASSUME NEW i \in DOMAIN queue', queue'[i].op = "submit"
          PROVE  /\ finished + 1 < queue'[i].value /\ queue'[i].value <= submitted
                 /\ queue'[i].raises = IF timeline THEN {}
                                       ELSE {active[queue'[i].value - lastCompleted].raw}
      <4>1. PICK j \in DOMAIN queue : queue'[i] = queue[j] /\ j > 1
        BY <1>5
      <4>2. q.value < queue[j].value
        BY <1>1, <1>5, <1>9, <3>1, <4>1 DEF QueueInOrder
      <4>3. queue'[i].value <= submitted
            /\ queue'[i].raises = IF timeline THEN {}
                                  ELSE {active[queue'[i].value - lastCompleted].raw}
        BY <1>1, <3>1, <4>1 DEF QueueInOrder
      <4>4. QED
        BY <2>1, <4>1, <4>2, <4>3
    <3>2. \A i \in DOMAIN queue' : queue'[i].op # "submit" =>
              queue'[i].raises = {} /\ queue'[i].image \in 1..Images
      BY <1>1, <1>5 DEF QueueInOrder
    <3>3. \A i, j \in DOMAIN queue' : queue'[i].op = "submit" /\ queue'[j].op = "submit" /\ i < j
            => queue'[i].value < queue'[j].value
      BY <1>1, <1>5, <1>7 DEF QueueInOrder
    <3>4. ASSUME NEW v \in (finished + 2)..submitted
          PROVE  \E i \in DOMAIN queue' : queue'[i].op = "submit" /\ queue'[i].value = v
      <4>1. v \in (finished + 1)..submitted
        BY <1>1
      <4>2. PICK i \in DOMAIN queue : queue[i].op = "submit" /\ queue[i].value = v
        BY <1>1, <4>1 DEF QueueInOrder
      <4>3. i # 1
        BY <1>1, <2>1, <4>2
      <4>4. PICK j \in DOMAIN queue' : i = j + 1
        <5>1. i - 1 \in DOMAIN queue' /\ i = (i - 1) + 1
          BY <1>5, <4>3
        <5>2. QED
          BY <5>1
      <4>5. QED
        BY <1>5, <4>2, <4>4
    <3>5. (finished + 1) + 1 = finished + 2
      BY <1>1
    <3>6. QED
      BY <1>2, <2>2, <3>1, <3>2, <3>3, <3>4, <3>5 DEF QueueInOrder
  <2>6. QED
    BY <1>8, <2>3, <2>4, <2>5 DEF FenceInv
<1>10. CASE q.op # "submit"
  <2>1. q.raises = {} /\ finished' = finished /\ counter' = counter
    BY <1>1, <1>4, <1>5, <1>10 DEF QueueInOrder
  <2>2. signaled' \cap VkFences = signaled \cap VkFences
    BY <1>4, <1>6, <2>1, Named
  <2>3. Counted' /\ PoolKept'
    BY <1>2, <2>1, <2>2, FenceLeft DEF fenceVars
  <2>4. QueueInOrder'
    <3>1. \A i \in DOMAIN queue' : queue'[i].op = "submit" =>
             /\ finished < queue'[i].value /\ queue'[i].value <= submitted
             /\ queue'[i].raises = IF timeline THEN {}
                                   ELSE {active[queue'[i].value - lastCompleted].raw}
      <4>1. ASSUME NEW i \in DOMAIN queue', queue'[i].op = "submit"
            PROVE  /\ finished < queue'[i].value /\ queue'[i].value <= submitted
                   /\ queue'[i].raises = IF timeline THEN {}
                                         ELSE {active[queue'[i].value - lastCompleted].raw}
        <5>1. PICK j \in DOMAIN queue : queue'[i] = queue[j]
          BY <1>5
        <5>2. QED
          BY <1>1, <4>1, <5>1 DEF QueueInOrder
      <4>2. QED
        BY <4>1
    <3>2. \A i \in DOMAIN queue' : queue'[i].op # "submit" =>
              queue'[i].raises = {} /\ queue'[i].image \in 1..Images
      BY <1>1, <1>5 DEF QueueInOrder
    <3>3. \A i, j \in DOMAIN queue' : queue'[i].op = "submit" /\ queue'[j].op = "submit" /\ i < j
            => queue'[i].value < queue'[j].value
      BY <1>1, <1>5, <1>7 DEF QueueInOrder
    <3>4. ASSUME NEW v \in (finished + 1)..submitted
          PROVE  \E i \in DOMAIN queue' : queue'[i].op = "submit" /\ queue'[i].value = v
      <4>2. PICK i \in DOMAIN queue : queue[i].op = "submit" /\ queue[i].value = v
        BY <1>1 DEF QueueInOrder
      <4>3. i # 1
        BY <1>10, <4>2
      <4>4. PICK j \in DOMAIN queue' : i = j + 1
        <5>1. i - 1 \in DOMAIN queue' /\ i = (i - 1) + 1
          BY <1>5, <4>3
        <5>2. QED
          BY <5>1
      <4>5. QED
        BY <1>5, <4>2, <4>4
    <3>5. QED
      BY <1>2, <2>1, <3>1, <3>2, <3>3, <3>4 DEF QueueInOrder
  <2>5. QED
    BY <1>8, <2>3, <2>4 DEF FenceInv
<1>11. QED
  BY <1>9, <1>10

LEMMA FencesStep == FenceInv /\ [VulkanNext]_vulkanVars => FenceInv'
<1>1. SUFFICES ASSUME FenceInv, [VulkanNext]_vulkanVars PROVE FenceInv'
  OBVIOUS
<1>2. ASSUME NEW draws \in BOOLEAN, Submit(draws) PROVE FenceInv'
  BY <1>1, <1>2, SubmitTyped, SubmitKeepsFence DEF FenceInv
<1>3. ASSUME NEW image \in 1..Images, AcquireImage(image) PROVE FenceInv'
  BY <1>1, <1>3, AcquireKeepsFence
<1>4. CASE PresentImage
  BY <1>1, <1>4, PresentKeepsFence
<1>5. CASE DiscardImage
  BY <1>1, <1>5, DiscardKeepsFence
<1>6. ASSUME NEW i \in DOMAIN queue, GpuStart(i) PROVE FenceInv'
  BY <1>1, <1>6, StartKeepsFence
<1>7. CASE GpuFinish
  BY <1>1, <1>7, FinishKeepsFence
<1>8. CASE UNCHANGED vulkanVars
  <2>1. UNCHANGED <<relay, submitted, timeline, lastCompleted, active, free, acquireSem,
                    nextAcquire, presentSem, frame, frames, mishap, clash, counter, queue,
                    finished, signaled, engine>>
    BY <1>8 DEF vulkanVars, relayVars, fenceVars, chainVars, gpuVars
  <2>2. VulkanType /\ QueueInOrder
    BY <1>1 DEF FenceInv
  <2>3. Counted' /\ PoolKept'
    BY <1>1, <2>1, FenceLeft DEF fenceVars
  <2>4. VulkanType'
    BY <2>1, <2>2 DEF VulkanType
  <2>5. QueueInOrder'
    BY <2>1, <2>2 DEF QueueInOrder
  <2>6. QED
    BY <2>3, <2>4, <2>5 DEF FenceInv
<1>9. QED
  BY <1>1, <1>2, <1>3, <1>4, <1>5, <1>6, <1>7, <1>8 DEF VulkanNext

(* The value that the fence reports and the place of each Vulkan fence,    *)
(* which the code of Fence::maintain and Queue::submit keeps.              *)
THEOREM FencesKept == VulkanSpec => []FenceInv
BY FencesBegin, FencesStep, PTL DEF VulkanSpec

(* A wait that returns tells that its submission ended.                    *)
LEMMA ReachedEnded ==
  ASSUME FenceInv, NEW v \in 1..submitted, Reached(v)
  PROVE  v <= finished
<1>1. /\ lastCompleted \in Nat /\ finished \in Nat /\ submitted \in Nat /\ counter \in Nat
      /\ timeline \in BOOLEAN /\ active \in Seq(FenceUses) /\ Counted /\ PoolKept
      /\ lastCompleted <= finished /\ finished <= submitted
  BY DEF FenceInv, VulkanType, Counted
<1>2. CASE timeline
  BY <1>1, <1>2 DEF Reached, Counted
<1>3. CASE ~timeline /\ v <= lastCompleted
  BY <1>1, <1>3
<1>4. CASE ~timeline /\ \E i \in FenceFor(v) : active[i].raw \in signaled
  <2>1. PICK i \in DOMAIN active : active[i].value >= v /\ active[i].raw \in signaled
    BY <1>4 DEF FenceFor
  <2>2. active[i].value <= finished /\ active[i].value \in Nat
    BY <1>1, <2>1, UseFields DEF PoolKept
  <2>3. QED
    BY <1>1, <2>1, <2>2
<1>5. QED
  BY <1>1, <1>2, <1>3, <1>4 DEF Reached

(* The fence tells the truth, however long the queue, however many times   *)
(* its Vulkan fences were recycled: GetLatest is the last submission that  *)
(* ended, a wait ends only after its submission, and it always finds one   *)
(* of the pool's fences to wait for.                                       *)
THEOREM FenceTrue == VulkanSpec => []FenceSound
<1>1. ASSUME FenceInv PROVE FenceSound
  <2>1. /\ lastCompleted \in Nat /\ finished \in Nat /\ submitted \in Nat /\ counter \in Nat
        /\ timeline \in BOOLEAN /\ active \in Seq(FenceUses) /\ Counted /\ PoolKept
        /\ lastCompleted <= finished /\ finished <= submitted
    BY <1>1 DEF FenceInv, VulkanType, Counted
  <2>2. ASSUME NEW v \in 1..submitted, Reached(v) PROVE v <= finished
    BY <1>1, <2>2, ReachedEnded
  <2>3. ASSUME NEW v \in 1..submitted, ~timeline, v > lastCompleted PROVE FenceFor(v) # {}
    <3>1. PICK i \in DOMAIN active : i = v - lastCompleted
      BY <2>1, <2>3 DEF Counted
    <3>2. active[i].value = lastCompleted + i
      BY <2>1 DEF Counted
    <3>3. active[i].value >= v
      BY <2>1, <3>1, <3>2
    <3>4. QED
      BY <3>3 DEF FenceFor
  <2>4. GetLatest = finished
    BY <1>1, FenceLatest
  <2>5. QED
    BY <2>2, <2>3, <2>4 DEF FenceSound
<1>2. QED
  BY <1>1, FencesKept, PTL

--------------------------------------------------------------------------------
(* The Vulkan backend's semaphores *)

(* The two semaphores of the relay take turns. *)
RelayOf(v) == Relay(IF v % 2 = 1 THEN 1 ELSE 2)

(* Each submission waits for the relay's signal of the one before, which   *)
(* is up from the end of that one to the start of this.                    *)
RelayInv ==
    /\ relay.signal = RelayOf(submitted + 1)
    /\ relay.wait = IF submitted = 0 THEN {} ELSE {RelayOf(submitted)}
    /\ \A i \in DOMAIN queue, s \in Semaphores : s[1] = "relay" =>
          /\ s \in queue[i].waits <=> /\ queue[i].op = "submit" /\ queue[i].value > 1
                                      /\ s = RelayOf(queue[i].value - 1)
          /\ s \in queue[i].signals <=> queue[i].op = "submit" /\ s = RelayOf(queue[i].value)
    /\ \A s \in Semaphores : s[1] = "relay" =>
          (s \in signaled <=>
              /\ finished > 0 /\ s = RelayOf(finished)
              /\ \A i \in DOMAIN queue :
                    queue[i].op = "submit" /\ queue[i].started => queue[i].value # finished + 1)
    /\ \A i \in DOMAIN queue :
          queue[i].op = "submit" /\ queue[i].started => queue[i].value = finished + 1
    /\ \A i, j \in DOMAIN queue : i < j /\ queue[j].started => queue[i].started

(* A signal for which nothing that waits was queued yet: the frame's.      *)
Owed(s) ==
    /\ frame # None
    /\ \/ s = Acquire(frame.slot) /\ acquireSem[frame.slot].wait
       \/ \E x \in 1..presentSem[frame.image].index : s = PresentSem(frame.image, x)

(* Which semaphores of the swapchain an entry of the queue may name. *)
SwapNamed ==
    \A i \in DOMAIN queue, s \in Semaphores : s[1] # "relay" =>
        /\ s \in queue[i].signals =>
              queue[i].op = "submit" /\ s[1] = "present" /\ s[2] = queue[i].image
        /\ s \in queue[i].waits =>
              \/ queue[i].op = "submit" /\ s[1] = "acquire"
              \/ queue[i].op = "present" /\ s[1] = "present" /\ s[2] = queue[i].image

(* One signal at a time of each of them, for one wait that comes after it. *)
SwapOnce ==
    \A s \in Semaphores : s[1] # "relay" =>
        /\ \A i, j \in DOMAIN queue :
              s \in queue[i].signals /\ s \in queue[j].signals => i = j
        /\ \A i \in DOMAIN queue : s \in queue[i].signals => s \notin signaled
        /\ \A i, j \in DOMAIN queue :
              ~queue[i].started /\ s \in queue[i].waits
                  /\ ~queue[j].started /\ s \in queue[j].waits => i = j
        /\ \A i, j \in DOMAIN queue :
              s \in queue[i].signals /\ s \in queue[j].waits => i < j /\ ~queue[j].started
SwapAnswered ==
    \A s \in Semaphores : s[1] # "relay" =>
        /\ (s \in signaled \/ \E i \in DOMAIN queue : s \in queue[i].signals) <=>
           (Owed(s) \/ \E i \in DOMAIN queue : ~queue[i].started /\ s \in queue[i].waits)
        /\ Owed(s) => \A i \in DOMAIN queue : s \in queue[i].waits => queue[i].started

(* Where the images are, and what was done with them. *)
SwapPlaced ==
    /\ frame # None => frame.image \notin engine
    /\ \A i \in DOMAIN queue : queue[i].op = "present" =>
          queue[i].image \notin engine /\ (frame # None => queue[i].image # frame.image)
    /\ \A i, j \in DOMAIN queue :
          queue[i].op = "present" /\ queue[j].op = "present"
              /\ queue[i].image = queue[j].image => i = j
    /\ \A i \in DOMAIN queue : queue[i].op = "submit" /\ queue[i].image # 0 =>
          \E s \in queue[i].signals : s[1] # "relay"
    /\ \A k \in 1..Images :
          /\ ~acquireSem[k].wait => frame # None /\ frame.slot = k
          /\ acquireSem[k].used <= submitted
          /\ presentSem[k].index # 0 => frame # None /\ frame.image = k
          /\ \A i \in DOMAIN queue :
                Acquire(k) \in queue[i].waits => queue[i].value <= acquireSem[k].used

SwapInv == ~clash /\ SwapNamed /\ SwapOnce /\ SwapAnswered /\ SwapPlaced
SemaphoreInv == RelayInv /\ (mishap \/ SwapInv)

LEMMA Turns ==
  ASSUME NEW v \in Nat
  PROVE  /\ RelayOf(v) \in Semaphores /\ RelayOf(v)[1] = "relay"
         /\ RelayOf(v + 1) # RelayOf(v)
<1>1. (v % 2 = 1 /\ (v + 1) % 2 # 1) \/ (v % 2 # 1 /\ (v + 1) % 2 = 1)
  OBVIOUS
<1>2. Relay(1) \in Semaphores /\ Relay(2) \in Semaphores
  BY Named
<1>3. Relay(1)[1] = "relay" /\ Relay(2)[1] = "relay" /\ Relay(1) # Relay(2)
  BY DEF Relay
<1>4. QED
  BY <1>1, <1>2, <1>3 DEF RelayOf

LEMMA SwapNames ==
  ASSUME NEW m \in Nat, NEW x \in Nat
  PROVE  /\ Acquire(m) \in Semaphores /\ Acquire(m)[1] = "acquire" /\ Acquire(m)[2] = m
         /\ PresentSem(m, x) \in Semaphores /\ PresentSem(m, x)[1] = "present"
         /\ PresentSem(m, x)[2] = m
         /\ \A y \in Nat : PresentSem(m, y) = PresentSem(m, x) => y = x
         /\ \A k \in Nat : Acquire(k) = Acquire(m) => k = m
BY Named DEF Acquire, PresentSem

LEMMA FramePlaced ==
  ASSUME FenceInv, frame # None
  PROVE  /\ frame.image \in 1..Images /\ frame.slot \in 1..Images
         /\ frame.image \in Nat /\ frame.slot \in Nat /\ frame.image # 0
         /\ presentSem[frame.image].index \in Nat /\ presentSem[frame.image].index + 1 \in Nat
         /\ acquireSem[frame.slot].wait \in BOOLEAN
<1>1. frame.image \in 1..Images /\ frame.slot \in 1..Images
  BY DEF FenceInv, VulkanType
<1>2. /\ presentSem \in [1..Images -> [made : Nat, index : Nat]]
      /\ acquireSem \in [1..Images -> [wait : BOOLEAN, used : Nat]]
  BY DEF FenceInv, VulkanType
<1>3. presentSem[frame.image] \in [made : Nat, index : Nat]
  BY <1>1, <1>2
<1>4. acquireSem[frame.slot] \in [wait : BOOLEAN, used : Nat]
  BY <1>1, <1>2
<1>5. QED
  BY <1>1, <1>3, <1>4, VulkanAssumption

(* The entry that a submission adds.                                       *)
LEMMA SubmitAdds ==
  ASSUME FenceInv, RelayInv, NEW draws \in BOOLEAN, Submit(draws)
  PROVE  /\ Len(queue) \in Nat /\ DOMAIN queue = 1..Len(queue)
         /\ DOMAIN queue' = 1..(Len(queue) + 1)
         /\ \A i \in DOMAIN queue : queue'[i] = queue[i]
         /\ queue'[Len(queue) + 1].op = "submit" /\ ~queue'[Len(queue) + 1].started
         /\ queue'[Len(queue) + 1].value = submitted + 1
         /\ queue'[Len(queue) + 1].image = IF draws THEN frame.image ELSE 0
         /\ \A s : s \in queue'[Len(queue) + 1].waits <=>
               \/ submitted # 0 /\ s = RelayOf(submitted)
               \/ draws /\ acquireSem[frame.slot].wait /\ s = Acquire(frame.slot)
         /\ \A s : s \in queue'[Len(queue) + 1].signals <=>
               \/ s = RelayOf(submitted + 1)
               \/ draws /\ s = PresentSem(frame.image, presentSem[frame.image].index + 1)
<1>1. DEFINE waits == relay.wait \cup
                      (IF draws /\ acquireSem[frame.slot].wait THEN {Acquire(frame.slot)} ELSE {})
             signals == {relay.signal} \cup
                        (IF draws THEN {PresentSem(frame.image, presentSem[frame.image].index + 1)}
                         ELSE {})
             b == [op |-> "submit", value |-> submitted + 1,
                   image |-> IF draws THEN frame.image ELSE 0,
                   waits |-> waits, signals |-> signals,
                   raises |-> IF timeline THEN {} ELSE {NextFence}, started |-> FALSE]
<1>2. queue' = Append(queue, b) /\ queue \in Seq(Batches)
  BY DEF Submit, FenceInv, VulkanType
<1>3. /\ b.op = "submit" /\ ~b.started /\ b.value = submitted + 1
      /\ b.image = (IF draws THEN frame.image ELSE 0) /\ b.waits = waits /\ b.signals = signals
  OBVIOUS
<1>4. \A s : s \in waits <=>
         \/ submitted # 0 /\ s = RelayOf(submitted)
         \/ draws /\ acquireSem[frame.slot].wait /\ s = Acquire(frame.slot)
  BY DEF RelayInv
<1>5. \A s : s \in signals <=>
         \/ s = RelayOf(submitted + 1)
         \/ draws /\ s = PresentSem(frame.image, presentSem[frame.image].index + 1)
  BY DEF RelayInv
<1>6. HIDE DEF b, waits, signals
<1>7. /\ Len(queue) \in Nat /\ DOMAIN queue = 1..Len(queue)
      /\ DOMAIN queue' = 1..(Len(queue) + 1)
      /\ \A i \in DOMAIN queue : queue'[i] = queue[i]
      /\ queue'[Len(queue) + 1] = b
  BY <1>2
<1>8. QED
  BY <1>3, <1>4, <1>5, <1>7

(* Vulkan fences are not semaphores: a reset of the pool leaves these.     *)
LEMMA ResetLeaves ==
  ASSUME FenceInv, NEW draws \in BOOLEAN, Submit(draws)
  PROVE  \A s \in Semaphores : s \in signaled' <=> s \in signaled
<1>1. active \in Seq(FenceUses)
  BY DEF FenceInv, VulkanType
<1>2. \A i \in DOMAIN active : active[i].raw \in VkFences
  BY <1>1, UseFields
<1>3. \A s \in Semaphores : s \notin Reset
  BY <1>2, Named DEF Reset
<1>4. QED
  BY <1>3 DEF Submit

(* What the invariant says of one entry and of the signals that are up.    *)
RelayEntry(b) ==
    \A s \in Semaphores : s[1] = "relay" =>
        /\ s \in b.waits <=> b.op = "submit" /\ b.value > 1 /\ s = RelayOf(b.value - 1)
        /\ s \in b.signals <=> b.op = "submit" /\ s = RelayOf(b.value)

LEMMA SubmitKeepsRelay ==
  ASSUME FenceInv, RelayInv, NEW draws \in BOOLEAN, Submit(draws)
  PROVE  RelayInv'
<1>1. /\ submitted \in Nat /\ finished \in Nat /\ finished <= submitted /\ QueueInOrder
      /\ queue \in Seq(Batches) /\ finished' = finished /\ submitted' = submitted + 1
  BY DEF FenceInv, VulkanType, Counted, Submit
<1>2. DEFINE n == Len(queue)
<1>3. /\ n \in Nat /\ DOMAIN queue = 1..n /\ DOMAIN queue' = 1..(n + 1)
      /\ \A i \in DOMAIN queue : queue'[i] = queue[i]
      /\ queue'[n + 1].op = "submit" /\ ~queue'[n + 1].started
      /\ queue'[n + 1].value = submitted + 1
  BY SubmitAdds
<1>4. \A s : s \in queue'[n + 1].waits <=>
         \/ submitted # 0 /\ s = RelayOf(submitted)
         \/ draws /\ acquireSem[frame.slot].wait /\ s = Acquire(frame.slot)
  BY SubmitAdds
<1>5. \A s : s \in queue'[n + 1].signals <=>
         \/ s = RelayOf(submitted + 1)
         \/ draws /\ s = PresentSem(frame.image, presentSem[frame.image].index + 1)
  BY SubmitAdds
<1>6. HIDE DEF n
<1>7. \A i \in DOMAIN queue' : (i \in DOMAIN queue /\ queue'[i] = queue[i]) \/ i = n + 1
  BY <1>3
<1>8. draws => /\ Acquire(frame.slot)[1] = "acquire"
               /\ PresentSem(frame.image, presentSem[frame.image].index + 1)[1] = "present"
  BY DEF Acquire, PresentSem
<1>9. RelayEntry(queue'[n + 1])
  <2>1. submitted + 1 > 1 <=> submitted # 0
    BY <1>1
  <2>2. RelayOf((submitted + 1) - 1) = RelayOf(submitted)
    <3>1. (submitted + 1) - 1 = submitted
      BY <1>1
    <3>2. QED
      BY <3>1
  <2>3. ASSUME NEW s \in Semaphores, s[1] = "relay"
        PROVE  /\ s \in queue'[n + 1].waits <=> submitted # 0 /\ s = RelayOf(submitted)
               /\ s \in queue'[n + 1].signals <=> s = RelayOf(submitted + 1)
    BY <1>4, <1>5, <1>8, <2>3
  <2>4. QED
    BY <1>3, <2>1, <2>2, <2>3 DEF RelayEntry
<1>10. /\ relay'.signal = RelayOf(submitted' + 1)
       /\ relay'.wait = IF submitted' = 0 THEN {} ELSE {RelayOf(submitted')}
  <2>1. relay' = Advanced(relay)
    BY DEF Submit
  <2>2. CASE submitted = 0
    <3>1. relay.wait = {} /\ relay.signal = RelayOf(1)
      BY <2>2 DEF RelayInv
    <3>2. RelayOf(2) = Relay(2)
      BY DEF RelayOf
    <3>3. submitted' = 1 /\ submitted' + 1 = 2
      BY <1>1, <2>2
    <3>4. QED
      BY <2>1, <3>1, <3>2, <3>3 DEF Advanced
  <2>3. CASE submitted # 0
    <3>1. relay.wait = {RelayOf(submitted)} /\ relay.signal = RelayOf(submitted + 1)
      BY <2>3 DEF RelayInv
    <3>2. relay' = [wait |-> {relay.signal}, signal |-> CHOOSE s \in relay.wait : TRUE]
      BY <2>1, <3>1 DEF Advanced
    <3>3. (CHOOSE s \in relay.wait : TRUE) = RelayOf(submitted)
      BY <3>1
    <3>4. RelayOf((submitted + 1) + 1) = RelayOf(submitted)
      <4>1. ((submitted + 1) + 1) % 2 = submitted % 2
        BY <1>1
      <4>2. QED
        BY <4>1 DEF RelayOf
    <3>5. submitted' # 0
      BY <1>1
    <3>6. QED
      BY <1>1, <3>1, <3>2, <3>3, <3>4, <3>5
  <2>4. QED
    BY <2>2, <2>3
<1>11. \A i \in DOMAIN queue' : RelayEntry(queue'[i])
  <2>1. \A i \in DOMAIN queue : RelayEntry(queue[i])
    BY DEF RelayInv, RelayEntry
  <2>2. QED
    BY <1>7, <1>9, <2>1
<1>12. \A i \in DOMAIN queue' : queue'[i].op = "submit" /\ queue'[i].started
          => i \in DOMAIN queue /\ queue'[i] = queue[i]
  BY <1>3, <1>7
<1>13. \A s \in Semaphores : s[1] = "relay" =>
          (s \in signaled' <=>
              /\ finished' > 0 /\ s = RelayOf(finished')
              /\ \A i \in DOMAIN queue' :
                    queue'[i].op = "submit" /\ queue'[i].started => queue'[i].value # finished' + 1)
  <2>1. (\A i \in DOMAIN queue' :
            queue'[i].op = "submit" /\ queue'[i].started => queue'[i].value # finished + 1)
        <=> (\A i \in DOMAIN queue :
            queue[i].op = "submit" /\ queue[i].started => queue[i].value # finished + 1)
    BY <1>3, <1>12
  <2>2. \A s \in Semaphores : s \in signaled' <=> s \in signaled
    BY ResetLeaves
  <2>3. \A s \in Semaphores : s[1] = "relay" =>
          (s \in signaled <=>
              /\ finished > 0 /\ s = RelayOf(finished)
              /\ \A i \in DOMAIN queue :
                    queue[i].op = "submit" /\ queue[i].started => queue[i].value # finished + 1)
    BY DEF RelayInv
  <2>4. QED
    BY <1>1, <2>1, <2>2, <2>3
<1>14. \A i \in DOMAIN queue' :
          queue'[i].op = "submit" /\ queue'[i].started => queue'[i].value = finished' + 1
  BY <1>1, <1>12 DEF RelayInv
<1>15. \A i, j \in DOMAIN queue' : i < j /\ queue'[j].started => queue'[i].started
  <2>1. ASSUME NEW i \in DOMAIN queue', NEW j \in DOMAIN queue', i < j, queue'[j].started
        PROVE  queue'[i].started
    <3>1. j # n + 1 /\ j \in DOMAIN queue
      BY <1>3, <1>7, <2>1
    <3>2. i \in DOMAIN queue
      BY <1>3, <2>1, <3>1
    <3>3. QED
      BY <1>3, <2>1, <3>1, <3>2 DEF RelayInv
  <2>2. QED
    BY <2>1
<1>16. QED
  BY <1>10, <1>11, <1>13, <1>14, <1>15 DEF RelayInv, RelayEntry

(* An entry that is not a submission leaves the relay alone.               *)
LEMMA PresentKeepsRelay ==
  ASSUME FenceInv, RelayInv, PresentImage
  PROVE  RelayInv'
<1>1. UNCHANGED <<relay, submitted, finished, signaled>>
  BY DEF PresentImage, relayVars
<1>2. DEFINE n == Len(queue)
             waits == {PresentSem(frame.image, x) : x \in 1..presentSem[frame.image].index}
             b == [op |-> "present", value |-> 0, image |-> frame.image, waits |-> waits,
                   signals |-> {}, raises |-> {}, started |-> FALSE]
<1>3. queue' = Append(queue, b) /\ queue \in Seq(Batches)
  BY DEF PresentImage, FenceInv, VulkanType
<1>4. b.op # "submit" /\ ~b.started /\ b.waits = waits /\ b.signals = {}
  OBVIOUS
<1>5. \A s \in waits : s[1] # "relay"
  BY DEF PresentSem
<1>6. HIDE DEF b, waits
<1>7. RelayEntry(b)
  BY <1>4, <1>5 DEF RelayEntry
<1>8. /\ n \in Nat /\ DOMAIN queue = 1..n /\ DOMAIN queue' = 1..(n + 1)
      /\ \A i \in DOMAIN queue : queue'[i] = queue[i]
      /\ queue'[n + 1] = b
  BY <1>3
<1>9. HIDE DEF n
<1>10. \A i \in DOMAIN queue' : \/ i \in DOMAIN queue /\ queue'[i] = queue[i]
                                \/ i = n + 1 /\ queue'[i] = b
  BY <1>8
<1>11. \A i \in DOMAIN queue' : RelayEntry(queue'[i])
  <2>1. \A i \in DOMAIN queue : RelayEntry(queue[i])
    BY DEF RelayInv, RelayEntry
  <2>2. QED
    BY <1>7, <1>10, <2>1
<1>12. \A i \in DOMAIN queue' : queue'[i].op = "submit" /\ queue'[i].started
          => i \in DOMAIN queue /\ queue'[i] = queue[i]
  BY <1>4, <1>10
<1>13. (\A i \in DOMAIN queue' :
           queue'[i].op = "submit" /\ queue'[i].started => queue'[i].value # finished + 1)
       <=> (\A i \in DOMAIN queue :
           queue[i].op = "submit" /\ queue[i].started => queue[i].value # finished + 1)
  BY <1>8, <1>12
<1>14. \A i, j \in DOMAIN queue' : i < j /\ queue'[j].started => queue'[i].started
  <2>1. ASSUME NEW i \in DOMAIN queue', NEW j \in DOMAIN queue', i < j, queue'[j].started
        PROVE  queue'[i].started
    <3>1. j # n + 1 /\ j \in DOMAIN queue
      BY <1>4, <1>8, <1>10, <2>1
    <3>2. i \in DOMAIN queue
      BY <1>8, <2>1, <3>1
    <3>3. QED
      BY <1>8, <2>1, <3>1, <3>2 DEF RelayInv
  <2>2. QED
    BY <2>1
<1>15. \A i \in DOMAIN queue' :
          queue'[i].op = "submit" /\ queue'[i].started => queue'[i].value = finished + 1
  BY <1>12 DEF RelayInv
<1>16. QED
  BY <1>1, <1>11, <1>13, <1>14, <1>15 DEF RelayInv, RelayEntry

LEMMA AcquireKeepsRelay ==
  ASSUME FenceInv, RelayInv, NEW image \in 1..Images, AcquireImage(image)
  PROVE  RelayInv'
<1>1. UNCHANGED <<relay, submitted, finished, queue>>
  BY DEF AcquireImage, relayVars
<1>2. Acquire(nextAcquire)[1] # "relay"
  BY DEF Acquire
<1>3. \A s \in Semaphores : s[1] = "relay" => (s \in signaled' <=> s \in signaled)
  BY <1>2 DEF AcquireImage
<1>4. QED
  BY <1>1, <1>3 DEF RelayInv

(* The entries of the queue when the GPU starts one of them.               *)
LEMMA StartSees ==
  ASSUME FenceInv, NEW i \in DOMAIN queue, GpuStart(i)
  PROVE  /\ Len(queue) \in Nat /\ DOMAIN queue = 1..Len(queue) /\ DOMAIN queue' = DOMAIN queue
         /\ \A j \in DOMAIN queue :
               /\ queue'[j].op = queue[j].op /\ queue'[j].value = queue[j].value
               /\ queue'[j].image = queue[j].image
               /\ queue'[j].waits = queue[j].waits /\ queue'[j].signals = queue[j].signals
               /\ queue'[j].started <=> (queue[j].started \/ j = i)
<1>1. queue' = [queue EXCEPT ![i].started = TRUE] /\ queue \in Seq(Batches)
  BY DEF GpuStart, FenceInv, VulkanType
<1>2. DEFINE b == [queue[i] EXCEPT !.started = TRUE]
<1>3. /\ b.op = queue[i].op /\ b.value = queue[i].value /\ b.image = queue[i].image
      /\ b.waits = queue[i].waits /\ b.signals = queue[i].signals /\ b.started
  <2>1. queue[i] \in Batches
    BY <1>1
  <2>2. QED
    BY <2>1 DEF Batches
<1>4. queue' = [queue EXCEPT ![i] = b]
  BY <1>1
<1>5. HIDE DEF b
<1>6. /\ DOMAIN queue' = DOMAIN queue /\ queue'[i] = b
      /\ \A j \in DOMAIN queue : j # i => queue'[j] = queue[j]
  BY <1>1, <1>4
<1>7. Len(queue) \in Nat /\ DOMAIN queue = 1..Len(queue)
  BY <1>1
<1>8. ASSUME NEW j \in DOMAIN queue
      PROVE  /\ queue'[j].op = queue[j].op /\ queue'[j].value = queue[j].value
             /\ queue'[j].image = queue[j].image
             /\ queue'[j].waits = queue[j].waits /\ queue'[j].signals = queue[j].signals
             /\ queue'[j].started <=> (queue[j].started \/ j = i)
  <2>1. CASE j = i
    BY <1>3, <1>6, <2>1
  <2>2. CASE j # i
    BY <1>6, <2>2
  <2>3. QED
    BY <2>1, <2>2
<1>9. QED
  BY <1>6, <1>7, <1>8

(* The submission that starts is the one after the last that ended.        *)
LEMMA StartsNext ==
  ASSUME FenceInv, RelayInv, NEW i \in DOMAIN queue, GpuStart(i), queue[i].op = "submit"
  PROVE  queue[i].value = finished + 1
<1>1. /\ submitted \in Nat /\ finished \in Nat /\ finished <= submitted /\ QueueInOrder
      /\ queue \in Seq(Batches)
  BY DEF FenceInv, VulkanType, Counted
<1>2. DEFINE v == queue[i].value
<1>3. v \in Nat /\ finished < v /\ v <= submitted
  BY <1>1, BatchFields DEF QueueInOrder
<1>4. HIDE DEF v
<1>5. CASE v = 1
  BY <1>1, <1>3, <1>5 DEF v
<1>6. CASE v > 1
  <2>1. PICK w \in Nat : w = v - 1
    BY <1>3, <1>6
  <2>2. RelayOf(w) \in Semaphores /\ RelayOf(w)[1] = "relay"
    BY Turns
  <2>3. RelayOf(w) \in queue[i].waits
    <3>1. queue[i].value > 1 /\ RelayOf(queue[i].value - 1) = RelayOf(w)
      BY <1>6, <2>1 DEF v
    <3>2. QED
      BY <2>2, <3>1 DEF RelayInv
  <2>4. RelayOf(w) \in signaled
    BY <2>3 DEF GpuStart
  <2>5. \A j \in DOMAIN queue :
           queue[j].op = "submit" /\ queue[j].started => queue[j].value # finished + 1
    BY <2>2, <2>4 DEF RelayInv
  <2>6. finished + 1 \in (finished + 1)..submitted
    BY <1>1, <1>3
  <2>7. PICK j \in DOMAIN queue : queue[j].op = "submit" /\ queue[j].value = finished + 1
    BY <1>1, <2>6 DEF QueueInOrder
  <2>8. ~queue[j].started
    BY <2>5, <2>7
  <2>9. ~(j < i)
    <3>1. j < i => j \in 1..(i - 1)
      BY <1>1
    <3>2. QED
      BY <2>8, <3>1 DEF GpuStart
  <2>10. i < j => v < finished + 1
    BY <1>1, <2>7 DEF QueueInOrder, v
  <2>11. i = j
    <3>1. i \in Nat /\ j \in Nat
      BY <1>1
    <3>2. QED
      BY <1>1, <1>3, <2>9, <2>10, <3>1
  <2>12. QED
    BY <2>7, <2>11
<1>7. v = 1 \/ v > 1
  BY <1>1, <1>3
<1>8. QED
  BY <1>5, <1>6, <1>7

LEMMA StartKeepsRelay ==
  ASSUME FenceInv, RelayInv, NEW i \in DOMAIN queue, GpuStart(i)
  PROVE  RelayInv'
<1>1. UNCHANGED <<relay, submitted, finished>> /\ signaled' = signaled \ queue[i].waits
  BY DEF GpuStart, relayVars
<1>2. finished \in Nat /\ queue \in Seq(Batches)
  BY DEF FenceInv, VulkanType
<1>3. /\ Len(queue) \in Nat /\ DOMAIN queue = 1..Len(queue) /\ DOMAIN queue' = DOMAIN queue
      /\ \A j \in DOMAIN queue :
            /\ queue'[j].op = queue[j].op /\ queue'[j].value = queue[j].value
            /\ queue'[j].image = queue[j].image
            /\ queue'[j].waits = queue[j].waits /\ queue'[j].signals = queue[j].signals
            /\ queue'[j].started <=> (queue[j].started \/ j = i)
  BY StartSees
<1>4. \A j \in DOMAIN queue' : RelayEntry(queue'[j])
  <2>1. \A j \in DOMAIN queue : RelayEntry(queue[j])
    BY DEF RelayInv, RelayEntry
  <2>2. QED
    BY <1>3, <2>1 DEF RelayEntry
<1>5. \A j \in DOMAIN queue' :
         queue'[j].op = "submit" /\ queue'[j].started => queue'[j].value = finished + 1
  BY <1>3, StartsNext DEF RelayInv
<1>6. \A j, k \in DOMAIN queue' : j < k /\ queue'[k].started => queue'[j].started
  <2>1. ASSUME NEW j \in DOMAIN queue, NEW k \in DOMAIN queue, j < k, queue'[k].started
        PROVE  queue'[j].started
    <3>1. CASE k = i
      <4>1. j \in 1..(i - 1)
        BY <1>3, <2>1, <3>1
      <4>2. QED
        BY <1>3, <4>1 DEF GpuStart
    <3>2. CASE k # i
      BY <1>3, <2>1, <3>2 DEF RelayInv
    <3>3. QED
      BY <3>1, <3>2
  <2>2. QED
    BY <1>3, <2>1
<1>7. ASSUME NEW s \in Semaphores, s[1] = "relay"
      PROVE  s \in signaled' <=>
              /\ finished > 0 /\ s = RelayOf(finished)
              /\ \A j \in DOMAIN queue' :
                    queue'[j].op = "submit" /\ queue'[j].started => queue'[j].value # finished + 1
  <2>1. s \in signaled <=>
              /\ finished > 0 /\ s = RelayOf(finished)
              /\ \A j \in DOMAIN queue :
                    queue[j].op = "submit" /\ queue[j].started => queue[j].value # finished + 1
    BY <1>7 DEF RelayInv
  <2>2. CASE queue[i].op = "submit"
    <3>1. queue[i].value = finished + 1
      BY <2>2, StartsNext
    <3>2. s \in queue[i].waits <=> queue[i].value > 1 /\ s = RelayOf(queue[i].value - 1)
      BY <1>7, <2>2 DEF RelayInv
    <3>3. queue[i].value > 1 <=> finished > 0
      BY <1>2, <3>1
    <3>4. RelayOf(queue[i].value - 1) = RelayOf(finished)
      <4>1. (finished + 1) - 1 = finished
        BY <1>2
      <4>2. QED
        BY <3>1, <4>1
    <3>5. s \notin signaled'
      BY <1>1, <2>1, <3>2, <3>3, <3>4
    <3>6. queue'[i].op = "submit" /\ queue'[i].started /\ queue'[i].value = finished + 1
      BY <1>3, <2>2, <3>1
    <3>7. QED
      BY <1>3, <3>5, <3>6
  <2>3. CASE queue[i].op # "submit"
    <3>1. s \notin queue[i].waits
      BY <1>7, <2>3 DEF RelayInv
    <3>2. \A j \in DOMAIN queue : queue'[j].op = "submit" /\ queue'[j].started
             <=> queue[j].op = "submit" /\ queue[j].started
      BY <1>3, <2>3
    <3>3. QED
      BY <1>1, <1>3, <2>1, <3>1, <3>2
  <2>4. QED
    BY <2>2, <2>3
<1>8. QED
  BY <1>1, <1>4, <1>5, <1>6, <1>7 DEF RelayInv, RelayEntry

(* The entries of the queue when its first one ends: each moves up.        *)
LEMMA FinishSees ==
  ASSUME FenceInv, RelayInv, GpuFinish
  PROVE  /\ Len(queue) \in Nat /\ DOMAIN queue = 1..Len(queue) /\ 1 \in DOMAIN queue
         /\ DOMAIN queue' = 1..(Len(queue) - 1)
         /\ \A i \in DOMAIN queue' : queue'[i] = queue[i + 1] /\ i + 1 \in DOMAIN queue
         /\ \A i \in DOMAIN queue : i # 1 => \E j \in DOMAIN queue' : i = j + 1
         /\ queue[1].op = "submit" => queue[1].value = finished + 1
<1>1. queue \in Seq(Batches) /\ queue # <<>> /\ queue' = Tail(queue) /\ queue[1].started
  BY DEF GpuFinish, FenceInv, VulkanType
<1>2. /\ Len(queue) \in Nat /\ DOMAIN queue = 1..Len(queue) /\ 1 \in DOMAIN queue
      /\ DOMAIN queue' = 1..(Len(queue) - 1)
      /\ \A i \in DOMAIN queue' : queue'[i] = queue[i + 1] /\ i + 1 \in DOMAIN queue
  BY <1>1
<1>3. ASSUME NEW i \in DOMAIN queue, i # 1
      PROVE  \E j \in DOMAIN queue' : i = j + 1
  <2>1. i - 1 \in DOMAIN queue' /\ i = (i - 1) + 1
    BY <1>2, <1>3
  <2>2. QED
    BY <2>1
<1>4. queue[1].op = "submit" => queue[1].value = finished + 1
  BY <1>1, <1>2 DEF RelayInv
<1>5. QED
  BY <1>2, <1>3, <1>4

LEMMA FinishKeepsRelay ==
  ASSUME FenceInv, RelayInv, GpuFinish
  PROVE  RelayInv'
<1>1. /\ finished \in Nat /\ queue \in Seq(Batches) /\ QueueInOrder
      /\ UNCHANGED <<relay, submitted>>
  BY DEF FenceInv, VulkanType, GpuFinish, relayVars
<1>2. /\ Len(queue) \in Nat /\ DOMAIN queue = 1..Len(queue) /\ 1 \in DOMAIN queue
      /\ DOMAIN queue' = 1..(Len(queue) - 1)
      /\ \A i \in DOMAIN queue' : queue'[i] = queue[i + 1] /\ i + 1 \in DOMAIN queue
      /\ \A i \in DOMAIN queue : i # 1 => \E j \in DOMAIN queue' : i = j + 1
      /\ queue[1].op = "submit" => queue[1].value = finished + 1
  BY FinishSees
<1>3. DEFINE q == queue[1]
<1>4. /\ q.started /\ signaled' = signaled \cup q.signals \cup q.raises
      /\ finished' = IF q.op = "submit" THEN q.value ELSE finished
  BY DEF GpuFinish
<1>5. q.raises \subseteq VkFences /\ q.signals \subseteq Semaphores
  BY <1>1, <1>2, BatchFields
<1>6. \A s \in Semaphores : s \in signaled' <=> s \in signaled \/ s \in q.signals
  BY <1>4, <1>5, Named
<1>7. RelayEntry(q)
  BY <1>2 DEF RelayInv, RelayEntry
<1>8. \A i \in DOMAIN queue' : RelayEntry(queue'[i])
  <2>1. \A i \in DOMAIN queue : RelayEntry(queue[i])
    BY DEF RelayInv, RelayEntry
  <2>2. QED
    BY <1>2, <2>1
<1>9. \A i, j \in DOMAIN queue' : i < j /\ queue'[j].started => queue'[i].started
  <2>1. ASSUME NEW i \in DOMAIN queue', NEW j \in DOMAIN queue', i < j, queue'[j].started
        PROVE  queue'[i].started
    <3>1. i + 1 < j + 1 /\ i + 1 \in DOMAIN queue /\ j + 1 \in DOMAIN queue
      BY <1>2, <2>1
    <3>2. QED
      BY <1>2, <2>1, <3>1 DEF RelayInv
  <2>2. QED
    BY <2>1
<1>10. CASE q.op = "submit"
  <2>1. q.value = finished + 1 /\ finished' = finished + 1 /\ finished' \in Nat /\ finished' > 0
    BY <1>1, <1>2, <1>4, <1>10
  <2>2. \A i \in DOMAIN queue' : queue'[i].op = "submit" => ~queue'[i].started
    <3>1. ASSUME NEW i \in DOMAIN queue', queue'[i].op = "submit", queue'[i].started PROVE FALSE
      <4>1. 1 < i + 1 /\ i + 1 \in DOMAIN queue
        BY <1>2
      <4>2. q.value < queue[i + 1].value
        BY <1>1, <1>2, <1>10, <3>1, <4>1 DEF QueueInOrder
      <4>3. queue[i + 1].value = finished + 1
        BY <1>2, <3>1, <4>1 DEF RelayInv
      <4>4. QED
        BY <1>1, <2>1, <4>2, <4>3
    <3>2. QED
      BY <3>1
  <2>3. \A s \in Semaphores : s[1] = "relay" => s \notin signaled
    <3>1. q.started /\ q.op = "submit" /\ q.value = finished + 1
      BY <1>4, <1>10, <2>1
    <3>2. QED
      BY <1>2, <3>1 DEF RelayInv
  <2>4. \A s \in Semaphores : s[1] = "relay" => (s \in q.signals <=> s = RelayOf(finished + 1))
    BY <1>7, <1>10, <2>1 DEF RelayEntry
  <2>5. \A s \in Semaphores : s[1] = "relay" => (s \in signaled' <=> s = RelayOf(finished'))
    BY <1>6, <2>1, <2>3, <2>4
  <2>6. QED
    BY <1>1, <1>8, <1>9, <2>1, <2>2, <2>5 DEF RelayInv, RelayEntry
<1>11. CASE q.op # "submit"
  <2>1. finished' = finished
    BY <1>4, <1>11
  <2>2. \A s \in Semaphores : s[1] = "relay" => (s \in signaled' <=> s \in signaled)
    BY <1>6, <1>7, <1>11 DEF RelayEntry
  <2>3. (\A i \in DOMAIN queue' :
            queue'[i].op = "submit" /\ queue'[i].started => queue'[i].value # finished + 1)
        <=> (\A i \in DOMAIN queue :
            queue[i].op = "submit" /\ queue[i].started => queue[i].value # finished + 1)
    <3>1. ASSUME NEW i \in DOMAIN queue, queue[i].op = "submit"
          PROVE  \E j \in DOMAIN queue' : queue'[j] = queue[i]
      <4>1. i # 1
        BY <1>11, <3>1
      <4>2. QED
        BY <1>2, <4>1
    <3>2. \A j \in DOMAIN queue' : \E i \in DOMAIN queue : queue'[j] = queue[i]
      BY <1>2
    <3>3. QED
      BY <3>1, <3>2
  <2>4. \A i \in DOMAIN queue' :
           queue'[i].op = "submit" /\ queue'[i].started => queue'[i].value = finished + 1
    BY <1>2 DEF RelayInv
  <2>5. QED
    BY <1>1, <1>8, <1>9, <2>1, <2>2, <2>3, <2>4 DEF RelayInv, RelayEntry
<1>12. QED
  BY <1>10, <1>11

LEMMA RelayBegins == VulkanInit => RelayInv
<1>1. SUFFICES ASSUME VulkanInit PROVE RelayInv
  OBVIOUS
<1>2. RelayOf(0 + 1) = Relay(1)
  BY DEF RelayOf
<1>3. DOMAIN queue = {} /\ relay.wait = {} /\ relay.signal = Relay(1) /\ submitted = 0
      /\ finished = 0 /\ signaled = {}
  BY <1>1 DEF VulkanInit
<1>4. QED
  BY <1>2, <1>3 DEF RelayInv

LEMMA RelayStep == FenceInv /\ RelayInv /\ [VulkanNext]_vulkanVars => RelayInv'
<1>1. SUFFICES ASSUME FenceInv, RelayInv, [VulkanNext]_vulkanVars PROVE RelayInv'
  OBVIOUS
<1>2. ASSUME NEW draws \in BOOLEAN, Submit(draws) PROVE RelayInv'
  BY <1>1, <1>2, SubmitKeepsRelay
<1>3. ASSUME NEW image \in 1..Images, AcquireImage(image) PROVE RelayInv'
  BY <1>1, <1>3, AcquireKeepsRelay
<1>4. CASE PresentImage
  BY <1>1, <1>4, PresentKeepsRelay
<1>5. CASE DiscardImage
  BY <1>1, <1>5 DEF DiscardImage, relayVars, gpuVars, RelayInv
<1>6. ASSUME NEW i \in DOMAIN queue, GpuStart(i) PROVE RelayInv'
  BY <1>1, <1>6, StartKeepsRelay
<1>7. CASE GpuFinish
  BY <1>1, <1>7, FinishKeepsRelay
<1>8. CASE UNCHANGED vulkanVars
  BY <1>1, <1>8 DEF vulkanVars, relayVars, gpuVars, RelayInv
<1>9. QED
  BY <1>1, <1>2, <1>3, <1>4, <1>5, <1>6, <1>7, <1>8 DEF VulkanNext

(* What a submission owes afterwards: its first drawing takes over the     *)
(* signal of the acquisition, and each drawing adds one for the image.     *)
LEMMA SubmitOwes ==
  ASSUME FenceInv, NEW draws \in BOOLEAN, Submit(draws), NEW s \in Semaphores
  PROVE  Owed(s)' <=> \/ Owed(s) /\ ~(draws /\ s = Acquire(frame.slot))
                      \/ draws /\ s = PresentSem(frame.image, presentSem[frame.image].index + 1)
<1>1. frame' = frame /\ (draws => frame # None) /\ None' = None
  BY DEF Submit, None
<1>2. CASE ~draws
  <2>1. acquireSem' = acquireSem /\ presentSem' = presentSem
    BY <1>2 DEF Submit
  <2>2. QED
    BY <1>1, <1>2, <2>1 DEF Owed
<1>3. CASE draws
  <2>1. /\ frame.image \in 1..Images /\ frame.slot \in 1..Images
        /\ frame.image \in Nat /\ frame.slot \in Nat
        /\ presentSem[frame.image].index \in Nat
        /\ acquireSem[frame.slot].wait \in BOOLEAN
    BY <1>1, <1>3, FramePlaced
  <2>2. /\ presentSem \in [1..Images -> [made : Nat, index : Nat]]
        /\ acquireSem \in [1..Images -> [wait : BOOLEAN, used : Nat]]
    BY DEF FenceInv, VulkanType
  <2>3. DEFINE a == [wait |-> FALSE, used |-> submitted + 1]
               p == [made |-> Highest({presentSem[frame.image].made,
                                       presentSem[frame.image].index + 1}),
                     index |-> presentSem[frame.image].index + 1]
               n == presentSem[frame.image].index
  <2>4. acquireSem' = [acquireSem EXCEPT ![frame.slot] = a]
        /\ presentSem' = [presentSem EXCEPT ![frame.image] = p]
    BY <1>3 DEF Submit
  <2>5. ~a.wait /\ p.index = n + 1
    OBVIOUS
  <2>6. HIDE DEF a, p
  <2>7. ~acquireSem'[frame.slot].wait /\ presentSem'[frame.image].index = n + 1
    BY <2>1, <2>2, <2>4, <2>5
  <2>8. n \in Nat
    BY <2>1
  <2>9. HIDE DEF n
  <2>10. Owed(s)' <=> \E x \in 1..(n + 1) : s = PresentSem(frame.image, x)
    BY <1>1, <1>3, <2>7 DEF Owed
  <2>11. (\E x \in 1..(n + 1) : s = PresentSem(frame.image, x))
         <=> (\E x \in 1..n : s = PresentSem(frame.image, x)) \/ s = PresentSem(frame.image, n + 1)
    <3>1. \A x : x \in 1..(n + 1) <=> x \in 1..n \/ x = n + 1
      BY <2>8
    <3>2. QED
      BY <3>1, Zenon
  <2>12. Owed(s) <=> \/ s = Acquire(frame.slot) /\ acquireSem[frame.slot].wait
                     \/ \E x \in 1..n : s = PresentSem(frame.image, x)
    BY <1>1, <1>3 DEF Owed, n
  <2>13. ASSUME NEW x \in Nat PROVE PresentSem(frame.image, x) # Acquire(frame.slot)
    BY DEF PresentSem, Acquire
  <2>14. ASSUME s = Acquire(frame.slot) PROVE ~\E x \in 1..n : s = PresentSem(frame.image, x)
    BY <2>8, <2>13, <2>14
  <2>15. QED
    <3>1. n = presentSem[frame.image].index
      BY DEF n
    <3>2. Owed(s)' <=> \/ Owed(s) /\ ~(s = Acquire(frame.slot))
                       \/ s = PresentSem(frame.image, n + 1)
      BY <2>10, <2>11, <2>12, <2>14, Zenon
    <3>3. QED
      BY <1>3, <3>1, <3>2
<1>4. QED
  BY <1>2, <1>3

(* Nothing knows yet the semaphore that a drawing will signal.             *)
LEMMA DrawsFresh ==
  ASSUME FenceInv, SwapInv, frame # None,
         NEW s \in Semaphores, s = PresentSem(frame.image, presentSem[frame.image].index + 1)
  PROVE  /\ s[1] # "relay" /\ s \notin signaled /\ ~Owed(s)
         /\ \A i \in DOMAIN queue : s \notin queue[i].waits /\ s \notin queue[i].signals
<1>1. DEFINE n == presentSem[frame.image].index
<1>2. n \in Nat /\ frame.image \in Nat /\ n + 1 \in Nat
  BY FramePlaced
<1>3. s = PresentSem(frame.image, n + 1)
  OBVIOUS
<1>4. HIDE DEF n
<1>5. s[1] = "present" /\ s[2] = frame.image
  BY <1>2, <1>3 DEF PresentSem
<1>6. s # Acquire(frame.slot)
  BY <1>5 DEF Acquire
<1>7. ASSUME NEW x \in 1..n PROVE s # PresentSem(frame.image, x)
  <2>1. x # n + 1
    BY <1>2
  <2>2. QED
    BY <1>3, <2>1 DEF PresentSem
<1>8. ~Owed(s)
  BY <1>6, <1>7 DEF Owed, n
<1>9. ASSUME NEW i \in DOMAIN queue PROVE s \notin queue[i].waits
  <2>1. ASSUME s \in queue[i].waits PROVE FALSE
    <3>1. queue[i].op = "present" /\ queue[i].image = frame.image
      BY <1>5, <2>1 DEF SwapInv, SwapNamed
    <3>2. QED
      BY <3>1 DEF SwapInv, SwapPlaced
  <2>2. QED
    BY <2>1
<1>10. ~(s \in signaled \/ \E i \in DOMAIN queue : s \in queue[i].signals)
  BY <1>5, <1>8, <1>9 DEF SwapInv, SwapAnswered
<1>11. QED
  BY <1>5, <1>8, <1>9, <1>10

LEMMA SubmitKeepsSwap ==
  ASSUME FenceInv, RelayInv, SwapInv, NEW draws \in BOOLEAN, Submit(draws)
  PROVE  SwapInv'
<1>1. /\ submitted \in Nat /\ submitted' = submitted + 1 /\ frame' = frame
      /\ engine' = engine /\ clash' = clash /\ (draws => frame # None) /\ None' = None
      /\ queue \in Seq(Batches) /\ QueueInOrder
  BY DEF FenceInv, VulkanType, Submit, None
<1>2. DEFINE n == Len(queue)
             A == Acquire(frame.slot)
             P == PresentSem(frame.image, presentSem[frame.image].index + 1)
             taken == draws /\ acquireSem[frame.slot].wait
<1>3. /\ n \in Nat /\ DOMAIN queue = 1..n /\ DOMAIN queue' = 1..(n + 1)
      /\ \A i \in DOMAIN queue : queue'[i] = queue[i]
      /\ queue'[n + 1].op = "submit" /\ ~queue'[n + 1].started
      /\ queue'[n + 1].value = submitted + 1
      /\ queue'[n + 1].image = IF draws THEN frame.image ELSE 0
  BY SubmitAdds
<1>4. /\ \A s : s \in queue'[n + 1].waits <=>
            (submitted # 0 /\ s = RelayOf(submitted)) \/ (taken /\ s = A)
      /\ \A s : s \in queue'[n + 1].signals <=> s = RelayOf(submitted + 1) \/ (draws /\ s = P)
  BY SubmitAdds
<1>5. RelayOf(submitted)[1] = "relay" /\ RelayOf(submitted + 1)[1] = "relay"
  BY DEF RelayOf, Relay
<1>6. \A s \in Semaphores : s[1] # "relay" =>
         /\ s \in queue'[n + 1].waits <=> taken /\ s = A
         /\ s \in queue'[n + 1].signals <=> draws /\ s = P
         /\ Owed(s)' <=> (Owed(s) /\ ~(draws /\ s = A)) \/ (draws /\ s = P)
         /\ s \in signaled' <=> s \in signaled
  BY <1>4, <1>5, SubmitOwes, ResetLeaves
<1>7. taken => Owed(A) /\ A[1] = "acquire"
  BY <1>1 DEF Owed, Acquire
<1>8. A[1] = "acquire" /\ P[1] = "present" /\ P[2] = frame.image
  BY DEF Acquire, PresentSem
<1>9. draws => \A s \in Semaphores : s = P =>
         /\ s \notin signaled /\ ~Owed(s)
         /\ \A i \in DOMAIN queue : s \notin queue[i].waits /\ s \notin queue[i].signals
  BY <1>1, DrawsFresh
<1>10. draws => /\ A \in Semaphores /\ P \in Semaphores
                /\ frame.image \in 1..Images /\ frame.slot \in 1..Images /\ frame.image # 0
                /\ frame.slot \in Nat
  BY <1>1, FramePlaced, SwapNames
<1>11. HIDE DEF n, A, P
<1>12. \A i \in DOMAIN queue' : (i \in DOMAIN queue /\ queue'[i] = queue[i]) \/ i = n + 1
  BY <1>3
<1>13. SwapNamed /\ SwapOnce /\ SwapAnswered /\ SwapPlaced /\ ~clash
  BY DEF SwapInv
<1>14. \A i \in DOMAIN queue : i < n + 1 /\ i # n + 1
  BY <1>3
<1>15. SwapNamed'
  <2>1. ASSUME NEW i \in DOMAIN queue', NEW s \in Semaphores, s[1] # "relay"
        PROVE  /\ s \in queue'[i].signals =>
                     queue'[i].op = "submit" /\ s[1] = "present" /\ s[2] = queue'[i].image
               /\ s \in queue'[i].waits =>
                     \/ queue'[i].op = "submit" /\ s[1] = "acquire"
                     \/ queue'[i].op = "present" /\ s[1] = "present" /\ s[2] = queue'[i].image
    <3>1. CASE i \in DOMAIN queue /\ queue'[i] = queue[i]
      BY <1>13, <2>1, <3>1 DEF SwapNamed
    <3>2. CASE i = n + 1
      BY <1>3, <1>6, <1>8, <2>1, <3>2
    <3>3. QED
      BY <1>12, <3>1, <3>2
  <2>2. QED
    BY <2>1 DEF SwapNamed
<1>16. ASSUME NEW s \in Semaphores, s[1] # "relay", NEW i \in DOMAIN queue, s \in queue[i].signals
       PROVE  ~(taken /\ s = A)
  BY <1>8, <1>13, <1>16 DEF SwapNamed
<1>17. ASSUME NEW s \in Semaphores, s[1] # "relay", taken, s = A,
              NEW i \in DOMAIN queue, s \in queue[i].waits
       PROVE  queue[i].started
  BY <1>7, <1>13, <1>17 DEF SwapAnswered
<1>18. SwapOnce'
  <2>1. ASSUME NEW s \in Semaphores, s[1] # "relay"
        PROVE  /\ \A i, j \in DOMAIN queue' :
                     s \in queue'[i].signals /\ s \in queue'[j].signals => i = j
               /\ \A i \in DOMAIN queue' : s \in queue'[i].signals => s \notin signaled'
               /\ \A i, j \in DOMAIN queue' :
                     ~queue'[i].started /\ s \in queue'[i].waits
                         /\ ~queue'[j].started /\ s \in queue'[j].waits => i = j
               /\ \A i, j \in DOMAIN queue' :
                     s \in queue'[i].signals /\ s \in queue'[j].waits => i < j /\ ~queue'[j].started
    <3>1. /\ \A i, j \in DOMAIN queue :
                s \in queue[i].signals /\ s \in queue[j].signals => i = j
          /\ \A i \in DOMAIN queue : s \in queue[i].signals => s \notin signaled
          /\ \A i, j \in DOMAIN queue :
                ~queue[i].started /\ s \in queue[i].waits
                    /\ ~queue[j].started /\ s \in queue[j].waits => i = j
          /\ \A i, j \in DOMAIN queue :
                s \in queue[i].signals /\ s \in queue[j].waits => i < j /\ ~queue[j].started
      BY <1>13, <2>1 DEF SwapOnce
    <3>2. /\ s \in queue'[n + 1].waits <=> taken /\ s = A
          /\ s \in queue'[n + 1].signals <=> draws /\ s = P
          /\ s \in signaled' <=> s \in signaled
      BY <1>6, <2>1
    <3>3. \A i, j \in DOMAIN queue' :
             s \in queue'[i].signals /\ s \in queue'[j].signals => i = j
      BY <1>9, <1>12, <3>1, <3>2
    <3>4. \A i \in DOMAIN queue' : s \in queue'[i].signals => s \notin signaled'
      BY <1>9, <1>12, <3>1, <3>2
    <3>5. \A i, j \in DOMAIN queue' :
             ~queue'[i].started /\ s \in queue'[i].waits
                 /\ ~queue'[j].started /\ s \in queue'[j].waits => i = j
      BY <1>12, <1>17, <2>1, <3>1, <3>2
    <3>6. ASSUME NEW i \in DOMAIN queue', NEW j \in DOMAIN queue',
                 s \in queue'[i].signals, s \in queue'[j].waits
          PROVE  i < j /\ ~queue'[j].started
      <4>1. CASE i \in DOMAIN queue /\ queue'[i] = queue[i]
        <5>1. j \in DOMAIN queue => queue'[j] = queue[j]
          BY <1>3
        <5>2. QED
          BY <1>3, <1>12, <1>14, <3>1, <3>6, <4>1, <5>1
      <4>2. CASE i = n + 1
        <5>1. draws /\ s = P
          BY <3>2, <3>6, <4>2
        <5>2. j = n + 1
          BY <1>9, <1>12, <3>6, <5>1
        <5>3. s = A
          BY <3>2, <3>6, <5>2
        <5>4. QED
          BY <1>8, <5>1, <5>3
      <4>3. QED
        BY <1>12, <4>1, <4>2
    <3>7. QED
      BY <3>3, <3>4, <3>5, <3>6
  <2>2. QED
    BY <2>1 DEF SwapOnce
<1>19. SwapAnswered'
  <2>1. ASSUME NEW s \in Semaphores, s[1] # "relay"
        PROVE  /\ (s \in signaled' \/ \E i \in DOMAIN queue' : s \in queue'[i].signals) <=>
                  (Owed(s)' \/ \E i \in DOMAIN queue' : ~queue'[i].started /\ s \in queue'[i].waits)
               /\ Owed(s)' => \A i \in DOMAIN queue' : s \in queue'[i].waits => queue'[i].started
    <3>1. /\ (s \in signaled \/ \E i \in DOMAIN queue : s \in queue[i].signals) <=>
             (Owed(s) \/ \E i \in DOMAIN queue : ~queue[i].started /\ s \in queue[i].waits)
          /\ Owed(s) => \A i \in DOMAIN queue : s \in queue[i].waits => queue[i].started
      BY <1>13, <2>1 DEF SwapAnswered
    <3>2. /\ s \in queue'[n + 1].waits <=> taken /\ s = A
          /\ s \in queue'[n + 1].signals <=> draws /\ s = P
          /\ s \in signaled' <=> s \in signaled
          /\ Owed(s)' <=> (Owed(s) /\ ~(draws /\ s = A)) \/ (draws /\ s = P)
      BY <1>6, <2>1
    <3>3. Owed(s) /\ draws /\ s = A => taken
      BY <1>1, <1>8 DEF Owed, A, PresentSem, Acquire
    <3>4. (\E i \in DOMAIN queue' : s \in queue'[i].signals) <=>
          ((\E i \in DOMAIN queue : s \in queue[i].signals) \/ (draws /\ s = P))
      BY <1>3, <1>12, <3>2
    <3>5. (\E i \in DOMAIN queue' : ~queue'[i].started /\ s \in queue'[i].waits) <=>
          ((\E i \in DOMAIN queue : ~queue[i].started /\ s \in queue[i].waits) \/ (taken /\ s = A))
      BY <1>3, <1>12, <3>2
    <3>6. taken => draws
      OBVIOUS
    <3>7. taken /\ s = A => Owed(s)
      BY <1>7
    <3>8. HIDE DEF taken
    <3>9. (s \in signaled' \/ \E i \in DOMAIN queue' : s \in queue'[i].signals) <=>
          (Owed(s)' \/ \E i \in DOMAIN queue' : ~queue'[i].started /\ s \in queue'[i].waits)
      <4>1. draws /\ s = P => s # A
        BY <1>8
      <4>2. QED
        BY <3>1, <3>2, <3>3, <3>4, <3>5, <3>6, <3>7, <4>1
    <3>10. ASSUME Owed(s)', NEW i \in DOMAIN queue', s \in queue'[i].waits PROVE queue'[i].started
      <4>1. CASE draws /\ s = P
        <5>1. s # A
          BY <1>8, <4>1
        <5>2. QED
          BY <1>9, <1>12, <3>2, <3>10, <4>1, <5>1
      <4>2. CASE ~(draws /\ s = P)
        <5>1. Owed(s) /\ ~(draws /\ s = A)
          BY <3>2, <3>10, <4>2
        <5>2. QED
          BY <1>12, <3>1, <3>2, <3>6, <3>10, <5>1
      <4>3. QED
        BY <4>1, <4>2
    <3>11. QED
      BY <3>9, <3>10
  <2>2. QED
    BY <2>1 DEF SwapAnswered
<1>20. SwapPlaced'
  <2>1. \A i \in DOMAIN queue' : queue'[i].op = "present" => i \in DOMAIN queue /\ queue'[i] = queue[i]
    BY <1>3, <1>12
  <2>2. frame # None => frame.image \notin engine
    BY <1>13 DEF SwapPlaced
  <2>3. \A i \in DOMAIN queue' : queue'[i].op = "present" =>
           queue'[i].image \notin engine /\ (frame # None => queue'[i].image # frame.image)
    BY <1>13, <2>1 DEF SwapPlaced
  <2>4. \A i, j \in DOMAIN queue' :
           queue'[i].op = "present" /\ queue'[j].op = "present"
               /\ queue'[i].image = queue'[j].image => i = j
    BY <1>13, <2>1 DEF SwapPlaced
  <2>5. ASSUME NEW i \in DOMAIN queue', queue'[i].op = "submit", queue'[i].image # 0
        PROVE  \E s \in queue'[i].signals : s[1] # "relay"
    <3>1. CASE i \in DOMAIN queue /\ queue'[i] = queue[i]
      BY <1>13, <2>5, <3>1 DEF SwapPlaced
    <3>2. CASE i = n + 1
      <4>1. draws
        BY <1>3, <2>5, <3>2
      <4>2. P \in queue'[i].signals
        BY <1>4, <3>2, <4>1
      <4>3. QED
        BY <1>8, <4>2
    <3>3. QED
      BY <1>12, <3>1, <3>2
  <2>6. ASSUME NEW k \in 1..Images
        PROVE  /\ ~acquireSem'[k].wait => frame # None /\ frame.slot = k
               /\ acquireSem'[k].used <= submitted + 1
               /\ presentSem'[k].index # 0 => frame # None /\ frame.image = k
               /\ \A i \in DOMAIN queue' :
                     Acquire(k) \in queue'[i].waits => queue'[i].value <= acquireSem'[k].used
    <3>1. /\ presentSem \in [1..Images -> [made : Nat, index : Nat]]
          /\ acquireSem \in [1..Images -> [wait : BOOLEAN, used : Nat]]
      BY DEF FenceInv, VulkanType
    <3>2. /\ acquireSem' = IF draws
                THEN [acquireSem EXCEPT ![frame.slot] = [wait |-> FALSE, used |-> submitted + 1]]
                ELSE acquireSem
          /\ draws => \E p : presentSem' = [presentSem EXCEPT ![frame.image] = p]
          /\ ~draws => presentSem' = presentSem
      BY DEF Submit
    <3>3. IF draws /\ k = frame.slot THEN ~acquireSem'[k].wait /\ acquireSem'[k].used = submitted + 1
          ELSE acquireSem'[k] = acquireSem[k]
      BY <1>10, <3>1, <3>2
    <3>4. ~(draws /\ k = frame.image) => presentSem'[k] = presentSem[k]
      BY <1>10, <3>1, <3>2
    <3>5. acquireSem[k].used \in Nat
      BY <3>1
    <3>6. /\ ~acquireSem[k].wait => frame # None /\ frame.slot = k
          /\ acquireSem[k].used <= submitted
          /\ presentSem[k].index # 0 => frame # None /\ frame.image = k
          /\ \A i \in DOMAIN queue :
                Acquire(k) \in queue[i].waits => queue[i].value <= acquireSem[k].used
      BY <1>13 DEF SwapPlaced
    <3>7. acquireSem'[k].used <= submitted + 1 /\ acquireSem'[k].used \in Nat
      BY <1>1, <3>3, <3>5, <3>6
    <3>8. ASSUME NEW i \in DOMAIN queue', Acquire(k) \in queue'[i].waits
          PROVE  queue'[i].value <= acquireSem'[k].used
      <4>1. CASE i \in DOMAIN queue /\ queue'[i] = queue[i]
        <5>1. queue[i].value <= acquireSem[k].used /\ queue[i].value \in Nat
          BY <1>1, <3>6, <3>8, <4>1, BatchFields
        <5>2. acquireSem[k].used <= acquireSem'[k].used
          BY <1>1, <3>3, <3>5, <3>6
        <5>3. QED
          BY <3>5, <3>7, <4>1, <5>1, <5>2
      <4>2. CASE i = n + 1
        <5>1. k \in Nat /\ Acquire(k) \in Semaphores /\ Acquire(k)[1] = "acquire"
          BY VulkanAssumption, SwapNames
        <5>2. taken /\ Acquire(k) = A
          BY <1>6, <3>8, <4>2, <5>1
        <5>3. k = frame.slot /\ draws
          BY <5>2 DEF A, Acquire
        <5>4. queue'[i].value = submitted + 1 /\ acquireSem'[k].used = submitted + 1
          BY <1>3, <3>3, <4>2, <5>3
        <5>5. QED
          BY <1>1, <5>4
      <4>3. QED
        BY <1>12, <4>1, <4>2
    <3>9. QED
      BY <1>1, <3>3, <3>4, <3>6, <3>7, <3>8
  <2>7. QED
    BY <1>1, <2>2, <2>3, <2>4, <2>5, <2>6 DEF SwapPlaced
<1>21. QED
  BY <1>1, <1>13, <1>15, <1>18, <1>19, <1>20 DEF SwapInv

(* Once the submissions that last used it have ended, nothing in the queue *)
(* names the acquire semaphore, and it is not up.                          *)
LEMMA AcquireFree ==
  ASSUME FenceInv, SwapInv, frame = None, NEW place \in 1..Images,
         Reached(acquireSem[place].used)
  PROVE  ~Pending(Acquire(place))
<1>1. /\ acquireSem \in [1..Images -> [wait : BOOLEAN, used : Nat]]
      /\ finished \in Nat /\ submitted \in Nat /\ queue \in Seq(Batches) /\ QueueInOrder
  BY DEF FenceInv, VulkanType
<1>2. SwapNamed /\ SwapAnswered /\ SwapPlaced
  BY DEF SwapInv
<1>3. DEFINE u == acquireSem[place].used
             A == Acquire(place)
<1>4. u \in Nat /\ u <= submitted
  BY <1>1, <1>2 DEF SwapPlaced
<1>5. u <= finished
  <2>1. CASE u = 0
    BY <1>1, <2>1
  <2>2. CASE u # 0
    <3>1. u \in 1..submitted
      BY <1>1, <1>4, <2>2
    <3>2. QED
      BY <3>1, ReachedEnded
  <2>3. QED
    BY <2>1, <2>2
<1>6. A \in Semaphores /\ A[1] = "acquire"
  BY VulkanAssumption, SwapNames
<1>7. \A i \in DOMAIN queue : A \in queue[i].waits => queue[i].value <= u
  BY <1>2 DEF SwapPlaced
<1>8. HIDE DEF u, A
<1>9. ASSUME NEW i \in DOMAIN queue PROVE A \notin queue[i].waits
  <2>1. ASSUME A \in queue[i].waits PROVE FALSE
    <3>1. queue[i].op = "submit"
      BY <1>2, <1>6, <2>1 DEF SwapNamed
    <3>2. finished < queue[i].value /\ queue[i].value \in Nat
      BY <1>1, <3>1, BatchFields DEF QueueInOrder
    <3>3. queue[i].value <= u
      BY <1>7, <2>1
    <3>4. QED
      BY <1>1, <1>4, <1>5, <3>2, <3>3
  <2>2. QED
    BY <2>1
<1>10. \A i \in DOMAIN queue : A \notin queue[i].signals
  BY <1>2, <1>6 DEF SwapNamed
<1>11. ~Owed(A)
  BY DEF Owed
<1>12. A \notin signaled
  BY <1>2, <1>6, <1>9, <1>11 DEF SwapAnswered
<1>13. ~Pending(A)
  BY <1>9, <1>10, <1>12 DEF Pending
<1>14. QED
  BY <1>13 DEF A

LEMMA AcquireKeepsSwap ==
  ASSUME FenceInv, SwapInv, NEW image \in 1..Images, AcquireImage(image), ~mishap'
  PROVE  SwapInv'
<1>1. /\ UNCHANGED <<submitted, acquireSem, presentSem, queue, finished>>
      /\ frame = None /\ image \in engine /\ engine' = engine \ {image}
      /\ signaled' = signaled \cup {Acquire(nextAcquire)}
      /\ frame' = [image |-> image, slot |-> nextAcquire]
      /\ clash' = (clash \/ Pending(Acquire(nextAcquire)))
      /\ Reached(acquireSem[nextAcquire].used)
  BY DEF AcquireImage, relayVars
<1>2. /\ nextAcquire \in 1..Images /\ nextAcquire \in Nat /\ nextAcquire # 0 /\ image \in Nat
      /\ acquireSem \in [1..Images -> [wait : BOOLEAN, used : Nat]]
      /\ presentSem \in [1..Images -> [made : Nat, index : Nat]]
      /\ queue \in Seq(Batches)
  <2>1. /\ nextAcquire \in 1..Images
        /\ acquireSem \in [1..Images -> [wait : BOOLEAN, used : Nat]]
        /\ presentSem \in [1..Images -> [made : Nat, index : Nat]]
        /\ queue \in Seq(Batches)
    BY DEF FenceInv, VulkanType
  <2>2. nextAcquire \in Nat /\ nextAcquire # 0 /\ image \in Nat
    BY <2>1, VulkanAssumption
  <2>3. QED
    BY <2>1, <2>2
<1>3. SwapNamed /\ SwapOnce /\ SwapAnswered /\ SwapPlaced /\ ~clash
  BY DEF SwapInv
<1>4. DEFINE A == Acquire(nextAcquire)
<1>5. ~Pending(A) /\ A \in Semaphores /\ A[1] = "acquire"
  BY <1>1, <1>2, AcquireFree, SwapNames
<1>6. frame' # None' /\ frame'.image = image /\ frame'.slot = nextAcquire
  BY <1>1, <1>2 DEF None
<1>7. acquireSem[nextAcquire].wait /\ presentSem[image].index = 0
  <2>1. acquireSem[nextAcquire].wait
    BY <1>1, <1>2, <1>3 DEF SwapPlaced
  <2>2. presentSem[image].index = 0
    BY <1>1, <1>2, <1>3 DEF SwapPlaced
  <2>3. QED
    BY <2>1, <2>2
<1>8. \A s : ~Owed(s) /\ (Owed(s)' <=> s = A)
  <2>1. \A s : ~Owed(s)
    BY <1>1 DEF Owed
  <2>2. acquireSem' = acquireSem /\ presentSem' = presentSem
    BY <1>1
  <2>3. \A s : Owed(s)' <=> \/ s = A /\ acquireSem[nextAcquire].wait
                            \/ \E x \in 1..presentSem[image].index : s = PresentSem(image, x)
    BY <1>6, <2>2 DEF Owed
  <2>4. 1..presentSem[image].index = {}
    BY <1>7
  <2>5. QED
    BY <1>7, <2>1, <2>3, <2>4
<1>9. A \notin signaled /\ \A i \in DOMAIN queue : A \notin queue[i].waits /\ A \notin queue[i].signals
  BY <1>5 DEF Pending
<1>10. ~clash'
  BY <1>1, <1>3, <1>5
<1>11. \A s : s \in signaled' <=> s \in signaled \/ s = A
  BY <1>1
<1>12. HIDE DEF A
<1>13. SwapNamed'
  BY <1>1, <1>3 DEF SwapNamed
<1>14. SwapOnce'
  BY <1>1, <1>3, <1>9, <1>11 DEF SwapOnce
<1>15. SwapAnswered'
  <2>1. ASSUME NEW s \in Semaphores, s[1] # "relay"
        PROVE  /\ (s \in signaled' \/ \E i \in DOMAIN queue : s \in queue[i].signals) <=>
                  (Owed(s)' \/ \E i \in DOMAIN queue : ~queue[i].started /\ s \in queue[i].waits)
               /\ Owed(s)' => \A i \in DOMAIN queue : s \in queue[i].waits => queue[i].started
    <3>1. (s \in signaled \/ \E i \in DOMAIN queue : s \in queue[i].signals) <=>
          (Owed(s) \/ \E i \in DOMAIN queue : ~queue[i].started /\ s \in queue[i].waits)
      BY <1>3, <2>1 DEF SwapAnswered
    <3>2. CASE s = A
      BY <1>8, <1>9, <1>11, <3>2
    <3>3. CASE s # A
      BY <1>8, <1>11, <3>1, <3>3
    <3>4. QED
      BY <3>2, <3>3
  <2>2. QED
    BY <1>1, <2>1 DEF SwapAnswered
<1>16. SwapPlaced'
  <2>1. \A i \in DOMAIN queue : queue[i].op = "present" => queue[i].image # image
    BY <1>1, <1>3 DEF SwapPlaced
  <2>2. \A i \in DOMAIN queue : queue[i].op = "present" =>
           queue[i].image \notin engine' /\ queue[i].image # frame'.image
    BY <1>1, <1>3, <1>6, <2>1 DEF SwapPlaced
  <2>3. /\ \A i, j \in DOMAIN queue :
              queue[i].op = "present" /\ queue[j].op = "present"
                  /\ queue[i].image = queue[j].image => i = j
        /\ \A i \in DOMAIN queue : queue[i].op = "submit" /\ queue[i].image # 0 =>
              \E s \in queue[i].signals : s[1] # "relay"
    BY <1>3 DEF SwapPlaced
  <2>4. \A k \in 1..Images :
          /\ acquireSem[k].wait /\ presentSem[k].index = 0
          /\ acquireSem[k].used <= submitted
          /\ \A i \in DOMAIN queue :
                Acquire(k) \in queue[i].waits => queue[i].value <= acquireSem[k].used
    BY <1>1, <1>3 DEF SwapPlaced
  <2>5. frame'.image \notin engine'
    BY <1>1, <1>6
  <2>6. QED
    BY <1>1, <2>2, <2>3, <2>4, <2>5 DEF SwapPlaced
<1>17. QED
  BY <1>10, <1>13, <1>14, <1>15, <1>16 DEF SwapInv

LEMMA PresentKeepsSwap ==
  ASSUME FenceInv, SwapInv, PresentImage, ~mishap'
  PROVE  SwapInv'
<1>1. /\ UNCHANGED <<submitted, finished, clash, signaled, engine>> /\ frame # None
      /\ frame' = None /\ None' = None /\ ~acquireSem[frame.slot].wait
      /\ acquireSem' = [acquireSem EXCEPT ![frame.slot].wait = TRUE]
      /\ presentSem' = [presentSem EXCEPT ![frame.image] = EndUsage(@)]
  BY DEF PresentImage, relayVars, None
<1>2. /\ frame.image \in 1..Images /\ frame.slot \in 1..Images /\ frame.image \in Nat
      /\ frame.slot \in Nat /\ frame.image # 0
  BY <1>1, FramePlaced
<1>3. /\ acquireSem \in [1..Images -> [wait : BOOLEAN, used : Nat]]
      /\ presentSem \in [1..Images -> [made : Nat, index : Nat]]
      /\ queue \in Seq(Batches)
  BY DEF FenceInv, VulkanType
<1>4. SwapNamed /\ SwapOnce /\ SwapAnswered /\ SwapPlaced /\ ~clash
  BY DEF SwapInv
<1>5. DEFINE n == Len(queue)
             waits == {PresentSem(frame.image, x) : x \in 1..presentSem[frame.image].index}
             b == [op |-> "present", value |-> 0, image |-> frame.image, waits |-> waits,
                   signals |-> {}, raises |-> {}, started |-> FALSE]
<1>6. queue' = Append(queue, b)
  BY DEF PresentImage
<1>7. /\ b.op = "present" /\ b.image = frame.image /\ ~b.started /\ b.waits = waits
      /\ b.signals = {} /\ b.value = 0
  OBVIOUS
<1>8. \A s : s \in waits <=> Owed(s)
  BY <1>1 DEF Owed
<1>9. \A s \in waits : s[1] = "present" /\ s[2] = frame.image
  BY DEF PresentSem
<1>10. HIDE DEF b, waits
<1>11. /\ n \in Nat /\ DOMAIN queue = 1..n /\ DOMAIN queue' = 1..(n + 1)
       /\ \A i \in DOMAIN queue : queue'[i] = queue[i]
       /\ queue'[n + 1] = b
  BY <1>3, <1>6
<1>12. HIDE DEF n
<1>13. \A i \in DOMAIN queue' : \/ i \in DOMAIN queue /\ queue'[i] = queue[i] /\ i < n + 1
                                \/ i = n + 1 /\ queue'[i] = b
  BY <1>11
<1>14. \A s : ~Owed(s)'
  BY <1>1 DEF Owed
<1>15. SwapNamed'
  <2>1. ASSUME NEW i \in DOMAIN queue', NEW s \in Semaphores, s[1] # "relay"
        PROVE  /\ s \in queue'[i].signals =>
                     queue'[i].op = "submit" /\ s[1] = "present" /\ s[2] = queue'[i].image
               /\ s \in queue'[i].waits =>
                     \/ queue'[i].op = "submit" /\ s[1] = "acquire"
                     \/ queue'[i].op = "present" /\ s[1] = "present" /\ s[2] = queue'[i].image
    <3>1. CASE i \in DOMAIN queue /\ queue'[i] = queue[i]
      BY <1>4, <2>1, <3>1 DEF SwapNamed
    <3>2. CASE queue'[i] = b
      BY <1>7, <1>9, <3>2
    <3>3. QED
      BY <1>13, <3>1, <3>2
  <2>2. QED
    BY <2>1 DEF SwapNamed
<1>16. ASSUME NEW s \in Semaphores, s[1] # "relay"
       PROVE  /\ \A i \in DOMAIN queue' : s \in queue'[i].signals =>
                    i \in DOMAIN queue /\ s \in queue[i].signals
              /\ \A i \in DOMAIN queue' : s \in queue'[i].waits =>
                    \/ i \in DOMAIN queue /\ s \in queue[i].waits /\ queue'[i] = queue[i]
                    \/ i = n + 1 /\ Owed(s) /\ queue'[i] = b
  BY <1>7, <1>8, <1>13
<1>17. SwapOnce'
  <2>1. ASSUME NEW s \in Semaphores, s[1] # "relay"
        PROVE  /\ \A i, j \in DOMAIN queue' :
                     s \in queue'[i].signals /\ s \in queue'[j].signals => i = j
               /\ \A i \in DOMAIN queue' : s \in queue'[i].signals => s \notin signaled'
               /\ \A i, j \in DOMAIN queue' :
                     ~queue'[i].started /\ s \in queue'[i].waits
                         /\ ~queue'[j].started /\ s \in queue'[j].waits => i = j
               /\ \A i, j \in DOMAIN queue' :
                     s \in queue'[i].signals /\ s \in queue'[j].waits => i < j /\ ~queue'[j].started
    <3>1. /\ \A i, j \in DOMAIN queue :
                s \in queue[i].signals /\ s \in queue[j].signals => i = j
          /\ \A i \in DOMAIN queue : s \in queue[i].signals => s \notin signaled
          /\ \A i, j \in DOMAIN queue :
                ~queue[i].started /\ s \in queue[i].waits
                    /\ ~queue[j].started /\ s \in queue[j].waits => i = j
          /\ \A i, j \in DOMAIN queue :
                s \in queue[i].signals /\ s \in queue[j].waits => i < j /\ ~queue[j].started
      BY <1>4, <2>1 DEF SwapOnce
    <3>2. Owed(s) => \A i \in DOMAIN queue : s \in queue[i].waits => queue[i].started
      BY <1>4, <2>1 DEF SwapAnswered
    <3>3. \A i, j \in DOMAIN queue' :
             s \in queue'[i].signals /\ s \in queue'[j].signals => i = j
      BY <1>16, <2>1, <3>1
    <3>4. \A i \in DOMAIN queue' : s \in queue'[i].signals => s \notin signaled'
      BY <1>1, <1>16, <2>1, <3>1
    <3>5. ASSUME NEW i \in DOMAIN queue', NEW j \in DOMAIN queue',
                 ~queue'[i].started, s \in queue'[i].waits,
                 ~queue'[j].started, s \in queue'[j].waits
          PROVE  i = j
      BY <1>16, <2>1, <3>1, <3>2, <3>5
    <3>6. ASSUME NEW i \in DOMAIN queue', NEW j \in DOMAIN queue',
                 s \in queue'[i].signals, s \in queue'[j].waits
          PROVE  i < j /\ ~queue'[j].started
      <4>1. i \in DOMAIN queue /\ s \in queue[i].signals /\ i < n + 1
        BY <1>11, <1>16, <2>1, <3>6
      <4>2. CASE j \in DOMAIN queue /\ s \in queue[j].waits /\ queue'[j] = queue[j]
        BY <3>1, <4>1, <4>2
      <4>3. CASE j = n + 1 /\ queue'[j] = b
        BY <1>7, <4>1, <4>3
      <4>4. QED
        BY <1>16, <2>1, <3>6, <4>2, <4>3
    <3>7. QED
      BY <3>3, <3>4, <3>5, <3>6
  <2>2. QED
    BY <2>1 DEF SwapOnce
<1>18. SwapAnswered'
  <2>1. ASSUME NEW s \in Semaphores, s[1] # "relay"
        PROVE  (s \in signaled' \/ \E i \in DOMAIN queue' : s \in queue'[i].signals) <=>
               (\E i \in DOMAIN queue' : ~queue'[i].started /\ s \in queue'[i].waits)
    <3>1. (s \in signaled \/ \E i \in DOMAIN queue : s \in queue[i].signals) <=>
          (Owed(s) \/ \E i \in DOMAIN queue : ~queue[i].started /\ s \in queue[i].waits)
      BY <1>4, <2>1 DEF SwapAnswered
    <3>2. (\E i \in DOMAIN queue' : s \in queue'[i].signals) <=>
          (\E i \in DOMAIN queue : s \in queue[i].signals)
      BY <1>11, <1>16, <2>1
    <3>3. (\E i \in DOMAIN queue' : ~queue'[i].started /\ s \in queue'[i].waits) <=>
          (Owed(s) \/ \E i \in DOMAIN queue : ~queue[i].started /\ s \in queue[i].waits)
      BY <1>7, <1>8, <1>11, <1>16, <2>1
    <3>4. QED
      BY <1>1, <3>1, <3>2, <3>3
  <2>2. QED
    BY <1>14, <2>1 DEF SwapAnswered
<1>19. SwapPlaced'
  <2>1. ASSUME NEW i \in DOMAIN queue', queue'[i].op = "present"
        PROVE  queue'[i].image \notin engine
    BY <1>1, <1>4, <1>7, <1>13, <2>1 DEF SwapPlaced
  <2>2. ASSUME NEW i \in DOMAIN queue', NEW j \in DOMAIN queue', queue'[i].op = "present",
               queue'[j].op = "present", queue'[i].image = queue'[j].image
        PROVE  i = j
    <3>1. \A k \in DOMAIN queue : queue[k].op = "present" => queue[k].image # frame.image
      BY <1>1, <1>4 DEF SwapPlaced
    <3>2. \A k, m \in DOMAIN queue :
             queue[k].op = "present" /\ queue[m].op = "present"
                 /\ queue[k].image = queue[m].image => k = m
      BY <1>4 DEF SwapPlaced
    <3>3. QED
      BY <1>7, <1>13, <2>2, <3>1, <3>2
  <2>3. \A i \in DOMAIN queue' : queue'[i].op = "submit" /\ queue'[i].image # 0 =>
           \E s \in queue'[i].signals : s[1] # "relay"
    BY <1>4, <1>7, <1>13 DEF SwapPlaced
  <2>4. ASSUME NEW k \in 1..Images
        PROVE  /\ acquireSem'[k].wait /\ acquireSem'[k].used <= submitted
               /\ presentSem'[k].index = 0
               /\ \A i \in DOMAIN queue' :
                     Acquire(k) \in queue'[i].waits => queue'[i].value <= acquireSem'[k].used
    <3>1. acquireSem'[k].used = acquireSem[k].used /\ acquireSem'[k].wait
      <4>1. CASE k = frame.slot
        BY <1>1, <1>2, <1>3, <4>1
      <4>2. CASE k # frame.slot
        <5>1. acquireSem'[k] = acquireSem[k]
          BY <1>1, <1>2, <1>3, <4>2
        <5>2. acquireSem[k].wait
          BY <1>4, <4>2 DEF SwapPlaced
        <5>3. QED
          BY <5>1, <5>2
      <4>3. QED
        BY <4>1, <4>2
    <3>2. presentSem'[k].index = 0
      <4>1. CASE k = frame.image
        BY <1>1, <1>2, <1>3, <4>1 DEF EndUsage
      <4>2. CASE k # frame.image
        <5>1. presentSem'[k] = presentSem[k]
          BY <1>1, <1>2, <1>3, <4>2
        <5>2. presentSem[k].index = 0
          BY <1>4, <4>2 DEF SwapPlaced
        <5>3. QED
          BY <5>1, <5>2
      <4>3. QED
        BY <4>1, <4>2
    <3>3. /\ acquireSem[k].used <= submitted
          /\ \A i \in DOMAIN queue :
                Acquire(k) \in queue[i].waits => queue[i].value <= acquireSem[k].used
      BY <1>4 DEF SwapPlaced
    <3>4. Acquire(k)[1] # "present"
      BY DEF Acquire
    <3>5. \A i \in DOMAIN queue' : Acquire(k) \in queue'[i].waits =>
             i \in DOMAIN queue /\ queue'[i] = queue[i]
      BY <1>7, <1>9, <1>13, <3>4
    <3>6. QED
      BY <3>1, <3>2, <3>3, <3>5
  <2>5. QED
    BY <1>1, <2>1, <2>2, <2>3, <2>4 DEF SwapPlaced
<1>20. QED
  BY <1>1, <1>4, <1>15, <1>17, <1>18, <1>19 DEF SwapInv

LEMMA StartKeepsSwap ==
  ASSUME FenceInv, SwapInv, NEW i \in DOMAIN queue, GpuStart(i)
  PROVE  SwapInv'
<1>1. /\ UNCHANGED <<submitted, finished, clash, engine, frame, acquireSem, presentSem>>
      /\ signaled' = signaled \ queue[i].waits /\ queue[i].waits \subseteq signaled
      /\ ~queue[i].started /\ None' = None
  BY DEF GpuStart, relayVars, chainVars, None
<1>2. /\ DOMAIN queue' = DOMAIN queue
      /\ \A j \in DOMAIN queue :
            /\ queue'[j].op = queue[j].op /\ queue'[j].value = queue[j].value
            /\ queue'[j].image = queue[j].image
            /\ queue'[j].waits = queue[j].waits /\ queue'[j].signals = queue[j].signals
            /\ queue'[j].started <=> (queue[j].started \/ j = i)
  BY StartSees
<1>3. SwapNamed /\ SwapOnce /\ SwapAnswered /\ SwapPlaced /\ ~clash
  BY DEF SwapInv
<1>4. \A s : Owed(s)' <=> Owed(s)
  BY <1>1 DEF Owed
<1>5. SwapNamed'
  BY <1>2, <1>3 DEF SwapNamed
<1>6. SwapPlaced'
  BY <1>1, <1>2, <1>3 DEF SwapPlaced
<1>7. ASSUME NEW s \in Semaphores, s[1] # "relay"
      PROVE  /\ \A k, j \in DOMAIN queue' :
                   s \in queue'[k].signals /\ s \in queue'[j].signals => k = j
             /\ \A k \in DOMAIN queue' : s \in queue'[k].signals => s \notin signaled'
             /\ \A k, j \in DOMAIN queue' :
                   ~queue'[k].started /\ s \in queue'[k].waits
                       /\ ~queue'[j].started /\ s \in queue'[j].waits => k = j
             /\ \A k, j \in DOMAIN queue' :
                   s \in queue'[k].signals /\ s \in queue'[j].waits => k < j /\ ~queue'[j].started
             /\ (s \in signaled' \/ \E k \in DOMAIN queue' : s \in queue'[k].signals) <=>
                (Owed(s)' \/ \E k \in DOMAIN queue' : ~queue'[k].started /\ s \in queue'[k].waits)
             /\ Owed(s)' => \A k \in DOMAIN queue' : s \in queue'[k].waits => queue'[k].started
  <2>1. /\ \A k, j \in DOMAIN queue :
              s \in queue[k].signals /\ s \in queue[j].signals => k = j
        /\ \A k \in DOMAIN queue : s \in queue[k].signals => s \notin signaled
        /\ \A k, j \in DOMAIN queue :
              ~queue[k].started /\ s \in queue[k].waits
                  /\ ~queue[j].started /\ s \in queue[j].waits => k = j
        /\ \A k, j \in DOMAIN queue :
              s \in queue[k].signals /\ s \in queue[j].waits => k < j /\ ~queue[j].started
    BY <1>3, <1>7 DEF SwapOnce
  <2>2. /\ (s \in signaled \/ \E k \in DOMAIN queue : s \in queue[k].signals) <=>
           (Owed(s) \/ \E k \in DOMAIN queue : ~queue[k].started /\ s \in queue[k].waits)
        /\ Owed(s) => \A k \in DOMAIN queue : s \in queue[k].waits => queue[k].started
    BY <1>3, <1>7 DEF SwapAnswered
  <2>3. /\ \A k, j \in DOMAIN queue' :
              s \in queue'[k].signals /\ s \in queue'[j].signals => k = j
        /\ \A k \in DOMAIN queue' : s \in queue'[k].signals => s \notin signaled'
    BY <1>1, <1>2, <2>1
  <2>4. \A k, j \in DOMAIN queue' :
           ~queue'[k].started /\ s \in queue'[k].waits
               /\ ~queue'[j].started /\ s \in queue'[j].waits => k = j
    BY <1>2, <2>1
  <2>5. ASSUME NEW k \in DOMAIN queue', NEW j \in DOMAIN queue',
               s \in queue'[k].signals, s \in queue'[j].waits
        PROVE  k < j /\ ~queue'[j].started
    <3>1. k < j /\ ~queue[j].started
      BY <1>2, <2>1, <2>5
    <3>2. j # i
      BY <1>1, <1>2, <2>1, <2>5
    <3>3. QED
      BY <1>2, <3>1, <3>2
  <2>6. CASE s \in queue[i].waits
    <3>1. s \notin signaled' /\ \A k \in DOMAIN queue' : s \notin queue'[k].signals
      BY <1>1, <1>2, <2>1, <2>6
    <3>2. ~Owed(s)'
      BY <1>1, <1>4, <2>2, <2>6
    <3>3. \A k \in DOMAIN queue' : s \in queue'[k].waits => queue'[k].started
      BY <1>1, <1>2, <2>1, <2>6
    <3>4. QED
      BY <2>3, <2>4, <2>5, <3>1, <3>2, <3>3
  <2>7. CASE s \notin queue[i].waits
    <3>1. /\ (s \in signaled' \/ \E k \in DOMAIN queue' : s \in queue'[k].signals) <=>
             (s \in signaled \/ \E k \in DOMAIN queue : s \in queue[k].signals)
          /\ (\E k \in DOMAIN queue' : ~queue'[k].started /\ s \in queue'[k].waits) <=>
             (\E k \in DOMAIN queue : ~queue[k].started /\ s \in queue[k].waits)
      BY <1>1, <1>2, <2>7
    <3>2. Owed(s)' => \A k \in DOMAIN queue' : s \in queue'[k].waits => queue'[k].started
      BY <1>2, <1>4, <2>2
    <3>3. QED
      BY <1>4, <2>2, <2>3, <2>4, <2>5, <3>1, <3>2
  <2>8. QED
    BY <2>6, <2>7
<1>8. SwapOnce' /\ SwapAnswered'
  <2>1. SwapOnce'
    BY <1>7 DEF SwapOnce
  <2>2. SwapAnswered'
    BY <1>7 DEF SwapAnswered
  <2>3. QED
    BY <2>1, <2>2
<1>9. QED
  BY <1>1, <1>3, <1>5, <1>6, <1>8 DEF SwapInv

LEMMA FinishKeepsSwap ==
  ASSUME FenceInv, RelayInv, SwapInv, GpuFinish
  PROVE  SwapInv'
<1>1. /\ Len(queue) \in Nat /\ DOMAIN queue = 1..Len(queue) /\ 1 \in DOMAIN queue
      /\ DOMAIN queue' = 1..(Len(queue) - 1)
      /\ \A i \in DOMAIN queue' : queue'[i] = queue[i + 1] /\ i + 1 \in DOMAIN queue
      /\ \A i \in DOMAIN queue : i # 1 => \E j \in DOMAIN queue' : i = j + 1
      /\ queue[1].op = "submit" => queue[1].value = finished + 1
  BY FinishSees
<1>2. DEFINE q == queue[1]
<1>3. /\ UNCHANGED <<submitted, frame, acquireSem, presentSem>> /\ None' = None
      /\ q.started /\ signaled' = signaled \cup q.signals \cup q.raises
      /\ clash' = (clash \/ q.signals \cap signaled # {})
      /\ engine' = IF q.op = "present" THEN engine \cup {q.image} ELSE engine
  BY DEF GpuFinish, relayVars, None
<1>4. queue \in Seq(Batches) /\ finished \in Nat
  BY DEF FenceInv, VulkanType
<1>5. q.raises \subseteq VkFences /\ q.signals \subseteq Semaphores
  BY <1>1, <1>4, BatchFields
<1>6. \A s \in Semaphores : s \in signaled' <=> s \in signaled \/ s \in q.signals
  BY <1>3, <1>5, Named
<1>7. SwapNamed /\ SwapOnce /\ SwapAnswered /\ SwapPlaced /\ ~clash
  BY DEF SwapInv
<1>8. \A s : Owed(s)' <=> Owed(s)
  BY <1>3 DEF Owed
<1>9. \A i, j \in DOMAIN queue' : (i + 1 = j + 1 => i = j) /\ (i + 1 < j + 1 => i < j) /\ i + 1 # 1
  BY <1>1
<1>10. \A i \in DOMAIN queue : i = 1 \/ \E j \in DOMAIN queue' : i = j + 1 /\ queue'[j] = queue[i]
  BY <1>1
<1>11. ~clash'
  <2>1. ASSUME NEW s \in q.signals, s \in signaled PROVE FALSE
    <3>1. s \in Semaphores
      BY <1>5
    <3>2. CASE s[1] # "relay"
      BY <1>1, <1>7, <2>1, <3>1, <3>2 DEF SwapOnce
    <3>3. CASE s[1] = "relay"
      <4>1. q.op = "submit"
        BY <1>1, <2>1, <3>1, <3>3 DEF RelayInv
      <4>2. q.value # finished + 1
        BY <1>1, <1>3, <2>1, <3>1, <3>3, <4>1 DEF RelayInv
      <4>3. QED
        BY <1>1, <4>1, <4>2
    <3>4. QED
      BY <3>2, <3>3
  <2>2. q.signals \cap signaled = {}
    BY <2>1
  <2>3. QED
    BY <1>3, <1>7, <2>2
<1>12. SwapNamed'
  BY <1>1, <1>7 DEF SwapNamed
<1>13. SwapPlaced'
  <2>1. ASSUME NEW i \in DOMAIN queue', queue'[i].op = "present"
        PROVE  queue'[i].image \notin engine' /\ (frame # None => queue'[i].image # frame.image)
    <3>1. /\ queue[i + 1].image \notin engine
          /\ frame # None => queue[i + 1].image # frame.image
      BY <1>1, <1>7, <2>1 DEF SwapPlaced
    <3>2. q.op = "present" => queue[i + 1].image # q.image
      BY <1>1, <1>7, <1>9, <2>1 DEF SwapPlaced
    <3>3. QED
      BY <1>1, <1>3, <3>1, <3>2
  <2>2. \A i, j \in DOMAIN queue' :
           queue'[i].op = "present" /\ queue'[j].op = "present"
               /\ queue'[i].image = queue'[j].image => i = j
    BY <1>1, <1>7, <1>9 DEF SwapPlaced
  <2>3. frame # None => frame.image \notin engine'
    BY <1>1, <1>3, <1>7 DEF SwapPlaced
  <2>4. \A i \in DOMAIN queue' : queue'[i].op = "submit" /\ queue'[i].image # 0 =>
           \E s \in queue'[i].signals : s[1] # "relay"
    BY <1>1, <1>7 DEF SwapPlaced
  <2>5. \A k \in 1..Images : \A i \in DOMAIN queue' :
           Acquire(k) \in queue'[i].waits => queue'[i].value <= acquireSem[k].used
    BY <1>1, <1>7 DEF SwapPlaced
  <2>6. \A k \in 1..Images :
          /\ ~acquireSem[k].wait => frame # None /\ frame.slot = k
          /\ acquireSem[k].used <= submitted
          /\ presentSem[k].index # 0 => frame # None /\ frame.image = k
    BY <1>7 DEF SwapPlaced
  <2>7. QED
    BY <1>3, <2>1, <2>2, <2>3, <2>4, <2>5, <2>6 DEF SwapPlaced
<1>14. ASSUME NEW s \in Semaphores, s[1] # "relay"
       PROVE  /\ \A k, j \in DOMAIN queue' :
                    s \in queue'[k].signals /\ s \in queue'[j].signals => k = j
              /\ \A k \in DOMAIN queue' : s \in queue'[k].signals => s \notin signaled'
              /\ \A k, j \in DOMAIN queue' :
                    ~queue'[k].started /\ s \in queue'[k].waits
                        /\ ~queue'[j].started /\ s \in queue'[j].waits => k = j
              /\ \A k, j \in DOMAIN queue' :
                    s \in queue'[k].signals /\ s \in queue'[j].waits => k < j /\ ~queue'[j].started
              /\ (s \in signaled' \/ \E k \in DOMAIN queue' : s \in queue'[k].signals) <=>
                 (Owed(s)' \/ \E k \in DOMAIN queue' : ~queue'[k].started /\ s \in queue'[k].waits)
              /\ Owed(s)' => \A k \in DOMAIN queue' : s \in queue'[k].waits => queue'[k].started
  <2>1. /\ \A k, j \in DOMAIN queue :
              s \in queue[k].signals /\ s \in queue[j].signals => k = j
        /\ \A k \in DOMAIN queue : s \in queue[k].signals => s \notin signaled
        /\ \A k, j \in DOMAIN queue :
              ~queue[k].started /\ s \in queue[k].waits
                  /\ ~queue[j].started /\ s \in queue[j].waits => k = j
        /\ \A k, j \in DOMAIN queue :
              s \in queue[k].signals /\ s \in queue[j].waits => k < j /\ ~queue[j].started
    BY <1>7, <1>14 DEF SwapOnce
  <2>2. /\ (s \in signaled \/ \E k \in DOMAIN queue : s \in queue[k].signals) <=>
           (Owed(s) \/ \E k \in DOMAIN queue : ~queue[k].started /\ s \in queue[k].waits)
        /\ Owed(s) => \A k \in DOMAIN queue : s \in queue[k].waits => queue[k].started
    BY <1>7, <1>14 DEF SwapAnswered
  <2>3. s \in signaled' <=> s \in signaled \/ s \in q.signals
    BY <1>6
  <2>4. \A k, j \in DOMAIN queue' :
           s \in queue'[k].signals /\ s \in queue'[j].signals => k = j
    BY <1>1, <1>9, <2>1
  <2>5. \A k \in DOMAIN queue' : s \in queue'[k].signals => s \notin signaled'
    BY <1>1, <1>9, <2>1, <2>3
  <2>6. \A k, j \in DOMAIN queue' :
           ~queue'[k].started /\ s \in queue'[k].waits
               /\ ~queue'[j].started /\ s \in queue'[j].waits => k = j
    BY <1>1, <1>9, <2>1
  <2>7. \A k, j \in DOMAIN queue' :
           s \in queue'[k].signals /\ s \in queue'[j].waits => k < j /\ ~queue'[j].started
    BY <1>1, <1>9, <2>1
  <2>8. (s \in signaled' \/ \E k \in DOMAIN queue' : s \in queue'[k].signals) <=>
        (s \in signaled \/ \E k \in DOMAIN queue : s \in queue[k].signals)
    BY <1>1, <1>10, <2>3
  <2>9. (\E k \in DOMAIN queue' : ~queue'[k].started /\ s \in queue'[k].waits) <=>
        (\E k \in DOMAIN queue : ~queue[k].started /\ s \in queue[k].waits)
    BY <1>1, <1>3, <1>10
  <2>10. Owed(s)' => \A k \in DOMAIN queue' : s \in queue'[k].waits => queue'[k].started
    BY <1>1, <1>8, <2>2
  <2>11. QED
    BY <1>8, <2>2, <2>4, <2>5, <2>6, <2>7, <2>8, <2>9, <2>10
<1>15. SwapOnce'
  BY <1>14 DEF SwapOnce
<1>16. SwapAnswered'
  BY <1>14 DEF SwapAnswered
<1>17. QED
  BY <1>11, <1>12, <1>13, <1>15, <1>16 DEF SwapInv

LEMMA SwapBegins == VulkanInit => SwapInv
<1>1. SUFFICES ASSUME VulkanInit PROVE SwapInv
  OBVIOUS
<1>2. /\ DOMAIN queue = {} /\ signaled = {} /\ frame = None /\ ~clash /\ submitted = 0
      /\ \A k \in 1..Images : acquireSem[k].wait /\ acquireSem[k].used = 0
                              /\ presentSem[k].index = 0
  BY <1>1 DEF VulkanInit
<1>3. \A s : ~Owed(s)
  BY <1>2 DEF Owed
<1>4. SwapNamed /\ SwapOnce /\ SwapAnswered
  BY <1>2, <1>3 DEF SwapNamed, SwapOnce, SwapAnswered
<1>5. SwapPlaced
  BY <1>2 DEF SwapPlaced
<1>6. QED
  BY <1>2, <1>4, <1>5 DEF SwapInv

LEMMA SemaphoresStep ==
  FenceInv /\ SemaphoreInv /\ [VulkanNext]_vulkanVars => SemaphoreInv'
<1>1. SUFFICES ASSUME FenceInv, RelayInv, mishap \/ SwapInv, [VulkanNext]_vulkanVars, ~mishap'
               PROVE  SwapInv'
  BY RelayStep DEF SemaphoreInv
<1>2. mishap \in BOOLEAN
  BY <1>1 DEF FenceInv, VulkanType
<1>3. ASSUME NEW draws \in BOOLEAN, Submit(draws) PROVE SwapInv'
  <2>1. mishap' = mishap
    BY <1>3 DEF Submit
  <2>2. QED
    BY <1>1, <1>3, <2>1, SubmitKeepsSwap
<1>4. ASSUME NEW image \in 1..Images, AcquireImage(image) PROVE SwapInv'
  <2>1. ~mishap
    BY <1>1, <1>4 DEF AcquireImage
  <2>2. QED
    BY <1>1, <1>4, <2>1, AcquireKeepsSwap
<1>5. CASE PresentImage
  <2>1. ~mishap
    BY <1>1, <1>5 DEF PresentImage
  <2>2. QED
    BY <1>1, <1>5, <2>1, PresentKeepsSwap
<1>6. CASE DiscardImage
  BY <1>1, <1>6 DEF DiscardImage
<1>7. ASSUME NEW i \in DOMAIN queue, GpuStart(i) PROVE SwapInv'
  <2>1. mishap' = mishap
    BY <1>7 DEF GpuStart, chainVars
  <2>2. QED
    BY <1>1, <1>7, <2>1, StartKeepsSwap
<1>8. CASE GpuFinish
  <2>1. mishap' = mishap
    BY <1>8 DEF GpuFinish
  <2>2. QED
    BY <1>1, <1>8, <2>1, FinishKeepsSwap
<1>9. CASE UNCHANGED vulkanVars
  <2>1. /\ mishap' = mishap
        /\ UNCHANGED <<submitted, clash, signaled, engine, frame, acquireSem, presentSem, queue>>
    BY <1>9 DEF vulkanVars, relayVars, chainVars, gpuVars
  <2>2. SwapInv
    BY <1>1, <2>1
  <2>3. \A s : Owed(s)' <=> Owed(s)
    BY <2>1 DEF Owed, None
  <2>4. SwapNamed' /\ SwapOnce' /\ SwapAnswered'
    BY <2>1, <2>2, <2>3 DEF SwapInv, SwapNamed, SwapOnce, SwapAnswered
  <2>5. SwapPlaced'
    BY <2>1, <2>2 DEF SwapInv, SwapPlaced, None
  <2>6. QED
    BY <2>1, <2>2, <2>4, <2>5 DEF SwapInv
<1>10. QED
  BY <1>1, <1>3, <1>4, <1>5, <1>6, <1>7, <1>8, <1>9 DEF VulkanNext

(* What one element adds to a count.                                       *)
LEMMA OneAdded ==
  ASSUME NEW S, NEW T, NEW e, NEW b \in BOOLEAN, IsFiniteSet(T), e \notin T,
         S = IF b THEN T \cup {e} ELSE T
  PROVE  Cardinality(S) = Cardinality(T) + (IF b THEN 1 ELSE 0) /\ Cardinality(T) \in Nat
<1>1. Cardinality(T) \in Nat
  BY FS_CardinalityType
<1>2. Cardinality(T \cup {e}) = Cardinality(T) + 1
  BY FS_AddElement
<1>3. CASE b
  BY <1>1, <1>2, <1>3
<1>4. CASE ~b
  BY <1>1, <1>4
<1>5. QED
  BY <1>3, <1>4

LEMMA AtMostOne ==
  ASSUME NEW S, \A x, y \in S : x = y
  PROVE  /\ Cardinality(S) = IF S = {} THEN 0 ELSE 1
<1>1. CASE S = {}
  BY <1>1, FS_EmptySet
<1>2. CASE S # {}
  <2>1. PICK x \in S : TRUE
    BY <1>2
  <2>2. S = {x}
    BY <2>1
  <2>3. Cardinality({x}) = 1
    BY FS_Singleton
  <2>4. QED
    BY <1>2, <2>2, <2>3
<1>3. QED
  BY <1>1, <1>2

(* The submissions in the queue, in a row from the last that ended.        *)
LEMMA InARow ==
  ASSUME FenceInv
  PROVE  /\ \A i \in DOMAIN queue : queue[i].op = "submit" =>
               queue[i].value \in (finished + 1)..submitted
         /\ \A i, j \in DOMAIN queue : queue[i].op = "submit" /\ queue[j].op = "submit" =>
               (queue[i].value = queue[j].value => i = j)
         /\ \A v \in (finished + 1)..submitted : \E i \in DOMAIN queue :
               queue[i].op = "submit" /\ queue[i].value = v
<1>1. /\ queue \in Seq(Batches) /\ QueueInOrder /\ finished \in Nat /\ submitted \in Nat
  BY DEF FenceInv, VulkanType
<1>2. ASSUME NEW i \in DOMAIN queue, queue[i].op = "submit"
      PROVE  queue[i].value \in (finished + 1)..submitted
  <2>1. queue[i].value \in Nat
    BY <1>1, BatchFields
  <2>2. finished < queue[i].value /\ queue[i].value <= submitted
    BY <1>1, <1>2 DEF QueueInOrder
  <2>3. QED
    BY <1>1, <2>1, <2>2
<1>3. ASSUME NEW i \in DOMAIN queue, NEW j \in DOMAIN queue, queue[i].op = "submit",
             queue[j].op = "submit", queue[i].value = queue[j].value
      PROVE  i = j
  <2>1. queue[i].value \in Nat /\ queue[j].value \in Nat /\ i \in Nat /\ j \in Nat
    BY <1>1, BatchFields
  <2>2. ~(i < j) /\ ~(j < i)
    BY <1>1, <1>3, <2>1 DEF QueueInOrder
  <2>3. QED
    BY <2>1, <2>2
<1>4. \A v \in (finished + 1)..submitted : \E i \in DOMAIN queue :
         queue[i].op = "submit" /\ queue[i].value = v
  BY <1>1 DEF QueueInOrder
<1>5. QED
  BY <1>2, <1>3, <1>4

SignalsOf(s) == {i \in DOMAIN queue : s \in queue[i].signals}
WaitsOf(s) == {i \in DOMAIN queue : ~queue[i].started /\ s \in queue[i].waits}

(* Each signal of the relay in the queue but that of the last submission   *)
(* is waited for by the submission after, and each wait but that of the    *)
(* first is for one of them.                                               *)
LEMMA RelayPaired ==
  ASSUME FenceInv, RelayInv, NEW s \in Semaphores, s[1] = "relay"
  PROVE  LET A == {i \in SignalsOf(s) : queue[i].value # submitted}
             W == {i \in WaitsOf(s) : queue[i].value # finished + 1}
         IN  Cardinality(A) = Cardinality(W) /\ IsFiniteSet(A) /\ IsFiniteSet(W)
<1>1. DEFINE A == {i \in SignalsOf(s) : queue[i].value # submitted}
             W == {i \in WaitsOf(s) : queue[i].value # finished + 1}
             Follows(i, j) == queue[j].value = queue[i].value + 1
             f == [i \in A |-> CHOOSE j \in W : Follows(i, j)]
<1>2. finished \in Nat /\ submitted \in Nat /\ queue \in Seq(Batches)
  BY DEF FenceInv, VulkanType
<1>3. \A i \in DOMAIN queue :
         s \in queue[i].signals <=> queue[i].op = "submit" /\ s = RelayOf(queue[i].value)
  BY DEF RelayInv
<1>4. \A i \in DOMAIN queue :
         s \in queue[i].waits <=> /\ queue[i].op = "submit" /\ queue[i].value > 1
                                  /\ s = RelayOf(queue[i].value - 1)
  BY DEF RelayInv
<1>5. \A i \in DOMAIN queue :
         queue[i].op = "submit" /\ queue[i].started => queue[i].value = finished + 1
  BY DEF RelayInv
<1>6. /\ \A i \in DOMAIN queue : queue[i].op = "submit" =>
            queue[i].value \in (finished + 1)..submitted
      /\ \A i, j \in DOMAIN queue : queue[i].op = "submit" /\ queue[j].op = "submit" =>
            (queue[i].value = queue[j].value => i = j)
      /\ \A v \in (finished + 1)..submitted : \E i \in DOMAIN queue :
            queue[i].op = "submit" /\ queue[i].value = v
  BY InARow
<1>7. A \subseteq DOMAIN queue /\ W \subseteq DOMAIN queue
  BY DEF SignalsOf, WaitsOf
<1>8. \A i \in A : queue[i].op = "submit" /\ s = RelayOf(queue[i].value) /\ queue[i].value # submitted
  BY <1>3 DEF SignalsOf
<1>9. \A i \in W : /\ queue[i].op = "submit" /\ s = RelayOf(queue[i].value - 1)
                   /\ queue[i].value # finished + 1
  BY <1>4 DEF WaitsOf
<1>10. ASSUME NEW i \in A PROVE \E j \in W : Follows(i, j)
  <2>1. PICK v \in Nat : v = queue[i].value
    BY <1>2, <1>6, <1>7, <1>8
  <2>2. v \in (finished + 1)..submitted /\ v # submitted
    BY <1>6, <1>7, <1>8, <2>1
  <2>3. v + 1 \in (finished + 1)..submitted /\ v + 1 # finished + 1 /\ v + 1 > 1 /\ (v + 1) - 1 = v
    BY <1>2, <2>2
  <2>4. PICK j \in DOMAIN queue : queue[j].op = "submit" /\ queue[j].value = v + 1
    BY <1>6, <2>3
  <2>5. ~queue[j].started
    BY <1>5, <2>3, <2>4
  <2>6. s = RelayOf(queue[j].value - 1)
    <3>1. queue[j].value - 1 = v
      BY <2>3, <2>4
    <3>2. QED
      BY <1>8, <2>1, <3>1
  <2>7. s \in queue[j].waits
    BY <1>4, <2>3, <2>4, <2>6
  <2>8. j \in W
    BY <2>3, <2>4, <2>5, <2>7 DEF WaitsOf
  <2>9. QED
    BY <2>1, <2>4, <2>8
<1>11. ASSUME NEW j \in W PROVE \E i \in A : Follows(i, j)
  <2>1. PICK v \in Nat : v = queue[j].value
    BY <1>2, <1>6, <1>7, <1>9
  <2>2. v \in (finished + 1)..submitted /\ v # finished + 1
    BY <1>6, <1>7, <1>9, <2>1
  <2>3. PICK w \in Nat : w = v - 1
    BY <1>2, <2>2
  <2>4. w \in (finished + 1)..submitted /\ w # submitted /\ w + 1 = v
    BY <1>2, <2>2, <2>3
  <2>5. PICK i \in DOMAIN queue : queue[i].op = "submit" /\ queue[i].value = w
    BY <1>6, <2>4
  <2>6. s = RelayOf(w)
    <3>1. queue[j].value - 1 = w
      BY <2>1, <2>3
    <3>2. QED
      BY <1>9, <3>1
  <2>7. s \in queue[i].signals
    BY <1>3, <2>5, <2>6
  <2>8. i \in A
    BY <2>4, <2>5, <2>7 DEF SignalsOf
  <2>9. QED
    BY <2>1, <2>4, <2>5, <2>8
<1>12. ASSUME NEW i \in A, NEW k \in A, NEW j \in W, Follows(i, j), Follows(k, j)
       PROVE  i = k
  <2>1. queue[i].value \in Nat /\ queue[k].value \in Nat
    BY <1>2, <1>6, <1>7, <1>8
  <2>2. queue[i].value = queue[k].value
    BY <1>12, <2>1
  <2>3. QED
    BY <1>6, <1>7, <1>8, <2>2
<1>13. ASSUME NEW i \in A, NEW j \in W, NEW k \in W, Follows(i, j), Follows(i, k)
       PROVE  j = k
  <2>1. queue[j].value = queue[k].value
    BY <1>13
  <2>2. QED
    BY <1>6, <1>7, <1>9, <2>1
<1>14. HIDE DEF A, W, Follows
<1>15. \A i \in A : f[i] \in W /\ Follows(i, f[i])
  BY <1>10
<1>16. f \in [A -> W]
  BY <1>15
<1>17. \A i, k \in A : f[i] = f[k] => i = k
  BY <1>12, <1>15
<1>18. \A j \in W : \E i \in A : f[i] = j
  BY <1>11, <1>13, <1>15
<1>19. HIDE DEF f
<1>20. f \in Bijection(A, W)
  <2>1. f \in Injection(A, W)
    BY <1>16, <1>17, Zenon DEF Injection, IsInjective
  <2>2. f \in Surjection(A, W)
    BY <1>16, <1>18 DEF Surjection
  <2>3. QED
    BY <2>1, <2>2 DEF Bijection
<1>21. IsFiniteSet(A)
  <2>1. DOMAIN queue = 1..Len(queue) /\ Len(queue) \in Int /\ 1 \in Int
    BY <1>2
  <2>2. IsFiniteSet(DOMAIN queue)
    BY <2>1, FS_Interval
  <2>3. A \in SUBSET DOMAIN queue
    BY <1>7
  <2>4. QED
    BY <2>2, <2>3, FS_Subset
<1>22. ExistsBijection(A, W)
  BY <1>20 DEF ExistsBijection
<1>23. Cardinality(A) = Cardinality(W) /\ IsFiniteSet(A) /\ IsFiniteSet(W)
  BY <1>21, <1>22, FS_Bijection
<1>24. QED
  BY <1>23 DEF A, W

LEMMA RelayCounted ==
  ASSUME FenceInv, RelayInv, NEW s \in Semaphores, s[1] = "relay"
  PROVE  Signals(s) - Waits(s) \in {0, 1}
<1>1. DEFINE A == {i \in SignalsOf(s) : queue[i].value # submitted}
             W == {i \in WaitsOf(s) : queue[i].value # finished + 1}
             up == IF s \in signaled THEN 1 ELSE 0
<1>2. finished \in Nat /\ submitted \in Nat /\ finished <= submitted
  BY DEF FenceInv, VulkanType, Counted
<1>3. Cardinality(A) = Cardinality(W) /\ IsFiniteSet(A) /\ IsFiniteSet(W)
  BY RelayPaired
<1>4. /\ \A i \in SignalsOf(s) : /\ i \in DOMAIN queue /\ queue[i].op = "submit"
                                 /\ s = RelayOf(queue[i].value)
      /\ \A i \in WaitsOf(s) : /\ i \in DOMAIN queue /\ queue[i].op = "submit"
                               /\ queue[i].value > 1 /\ ~queue[i].started
                               /\ s = RelayOf(queue[i].value - 1)
  BY DEF RelayInv, SignalsOf, WaitsOf
<1>5. /\ \A i \in DOMAIN queue : queue[i].op = "submit" =>
            queue[i].value \in (finished + 1)..submitted
      /\ \A i, j \in DOMAIN queue : queue[i].op = "submit" /\ queue[j].op = "submit" =>
            (queue[i].value = queue[j].value => i = j)
      /\ \A v \in (finished + 1)..submitted : \E i \in DOMAIN queue :
            queue[i].op = "submit" /\ queue[i].value = v
  BY InARow
<1>6. Signals(s) = Cardinality(SignalsOf(s)) + up /\ Waits(s) = Cardinality(WaitsOf(s))
  BY DEF Signals, Waits, SignalsOf, WaitsOf
<1>7. up \in {0, 1}
  OBVIOUS
<1>8. s \in signaled <=>
              /\ finished > 0 /\ s = RelayOf(finished)
              /\ \A i \in DOMAIN queue :
                    queue[i].op = "submit" /\ queue[i].started => queue[i].value # finished + 1
  BY DEF RelayInv
<1>9. CASE finished = submitted
  <2>1. \A i \in DOMAIN queue : queue[i].op # "submit"
    BY <1>2, <1>5, <1>9
  <2>2. SignalsOf(s) = {} /\ WaitsOf(s) = {}
    BY <1>4, <2>1
  <2>3. QED
    BY <1>6, <1>7, <2>2, FS_EmptySet
<1>10. CASE finished < submitted
  <2>1. finished + 1 \in (finished + 1)..submitted /\ submitted \in (finished + 1)..submitted
    BY <1>2, <1>10
  <2>2. PICK top \in DOMAIN queue : queue[top].op = "submit" /\ queue[top].value = submitted
    BY <1>5, <2>1
  <2>3. PICK first \in DOMAIN queue :
           queue[first].op = "submit" /\ queue[first].value = finished + 1
    BY <1>5, <2>1
  <2>4. DEFINE a == s = RelayOf(submitted)
  <2>5. a <=> top \in SignalsOf(s)
    BY <2>2 DEF RelayInv, SignalsOf
  <2>6. \A i \in SignalsOf(s) : queue[i].value = submitted => i = top
    BY <1>4, <1>5, <2>2
  <2>7. SignalsOf(s) = (IF a THEN A \cup {top} ELSE A) /\ top \notin A /\ a \in BOOLEAN
    <3>1. a \in BOOLEAN
      OBVIOUS
    <3>2. HIDE DEF a
    <3>3. QED
      BY <2>2, <2>5, <2>6, <3>1
  <2>8. (s \in signaled) <=> first \in WaitsOf(s)
    <3>1. (\A i \in DOMAIN queue :
              queue[i].op = "submit" /\ queue[i].started => queue[i].value # finished + 1)
          <=> ~queue[first].started
      BY <1>5, <2>3
    <3>2. queue[first].value > 1 <=> finished > 0
      BY <1>2, <2>3
    <3>3. RelayOf(queue[first].value - 1) = RelayOf(finished)
      <4>1. queue[first].value - 1 = finished
        BY <1>2, <2>3
      <4>2. QED
        BY <4>1
    <3>4. s \in queue[first].waits <=> finished > 0 /\ s = RelayOf(finished)
      BY <2>3, <3>2, <3>3 DEF RelayInv
    <3>5. QED
      BY <1>8, <3>1, <3>4 DEF WaitsOf
  <2>9. \A i \in WaitsOf(s) : queue[i].value = finished + 1 => i = first
    BY <1>4, <1>5, <2>3
  <2>10. WaitsOf(s) = (IF s \in signaled THEN W \cup {first} ELSE W) /\ first \notin W
    BY <2>3, <2>8, <2>9
  <2>11. HIDE DEF A, W, a
  <2>12. /\ Cardinality(SignalsOf(s)) = Cardinality(A) + (IF a THEN 1 ELSE 0)
         /\ Cardinality(A) \in Nat
    BY <1>3, <2>7, OneAdded
  <2>13. Cardinality(WaitsOf(s)) = Cardinality(W) + up
    <3>1. (s \in signaled) \in BOOLEAN
      OBVIOUS
    <3>2. QED
      BY <1>3, <2>10, <3>1, OneAdded
  <2>14. HIDE DEF up
  <2>15. QED
    <3>1. (IF a THEN 1 ELSE 0) \in {0, 1}
      OBVIOUS
    <3>2. Signals(s) - Waits(s) = (IF a THEN 1 ELSE 0)
      BY <1>3, <1>6, <1>7, <2>12, <2>13, <3>1
    <3>3. QED
      BY <3>1, <3>2
<1>11. QED
  BY <1>2, <1>9, <1>10

LEMMA SwapCounted ==
  ASSUME SwapInv, NEW s \in Semaphores, s[1] # "relay"
  PROVE  Signals(s) - Waits(s) \in {0, 1}
<1>1. SwapOnce /\ SwapAnswered
  BY DEF SwapInv
<1>2. /\ \A i, j \in SignalsOf(s) : i = j
      /\ SignalsOf(s) # {} => s \notin signaled
      /\ \A i, j \in WaitsOf(s) : i = j
  BY <1>1 DEF SwapOnce, SignalsOf, WaitsOf
<1>3. WaitsOf(s) # {} => SignalsOf(s) # {} \/ s \in signaled
  BY <1>1 DEF SwapAnswered, SignalsOf, WaitsOf
<1>4. /\ Cardinality(SignalsOf(s)) = IF SignalsOf(s) = {} THEN 0 ELSE 1
      /\ Cardinality(WaitsOf(s)) = IF WaitsOf(s) = {} THEN 0 ELSE 1
  BY <1>2, AtMostOne
<1>5. /\ Signals(s) = Cardinality(SignalsOf(s)) + (IF s \in signaled THEN 1 ELSE 0)
      /\ Waits(s) = Cardinality(WaitsOf(s))
  BY DEF Signals, Waits, SignalsOf, WaitsOf
<1>6. QED
  BY <1>2, <1>3, <1>4, <1>5

(* The head of the queue has what it waits for.                            *)
LEMMA HeadGoes ==
  ASSUME FenceInv, RelayInv, SwapInv, queue # <<>>, ~queue[1].started
  PROVE  queue[1].waits \subseteq signaled
<1>1. /\ queue \in Seq(Batches) /\ finished \in Nat /\ submitted \in Nat /\ QueueInOrder
      /\ finished <= submitted
  BY DEF FenceInv, VulkanType, Counted
<1>2. 1 \in DOMAIN queue /\ \A i \in DOMAIN queue : i \in Nat /\ ~(i < 1)
  BY <1>1
<1>3. SwapOnce /\ SwapAnswered
  BY DEF SwapInv
<1>4. SUFFICES ASSUME NEW s \in queue[1].waits PROVE s \in signaled
  OBVIOUS
<1>5. s \in Semaphores
  BY <1>1, <1>2, BatchFields
<1>6. CASE s[1] # "relay"
  <2>1. \A i \in DOMAIN queue : s \notin queue[i].signals
    BY <1>2, <1>3, <1>4, <1>5, <1>6 DEF SwapOnce
  <2>2. QED
    BY <1>2, <1>3, <1>4, <1>5, <1>6, <2>1 DEF SwapAnswered
<1>7. CASE s[1] = "relay"
  <2>1. queue[1].op = "submit" /\ queue[1].value > 1 /\ s = RelayOf(queue[1].value - 1)
    BY <1>2, <1>5, <1>7 DEF RelayInv
  <2>2. /\ \A i \in DOMAIN queue : queue[i].op = "submit" =>
              queue[i].value \in (finished + 1)..submitted
        /\ \A i, j \in DOMAIN queue : queue[i].op = "submit" /\ queue[j].op = "submit" =>
              (queue[i].value = queue[j].value => i = j)
        /\ \A v \in (finished + 1)..submitted : \E i \in DOMAIN queue :
              queue[i].op = "submit" /\ queue[i].value = v
    BY InARow
  <2>3. queue[1].value \in (finished + 1)..submitted
    BY <1>2, <2>1, <2>2
  <2>4. PICK i \in DOMAIN queue : queue[i].op = "submit" /\ queue[i].value = finished + 1
    <3>1. finished + 1 \in (finished + 1)..submitted
      BY <1>1, <2>3
    <3>2. QED
      BY <2>2, <3>1
  <2>5. i = 1
    <3>1. 1 < i => queue[1].value < queue[i].value
      BY <1>1, <1>2, <2>1, <2>4 DEF QueueInOrder
    <3>2. ~(1 < i)
      BY <1>1, <2>3, <2>4, <3>1
    <3>3. QED
      BY <1>2, <3>2
  <2>6. \A j \in DOMAIN queue :
           queue[j].op = "submit" /\ queue[j].started => queue[j].value # finished + 1
    BY <2>2, <2>4, <2>5
  <2>7. finished > 0 /\ s = RelayOf(finished)
    <3>1. queue[1].value - 1 = finished
      BY <1>1, <2>4, <2>5
    <3>2. QED
      BY <1>1, <2>1, <2>4, <2>5, <3>1
  <2>8. QED
    BY <1>5, <1>7, <2>6, <2>7 DEF RelayInv
<1>8. QED
  BY <1>6, <1>7

(* The semaphores of the relay, which RelaySemaphores::advance turns over, *)
(* and those of the swapchain, which acquire, submit and present hand on,  *)
(* with the place of each image.                                           *)
THEOREM SemaphoresKept == VulkanSpec => [](FenceInv /\ SemaphoreInv)
<1>1. VulkanInit => FenceInv /\ SemaphoreInv
  BY FencesBegin, RelayBegins, SwapBegins DEF SemaphoreInv
<1>2. FenceInv /\ SemaphoreInv /\ [VulkanNext]_vulkanVars => (FenceInv /\ SemaphoreInv)'
  BY FencesStep, SemaphoresStep
<1>3. QED
  BY <1>1, <1>2, PTL DEF VulkanSpec

(* However many images, slots and submissions: unless an image was         *)
(* discarded or presented without being drawn to, or an acquisition waited *)
(* too short, the semaphores that the Vulkan backend hands to submissions, *)
(* acquisitions and presentations are each signaled once for each wait.    *)
THEOREM SemaphoresAlwaysRight == VulkanSpec => []SemaphoresRight
<1>1. ASSUME FenceInv, RelayInv, SwapInv PROVE SemaphoresRight
  <2>1. queue \in Seq(Batches) /\ signaled \subseteq Semaphores \cup VkFences /\ ~clash
    BY <1>1 DEF FenceInv, VulkanType, SwapInv
  <2>2. ASSUME NEW i \in DOMAIN queue, NEW j \in DOMAIN queue, queue[i].op = "submit",
               queue[j].op = "submit", queue[i].started, queue[j].started
        PROVE  i = j
    <3>1. queue[i].value = finished + 1 /\ queue[j].value = finished + 1
      BY <1>1, <2>2 DEF RelayInv
    <3>2. QED
      BY <1>1, <2>2, <3>1, InARow
  <2>3. ASSUME NEW s \in Used, s[1] # "fence" PROVE Signals(s) - Waits(s) \in {0, 1}
    <3>1. \A i \in DOMAIN queue :
             queue[i].waits \subseteq Semaphores /\ queue[i].signals \subseteq Semaphores
      BY <2>1, BatchFields
    <3>2. s \in Semaphores \cup VkFences
      BY <2>1, <3>1 DEF Used
    <3>3. s \in Semaphores
      BY <2>3, <3>2 DEF VkFences
    <3>4. QED
      BY <1>1, <3>3, RelayCounted, SwapCounted
  <2>4. ASSUME NEW i \in DOMAIN queue, NEW j \in DOMAIN queue, queue[j].op = "present",
               queue[j].started, i < j
        PROVE  queue[i].image # queue[j].image
    <3>1. SwapNamed /\ SwapOnce /\ SwapAnswered /\ SwapPlaced
      BY <1>1 DEF SwapInv
    <3>2. queue[i].op \in {"submit", "present"}
      BY <2>1, BatchFields
    <3>3. i # j
      BY <2>1, <2>4
    <3>4. CASE queue[i].op = "present"
      BY <2>4, <3>1, <3>3, <3>4 DEF SwapPlaced
    <3>5. CASE queue[i].op = "submit"
      <4>1. SUFFICES ASSUME queue[i].image = queue[j].image PROVE FALSE
        OBVIOUS
      <4>2. queue[j].image \in 1..Images
        BY <1>1, <2>4 DEF FenceInv, QueueInOrder
      <4>3. queue[i].image # 0
        BY <4>1, <4>2, VulkanAssumption
      <4>4. PICK s \in queue[i].signals : s[1] # "relay"
        BY <3>1, <3>5, <4>3 DEF SwapPlaced
      <4>5. s \in Semaphores
        BY <2>1, <4>4, BatchFields
      <4>6. s[1] = "present" /\ s[2] = queue[i].image
        BY <3>1, <4>4, <4>5 DEF SwapNamed
      <4>7. ~Owed(s)
        <5>1. ASSUME frame # None PROVE s[2] # frame.image
          BY <2>4, <3>1, <4>1, <4>6, <5>1 DEF SwapPlaced
        <5>2. QED
          BY <4>6, <5>1 DEF Owed, Acquire, PresentSem
      <4>8. PICK k \in DOMAIN queue : ~queue[k].started /\ s \in queue[k].waits
        BY <3>1, <4>4, <4>5, <4>7 DEF SwapAnswered
      <4>9. queue[k].op = "present" /\ queue[k].image = queue[j].image
        BY <3>1, <4>1, <4>4, <4>5, <4>6, <4>8 DEF SwapNamed
      <4>10. k = j
        BY <2>4, <3>1, <4>9 DEF SwapPlaced
      <4>11. QED
        BY <2>4, <4>8, <4>10
    <3>6. QED
      BY <3>2, <3>4, <3>5
  <2>5. queue # <<>> => queue[1].started \/ queue[1].waits \subseteq signaled
    BY <1>1, HeadGoes
  <2>6. QED
    BY <2>1, <2>2, <2>3, <2>4, <2>5 DEF SemaphoresRight
<1>2. FenceInv /\ SemaphoreInv => SemaphoresRight
  <2>1. mishap => SemaphoresRight
    BY DEF SemaphoresRight
  <2>2. QED
    BY <1>1, <2>1 DEF SemaphoreInv
<1>3. QED
  BY <1>2, SemaphoresKept, PTL
================================================================================
