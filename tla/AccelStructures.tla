----------------------------- MODULE AccelStructures -----------------------------
(***************************************************************************)
(* Ray tracing: the acceleration structures that submissions build and     *)
(* use, the indices by which a submission is validated, and the compaction *)
(* of bottom-level ones: the size is read back from the GPU when a         *)
(* preparation is polled, and a compacted copy is made with that size.     *)
(* A build is known by its index, and so are the size and the contents it  *)
(* gives.  A submission holds the command indices while it validates and   *)
(* until it is tracked, but no lock that keeps other threads from          *)
(* preparing or compacting in between.  The compacted copy itself, which   *)
(* may be neither rebuilt nor compacted, is not followed further.          *)
(***************************************************************************)
EXTENDS Integers, Sequences, FiniteSets

CONSTANTS
    Blas, Tlas,
    AsBatch,       \* the command buffers to submit: sequences of AsAction
    MaxAsSubmits,  \* bound on the submissions
    MaxCompacts    \* bound on the preparations and on the compactions

(* An action builds some structures, the top-level ones from a set of      *)
(* bottom-level ones, or uses a top-level one.                             *)
AsAction == [op : {"build"}, blas : SUBSET Blas, tlas : SUBSET Tlas, deps : SUBSET Blas]
            \cup [op : {"use"}, tlas : Tlas]
ASSUME AccelAssumption ==
    /\ AsBatch \subseteq Seq(AsAction)
    /\ MaxAsSubmits \in Nat /\ MaxCompacts \in Nat

VARIABLES
    compactState,    \* Blas::compacted_state: [st, size]
    blasBuilt,       \* Blas::built_index, 0 for None
    tlasBuilt,       \* Tlas::built_index and ::dependencies: [index, deps]
    nextBuild,       \* next_acceleration_structure_build_command_index
    submitting,      \* the command buffer that was validated, not yet tracked
    copying,         \* compact_blas has read the size: [blas, size]
    pendingCopies,   \* the copies recorded in the pending writes
    inFlight,        \* LifetimeTracker::active: [index, uses, readBack]
    readyToCompact,  \* LifetimeTracker::ready_to_compact
    asSubmitted,     \* the last submission
    asDone,          \* external: the last submission the GPU has ended
    stream,          \* what was submitted, in the order the GPU runs it
    compacts,        \* preparations and compactions so far
    gap,             \* the code was led where it does not hold: see Gaps
    asPanic

asVars == <<compactState, blasBuilt, tlasBuilt, nextBuild, submitting, copying,
            pendingCopies, inFlight, readyToCompact, asSubmitted, asDone, stream,
            compacts, gap, asPanic>>

IdleState == [st |-> "idle", size |-> 0]
Nothing == <<>>

AccelInit ==
    /\ compactState = [b \in Blas |-> IdleState]
    /\ blasBuilt = [b \in Blas |-> 0]
    /\ tlasBuilt = [t \in Tlas |-> [index |-> 0, deps |-> {}]]
    /\ nextBuild = 1
    /\ submitting = Nothing /\ copying = Nothing /\ pendingCopies = <<>>
    /\ inFlight = <<>> /\ readyToCompact = <<>>
    /\ asSubmitted = 0 /\ asDone = 0 /\ stream = <<>>
    /\ compacts = 0 /\ gap = FALSE /\ asPanic = FALSE

(* validate_acceleration_structure_actions: each action in order updates   *)
(* the states and indices, until one is refused.  v is what it works on.   *)
Restarted_Kept(v, bs) == v.compact               \* wrong: still ready, or waiting
Restarted(v, bs) == [b \in Blas |-> IF b \in bs THEN IdleState ELSE v.compact[b]]
Refused_Older(v, a) ==                           \* wrong: no look at which is newer
    v.tlas[a.tlas].index = 0 \/ \E b \in v.tlas[a.tlas].deps : v.blas[b] = 0
Refused(v, a) ==
    \/ v.tlas[a.tlas].index = 0
    \/ \E b \in v.tlas[a.tlas].deps : v.blas[b] = 0 \/ v.blas[b] > v.tlas[a.tlas].index

ValidatedBuild(v, a) ==
    LET built == [b \in Blas |-> IF b \in a.blas THEN v.next ELSE v.blas[b]]
        bad == a.tlas # {} /\ \E b \in a.deps : built[b] = 0
    IN  [v EXCEPT
           !.compact = Restarted(v, a.blas),
           !.blas = built,
           !.tlas = [t \in Tlas |-> IF t \in a.tlas /\ ~bad
                                      THEN [index |-> v.next, deps |-> a.deps] ELSE @[t]],
           !.next = @ + 1,
           !.ok = ~bad,
           !.ran = Append(@, [op |-> "build", blas |-> a.blas, tlas |-> a.tlas,
                              deps |-> a.deps, index |-> v.next])]
ValidatedUse(v, a) ==
    [v EXCEPT !.ok = ~Refused(v, a),
              !.ran = Append(@, [op |-> "use", tlas |-> {a.tlas},
                                 deps |-> v.tlas[a.tlas].deps])]

Validated(batch) ==
    LET start == [compact |-> compactState, blas |-> blasBuilt, tlas |-> tlasBuilt,
                  next |-> nextBuild, ok |-> TRUE, ran |-> <<>>]
        upto[i \in 0..Len(batch)] ==
            IF i = 0 THEN start
            ELSE IF ~upto[i - 1].ok THEN upto[i - 1]
            ELSE IF batch[i].op = "build" THEN ValidatedBuild(upto[i - 1], batch[i])
            ELSE ValidatedUse(upto[i - 1], batch[i])
    IN  upto[Len(batch)]

(* Gaps: (1) a submission that is refused, here or later, keeps what its   *)
(* earlier actions changed; (2) a preparation or a compaction falls within *)
(* a submission that builds its structure; (3) a structure is prepared     *)
(* again while the preparation that a build cancelled is still listed.     *)
Listed(b) ==
    \/ \E i \in DOMAIN readyToCompact : readyToCompact[i] = b
    \/ \E i \in DOMAIN inFlight : \E k \in DOMAIN inFlight[i].readBack : inFlight[i].readBack[k] = b
Building(b) ==
    submitting # Nothing
    /\ \E i \in DOMAIN submitting : submitting[i].op = "build" /\ b \in submitting[i].blas

SubmitValidate(batch, fails) ==
    LET v == Validated(batch) IN
    /\ submitting = Nothing /\ asSubmitted < MaxAsSubmits
    /\ fails => v.ok            \* another command buffer of the batch is invalid
    /\ compactState' = v.compact /\ blasBuilt' = v.blas /\ tlasBuilt' = v.tlas
    /\ nextBuild' = v.next
    /\ submitting' = IF v.ok /\ ~fails THEN v.ran ELSE Nothing
    /\ gap' = (gap \/ ((~v.ok \/ fails) /\ v.next # nextBuild)
                   \/ (copying # Nothing /\ \E i \in DOMAIN v.ran :
                          v.ran[i].op = "build" /\ copying.blas \in v.ran[i].blas))
    /\ UNCHANGED <<copying, pendingCopies, inFlight, readyToCompact, asSubmitted, asDone,
                   stream, compacts, asPanic>>

(* The pending writes go first, and what they copy is in use like what the *)
(* command buffer builds and uses.                                         *)
SubmitTrack ==
    /\ submitting # Nothing
    /\ asSubmitted' = asSubmitted + 1
    /\ stream' = stream \o [i \in 1..(Len(pendingCopies) + Len(submitting)) |->
           [sub |-> asSubmitted',
            act |-> IF i <= Len(pendingCopies) THEN pendingCopies[i]
                    ELSE submitting[i - Len(pendingCopies)]]]
    /\ inFlight' = Append(inFlight,
           [index |-> asSubmitted', readBack |-> <<>>,
            uses |-> (UNION {submitting[i].deps : i \in DOMAIN submitting})
                     \cup (UNION {submitting[i].blas :
                                   i \in {j \in DOMAIN submitting : submitting[j].op = "build"}})
                     \cup {pendingCopies[i].blas : i \in DOMAIN pendingCopies}])
    /\ pendingCopies' = <<>> /\ submitting' = Nothing
    /\ UNCHANGED <<compactState, blasBuilt, tlasBuilt, nextBuild, copying, readyToCompact,
                   asDone, compacts, gap, asPanic>>

(* Blas::prepare_compact_async, which lists the structure with the last    *)
(* submission in flight that uses it, or as ready.                         *)
Preparable_Twice(st) == st \in {"idle", "waiting"}   \* wrong: already preparing
Preparable(st) == st = "idle"
LastUse(b) == {i \in DOMAIN inFlight : /\ b \in inFlight[i].uses
                  /\ \A j \in (i + 1)..Len(inFlight) : b \notin inFlight[j].uses}

PrepareCompact(b) ==
    /\ compacts < MaxCompacts /\ compacts' = compacts + 1
    /\ blasBuilt[b] # 0 /\ Preparable(compactState[b].st)
    /\ compactState' = [compactState EXCEPT ![b] = [st |-> "waiting", size |-> 0]]
    /\ inFlight' = [i \in DOMAIN inFlight |->
           IF i \in LastUse(b) THEN [inFlight[i] EXCEPT !.readBack = Append(@, b)]
           ELSE inFlight[i]]
    /\ readyToCompact' = IF LastUse(b) = {} THEN Append(readyToCompact, b)
                         ELSE readyToCompact
    /\ gap' = (gap \/ Building(b) \/ (compactState[b].st = "idle" /\ Listed(b)))
    /\ UNCHANGED <<blasBuilt, tlasBuilt, nextBuild, submitting, copying, pendingCopies,
                   asSubmitted, asDone, stream, asPanic>>

GpuEnds ==
    /\ asDone < asSubmitted /\ asDone' = asDone + 1
    /\ UNCHANGED <<compactState, blasBuilt, tlasBuilt, nextBuild, submitting, copying,
                   pendingCopies, inFlight, readyToCompact, asSubmitted, stream, compacts,
                   gap, asPanic>>

(* external: the size in the compaction buffer, by the build it is of      *)
Builds(b, n) == {i \in 1..n : stream[i].act.op = "build" /\ b \in stream[i].act.blas}
LastOf(S) == CHOOSE i \in S : \A j \in S : i >= j
SizeWritten(b) ==
    LET S == {i \in Builds(b, Len(stream)) : stream[i].sub <= asDone}
    IN  IF S = {} THEN 0 ELSE stream[LastOf(S)].act.index

(* triage_submissions and handle_compact_read_back, under the tracker's    *)
(* lock: a preparation that is still waiting reads its size, unless it     *)
(* cannot be mapped; one that a build cancelled is dropped.                *)
DoneCount ==
    LET later == {i \in DOMAIN inFlight : inFlight[i].index > asDone}
    IN  IF later = {} THEN Len(inFlight)
        ELSE (CHOOSE i \in later : \A j \in later : i <= j) - 1
ReadBack ==
    LET upto[i \in 0..DoneCount] ==
            IF i = 0 THEN readyToCompact ELSE upto[i - 1] \o inFlight[i].readBack
    IN  upto[DoneCount]
Times(b) == Cardinality({i \in DOMAIN ReadBack : ReadBack[i] = b})

AsPoll(maps) ==
    /\ DoneCount > 0 \/ readyToCompact # <<>>
    /\ inFlight' = SubSeq(inFlight, DoneCount + 1, Len(inFlight))
    /\ readyToCompact' = <<>>
    /\ asPanic' = (asPanic \/ \E b \in Blas :
          \/ Times(b) > 0 /\ compactState[b].st = "ready"
          \/ Times(b) > 1 /\ compactState[b].st = "waiting" /\ maps)
    /\ compactState' = [b \in Blas |->
          IF Times(b) = 0 \/ compactState[b].st # "waiting" THEN compactState[b]
          ELSE IF maps THEN [st |-> "ready", size |-> SizeWritten(b)]
          ELSE IdleState]
    /\ UNCHANGED <<blasBuilt, tlasBuilt, nextBuild, submitting, copying, pendingCopies,
                   asSubmitted, asDone, stream, compacts, gap>>

(* Queue::compact_blas: the size is read before the pending writes are     *)
(* locked, and the copy takes an index of its own.                         *)
CompactRead(b) ==
    /\ copying = Nothing /\ compacts < MaxCompacts /\ compacts' = compacts + 1
    /\ compactState[b].st = "ready"
    /\ copying' = [op |-> "copy", blas |-> b, size |-> compactState[b].size]
    /\ gap' = (gap \/ Building(b))
    /\ UNCHANGED <<compactState, blasBuilt, tlasBuilt, nextBuild, submitting, pendingCopies,
                   inFlight, readyToCompact, asSubmitted, asDone, stream, asPanic>>

CompactRecord ==
    /\ copying # Nothing
    /\ pendingCopies' = Append(pendingCopies, copying)
    /\ nextBuild' = nextBuild + 1
    /\ copying' = Nothing
    /\ UNCHANGED <<compactState, blasBuilt, tlasBuilt, submitting, inFlight, readyToCompact,
                   asSubmitted, asDone, stream, compacts, gap, asPanic>>

(* What follows a gap is not explored.                                     *)
AccelNext ==
    /\ ~gap
    /\ \/ \E batch \in AsBatch, fails \in BOOLEAN : SubmitValidate(batch, fails)
       \/ SubmitTrack \/ GpuEnds \/ CompactRecord
       \/ \E b \in Blas : PrepareCompact(b) \/ CompactRead(b)
       \/ \E maps \in BOOLEAN : AsPoll(maps)

AccelSpec == AccelInit /\ [][AccelNext]_asVars

--------------------------------------------------------------------------------

(* Outside the gaps, a size is that of the structure it is used for: a     *)
(* structure that is ready has the size of its last build, which has ended,*)
(* and every copy the GPU makes has the size of the build it copies,       *)
(* however rebuilds, preparations and polls interleave.                    *)
CompactSizeRight ==
    gap \/
    /\ \A b \in Blas : compactState[b].st = "ready" =>
          compactState[b].size = blasBuilt[b] /\ SizeWritten(b) = blasBuilt[b]
    /\ \A n \in DOMAIN stream : stream[n].act.op = "copy" =>
          LET S == Builds(stream[n].act.blas, n) IN
          S # {} /\ stream[LastOf(S)].act.index = stream[n].act.size

(* Outside the gaps, the GPU uses a top-level structure only after it was  *)
(* built, from bottom-level ones that were built before and not since.     *)
TlasCurrent ==
    gap \/ \A n \in DOMAIN stream : stream[n].act.op = "use" =>
        \A t \in stream[n].act.tlas :
            LET S == {i \in 1..n : stream[i].act.op = "build" /\ t \in stream[i].act.tlas}
            IN  /\ S # {}
                /\ \A b \in stream[LastOf(S)].act.deps :
                      /\ Builds(b, n) # {}
                      /\ LastOf(Builds(b, n)) <= LastOf(S)

(* Outside the gaps, reading back never meets a structure that it does not *)
(* expect ("This should be validated out by `prepare_for_compaction`"),    *)
(* and a waiting preparation is on one list, with a submission in flight   *)
(* that is not older than the structure's last build, or ready: a poll     *)
(* after the GPU has ended answers its callback.                           *)
PrepareAnswered ==
    gap \/
    /\ ~asPanic
    /\ \A b \in Blas : compactState[b].st = "waiting" =>
          LET InReady == {i \in DOMAIN readyToCompact : readyToCompact[i] = b}
              InLists == UNION {{<<i, k>> : k \in {m \in DOMAIN inFlight[i].readBack :
                                     inFlight[i].readBack[m] = b}} : i \in DOMAIN inFlight}
          IN  /\ Cardinality(InReady) + Cardinality(InLists) = 1
              /\ InReady # {} => SizeWritten(b) = blasBuilt[b]
================================================================================
