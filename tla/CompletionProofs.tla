---------------------------- MODULE CompletionProofs ----------------------------
(***************************************************************************)
(* WorkDoneKept, WorkDoneAfterGpu and LostWhenIdle hold of DeviceQueue,    *)
(* for any number of threads and buffers and whatever the driver does.     *)
(***************************************************************************)
EXTENDS DeviceQueueProofs

(* s has w somewhere; s has nothing twice. *)
Within(s, w) == \E i \in DOMAIN s : s[i] = w
Once(s) == \A i, j \in DOMAIN s : s[i] = s[j] => i = j

(* Nothing is in the empty list. *)
LEMMA EmptyList == Once(<<>>) /\ \A w : ~Within(<<>>, w)
BY DEF Once, Within

(* What a list gains at its end. *)
LEMMA AppendList ==
  ASSUME NEW S, NEW s \in Seq(S), NEW x \in S
  PROVE  /\ \A w : Within(Append(s, x), w) <=> Within(s, w) \/ w = x
         /\ Once(s) /\ ~Within(s, x) => Once(Append(s, x))
<1>. DEFINE r == Append(s, x)
<1>1. /\ DOMAIN r = DOMAIN s \cup {Len(s) + 1} /\ r[Len(s) + 1] = x
      /\ \A i \in DOMAIN s : r[i] = s[i]
  OBVIOUS
<1>. HIDE DEF r
<1>2. \A w : Within(r, w) <=> Within(s, w) \/ w = x
  BY <1>1 DEF Within
<1>3. Once(s) /\ ~Within(s, x) => Once(r)
  BY <1>1 DEF Once, Within
<1>4. QED
  BY <1>2, <1>3 DEF r

(* What a list gains from another. *)
LEMMA JoinList ==
  ASSUME NEW S, NEW s \in Seq(S), NEW r \in Seq(S)
  PROVE  /\ \A w : Within(s \o r, w) <=> Within(s, w) \/ Within(r, w)
         /\ Once(s) /\ Once(r) /\ (\A w \in S : ~(Within(s, w) /\ Within(r, w))) => Once(s \o r)
<1>. DEFINE q == s \o r
<1>1. /\ Len(s) \in Nat /\ Len(r) \in Nat
      /\ DOMAIN s = 1..Len(s) /\ DOMAIN r = 1..Len(r) /\ DOMAIN q = 1..(Len(s) + Len(r))
      /\ \A i \in DOMAIN q : q[i] = IF i <= Len(s) THEN s[i] ELSE r[i - Len(s)]
  OBVIOUS
<1>. HIDE DEF q
<1>2. /\ \A i \in DOMAIN s : i \in DOMAIN q /\ q[i] = s[i]
      /\ \A i \in DOMAIN r : Len(s) + i \in DOMAIN q /\ q[Len(s) + i] = r[i]
      /\ \A i \in DOMAIN q : \/ i \in DOMAIN s /\ q[i] = s[i]
                             \/ i - Len(s) \in DOMAIN r /\ q[i] = r[i - Len(s)]
  BY <1>1
<1>3. \A w : Within(q, w) <=> Within(s, w) \/ Within(r, w)
  BY <1>2 DEF Within
<1>4. ASSUME Once(s), Once(r), \A w \in S : ~(Within(s, w) /\ Within(r, w)) PROVE Once(q)
  <2>1. SUFFICES ASSUME NEW i \in DOMAIN q, NEW j \in DOMAIN q, q[i] = q[j] PROVE i = j
    BY DEF Once
  <2>2. i \in Int /\ j \in Int
    BY <1>1
  <2>3. CASE i \in DOMAIN s /\ j \in DOMAIN s
    BY <1>2, <1>4, <2>1, <2>3 DEF Once
  <2>4. CASE i \notin DOMAIN s /\ j \notin DOMAIN s
    <3>1. i - Len(s) = j - Len(s)
      BY <1>2, <1>4, <2>1, <2>4 DEF Once
    <3>2. QED
      BY <1>1, <2>2, <3>1
  <2>5. ASSUME NEW k \in DOMAIN q, NEW l \in DOMAIN q, k \in DOMAIN s, l \notin DOMAIN s, q[k] = q[l]
        PROVE  FALSE
    <3>1. q[k] = s[k] /\ s[k] \in S /\ l - Len(s) \in DOMAIN r /\ q[l] = r[l - Len(s)]
      BY <1>2, <2>5
    <3>2. QED
      BY <1>4, <2>5, <3>1 DEF Within
  <2>6. QED
    BY <2>1, <2>3, <2>4, <2>5
<1>5. QED
  BY <1>3, <1>4 DEF q

(* What a list loses at its front. *)
LEMMA TailList ==
  ASSUME NEW S, NEW s \in Seq(S), s # <<>>
  PROVE  /\ Head(s) \in S /\ Tail(s) \in Seq(S)
         /\ \A w : Within(s, w) <=> w = Head(s) \/ Within(Tail(s), w)
         /\ Once(s) => Once(Tail(s)) /\ ~Within(Tail(s), Head(s))
<1>. DEFINE r == Tail(s)
<1>1. /\ Head(s) \in S /\ r \in Seq(S) /\ Head(s) = s[1] /\ 1 \in DOMAIN s
      /\ Len(s) \in Nat /\ DOMAIN s = 1..Len(s) /\ DOMAIN r = 1..(Len(s) - 1)
      /\ \A i \in DOMAIN r : r[i] = s[i + 1]
  OBVIOUS
<1>. HIDE DEF r
<1>2. /\ \A i \in DOMAIN r : i + 1 \in DOMAIN s /\ i + 1 # 1 /\ r[i] = s[i + 1]
      /\ \A i \in DOMAIN s : i # 1 => i - 1 \in DOMAIN r /\ r[i - 1] = s[i]
      /\ \A i, j \in DOMAIN r : i + 1 = j + 1 => i = j
  BY <1>1
<1>3. \A w : Within(s, w) <=> w = Head(s) \/ Within(r, w)
  BY <1>1, <1>2 DEF Within
<1>4. Once(s) => Once(r) /\ ~Within(r, Head(s))
  BY <1>1, <1>2 DEF Once, Within
<1>5. QED
  BY <1>1, <1>3, <1>4 DEF r

-----------------------------------------------------------------------------
(* Where a thread may carry the closures that triage gave it: from triage  *)
(* until they are fired, and while it releases the device's resources in   *)
(* between, with the trackers locked.                                      *)
Carrying ==
    {"triage", "mapReady", "mapSet", "mapRestore", "maintainResult", "panicked",
     "releaseLock", "releaseNext", "fire"}
Releasing == {"destroySnatch", "destroyPending", "destroyLife"}

CarryInv ==
    \A t \in Thread :
      /\ \/ loc[t].works = <<>>
         \/ pc[t] \in Carrying
         \/ pc[t] \in Releasing /\ trackersL = t
      /\ pc[t] = "releaseNext" => trackersL = t

(* The places a work-done closure can be. *)
Deferred(w) == Within(deferred, w)
With(i, w) == Within(active[i].closures, w)
Carried(t, w) == Within(loc[t].works, w)
Held(w) ==
    \/ Deferred(w)
    \/ \E i \in DOMAIN active : With(i, w)
    \/ \E t \in Thread : Carried(t, w)

(* A closure is in no place twice, and in no two places. *)
ApartInv ==
    /\ Once(deferred)
    /\ \A i \in DOMAIN active : Once(active[i].closures)
    /\ \A t \in Thread : Once(loc[t].works)
    /\ \A i \in DOMAIN active, w \in WorkDone : With(i, w) =>
          /\ ~Deferred(w)
          /\ \A j \in DOMAIN active : With(j, w) => i = j
          /\ \A t \in Thread : ~Carried(t, w)
    /\ \A t \in Thread, w \in WorkDone : Carried(t, w) =>
          /\ ~Deferred(w)
          /\ \A u \in Thread : Carried(u, w) => t = u

(* It is in one until it is fired, once it is registered. *)
FiredInv ==
    /\ hist.works <= MaxWork
    /\ \A w \in WorkDone :
          hist.workFired[w] = IF w <= hist.works /\ ~Held(w) THEN 1 ELSE 0
    /\ \A w \in WorkDone : Held(w) => w <= hist.works

(* The submissions it waits for are tracked where it is, and done when it  *)
(* is with nobody's.                                                       *)
AgeInv ==
    /\ IF active = <<>> THEN hist.tracked <= gpuDone
       ELSE hist.tracked = active[Len(active)].index
    /\ \A w \in WorkDone :
          /\ Deferred(w) => hist.workIndex[w] <= gpuDone
          /\ \A i \in DOMAIN active : With(i, w) => hist.workIndex[w] <= active[i].index
          /\ \A t \in Thread : Carried(t, w) => hist.workIndex[w] <= gpuDone
          /\ hist.workFired[w] > 0 => hist.workIndex[w] <= gpuDone

ClosureInv == CarryInv /\ ApartInv /\ FiredInv /\ AgeInv

-----------------------------------------------------------------------------
(* Who reads the fence, and so keeps submissions away. *)
FenceReaders ==
    {"maintain", "maintainWait", "maintainFence", "maintainLock", "triage",
     "mapReady", "mapSet", "mapRestore", "maintainResult"}

FenceInv ==
    /\ fenceW = NoThread \/ fenceR = {}
    /\ \A t \in Thread : pc[t] \in FenceReaders => t \in fenceR

(* Nothing is in flight, and nothing can be submitted. *)
Quiescent == gpu = <<>> /\ active = <<>>

(* What maintain found of the queue still holds when it acts on it. *)
EmptyInv ==
    \A t \in Thread : pc[t] = "maintainResult" /\ loc[t].empty => Quiescent

(* Whoever has the device-lost closure to fire has it alone; and, but for  *)
(* the driver's errors, only when the device has come to its end.          *)
LostInv ==
    /\ lostClosure => hist.lostFired = 0 /\ \A t \in Thread : ~loc[t].lost
    /\ \A t \in Thread : loc[t].lost =>
          hist.lostFired = 0 /\ \A u \in Thread : loc[u].lost => u = t
    /\ hist.lostFired <= 1
    /\ hist.halFailed \/ ~(hist.lostFired = 1 \/ \E t \in Thread : loc[t].lost)
       \/ (~valid /\ Quiescent /\ \A t \in Thread : pc[t] \notin Submitting)

EndInv == FenceInv /\ EmptyInv /\ LostInv

-----------------------------------------------------------------------------
(* The same submissions, which have the same closures. *)
SameClosures(a, b) == SameSubmissions(a, b) /\ \A i \in DOMAIN a : b[i].closures = a[i].closures

(* A step of t that neither registers, nor moves, nor fires a work-done    *)
(* closure.                                                                *)
Calm(t) ==
    /\ Others(t)
    /\ loc'[t].works = loc[t].works
    /\ \/ loc'[t].works = <<>>
       \/ pc'[t] \in Carrying
       \/ pc'[t] \in Releasing /\ trackersL' = t
    /\ pc'[t] = "releaseNext" => trackersL' = t
    /\ \A u \in Thread : u # t /\ trackersL = u => trackersL' = u
    /\ SameClosures(active, active')
    /\ UNCHANGED <<deferred, gpuDone>>
    /\ hist'.works = hist.works /\ hist'.tracked = hist.tracked
    /\ hist'.workIndex = hist.workIndex /\ hist'.workFired = hist.workFired

LEMMA CalmKeeps ==
  ASSUME ClosureInv, active \in Seq(Entries(WorkDone)), active' \in Seq(Entries(WorkDone)),
         NEW t \in Thread, Calm(t)
  PROVE  ClosureInv'
<1>1. /\ \A u \in Thread : loc'[u].works = loc[u].works
      /\ \A u \in Thread : u # t => pc'[u] = pc[u] /\ (trackersL = u => trackersL' = u)
      /\ DOMAIN active' = DOMAIN active
      /\ \A i \in DOMAIN active :
            active'[i].closures = active[i].closures /\ active'[i].index = active[i].index
      /\ UNCHANGED <<deferred, gpuDone>>
      /\ hist'.works = hist.works /\ hist'.tracked = hist.tracked
      /\ hist'.workIndex = hist.workIndex /\ hist'.workFired = hist.workFired
  BY DEF Calm, Others, SameClosures, SameSubmissions
<1>2. Len(active') = Len(active) /\ (active' = <<>> <=> active = <<>>)
      /\ (active # <<>> => Len(active) \in DOMAIN active)
  BY <1>1
<1>3. CarryInv'
  BY <1>1 DEF ClosureInv, CarryInv, Calm
<1>4. ASSUME NEW w
      PROVE /\ Deferred(w)' <=> Deferred(w)
            /\ \A u \in Thread : Carried(u, w)' <=> Carried(u, w)
            /\ \A i \in DOMAIN active : With(i, w)' <=> With(i, w)
  BY <1>1 DEF Deferred, Carried, With
<1>5. \A w : Held(w)' <=> Held(w)
  BY <1>1, <1>4 DEF Held
<1>6. ApartInv'
  BY <1>1, <1>4 DEF ClosureInv, ApartInv
<1>7. FiredInv'
  BY <1>1, <1>5 DEF ClosureInv, FiredInv
<1>8. AgeInv'
  BY <1>1, <1>2, <1>4 DEF ClosureInv, AgeInv
<1>9. QED
  BY <1>3, <1>6, <1>7, <1>8 DEF ClosureInv

(* The device-lost closure is left where it is, or run by an error of the  *)
(* driver.                                                                 *)
Unreported ==
    /\ lostClosure' = lostClosure /\ hist'.lostFired = hist.lostFired
    /\ hist.halFailed => hist'.halFailed
Failed ==
    /\ lostClosure' = FALSE /\ hist'.halFailed
    /\ hist'.lostFired = hist.lostFired + (IF lostClosure THEN 1 ELSE 0)

(* A step of t that neither finds the device at its end nor reports it but *)
(* for a driver's error, and begins no submission on an invalid device.    *)
Still(t) ==
    /\ Others(t)
    /\ loc'[t].lost => loc[t].lost
    /\ pc'[t] \in FenceReaders => t \in fenceR'
    /\ fenceR \ {t} \subseteq fenceR'
    /\ fenceW' = NoThread \/ fenceR' = {}
    /\ pc'[t] \in Submitting => pc[t] \in Submitting \/ valid
    /\ pc'[t] = "maintainResult" /\ loc'[t].empty => Quiescent
    /\ Quiescent => Quiescent'
    /\ valid' => valid
    /\ Unreported \/ Failed

LEMMA StillKeeps ==
  ASSUME EndInv, hist.lostFired \in Nat, lostClosure \in BOOLEAN, NEW t \in Thread, Still(t)
  PROVE  EndInv'
<1>1. \A u \in Thread : u # t => pc'[u] = pc[u] /\ loc'[u] = loc[u]
  BY DEF Still, Others
<1>2. FenceInv'
  BY <1>1 DEF EndInv, FenceInv, Still
<1>3. EmptyInv'
  BY <1>1 DEF EndInv, EmptyInv, Still
<1>4. \A u \in Thread : (loc'[u].lost => loc[u].lost)
                        /\ (pc'[u] \in Submitting => pc[u] \in Submitting \/ valid)
  BY <1>1 DEF Still
<1>5. LostInv'
  <2>1. CASE Unreported
    BY <1>4, <2>1 DEF EndInv, LostInv, Still, Unreported
  <2>2. CASE Failed
    <3>1. CASE lostClosure
      BY <1>4, <2>2, <3>1 DEF EndInv, LostInv, Failed
    <3>2. CASE ~lostClosure
      BY <1>4, <2>2, <3>2 DEF EndInv, LostInv, Failed
    <3>3. QED
      BY <3>1, <3>2
  <2>3. QED
    BY <2>1, <2>2 DEF Still
<1>6. QED
  BY <1>2, <1>3, <1>5 DEF EndInv

-----------------------------------------------------------------------------
(* What attaching a map request or a destroyed handle leaves alone.        *)
LEMMA AttachedCloses ==
  ASSUME NEW W, NEW list \in Seq(Entries(W)), NEW b
  PROVE  /\ SameClosures(list, list)
         /\ SameClosures(list, MapWithSubmission(list, b))
         /\ SameClosures(list, ScheduleResourceDestruction(list, b))
<1>1. SameClosures(list, list)
  BY DEF SameClosures, SameSubmissions
<1>2. \A i \in DOMAIN list : MapWithSubmission(list, b)[i].closures = list[i].closures
  BY DEF MapWithSubmission, Entries
<1>3. \A i \in DOMAIN list : ScheduleResourceDestruction(list, b)[i].closures = list[i].closures
  BY DEF ScheduleResourceDestruction, Entries
<1>4. QED
  BY <1>1, <1>2, <1>3, Attached DEF SameClosures

(* What the history keeps of the work-done closures.                       *)
SameWork ==
    /\ hist'.works = hist.works /\ hist'.tracked = hist.tracked
    /\ hist'.workIndex = hist.workIndex /\ hist'.workFired = hist.workFired

(* A thread that moves with the closures it has, to where it may.          *)
LEMMA MoveCloses ==
  ASSUME TypeInv, TypeInv', ClosureInv, NEW t \in Thread, NEW w, NEW l, Go(t, w, l),
         l.works = loc[t].works,
         l.works = <<>> \/ w \in Carrying \/ (w \in Releasing /\ trackersL' = t),
         w = "releaseNext" => trackersL' = t,
         trackersL' = trackersL \/ trackersL \in {NoThread, t},
         SameClosures(active, active'), UNCHANGED <<deferred, gpuDone>>, SameWork
  PROVE  ClosureInv'
<1>1. active \in Seq(Entries(WorkDone)) /\ active' \in Seq(Entries(WorkDone)) /\ ThreadInv
  BY DEF TypeInv, LifeTypeOK, Submission
<1>2. Others(t) /\ pc'[t] = w /\ loc'[t] = l
  BY <1>1, GoAt
<1>3. Calm(t)
  BY <1>2, ThreadAssumption DEF Calm, SameWork
<1>4. QED
  BY <1>1, <1>3, CalmKeeps

(* No call but that of on_submitted_work_done has to do with its closures. *)
LEMMA CallCloses ==
  ASSUME TypeInv, TypeInv', ClosureInv, NEW t \in Thread, Call(t), ~CallWorkDone(t)
  PROVE  ClosureInv'
<1>1. /\ active \in Seq(Entries(WorkDone)) /\ hist \in HistoryType
      /\ SameClosures(active, active)
      /\ pc[t] = "idle" => loc[t].works = <<>>
  BY AttachedCloses DEF TypeInv, LifeTypeOK, Submission, ClosureInv, CarryInv, Carrying, Releasing
<1>2. ASSUME NEW l, NEW w, Go(t, w, l), pc[t] = "idle", l.works = <<>>, w # "releaseNext",
             UNCHANGED <<active, deferred, gpuDone, trackersL>>, SameWork
      PROVE ClosureInv'
  <2>1. SameClosures(active, active')
    BY <1>1, <1>2
  <2>2. l.works = loc[t].works
    BY <1>1, <1>2
  <2>3. QED
    BY <1>2, <2>1, <2>2, MoveCloses
<1>3. /\ Nothing.works = <<>>
      /\ \A x : /\ [Nothing EXCEPT !.cmds = x].works = <<>>
               /\ [Nothing EXCEPT !.latest = TRUE, !.timed = x].works = <<>>
               /\ [Nothing EXCEPT !.buf = x].works = <<>>
               /\ [Nothing EXCEPT !.maps = x].works = <<>>
      /\ \A x, y : /\ [Nothing EXCEPT !.wait = x, !.timed = y].works = <<>>
                  /\ [Nothing EXCEPT !.buf = x, !.op = y].works = <<>>
                  /\ [Nothing EXCEPT !.buf = x, !.after = y].works = <<>>
  BY DEF Nothing
<1>4. hist' = hist => SameWork
  BY DEF SameWork
<1> USE DEF MayCall, life, driver, locks
<1>5. CASE CallSubmit(t)
  BY <1>2, <1>3, <1>4, <1>5 DEF CallSubmit
<1>6. CASE CallPoll(t)
  BY <1>2, <1>3, <1>4, <1>6 DEF CallPoll
<1>7. CASE CallWait(t)
  BY <1>2, <1>3, <1>4, <1>7 DEF CallWait
<1>8. CASE CallWrite(t)
  BY <1>2, <1>3, <1>4, <1>8 DEF CallWrite
<1>9. CASE CallMapAsync(t)
  <2>1. SameWork
    <3>1. PICK b : hist' = [hist EXCEPT !.maps = @ + 1, !.mapBuf[hist.maps + 1] = b]
      BY <1>9 DEF CallMapAsync
    <3>2. QED
      BY <1>1, <3>1 DEF SameWork, HistoryType
  <2>2. QED
    BY <1>2, <1>3, <1>9, <2>1 DEF CallMapAsync
<1>10. CASE CallUnmap(t)
  BY <1>2, <1>3, <1>4, <1>10 DEF CallUnmap
<1>11. CASE CallDestroy(t)
  BY <1>2, <1>3, <1>4, <1>11 DEF CallDestroy
<1>12. CASE CallDrop(t)
  BY <1>2, <1>3, <1>4, <1>12 DEF CallDrop
<1>13. CASE CallDestroyDevice(t)
  <2>1. SameClosures(active, active') /\ loc[t].works = <<>> /\ pc[t] # "releaseNext"
    BY <1>1, <1>13 DEF CallDestroyDevice
  <2>2. Calm(t)
    BY <1>13, <2>1 DEF CallDestroyDevice, Calm, Others
  <2>3. QED
    BY <1>1, <2>2, CalmKeeps DEF TypeInv, LifeTypeOK, Submission
<1>14. QED
  BY <1>5, <1>6, <1>7, <1>8, <1>9, <1>10, <1>11, <1>12, <1>13 DEF Call

(* Nor have the calls on buffers; a destruction goes back to where the     *)
(* release of the device's resources had come, if that is what it is for.  *)
LEMMA BufferCloses ==
  ASSUME TypeInv, TypeInv', ClosureInv, NEW t \in Thread,
         BufferStep(t) \/ FireStep(t), ~FireWorkDone(t)
  PROVE  ClosureInv'
<1>1. /\ active \in Seq(Entries(WorkDone)) /\ hist \in HistoryType /\ loc[t] \in Locals
      /\ SameClosures(active, active)
      /\ \/ loc[t].works = <<>>
         \/ pc[t] \in Carrying
         \/ pc[t] \in Releasing /\ trackersL = t
  BY LocType, AttachedCloses DEF TypeInv, LifeTypeOK, Submission, ClosureInv, CarryInv
<1>2. ASSUME NEW l, NEW w, Go(t, w, l), l.works = loc[t].works,
             l.works = <<>> \/ w \in Carrying \/ (w \in Releasing /\ trackersL' = t),
             w = "releaseNext" => trackersL' = t,
             SameClosures(active, active'), UNCHANGED <<deferred, gpuDone, trackersL>>, SameWork
      PROVE ClosureInv'
  BY <1>2, MoveCloses
<1>3. ASSUME NEW x
      PROVE /\ [loc[t] EXCEPT !.maps = x].works = loc[t].works
            /\ [loc[t] EXCEPT !.lost = x].works = loc[t].works
            /\ [loc[t] EXCEPT !.after = x].works = loc[t].works
            /\ [loc[t] EXCEPT !.tmp = x].works = loc[t].works
            /\ [[loc[t] EXCEPT !.tmp = x] EXCEPT !.buf = NoBuffer].works = loc[t].works
            /\ [loc[t] EXCEPT !.buf = NoBuffer].works = loc[t].works
            /\ [Nothing EXCEPT !.maps = x].works = <<>>
            /\ Nothing.works = <<>>
  BY <1>1 DEF Locals, Nothing
<1>4. hist' = hist => SameWork
  BY DEF SameWork
<1>5. ASSUME NEW l, LeaveDestroy(t, l), l.works = loc[t].works,
             [l EXCEPT !.buf = NoBuffer].works = loc[t].works, pc[t] \in Releasing,
             SameClosures(active, active'), UNCHANGED <<deferred, gpuDone, trackersL, hist>>
      PROVE ClosureInv'
  <2>1. CASE trackersL = t
    BY <1>2, <1>4, <1>5, <2>1 DEF LeaveDestroy, Carrying
  <2>2. CASE trackersL # t
    <3>1. loc[t].works = <<>>
      BY <1>1, <1>5, <2>2 DEF Carrying, Releasing
    <3>2. QED
      BY <1>2, <1>3, <1>4, <1>5, <2>2, <3>1 DEF LeaveDestroy
  <2>3. QED
    BY <2>1, <2>2
<1>6. ASSUME LeaveWrite(t), pc[t] \in {"writePending", "writeTrack", "writeCheck"},
             UNCHANGED <<active, deferred, gpuDone, hist>>
      PROVE ClosureInv'
  <2>1. loc[t].works = <<>> /\ SameClosures(active, active')
    BY <1>1, <1>6 DEF Carrying, Releasing
  <2>2. QED
    BY <1>2, <1>3, <1>4, <1>6, <2>1 DEF LeaveWrite
<1>7. active' = active => SameClosures(active, active')
  BY <1>1
<1> USE DEF life, driver, locks
<1>8. CASE FireMapping(t)
  <2>1. SameWork
    <3>. DEFINE f == [hist.mapFired EXCEPT ![Head(loc[t].maps)] = hist.mapFired[Head(loc[t].maps)] + 1]
    <3>1. hist' = [hist EXCEPT !.mapFired = f]
      BY <1>8 DEF FireMapping
    <3>. HIDE DEF f
    <3>2. QED
      BY <1>1, <3>1 DEF HistoryType, SameWork
  <2>2. QED
    BY <1>2, <1>3, <1>7, <1>8, <2>1 DEF FireMapping, Carrying
<1>9. CASE FireLost(t)
  <2>1. SameWork
    BY <1>1, <1>9 DEF FireLost, HistoryType, SameWork
  <2>2. QED
    BY <1>2, <1>3, <1>7, <1>9, <2>1 DEF FireLost, Carrying
<1>10. CASE Fired(t)
  <2>1. CASE loc[t].after = "idle"
    BY <1>2, <1>3, <1>4, <1>7, <1>10, <2>1 DEF Fired
  <2>2. CASE loc[t].after # "idle"
    <3>. DEFINE l == [loc[t] EXCEPT !.after = "idle"]
    <3>1. l.works = loc[t].works /\ l.works = <<>> /\ Go(t, "destroySnatch", l)
      BY <1>3, <1>10, <2>2 DEF Fired
    <3>2. UNCHANGED <<active, deferred, gpuDone, trackersL>> /\ SameWork
      BY <1>4, <1>10 DEF Fired
    <3>. HIDE DEF l
    <3>3. QED
      BY <1>2, <1>7, <3>1, <3>2
  <2>3. QED
    BY <2>1, <2>2
<1>11. CASE WritePending(t)
  <2>1. CASE valid
    <3>1. loc[t].works = <<>>
      BY <1>1, <1>11 DEF WritePending, Carrying, Releasing
    <3>2. QED
      BY <1>2, <1>4, <1>7, <1>11, <2>1, <3>1 DEF WritePending
  <2>2. CASE ~valid
    BY <1>6, <1>11, <2>2 DEF WritePending
  <2>3. QED
    BY <2>1, <2>2
<1>12. CASE WriteTrack(t)
  <2>1. CASE loc[t].buf \notin snatched
    <3>1. loc[t].works = <<>>
      BY <1>1, <1>12 DEF WriteTrack, Carrying, Releasing
    <3>2. QED
      BY <1>2, <1>4, <1>7, <1>12, <2>1, <3>1 DEF WriteTrack
  <2>2. CASE loc[t].buf \in snatched
    BY <1>6, <1>12, <2>2 DEF WriteTrack
  <2>3. QED
    BY <2>1, <2>2
<1>13. CASE WriteCheck(t)
  BY <1>6, <1>13 DEF WriteCheck
<1>14. CASE MapAsyncState(t)
  <2>1. loc[t].works = <<>>
    BY <1>1, <1>14 DEF MapAsyncState, Carrying, Releasing
  <2>2. CASE mapState[loc[t].buf].st = "Idle"
    BY <1>2, <1>4, <1>7, <1>14, <2>1, <2>2 DEF MapAsyncState
  <2>3. CASE mapState[loc[t].buf].st # "Idle"
    <3>. DEFINE l == [Nothing EXCEPT !.maps = <<loc[t].op>>]
    <3>1. l.works = loc[t].works /\ l.works = <<>> /\ Go(t, "fire", l)
      BY <1>3, <1>14, <2>1, <2>3 DEF MapAsyncState
    <3>2. UNCHANGED <<active, deferred, gpuDone, trackersL>> /\ SameWork
      BY <1>4, <1>14 DEF MapAsyncState
    <3>. HIDE DEF l
    <3>3. QED
      BY <1>2, <1>7, <3>1, <3>2
  <2>4. QED
    BY <2>2, <2>3
<1>15. CASE MapAsyncLife(t)
  <2>1. loc[t].works = <<>> /\ SameClosures(active, active')
    BY <1>1, <1>15, AttachedCloses DEF MapAsyncLife, Carrying, Releasing
  <2>2. SameWork
    <3>. DEFINE f == [hist.mapIndex EXCEPT ![loc[t].op] = LatestSubmissionIndex(active, loc[t].buf)]
    <3>1. hist' = [hist EXCEPT !.mapIndex = f]
      BY <1>15 DEF MapAsyncLife
    <3>. HIDE DEF f
    <3>2. QED
      BY <1>1, <3>1 DEF HistoryType, SameWork
  <2>3. QED
    BY <1>2, <1>3, <1>15, <2>1, <2>2 DEF MapAsyncLife
<1>16. CASE Unmap(t)
  <2>1. loc[t].works = <<>>
    BY <1>1, <1>16 DEF Unmap, Carrying, Releasing
  <2>2. \E l, w : /\ l.works = <<>> /\ w # "releaseNext" /\ Go(t, w, l)
    BY <1>3, <1>16, <2>1 DEF Unmap
  <2>3. QED
    BY <1>2, <1>4, <1>7, <1>16, <2>1, <2>2 DEF Unmap
<1>17. CASE UnmapInit(t)
  <2>1. loc[t].works = <<>>
    BY <1>1, <1>17 DEF UnmapInit, Carrying, Releasing
  <2>2. QED
    BY <1>2, <1>4, <1>7, <1>17, <2>1 DEF UnmapInit
<1>18. CASE DestroySnatch(t)
  <2>1. CASE LeaveDestroy(t, loc[t])
    BY <1>3, <1>5, <1>7, <1>18, <2>1 DEF DestroySnatch, Releasing
  <2>2. CASE Go(t, "destroyPending", [loc[t] EXCEPT !.tmp = {loc[t].buf}])
    <3>. DEFINE l == [loc[t] EXCEPT !.tmp = {loc[t].buf}]
    <3>1. l.works = loc[t].works /\ Go(t, "destroyPending", l)
      BY <1>3, <2>2
    <3>2. UNCHANGED <<active, deferred, gpuDone, trackersL>> /\ SameWork
      BY <1>4, <1>18 DEF DestroySnatch
    <3>3. l.works = <<>> \/ trackersL' = t
      BY <1>1, <1>18, <3>1, <3>2 DEF DestroySnatch, Carrying
    <3>. HIDE DEF l
    <3>4. QED
      BY <1>2, <1>7, <3>1, <3>2, <3>3 DEF Releasing
  <2>3. QED
    BY <1>18, <2>1, <2>2 DEF DestroySnatch
<1>19. CASE DestroyPending(t)
  <2>1. CASE PendingContains(loc[t].buf)
    BY <1>3, <1>5, <1>7, <1>19, <2>1 DEF DestroyPending, Releasing
  <2>2. CASE ~PendingContains(loc[t].buf)
    BY <1>1, <1>2, <1>4, <1>7, <1>19, <2>2 DEF DestroyPending, Carrying, Releasing
  <2>3. QED
    BY <2>1, <2>2
<1>20. CASE DestroyLife(t)
  <2>1. SameClosures(active, active')
    BY <1>1, <1>20, AttachedCloses DEF DestroyLife
  <2>2. QED
    BY <1>3, <1>5, <1>20, <2>1 DEF DestroyLife, Releasing
<1>21. QED
  BY <1>8, <1>9, <1>10, <1>11, <1>12, <1>13, <1>14, <1>15, <1>16, <1>17,
     <1>18, <1>19, <1>20 DEF BufferStep, FireStep

(* Maintaining carries the closures from triage to where they are fired.   *)
LEMMA MaintainCloses ==
  ASSUME TypeInv, TypeInv', ClosureInv, NEW t \in Thread, MaintainStep(t), ~MaintainLock(t),
         ~(Triage(t) /\ HeadDone(active, loc[t].done))
  PROVE  ClosureInv'
<1>1. /\ active \in Seq(Entries(WorkDone)) /\ hist \in HistoryType /\ loc[t] \in Locals
      /\ SameClosures(active, active)
      /\ \/ loc[t].works = <<>>
         \/ pc[t] \in Carrying
         \/ pc[t] \in Releasing /\ trackersL = t
      /\ pc[t] = "releaseNext" => trackersL = t
  BY LocType, AttachedCloses DEF TypeInv, LifeTypeOK, Submission, ClosureInv, CarryInv
<1>2. ASSUME NEW l, NEW w, Go(t, w, l), l.works = loc[t].works,
             l.works = <<>> \/ w \in Carrying \/ (w \in Releasing /\ trackersL' = t),
             w = "releaseNext" => trackersL' = t,
             trackersL' = trackersL \/ trackersL \in {NoThread, t},
             UNCHANGED <<active, deferred, gpuDone>>, SameWork
      PROVE ClosureInv'
  <2>1. SameClosures(active, active')
    BY <1>1, <1>2
  <2>2. QED
    BY <1>2, <2>1, MoveCloses
<1>3. ASSUME NEW x
      PROVE /\ [loc[t] EXCEPT !.wait = x].works = loc[t].works
            /\ [loc[t] EXCEPT !.done = x].works = loc[t].works
            /\ [loc[t] EXCEPT !.maps = x].works = loc[t].works
            /\ \A y : [loc[t] EXCEPT !.buf = x, !.op = y].works = loc[t].works
            /\ \A y, z : [loc[t] EXCEPT !.maps = x, !.buf = y, !.op = z].works = loc[t].works
            /\ [loc[t] EXCEPT !.empty = x].works = loc[t].works
            /\ [loc[t] EXCEPT !.lost = x].works = loc[t].works
            /\ [loc[t] EXCEPT !.todo = x].works = loc[t].works
            /\ \A y : [loc[t] EXCEPT !.todo = x, !.buf = y].works = loc[t].works
            /\ [loc[t] EXCEPT !.buf = x].works = loc[t].works
            /\ Nothing.works = <<>>
  BY <1>1 DEF Locals, Nothing
<1>4. hist' = hist => SameWork
  BY DEF SameWork
<1>5. Lose => SameWork
  <2>. DEFINE n == hist.lostFired + (IF lostClosure THEN 1 ELSE 0)
  <2>1. Lose => hist' = [hist EXCEPT !.halFailed = TRUE, !.lostFired = n]
    BY DEF Lose
  <2>. HIDE DEF n
  <2>2. QED
    BY <1>1, <2>1 DEF HistoryType, SameWork
<1>6. ASSUME LeaveMaintain(t), pc[t] \in {"maintain", "maintainWait", "maintainFence"},
             UNCHANGED <<active, deferred, gpuDone>>, SameWork
      PROVE ClosureInv'
  <2>1. loc[t].works = <<>>
    BY <1>1, <1>6 DEF Carrying, Releasing
  <2>2. QED
    BY <1>2, <1>3, <1>6, <2>1 DEF LeaveMaintain
<1>7. ASSUME pc[t] \notin Carrying \cup Releasing PROVE loc[t].works = <<>>
  BY <1>1, <1>7
<1> USE DEF life, driver, locks, Carrying, Releasing
<1>8. CASE PollFence(t)
  BY <1>2, <1>4, <1>7, <1>8 DEF PollFence
<1>9. CASE MaintainBegin(t)
  <2>1. CASE LeaveMaintain(t)
    BY <1>4, <1>6, <1>9, <2>1 DEF MaintainBegin
  <2>2. CASE UNCHANGED locks /\ ~LeaveMaintain(t)
    <3>. DEFINE l == [loc[t] EXCEPT !.wait = WaitTarget(t)]
    <3>1. l.works = loc[t].works /\ l.works = <<>>
      BY <1>3, <1>7, <1>9 DEF MaintainBegin
    <3>2. \E w : w # "releaseNext" /\ Go(t, w, l)
      BY <1>9, <2>2 DEF MaintainBegin
    <3>. HIDE DEF l
    <3>3. QED
      BY <1>2, <1>4, <1>9, <2>2, <3>1, <3>2 DEF MaintainBegin
  <2>3. QED
    BY <1>9, <2>1, <2>2 DEF MaintainBegin
<1>10. CASE MaintainWait(t)
  BY <1>2, <1>4, <1>7, <1>10 DEF MaintainWait
<1>11. CASE MaintainFence(t)
  <2>. DEFINE l == [loc[t] EXCEPT !.done = gpuDone]
  <2>1. l.works = loc[t].works /\ Go(t, "maintainLock", l)
    BY <1>3, <1>11 DEF MaintainFence
  <2>2. /\ UNCHANGED <<active, deferred, gpuDone>> /\ SameWork
        /\ trackersL' = trackersL
    BY <1>4, <1>11 DEF MaintainFence
  <2>3. l.works = <<>>
    BY <1>7, <1>11, <2>1 DEF MaintainFence
  <2>. HIDE DEF l
  <2>4. QED
    BY <1>2, <2>1, <2>2, <2>3
<1>12. CASE MaintainHalFails(t)
  BY <1>5, <1>6, <1>12 DEF MaintainHalFails
<1>13. CASE Triage(t)
  BY <1>2, <1>4, <1>13 DEF Triage
<1>14. CASE MapReady(t)
  <2>1. \E l : l.works = loc[t].works /\
          \/ Go(t, "mapSet", l) \/ Go(t, "mapRestore", l)
          \/ Go(t, "mapReady", l) \/ Go(t, "panicked", l)
    <3>. DEFINE b == Head(ready)
                l == [loc[t] EXCEPT !.buf = b, !.op = mapState[b].op]
                m == [loc[t] EXCEPT !.maps = Append(@, mapState[b].op)]
    <3>1. l.works = loc[t].works /\ m.works = loc[t].works
      BY <1>3
    <3>2. \/ Go(t, "mapSet", l) \/ Go(t, "mapRestore", l)
          \/ Go(t, "mapReady", m) \/ Go(t, "mapReady", loc[t]) \/ Go(t, "panicked", loc[t])
      BY <1>14 DEF MapReady
    <3>. HIDE DEF l, m
    <3>3. QED
      BY <3>1, <3>2
  <2>2. QED
    BY <1>2, <1>4, <1>14, <2>1 DEF MapReady
<1>15. ASSUME MapSet(t) \/ MapHalFails(t) PROVE ClosureInv'
  <2>1. \E l : l.works = loc[t].works /\ Go(t, "mapReady", l)
    <3>. DEFINE l == [loc[t] EXCEPT !.maps = Append(@, loc[t].op), !.buf = NoBuffer, !.op = 0]
    <3>1. l.works = loc[t].works
      BY <1>3
    <3>2. Go(t, "mapReady", l)
      BY <1>15 DEF MapSet, MapHalFails
    <3>. HIDE DEF l
    <3>3. QED
      BY <3>1, <3>2
  <2>2. UNCHANGED <<active, deferred, gpuDone, trackersL>> /\ SameWork
    BY <1>4, <1>5, <1>15 DEF MapSet, MapHalFails
  <2>3. QED
    BY <1>2, <2>1, <2>2
<1>16. CASE MapRestore(t)
  <2>. DEFINE l == [loc[t] EXCEPT !.buf = NoBuffer, !.op = 0]
  <2>1. l.works = loc[t].works /\ Go(t, "mapReady", l)
    BY <1>3, <1>16 DEF MapRestore
  <2>2. /\ UNCHANGED <<active, deferred, gpuDone>> /\ SameWork
        /\ trackersL' = trackersL
    BY <1>4, <1>16 DEF MapRestore
  <2>. HIDE DEF l
  <2>3. QED
    BY <1>2, <2>1, <2>2
<1>17. CASE MaintainUnlock(t)
  <2>. DEFINE l == [loc[t] EXCEPT !.empty = (active = <<>>)]
  <2>1. l.works = loc[t].works /\ Go(t, "maintainResult", l)
    BY <1>3, <1>17 DEF MaintainUnlock
  <2>2. /\ UNCHANGED <<active, deferred, gpuDone>> /\ SameWork
        /\ trackersL' = trackersL
    BY <1>4, <1>17 DEF MaintainUnlock
  <2>. HIDE DEF l
  <2>3. QED
    BY <1>2, <2>1, <2>2
<1>18. CASE MaintainResult(t)
  <2>1. \E l : l.works = loc[t].works /\
          (Go(t, "panicked", l) \/ Go(t, "releaseLock", l) \/ Go(t, "fire", l))
    BY <1>3, <1>18 DEF MaintainResult, LosingClosures
  <2>2. QED
    BY <1>2, <1>4, <1>18, <2>1 DEF MaintainResult
<1>19. CASE ReleaseLock(t)
  BY <1>2, <1>3, <1>4, <1>19 DEF ReleaseLock
<1>20. CASE ReleaseNext(t)
  <2>1. \E l : l.works = loc[t].works /\ (Go(t, "destroySnatch", l) \/ Go(t, "releaseNext", l))
    <3>1. PICK x, y, w : /\ w \in {"destroySnatch", "releaseNext"}
                         /\ Go(t, w, [loc[t] EXCEPT !.todo = x, !.buf = y])
      BY <1>20 DEF ReleaseNext
    <3>. DEFINE l == [loc[t] EXCEPT !.todo = x, !.buf = y]
    <3>2. l.works = loc[t].works /\ Go(t, w, l)
      BY <1>3, <3>1
    <3>. HIDE DEF l
    <3>3. QED
      BY <3>1, <3>2
  <2>2. QED
    BY <1>1, <1>2, <1>4, <1>20, <2>1 DEF ReleaseNext
<1>21. CASE ReleaseDone(t)
  <2>. DEFINE l == [loc[t] EXCEPT !.buf = NoBuffer]
  <2>1. l.works = loc[t].works /\ Go(t, "fire", l)
    BY <1>3, <1>21 DEF ReleaseDone
  <2>2. /\ UNCHANGED <<active, deferred, gpuDone>> /\ SameWork
        /\ trackersL' = NoThread /\ trackersL = t
    BY <1>1, <1>4, <1>21 DEF ReleaseDone
  <2>. HIDE DEF l
  <2>3. QED
    BY <1>2, <2>1, <2>2
<1>22. QED
  BY <1>8, <1>9, <1>10, <1>11, <1>12, <1>13, <1>14, <1>15, <1>16, <1>17, <1>18,
     <1>19, <1>20, <1>21 DEF MaintainStep

(* Nor does a submission carry any, up to its registration. *)
LEMMA SubmitCloses ==
  ASSUME TypeInv, TypeInv', ClosureInv, NEW t \in Thread, SubmitStep(t), ~SubmitTrack(t)
  PROVE  ClosureInv'
<1>1. /\ active \in Seq(Entries(WorkDone)) /\ hist \in HistoryType /\ loc[t] \in Locals
      /\ SameClosures(active, active) /\ Nothing.works = <<>>
      /\ pc[t] \notin Carrying \cup Releasing => loc[t].works = <<>>
  BY LocType, AttachedCloses DEF TypeInv, LifeTypeOK, Submission, ClosureInv, CarryInv, Nothing
<1>2. ASSUME pc[t] \in {"submitFence", "submitPrepare"}, NEW l, NEW w, Go(t, w, l),
             l.works = <<>> \/ l.works = loc[t].works, w # "releaseNext",
             UNCHANGED <<active, deferred, gpuDone, trackersL>>, SameWork
      PROVE ClosureInv'
  <2>1. SameClosures(active, active') /\ loc[t].works = <<>>
    BY <1>1, <1>2 DEF Carrying, Releasing
  <2>2. QED
    BY <1>2, <2>1, MoveCloses
<1>3. hist' = hist => SameWork
  BY DEF SameWork
<1> USE DEF life, driver, locks
<1>4. CASE SubmitFence(t)
  <2>1. \A x : [loc[t] EXCEPT !.idx = x].works = loc[t].works
    BY <1>1 DEF Locals
  <2>2. \E l, w : (l.works = <<>> \/ l.works = loc[t].works) /\ w # "releaseNext" /\ Go(t, w, l)
    BY <1>1, <1>4, <2>1 DEF SubmitFence
  <2>3. QED
    BY <1>2, <1>3, <1>4, <2>2 DEF SubmitFence
<1>5. CASE SubmitPrepare(t)
  <2>. DEFINE l == [loc[t] EXCEPT !.cmds = Tail(@), !.used = @ \cup Head(loc[t].cmds)]
  <2>1. l.works = loc[t].works
    BY <1>1 DEF Locals
  <2>2. Go(t, "submitPrepare", l)
    BY <1>5 DEF SubmitPrepare
  <2>. HIDE DEF l
  <2>3. QED
    BY <1>2, <1>3, <1>5, <2>1, <2>2 DEF SubmitPrepare
<1>6. CASE SubmitReject(t)
  BY <1>1, <1>2, <1>3, <1>6 DEF SubmitReject
<1>7. CASE SubmitHal(t)
  <2>. DEFINE all == loc[t].used \cup (IF recording THEN dst ELSE {})
              l == [loc[t] EXCEPT !.used = all, !.tmp = IF recording THEN temps ELSE {}]
  <2>1. l.works = loc[t].works
    BY <1>1 DEF Locals
  <2>2. Go(t, "submitTrack", l)
    BY <1>7 DEF SubmitHal
  <2>. HIDE DEF l, all
  <2>3. QED
    BY <1>2, <1>3, <1>7, <2>1, <2>2 DEF SubmitHal
<1>8. CASE SubmitHalFails(t)
  <2>1. SameWork
    <3>. DEFINE n == hist.lostFired + (IF lostClosure THEN 1 ELSE 0)
    <3>1. hist' = [hist EXCEPT !.halFailed = TRUE, !.lostFired = n]
      BY <1>8 DEF SubmitHalFails, Lose
    <3>. HIDE DEF n
    <3>2. QED
      BY <1>1, <3>1 DEF HistoryType, SameWork
  <2>2. QED
    BY <1>1, <1>2, <1>8, <2>1 DEF SubmitHalFails
<1>9. QED
  BY <1>4, <1>5, <1>6, <1>7, <1>8 DEF SubmitStep

-----------------------------------------------------------------------------
(* Triage begins with the closures that waited for no submission.          *)
LEMMA LockCloses ==
  ASSUME TypeInv, ClosureInv, NEW t \in Thread, MaintainLock(t) PROVE ClosureInv'
<1>1. ThreadInv /\ loc[t] \in Locals /\ loc[t].works = <<>>
  BY LocType DEF TypeInv, ClosureInv, CarryInv, MaintainLock, Carrying, Releasing
<1>2. Others(t) /\ pc'[t] = "triage" /\ loc'[t].works = deferred
  <2>. DEFINE l == [loc[t] EXCEPT !.works = deferred]
  <2>1. Go(t, "triage", l) /\ l.works = deferred
    BY <1>1 DEF MaintainLock, Locals
  <2>. HIDE DEF l
  <2>2. QED
    BY <1>1, <2>1, GoAt
<1>3. UNCHANGED <<active, gpuDone, trackersL, hist>> /\ deferred' = <<>>
  BY DEF MaintainLock, driver
<1>4. ASSUME NEW x
      PROVE /\ ~Deferred(x)'
            /\ ~Carried(t, x)
            /\ Carried(t, x)' <=> Deferred(x)
            /\ \A u \in Thread : u # t => (Carried(u, x)' <=> Carried(u, x))
            /\ \A i \in DOMAIN active : With(i, x)' <=> With(i, x)
  BY <1>1, <1>2, <1>3, EmptyList DEF Deferred, Carried, With, Others
<1>5. \A x : Held(x)' <=> Held(x)
  BY <1>3, <1>4 DEF Held
<1>6. CarryInv'
  BY <1>2, <1>3 DEF ClosureInv, CarryInv, Carrying, Others
<1>7. ApartInv'
  BY <1>2, <1>3, <1>4, EmptyList DEF ClosureInv, ApartInv, Others
<1>8. FiredInv'
  BY <1>3, <1>5 DEF ClosureInv, FiredInv
<1>9. AgeInv'
  BY <1>3, <1>4 DEF ClosureInv, AgeInv
<1>10. QED
  BY <1>6, <1>7, <1>8, <1>9 DEF ClosureInv

(* What triage drains, the fence has passed.                               *)
LEMMA DrainCloses ==
  ASSUME TypeInv, SubmissionInv, ClosureInv, NEW t \in Thread, Triage(t),
         HeadDone(active, loc[t].done)
  PROVE  ClosureInv'
<1>1. /\ ThreadInv /\ loc[t] \in Locals /\ loc[t].works \in Seq(WorkDone)
      /\ active \in Seq(Entries(WorkDone)) /\ active # <<>> /\ pc[t] = "triage"
      /\ loc[t].done \in Nat /\ gpuDone \in Nat /\ hist \in HistoryType
  BY LocType DEF TypeInv, LifeTypeOK, DeviceTypeOK, Submission, HeadDone, Triage
<1>2. /\ active[1].index \in Nat /\ active[1].closures \in Seq(WorkDone)
      /\ active[1].index <= gpuDone
  <2>1. active[1] \in Entries(WorkDone) /\ active[1].index <= loc[t].done
    BY <1>1 DEF HeadDone
  <2>2. active[1].index \in Nat /\ active[1].closures \in Seq(WorkDone)
    BY <2>1 DEF Entries
  <2>3. loc[t].done <= gpuDone
    BY DEF SubmissionInv, LocalInv
  <2>4. QED
    BY <1>1, <2>1, <2>2, <2>3
<1>3. Others(t) /\ pc'[t] = "triage" /\ loc'[t].works = loc[t].works \o active[1].closures
  <2>. DEFINE s == loc[t].works \o active[1].closures
              l == [loc[t] EXCEPT !.works = s]
  <2>1. Go(t, "triage", l)
    <3>1. Head(active) = active[1]
      BY <1>1
    <3>2. Go(t, "triage", [loc[t] EXCEPT !.works = loc[t].works \o Head(active).closures])
      BY DEF Triage, ClosuresAfterHead
    <3>3. QED
      BY <3>1, <3>2
  <2>2. l.works = s
    <3>. HIDE DEF s
    <3>1. QED
      BY <1>1 DEF Locals
  <2>. HIDE DEF l
  <2>3. QED
    BY <1>1, <2>1, <2>2, GoAt
<1>4. UNCHANGED <<deferred, gpuDone, trackersL, hist>> /\ active' = Tail(active)
  BY DEF Triage, driver, locks
<1>5. /\ Len(active') = Len(active) - 1 /\ Len(active) \in Nat /\ 1 \in DOMAIN active
      /\ \A j \in DOMAIN active' :
            j \in Nat /\ j + 1 \in DOMAIN active /\ j + 1 # 1 /\ active'[j] = active[j + 1]
      /\ \A j \in DOMAIN active : j # 1 => j - 1 \in DOMAIN active' /\ active'[j - 1] = active[j]
      /\ \A i, j \in DOMAIN active' : i + 1 = j + 1 => i = j
  BY <1>1, <1>4
<1>6. /\ \A x : Carried(t, x)' <=> Carried(t, x) \/ With(1, x)
      /\ Once(loc'[t].works)
  <2>1. Once(loc[t].works) /\ Once(active[1].closures)
        /\ \A x \in WorkDone : ~(Carried(t, x) /\ With(1, x))
    BY <1>5 DEF ClosureInv, ApartInv
  <2>2. QED
    BY <1>1, <1>2, <1>3, <2>1, JoinList DEF Carried, With
<1>7. ASSUME NEW x
      PROVE /\ Deferred(x)' <=> Deferred(x)
            /\ \A u \in Thread : u # t => (Carried(u, x)' <=> Carried(u, x))
            /\ \A j \in DOMAIN active' : With(j, x)' <=> With(j + 1, x)
  BY <1>3, <1>4, <1>5 DEF Deferred, Carried, With, Others
<1>8. \A x : Held(x)' <=> Held(x)
  <2>1. ASSUME NEW x, Held(x) PROVE Held(x)'
    <3>1. CASE Deferred(x)
      BY <1>7, <3>1 DEF Held
    <3>2. CASE \E u \in Thread : Carried(u, x)
      BY <1>6, <1>7, <3>2 DEF Held
    <3>3. ASSUME NEW i \in DOMAIN active, With(i, x) PROVE Held(x)'
      <4>1. CASE i = 1
        BY <1>6, <3>3, <4>1 DEF Held
      <4>2. CASE i # 1
        <5>1. i - 1 \in DOMAIN active' /\ active'[i - 1] = active[i]
          BY <1>5, <4>2
        <5>2. QED
          BY <3>3, <5>1 DEF Held, With
      <4>3. QED
        BY <4>1, <4>2
    <3>4. QED
      BY <2>1, <3>1, <3>2, <3>3 DEF Held
  <2>2. ASSUME NEW x, Held(x)' PROVE Held(x)
    BY <1>5, <1>6, <1>7, <2>2 DEF Held
  <2>3. QED
    BY <2>1, <2>2
<1>9. CarryInv'
  BY <1>3, <1>4 DEF ClosureInv, CarryInv, Carrying, Others
<1>10. ApartInv'
  <2>1. /\ Once(deferred') /\ \A i \in DOMAIN active' : Once(active'[i].closures)
        /\ \A u \in Thread : Once(loc'[u].works)
    BY <1>3, <1>4, <1>5, <1>6 DEF ClosureInv, ApartInv, Others
  <2>2. ASSUME NEW i \in DOMAIN active', NEW x \in WorkDone, With(i, x)'
        PROVE /\ ~Deferred(x)'
              /\ \A j \in DOMAIN active' : With(j, x)' => i = j
              /\ \A u \in Thread : ~Carried(u, x)'
    <3>1. i + 1 \in DOMAIN active /\ i + 1 # 1 /\ With(i + 1, x)
      BY <1>5, <1>7, <2>2
    <3>2. /\ ~Deferred(x) /\ ~With(1, x)
          /\ \A j \in DOMAIN active : With(j, x) => i + 1 = j
          /\ \A u \in Thread : ~Carried(u, x)
      BY <1>5, <3>1 DEF ClosureInv, ApartInv
    <3>3. QED
      BY <1>5, <1>6, <1>7, <3>2
  <2>3. ASSUME NEW u \in Thread, NEW x \in WorkDone, Carried(u, x)'
        PROVE ~Deferred(x)' /\ \A v \in Thread : Carried(v, x)' => u = v
    BY <1>5, <1>6, <1>7, <2>3 DEF ClosureInv, ApartInv
  <2>4. QED
    BY <2>1, <2>2, <2>3 DEF ApartInv
<1>11. FiredInv'
  BY <1>4, <1>8 DEF ClosureInv, FiredInv
<1>12. AgeInv'
  <2>1. IF active' = <<>> THEN hist'.tracked <= gpuDone'
        ELSE hist'.tracked = active'[Len(active')].index
    <3>1. hist'.tracked = active[Len(active)].index
      BY <1>1, <1>4 DEF ClosureInv, AgeInv
    <3>2. CASE active' = <<>>
      <4>1. Len(active') = 0
        BY <3>2
      <4>2. Len(active) = 1
        BY <1>5, <4>1
      <4>3. QED
        BY <1>2, <1>4, <3>1, <3>2, <4>2
    <3>3. CASE active' # <<>>
      <4>1. Len(active') \in DOMAIN active' /\ Len(active') + 1 = Len(active)
        BY <1>1, <1>4, <1>5, <3>3
      <4>2. QED
        BY <1>5, <3>1, <3>3, <4>1
    <3>4. QED
      BY <3>2, <3>3
  <2>2. ASSUME NEW x \in WorkDone, With(1, x) PROVE hist.workIndex[x] <= gpuDone
    <3>1. hist.workIndex[x] <= active[1].index /\ hist.workIndex[x] \in Nat
      BY <1>1, <1>5, <2>2 DEF ClosureInv, AgeInv, HistoryType
    <3>2. QED
      BY <1>1, <1>2, <3>1
  <2>3. QED
    BY <1>4, <1>5, <1>6, <1>7, <2>1, <2>2 DEF ClosureInv, AgeInv
<1>13. QED
  BY <1>9, <1>10, <1>11, <1>12 DEF ClosureInv

(* A closure that is fired is with nobody any more.                        *)
LEMMA FireCloses ==
  ASSUME TypeInv, ClosureInv, NEW t \in Thread, FireWorkDone(t) PROVE ClosureInv'
<1>0. PICK x : x = Head(loc[t].works)
  OBVIOUS
<1>. DEFINE f == [hist.workFired EXCEPT ![x] = hist.workFired[x] + 1]
<1>1. /\ ThreadInv /\ loc[t] \in Locals /\ loc[t].works \in Seq(WorkDone)
      /\ loc[t].works # <<>> /\ pc[t] = "fire" /\ hist \in HistoryType
      /\ hist.workFired \in [WorkDone -> Nat]
  BY LocType DEF TypeInv, FireWorkDone, HistoryType
<1>2. Others(t) /\ pc'[t] = "fire" /\ loc'[t].works = Tail(loc[t].works)
  <2>. DEFINE r == Tail(loc[t].works)
              l == [loc[t] EXCEPT !.works = r]
  <2>1. Go(t, "fire", l)
    BY DEF FireWorkDone
  <2>2. l.works = r
    <3>. HIDE DEF r
    <3>1. QED
      BY <1>1 DEF Locals
  <2>. HIDE DEF l
  <2>3. QED
    BY <1>1, <2>1, <2>2, GoAt
<1>3. /\ UNCHANGED <<active, deferred, gpuDone, trackersL>>
      /\ hist'.works = hist.works /\ hist'.tracked = hist.tracked
      /\ hist'.workIndex = hist.workIndex /\ hist'.workFired = f
  <2>1. hist' = [hist EXCEPT !.workFired = f]
    BY <1>0 DEF FireWorkDone
  <2>. HIDE DEF f
  <2>2. QED
    BY <1>1, <2>1 DEF FireWorkDone, life, driver, locks, HistoryType
<1>4. /\ x \in WorkDone /\ Once(loc'[t].works) /\ Carried(t, x)
      /\ \A w : Carried(t, w)' <=> Carried(t, w) /\ w # x
  <2>1. Once(loc[t].works)
    BY DEF ClosureInv, ApartInv
  <2>2. QED
    BY <1>0, <1>1, <1>2, <2>1, TailList DEF Carried
<1>. HIDE DEF f
<1>5. ASSUME NEW w
      PROVE /\ Deferred(w)' <=> Deferred(w)
            /\ \A u \in Thread : u # t => (Carried(u, w)' <=> Carried(u, w))
            /\ \A i \in DOMAIN active : With(i, w)' <=> With(i, w)
  BY <1>2, <1>3 DEF Deferred, Carried, With, Others
<1>6. /\ ~Deferred(x) /\ \A i \in DOMAIN active : ~With(i, x)
      /\ \A u \in Thread : u # t => ~Carried(u, x)
  BY <1>4 DEF ClosureInv, ApartInv
<1>7. Held(x) /\ ~Held(x)' /\ \A w : w # x => (Held(w)' <=> Held(w))
  BY <1>3, <1>4, <1>5, <1>6 DEF Held
<1>8. CarryInv'
  BY <1>2, <1>3 DEF ClosureInv, CarryInv, Carrying, Others
<1>9. ApartInv'
  <2>1. /\ Once(deferred') /\ \A i \in DOMAIN active' : Once(active'[i].closures)
        /\ \A u \in Thread : Once(loc'[u].works)
    BY <1>2, <1>3, <1>4 DEF ClosureInv, ApartInv, Others
  <2>2. ASSUME NEW u \in Thread, NEW w, Carried(u, w)' PROVE Carried(u, w)
    BY <1>4, <1>5, <2>2
  <2>3. QED
    BY <1>3, <1>5, <2>1, <2>2 DEF ClosureInv, ApartInv
<1>10. /\ f[x] = hist.workFired[x] + 1
       /\ \A w \in WorkDone : w # x => f[w] = hist.workFired[w]
  BY <1>1, <1>4 DEF f
<1>11. FiredInv'
  <2>1. x <= hist.works /\ hist.workFired[x] = 0
    BY <1>4, <1>7 DEF ClosureInv, FiredInv
  <2>2. f[x] = 1
    BY <1>10, <2>1
  <2>3. QED
    BY <1>3, <1>7, <1>10, <2>1, <2>2 DEF ClosureInv, FiredInv
<1>12. AgeInv'
  <2>1. hist.workIndex[x] <= gpuDone
    BY <1>4 DEF ClosureInv, AgeInv
  <2>2. ASSUME NEW w \in WorkDone, f[w] > 0 PROVE hist.workIndex[w] <= gpuDone
    BY <1>10, <2>1, <2>2 DEF ClosureInv, AgeInv
  <2>3. QED
    BY <1>3, <1>4, <1>5, <2>2 DEF ClosureInv, AgeInv
<1>13. QED
  BY <1>8, <1>9, <1>11, <1>12 DEF ClosureInv

(* A submission is tracked with no closure of its own.                     *)
LEMMA TrackCloses ==
  ASSUME TypeInv, SubmissionInv, ClosureInv, NEW t \in Thread, SubmitTrack(t)
  PROVE  ClosureInv'
<1>. DEFINE new == Entry(loc[t].idx, loc[t].used, loc[t].tmp)
<1>1. /\ ThreadInv /\ active \in Seq(Entries(WorkDone)) /\ hist \in HistoryType
      /\ loc[t].works = <<>> /\ loc[t].idx \in Nat
  BY LocType DEF TypeInv, LifeTypeOK, Submission, ClosureInv, CarryInv, SubmitTrack, Carrying, Releasing
<1>2. Others(t) /\ pc'[t] = "maintain" /\ loc'[t].works = <<>>
  BY <1>1, GoAt DEF SubmitTrack, Nothing
<1>3. /\ active' = Append(active, new)
      /\ UNCHANGED <<deferred, gpuDone, trackersL>>
      /\ hist'.works = hist.works /\ hist'.tracked = loc[t].idx
      /\ hist'.workIndex = hist.workIndex /\ hist'.workFired = hist.workFired
  BY <1>1 DEF SubmitTrack, TrackSubmission, driver, HistoryType
<1>4. new.index = loc[t].idx /\ new.closures = <<>>
  BY DEF Entry
<1>5. /\ DOMAIN active' = DOMAIN active \cup {Len(active) + 1} /\ Len(active') = Len(active) + 1
      /\ active'[Len(active) + 1] = new /\ active' # <<>>
      /\ \A i \in DOMAIN active : active'[i] = active[i] /\ i # Len(active) + 1
  <2>. HIDE DEF new
  <2>1. QED
    BY <1>1, <1>3
<1>. HIDE DEF new
<1>6. ASSUME NEW x
      PROVE /\ Deferred(x)' <=> Deferred(x)
            /\ \A u \in Thread : Carried(u, x)' <=> Carried(u, x)
            /\ \A i \in DOMAIN active : With(i, x)' <=> With(i, x)
            /\ \A i \in DOMAIN active' \ DOMAIN active : ~With(i, x)'
  <2>1. Deferred(x)' <=> Deferred(x)
    BY <1>3 DEF Deferred
  <2>2. ASSUME NEW u \in Thread PROVE Carried(u, x)' <=> Carried(u, x)
    BY <1>1, <1>2 DEF Carried, Others
  <2>3. ASSUME NEW i \in DOMAIN active PROVE With(i, x)' <=> With(i, x)
    BY <1>5 DEF With
  <2>4. ASSUME NEW i \in DOMAIN active' \ DOMAIN active PROVE ~With(i, x)'
    <3>1. active'[i].closures = <<>>
      BY <1>4, <1>5
    <3>2. QED
      BY <3>1, EmptyList DEF With
  <2>5. QED
    BY <2>1, <2>2, <2>3, <2>4
<1>7. \A x : Held(x)' <=> Held(x)
  BY <1>5, <1>6 DEF Held
<1>8. CarryInv'
  BY <1>2, <1>3 DEF ClosureInv, CarryInv, Others
<1>9. ApartInv'
  <2>1. \A u \in Thread : Once(loc'[u].works)
    BY <1>2, EmptyList DEF ClosureInv, ApartInv, Others
  <2>2. \A i \in DOMAIN active' : Once(active'[i].closures)
    <3>1. Once(new.closures)
      BY <1>4, EmptyList
    <3>2. QED
      BY <1>5, <3>1 DEF ClosureInv, ApartInv
  <2>3. ASSUME NEW i \in DOMAIN active', NEW x \in WorkDone, With(i, x)'
        PROVE /\ ~Deferred(x)'
              /\ \A j \in DOMAIN active' : With(j, x)' => i = j
              /\ \A u \in Thread : ~Carried(u, x)'
    <3>1. i \in DOMAIN active /\ With(i, x)
      BY <1>6, <2>3
    <3>2. QED
      BY <1>6, <3>1 DEF ClosureInv, ApartInv
  <2>4. QED
    BY <1>3, <1>6, <2>1, <2>2, <2>3 DEF ClosureInv, ApartInv
<1>10. FiredInv'
  BY <1>3, <1>7 DEF ClosureInv, FiredInv
<1>11. AgeInv'
  <2>1. active' # <<>> /\ hist'.tracked = active'[Len(active')].index
    BY <1>3, <1>4, <1>5
  <2>2. ASSUME NEW i \in DOMAIN active', NEW x \in WorkDone, With(i, x)'
        PROVE  hist.workIndex[x] <= active'[i].index
    <3>1. i \in DOMAIN active /\ With(i, x)
      BY <1>6, <2>2
    <3>2. QED
      BY <1>5, <3>1 DEF ClosureInv, AgeInv
  <2>3. QED
    BY <1>3, <1>6, <2>1, <2>2 DEF ClosureInv, AgeInv
<1>12. QED
  BY <1>8, <1>9, <1>10, <1>11 DEF ClosureInv

(* The GPU gets further: what it has done, it has done.                    *)
LEMMA GpuCloses ==
  ASSUME TypeInv, SubmissionInv, ClosureInv, GpuComplete PROVE ClosureInv'
<1>1. /\ UNCHANGED <<active, deferred, trackersL, pc, loc, hist>> /\ hist \in HistoryType
      /\ gpuDone \in Nat /\ gpuDone' \in Nat /\ gpuDone < gpuDone'
  <2>. DEFINE S == [index : Nat, bufs : SUBSET Buffer]
  <2>1. gpu \in Seq(S) /\ gpu # <<>> /\ gpuDone' = Head(gpu).index
    BY DEF TypeInv, DeviceTypeOK, GpuComplete
  <2>2. Head(gpu) \in S /\ Head(gpu) = gpu[1] /\ 1 \in DOMAIN gpu
    <3>. HIDE DEF S
    <3>1. QED
      BY <2>1
  <2>3. gpuDone < gpu[1].index
    BY <2>2 DEF SubmissionInv, IndexInv
  <2>4. QED
    BY <2>1, <2>2, <2>3 DEF TypeInv, DeviceTypeOK, GpuComplete, life, locks
<1>2. CarryInv' /\ ApartInv' /\ FiredInv'
  BY <1>1 DEF ClosureInv, CarryInv, ApartInv, FiredInv, Held, Deferred, Carried, With
<1>3. AgeInv'
  <2>1. hist.tracked \in Nat /\ \A x \in WorkDone : hist.workIndex[x] \in Nat
    BY <1>1 DEF HistoryType
  <2>2. ASSUME NEW n \in Nat, n <= gpuDone PROVE n <= gpuDone'
    BY <1>1, <2>2
  <2>3. QED
    BY <1>1, <2>1, <2>2 DEF ClosureInv, AgeInv, Deferred, Carried, With
<1>4. QED
  BY <1>2, <1>3 DEF ClosureInv

(* A new closure waits with the last submission, or for the next triage    *)
(* when there is none; it is nowhere else.                                 *)
LEMMA RegisterCloses ==
  ASSUME TypeInv, ClosureInv, NEW t \in Thread, CallWorkDone(t) PROVE ClosureInv'
<1>0. PICK w : w = hist.works + 1
  OBVIOUS
<1>. DEFINE f == [hist.workIndex EXCEPT ![w] = hist.tracked]
            m == {o \in MapOp : hist.mapIndex[o] >= 0 /\ hist.mapFired[o] = 0}
            g == [hist.workMaps EXCEPT ![w] = m]
<1>1. /\ active \in Seq(Entries(WorkDone)) /\ deferred \in Seq(WorkDone) /\ gpuDone \in Nat
      /\ hist \in HistoryType /\ hist.works \in Nat /\ w \in WorkDone /\ hist.tracked \in Nat
      /\ hist.workIndex \in [WorkDone -> Nat]
  <2>1. hist \in HistoryType /\ active \in Seq(Entries(WorkDone)) /\ deferred \in Seq(WorkDone)
        /\ gpuDone \in Nat /\ hist.works < MaxWork
    BY DEF TypeInv, LifeTypeOK, DeviceTypeOK, Submission, CallWorkDone
  <2>2. hist.works \in Nat /\ hist.tracked \in Nat /\ hist.workIndex \in [WorkDone -> Nat]
    BY <2>1 DEF HistoryType
  <2>3. w \in WorkDone
    BY <1>0, <2>1, <2>2, BoundAssumption DEF WorkDone
  <2>4. QED
    BY <2>1, <2>2, <2>3
<1>2. /\ UNCHANGED <<pc, loc, gpuDone, trackersL>>
      /\ active' = ClosureWithSubmission(active, w)
      /\ deferred' = ClosureDeferred(active, deferred, w)
      /\ hist'.works = w /\ hist'.tracked = hist.tracked
      /\ hist'.workIndex = f /\ hist'.workFired = hist.workFired
  <2>1. hist' = [hist EXCEPT !.works = w, !.workIndex = f, !.workMaps = g]
    BY <1>0 DEF CallWorkDone
  <2>. HIDE DEF f, g
  <2>2. /\ hist'.works = w /\ hist'.tracked = hist.tracked
        /\ hist'.workIndex = f /\ hist'.workFired = hist.workFired
    BY <1>1, <2>1 DEF HistoryType
  <2>3. QED
    BY <1>0, <2>2 DEF CallWorkDone, driver, locks
<1>3. ~Held(w) /\ hist.workFired[w] = 0
  BY <1>0, <1>1 DEF ClosureInv, FiredInv
<1>4. f[w] = hist.tracked /\ \A x \in WorkDone : x # w => f[x] = hist.workIndex[x]
  BY <1>1
<1>. HIDE DEF f, g, m
<1>5. /\ DOMAIN active' = DOMAIN active
      /\ \A i \in DOMAIN active : active'[i].index = active[i].index
      /\ active # <<>> => Len(active) \in DOMAIN active
      /\ Len(active') = Len(active)
      /\ active' = <<>> <=> active = <<>>
  <2>1. DOMAIN active' = DOMAIN active /\ \A i \in DOMAIN active : active'[i].index = active[i].index
    BY <1>1, <1>2, Attached DEF SameSubmissions
  <2>2. active' \in Seq(Entries(WorkDone))
    BY <1>1, <1>2, ClosureListType
  <2>3. QED
    BY <1>1, <2>1, <2>2
<1>6. /\ Once(deferred')
      /\ \A x : Deferred(x)' <=> Deferred(x) \/ (active = <<>> /\ x = w)
  <2>1. Once(deferred) /\ ~Within(deferred, w)
    BY <1>3 DEF ClosureInv, ApartInv, Held, Deferred
  <2>2. QED
    BY <1>1, <1>2, <2>1, AppendList DEF ClosureDeferred, Deferred
<1>7. /\ \A i \in DOMAIN active : Once(active'[i].closures)
      /\ \A i \in DOMAIN active : \A x : With(i, x)' <=> With(i, x) \/ (i = Len(active) /\ x = w)
  <2>1. ASSUME NEW i \in DOMAIN active
        PROVE  /\ Once(active'[i].closures)
               /\ \A x : With(i, x)' <=> With(i, x) \/ (i = Len(active) /\ x = w)
    <3>1. active[i].closures \in Seq(WorkDone) /\ active # <<>>
      <4>1. active[i] \in Entries(WorkDone)
        BY <1>1
      <4>2. QED
        BY <1>1, <4>1 DEF Entries
    <3>2. Once(active[i].closures) /\ ~Within(active[i].closures, w)
      BY <1>3 DEF ClosureInv, ApartInv, Held, With
    <3>3. CASE i = Len(active)
      <4>1. active'[i].closures = Append(active[i].closures, w)
        <5>1. active[i] \in Entries(WorkDone)
          BY <1>1
        <5>. DEFINE k == Append(active[i].closures, w)
                    e == [active[i] EXCEPT !.closures = k]
        <5>2. e.closures = k
          <6>. HIDE DEF k
          <6>1. QED
            BY <5>1 DEF Entries
        <5>3. active' = [active EXCEPT ![i] = e]
          BY <1>2, <3>1, <3>3 DEF ClosureWithSubmission
        <5>. HIDE DEF e, k
        <5>4. active'[i] = e
          BY <1>1, <5>3
        <5>5. QED
          BY <5>2, <5>4 DEF k
      <4>2. QED
        BY <1>1, <3>1, <3>2, <3>3, <4>1, AppendList DEF With
    <3>4. CASE i # Len(active)
      <4>1. active'[i] = active[i]
        BY <1>1, <1>2, <3>1, <3>4 DEF ClosureWithSubmission
      <4>2. QED
        BY <3>2, <3>4, <4>1 DEF With
    <3>5. QED
      BY <3>3, <3>4
  <2>2. QED
    BY <2>1
<1>8. \A u \in Thread : \A x : Carried(u, x)' <=> Carried(u, x)
  BY <1>2 DEF Carried
<1>9. Held(w)' /\ \A x : x # w => (Held(x)' <=> Held(x))
  <2>1. Held(w)'
    BY <1>5, <1>6, <1>7 DEF Held
  <2>2. QED
    BY <1>5, <1>6, <1>7, <1>8, <2>1 DEF Held
<1>10. CarryInv'
  BY <1>2 DEF ClosureInv, CarryInv
<1>11. /\ ~Deferred(w) /\ (\A i \in DOMAIN active : ~With(i, w))
       /\ \A u \in Thread : ~Carried(u, w)
  BY <1>3 DEF Held
<1>12. ApartInv'
  <2>1. ASSUME NEW i \in DOMAIN active, NEW x \in WorkDone, With(i, x)'
        PROVE /\ ~Deferred(x)'
              /\ \A j \in DOMAIN active : With(j, x)' => i = j
              /\ \A u \in Thread : ~Carried(u, x)'
    <3>1. CASE x = w
      BY <1>5, <1>6, <1>7, <1>8, <1>11, <2>1, <3>1
    <3>2. CASE x # w
      BY <1>6, <1>7, <1>8, <2>1, <3>2 DEF ClosureInv, ApartInv
    <3>3. QED
      BY <3>1, <3>2
  <2>2. ASSUME NEW u \in Thread, NEW x \in WorkDone, Carried(u, x)'
        PROVE ~Deferred(x)' /\ \A v \in Thread : Carried(v, x)' => u = v
    BY <1>6, <1>8, <1>11, <2>2 DEF ClosureInv, ApartInv
  <2>3. QED
    BY <1>2, <1>5, <1>6, <1>7, <2>1, <2>2 DEF ClosureInv, ApartInv
<1>13. FiredInv'
  <2>1. w <= MaxWork
    BY <1>1, BoundAssumption DEF WorkDone
  <2>2. ASSUME NEW x \in WorkDone PROVE x <= w <=> (x <= hist.works \/ x = w)
    BY <1>0, <1>1, <2>2 DEF WorkDone
  <2>3. QED
    BY <1>2, <1>3, <1>9, <2>1, <2>2 DEF ClosureInv, FiredInv
<1>14. AgeInv'
  <2>1. IF active' = <<>> THEN hist'.tracked <= gpuDone'
        ELSE hist'.tracked = active'[Len(active')].index
    BY <1>2, <1>5 DEF ClosureInv, AgeInv
  <2>2. ASSUME NEW x \in WorkDone
        PROVE /\ Deferred(x)' => f[x] <= gpuDone
              /\ \A i \in DOMAIN active : With(i, x)' => f[x] <= active[i].index
              /\ \A u \in Thread : Carried(u, x)' => f[x] <= gpuDone
              /\ hist.workFired[x] > 0 => f[x] <= gpuDone
    <3>1. CASE x = w
      <4>1. active = <<>> => hist.tracked <= gpuDone
        BY DEF ClosureInv, AgeInv
      <4>2. active # <<>> => hist.tracked <= active[Len(active)].index
        BY <1>1 DEF ClosureInv, AgeInv
      <4>3. QED
        BY <1>3, <1>4, <1>5, <1>6, <1>7, <1>8, <1>11, <3>1, <4>1, <4>2
    <3>2. CASE x # w
      BY <1>4, <1>6, <1>7, <1>8, <3>2 DEF ClosureInv, AgeInv
    <3>3. QED
      BY <3>1, <3>2
  <2>3. QED
    BY <1>2, <1>5, <2>1, <2>2 DEF AgeInv
<1>15. QED
  BY <1>10, <1>12, <1>13, <1>14 DEF ClosureInv

(* There is no closure to begin with.                                      *)
LEMMA InitCloses == Init => ClosureInv
<1> SUFFICES ASSUME Init PROVE ClosureInv
  OBVIOUS
<1>1. /\ deferred = <<>> /\ active = <<>> /\ gpuDone = 0 /\ hist = NoHistory
      /\ \A t \in Thread : pc[t] = "idle" /\ loc[t].works = <<>>
  BY DEF Init, Nothing
<1>2. /\ hist.works = 0 /\ hist.tracked = 0
      /\ \A w \in WorkDone : hist.workFired[w] = 0
  BY <1>1 DEF NoHistory
<1>3. CarryInv
  BY <1>1 DEF CarryInv
<1>4. \A x : ~Deferred(x) /\ (\A i \in DOMAIN active : ~With(i, x)) /\ \A t \in Thread : ~Carried(t, x)
  BY <1>1, EmptyList DEF Deferred, With, Carried
<1>5. ApartInv
  BY <1>1, <1>4, EmptyList DEF ApartInv
<1>6. FiredInv
  <2>1. \A w \in WorkDone : ~(w <= 0)
    BY DEF WorkDone
  <2>2. 0 <= MaxWork
    BY BoundAssumption
  <2>3. QED
    BY <1>2, <1>4, <2>1, <2>2 DEF FiredInv, Held
<1>7. AgeInv
  <2>1. active = <<>> /\ gpuDone = 0
    BY <1>1
  <2>2. \A w \in WorkDone : ~(hist.workFired[w] > 0)
    BY <1>2
  <2>3. QED
    BY <1>2, <1>4, <2>1, <2>2 DEF AgeInv
<1>8. QED
  BY <1>3, <1>5, <1>6, <1>7 DEF ClosureInv

(* Every step keeps every closure in its place, or moves it to the next.   *)
LEMMA NextCloses ==
  TypeInv /\ TypeInv' /\ SubmissionInv /\ ClosureInv /\ [Next]_vars => ClosureInv'
<1> SUFFICES ASSUME TypeInv, TypeInv', SubmissionInv, ClosureInv, [Next]_vars PROVE ClosureInv'
  OBVIOUS
<1>1. ASSUME UNCHANGED <<active, deferred, gpuDone, trackersL, pc, loc>>, SameWork PROVE ClosureInv'
  <2>1. /\ UNCHANGED <<active, deferred, gpuDone, trackersL, pc, loc>>
        /\ hist'.works = hist.works /\ hist'.tracked = hist.tracked
        /\ hist'.workIndex = hist.workIndex /\ hist'.workFired = hist.workFired
    BY <1>1 DEF SameWork
  <2>2. CarryInv' /\ ApartInv'
    BY <2>1 DEF ClosureInv, CarryInv, ApartInv, Deferred, With, Carried
  <2>3. FiredInv'
    BY <2>1 DEF ClosureInv, FiredInv, Held, Deferred, With, Carried
  <2>4. AgeInv'
    BY <2>1 DEF ClosureInv, AgeInv, Deferred, With, Carried
  <2>5. QED
    BY <2>2, <2>3, <2>4 DEF ClosureInv
<1>2. CASE UNCHANGED vars
  BY <1>1, <1>2 DEF vars, driver, life, locks, SameWork
<1>3. CASE LoseElsewhere
  <2>. DEFINE n == hist.lostFired + (IF lostClosure THEN 1 ELSE 0)
  <2>1. hist' = [hist EXCEPT !.halFailed = TRUE, !.lostFired = n] /\ hist \in HistoryType
    BY <1>3 DEF LoseElsewhere, Lose, TypeInv
  <2>. HIDE DEF n
  <2>2. SameWork
    BY <2>1 DEF HistoryType, SameWork
  <2>3. QED
    BY <1>1, <1>3, <2>2 DEF LoseElsewhere, driver, life, locks
<1>4. CASE GpuComplete
  BY <1>4, GpuCloses
<1>5. ASSUME NEW t \in Thread, Call(t) \/ Step(t) PROVE ClosureInv'
  <2>1. CASE Call(t)
    BY <2>1, CallCloses, RegisterCloses
  <2>2. CASE MaintainStep(t)
    BY <2>2, MaintainCloses, LockCloses, DrainCloses
  <2>3. CASE FireStep(t) \/ BufferStep(t)
    BY <2>3, BufferCloses, FireCloses
  <2>4. CASE SubmitStep(t)
    BY <2>4, SubmitCloses, TrackCloses
  <2>5. QED
    BY <1>5, <2>1, <2>2, <2>3, <2>4 DEF Step
<1>6. QED
  BY <1>2, <1>3, <1>4, <1>5 DEF Next

(***************************************************************************)
(* A work-done closure is in one place at a time, from its registration    *)
(* until it is fired: it waits for a triage, for a submission, or with the *)
(* thread that will fire it; and where it is says what has completed.      *)
(***************************************************************************)
THEOREM Closures == Spec => []ClosureInv
<1>1. Init => ClosureInv
  BY InitCloses
<1>2. TypeInv /\ TypeInv' /\ SubmissionInv /\ ClosureInv /\ [Next]_vars => ClosureInv'
  BY NextCloses
<1>3. QED
  BY <1>1, <1>2, Types, Submissions, PTL DEF Spec

(* "`closure` is guaranteed to be called" (queue.rs:1519): never twice, and *)
(* kept until it is.                                                       *)
THEOREM ClosuresKept == Spec => []WorkDoneKept
<1>1. TypeInv /\ ClosureInv => WorkDoneKept
  <2>1. SUFFICES ASSUME TypeInv, ClosureInv, NEW w \in 1..hist.works
        PROVE  hist.workFired[w] = 1 \/ (hist.workFired[w] = 0 /\ Held(w))
    BY DEF WorkDoneKept, Held, Deferred, With, Carried, Within
  <2>2. hist.works \in Nat /\ hist.works <= MaxWork /\ MaxWork \in Nat
    BY <2>1, BoundAssumption DEF TypeInv, HistoryType, ClosureInv, FiredInv
  <2>3. w \in WorkDone /\ w <= hist.works
    BY <2>1, <2>2 DEF WorkDone
  <2>4. QED
    BY <2>1, <2>3 DEF ClosureInv, FiredInv
<1>2. QED
  BY <1>1, Types, Closures, PTL

(* A closure is not told that work is done before the GPU has done it.     *)
THEOREM ClosuresInTime == Spec => []WorkDoneAfterGpu
<1>1. TypeInv /\ ClosureInv => WorkDoneAfterGpu
  BY DEF TypeInv, DeviceTypeOK, HistoryType, ClosureInv, AgeInv, WorkDoneAfterGpu
<1>2. QED
  BY <1>1, Types, Closures, PTL

-----------------------------------------------------------------------------
(* An error of the driver.                                                 *)
LEMMA LoseFails == ASSUME hist \in HistoryType, Lose PROVE Failed /\ ~valid'
<1>. DEFINE n == hist.lostFired + (IF lostClosure THEN 1 ELSE 0)
<1>1. hist' = [hist EXCEPT !.halFailed = TRUE, !.lostFired = n] /\ ~lostClosure' /\ ~valid'
  BY DEF Lose
<1>2. lostClosure' = FALSE
  BY DEF Lose
<1>3. hist'.halFailed /\ hist'.lostFired = n
  <2>. HIDE DEF n
  <2>1. QED
    BY <1>1 DEF HistoryType
<1>4. QED
  BY <1>1, <1>2, <1>3 DEF Failed

(* A thread that moves without beginning a submission, or finding that the *)
(* queue is empty, and lets go of the fence only when it is done reading.  *)
LEMMA MoveEnds ==
  ASSUME TypeInv, EndInv, NEW t \in Thread, NEW w, NEW l, Go(t, w, l),
         l.lost => loc[t].lost, w \notin Submitting \cup {"maintainResult"},
         fenceW' = fenceW, fenceR' \in {fenceR, fenceR \ {t}},
         w \in FenceReaders => pc[t] \in FenceReaders /\ fenceR' = fenceR,
         SameSubmissions(active, active'), gpu' = gpu, valid' => valid, Unreported \/ Failed
  PROVE  EndInv'
<1>1. /\ active \in Seq(Entries(WorkDone)) /\ ThreadInv /\ hist.lostFired \in Nat
      /\ lostClosure \in BOOLEAN
  BY DEF TypeInv, LifeTypeOK, DeviceTypeOK, Submission, HistoryType
<1>2. Others(t) /\ pc'[t] = w /\ loc'[t] = l
  BY <1>1, GoAt
<1>3. Quiescent => Quiescent'
  BY DEF Quiescent, SameSubmissions
<1>4. Still(t)
  BY <1>2, <1>3 DEF Still, EndInv, FenceInv
<1>5. QED
  BY <1>1, <1>4, StillKeeps

(* No call begins with the fence.                                          *)
LEMMA CallEnds ==
  ASSUME TypeInv, EndInv, NEW t \in Thread, Call(t) PROVE EndInv'
<1>1. /\ active \in Seq(Entries(WorkDone)) /\ hist \in HistoryType
      /\ SameSubmissions(active, active) /\ hist.lostFired \in Nat /\ lostClosure \in BOOLEAN
  BY SameActive DEF TypeInv, LifeTypeOK, DeviceTypeOK, Submission, SameSubmissions, HistoryType
<1>2. ASSUME NEW l, NEW w, Go(t, w, l), ~l.lost,
             w \notin Submitting \cup FenceReaders,
             UNCHANGED <<active, gpu, valid, fenceR, fenceW>>, Unreported
      PROVE EndInv'
  <2>1. SameSubmissions(active, active') /\ w # "maintainResult"
    BY <1>1, <1>2 DEF FenceReaders
  <2>2. QED
    BY <1>2, <2>1, MoveEnds
<1>3. /\ ~Nothing.lost
      /\ \A x : /\ ~[Nothing EXCEPT !.cmds = x].lost
               /\ ~[Nothing EXCEPT !.latest = TRUE, !.timed = x].lost
               /\ ~[Nothing EXCEPT !.buf = x].lost
               /\ ~[Nothing EXCEPT !.maps = x].lost
      /\ \A x, y : /\ ~[Nothing EXCEPT !.wait = x, !.timed = y].lost
                  /\ ~[Nothing EXCEPT !.buf = x, !.op = y].lost
                  /\ ~[Nothing EXCEPT !.buf = x, !.after = y].lost
  BY DEF Nothing
<1>4. UNCHANGED <<lostClosure, hist>> => Unreported
  BY DEF Unreported
<1>5. ASSUME UNCHANGED <<pc, loc, gpu, fenceR, fenceW>>, SameSubmissions(active, active'),
             valid' => valid, Unreported
      PROVE EndInv'
  <2>1. Quiescent => Quiescent'
    BY <1>1, <1>5 DEF Quiescent, SameSubmissions
  <2>2. Still(t)
    BY <1>5, <2>1 DEF Still, Others, EndInv, FenceInv, EmptyInv
  <2>3. QED
    BY <1>1, <2>2, StillKeeps
<1> USE DEF MayCall, Submitting, FenceReaders, device, life, driver, locks
<1>6. CASE CallSubmit(t)
  BY <1>2, <1>3, <1>4, <1>6 DEF CallSubmit
<1>7. CASE CallPoll(t)
  BY <1>2, <1>3, <1>4, <1>7 DEF CallPoll
<1>8. CASE CallWait(t)
  BY <1>2, <1>3, <1>4, <1>8 DEF CallWait
<1>9. CASE CallWrite(t)
  BY <1>2, <1>3, <1>4, <1>9 DEF CallWrite
<1>10. CASE CallMapAsync(t)
  <2>1. Unreported
    <3>1. PICK b : hist' = [hist EXCEPT !.maps = @ + 1, !.mapBuf[hist.maps + 1] = b]
      BY <1>10 DEF CallMapAsync
    <3>2. lostClosure' = lostClosure
      BY <1>10 DEF CallMapAsync
    <3>3. QED
      BY <1>1, <3>1, <3>2 DEF Unreported, HistoryType
  <2>2. QED
    BY <1>2, <1>3, <1>10, <2>1 DEF CallMapAsync
<1>11. CASE CallUnmap(t)
  BY <1>2, <1>3, <1>4, <1>11 DEF CallUnmap
<1>12. CASE CallDestroy(t)
  BY <1>2, <1>3, <1>4, <1>12 DEF CallDestroy
<1>13. CASE CallDrop(t)
  BY <1>2, <1>3, <1>4, <1>13 DEF CallDrop
<1>14. CASE CallWorkDone(t)
  <2>1. Unreported
    <3>1. \A x, y, z : LET h == [hist EXCEPT !.works = x, !.workIndex[x] = y, !.workMaps[x] = z]
                       IN h.lostFired = hist.lostFired /\ h.halFailed = hist.halFailed
      BY <1>1 DEF HistoryType
    <3>2. QED
      BY <1>14, <3>1 DEF CallWorkDone, Unreported
  <2>2. QED
    BY <1>1, <1>5, <1>14, <2>1, Attached DEF CallWorkDone
<1>15. CASE CallDestroyDevice(t)
  BY <1>1, <1>4, <1>5, <1>15 DEF CallDestroyDevice
<1>16. QED
  BY <1>6, <1>7, <1>8, <1>9, <1>10, <1>11, <1>12, <1>13, <1>14, <1>15 DEF Call

(* Nor do the calls on buffers touch the fence, or the end of the device.  *)
LEMMA BufferEnds ==
  ASSUME TypeInv, EndInv, NEW t \in Thread, BufferStep(t) \/ FireStep(t), ~FireLost(t)
  PROVE  EndInv'
<1>1. /\ active \in Seq(Entries(WorkDone)) /\ hist \in HistoryType /\ loc[t] \in Locals
      /\ SameSubmissions(active, active)
  BY LocType DEF TypeInv, LifeTypeOK, Submission, SameSubmissions
<1>2. ASSUME NEW l, NEW w, Go(t, w, l), l.lost => loc[t].lost,
             w \notin Submitting \cup FenceReaders,
             SameSubmissions(active, active'), UNCHANGED <<gpu, valid, fenceR, fenceW>>, Unreported
      PROVE EndInv'
  <2>1. w # "maintainResult"
    BY <1>2 DEF FenceReaders
  <2>2. QED
    BY <1>2, <2>1, MoveEnds
<1>3. ASSUME NEW x
      PROVE /\ [loc[t] EXCEPT !.maps = x].lost = loc[t].lost
            /\ [loc[t] EXCEPT !.works = x].lost = loc[t].lost
            /\ [loc[t] EXCEPT !.after = x].lost = loc[t].lost
            /\ [loc[t] EXCEPT !.tmp = x].lost = loc[t].lost
            /\ [[loc[t] EXCEPT !.tmp = x] EXCEPT !.buf = NoBuffer].lost = loc[t].lost
            /\ [loc[t] EXCEPT !.buf = NoBuffer].lost = loc[t].lost
            /\ ~[Nothing EXCEPT !.maps = x].lost
            /\ ~Nothing.lost
  BY <1>1 DEF Locals, Nothing
<1>4. UNCHANGED <<lostClosure, hist>> => Unreported
  BY DEF Unreported
<1>5. active' = active => SameSubmissions(active, active')
  BY <1>1
<1> USE DEF Submitting, FenceReaders, device, life, driver, locks
<1>6. ASSUME NEW l, LeaveDestroy(t, l), [l EXCEPT !.buf = NoBuffer].lost => loc[t].lost,
             SameSubmissions(active, active'), UNCHANGED <<gpu, valid, fenceR, fenceW>>, Unreported
      PROVE EndInv'
  BY <1>2, <1>3, <1>6 DEF LeaveDestroy
<1>7. ASSUME LeaveWrite(t), UNCHANGED <<active, gpu, valid>>, Unreported PROVE EndInv'
  BY <1>2, <1>3, <1>5, <1>7 DEF LeaveWrite
<1>8. CASE FireMapping(t)
  <2>1. Unreported
    <3>. DEFINE f == [hist.mapFired EXCEPT ![Head(loc[t].maps)] = hist.mapFired[Head(loc[t].maps)] + 1]
    <3>1. hist' = [hist EXCEPT !.mapFired = f] /\ lostClosure' = lostClosure
      BY <1>8 DEF FireMapping
    <3>. HIDE DEF f
    <3>2. QED
      BY <1>1, <3>1 DEF HistoryType, Unreported
  <2>2. QED
    BY <1>2, <1>3, <1>5, <1>8, <2>1 DEF FireMapping
<1>9. CASE FireWorkDone(t)
  <2>1. Unreported
    <3>. DEFINE f == [hist.workFired EXCEPT ![Head(loc[t].works)] = hist.workFired[Head(loc[t].works)] + 1]
    <3>1. hist' = [hist EXCEPT !.workFired = f] /\ lostClosure' = lostClosure
      BY <1>9 DEF FireWorkDone
    <3>. HIDE DEF f
    <3>2. QED
      BY <1>1, <3>1 DEF HistoryType, Unreported
  <2>2. QED
    BY <1>2, <1>3, <1>5, <1>9, <2>1 DEF FireWorkDone
<1>10. CASE Fired(t)
  <2>1. \E l, w : /\ l.lost => loc[t].lost
                  /\ w \in {"idle", "destroySnatch"} /\ Go(t, w, l)
    BY <1>3, <1>10 DEF Fired
  <2>2. QED
    BY <1>2, <1>4, <1>5, <1>10, <2>1 DEF Fired
<1>11. CASE WritePending(t)
  <2>1. CASE valid
    BY <1>2, <1>4, <1>5, <1>11, <2>1 DEF WritePending
  <2>2. CASE ~valid
    BY <1>4, <1>7, <1>11, <2>2 DEF WritePending
  <2>3. QED
    BY <2>1, <2>2
<1>12. CASE WriteTrack(t)
  <2>1. CASE loc[t].buf \notin snatched
    BY <1>2, <1>4, <1>5, <1>12, <2>1 DEF WriteTrack
  <2>2. CASE loc[t].buf \in snatched
    BY <1>4, <1>7, <1>12, <2>2 DEF WriteTrack
  <2>3. QED
    BY <2>1, <2>2
<1>13. CASE WriteCheck(t)
  BY <1>4, <1>7, <1>13 DEF WriteCheck
<1>14. CASE MapAsyncState(t)
  <2>1. \E l, w : /\ l.lost => loc[t].lost
                  /\ w \in {"mapAsyncLife", "fire"} /\ Go(t, w, l)
    BY <1>3, <1>14 DEF MapAsyncState
  <2>2. QED
    BY <1>2, <1>4, <1>5, <1>14, <2>1 DEF MapAsyncState
<1>15. CASE MapAsyncLife(t)
  <2>1. SameSubmissions(active, active')
    BY <1>1, <1>15, Attached DEF MapAsyncLife
  <2>2. Unreported
    <3>. DEFINE f == [hist.mapIndex EXCEPT ![loc[t].op] = LatestSubmissionIndex(active, loc[t].buf)]
    <3>1. hist' = [hist EXCEPT !.mapIndex = f] /\ lostClosure' = lostClosure
      BY <1>15 DEF MapAsyncLife
    <3>. HIDE DEF f
    <3>2. QED
      BY <1>1, <3>1 DEF HistoryType, Unreported
  <2>3. QED
    BY <1>2, <1>3, <1>15, <2>1, <2>2 DEF MapAsyncLife
<1>16. CASE Unmap(t)
  <2>1. \E l, w : /\ l.lost => loc[t].lost
                  /\ w \in {"fire", "unmapInit"} /\ Go(t, w, l)
    BY <1>3, <1>16 DEF Unmap
  <2>2. QED
    BY <1>2, <1>4, <1>5, <1>16, <2>1 DEF Unmap
<1>17. CASE UnmapInit(t)
  BY <1>2, <1>4, <1>5, <1>17 DEF UnmapInit
<1>18. CASE DestroySnatch(t)
  <2>1. CASE LeaveDestroy(t, loc[t])
    BY <1>3, <1>4, <1>5, <1>6, <1>18, <2>1 DEF DestroySnatch
  <2>2. CASE Go(t, "destroyPending", [loc[t] EXCEPT !.tmp = {loc[t].buf}])
    <3>. DEFINE l == [loc[t] EXCEPT !.tmp = {loc[t].buf}]
    <3>1. l.lost = loc[t].lost /\ Go(t, "destroyPending", l)
      BY <1>3, <2>2
    <3>. HIDE DEF l
    <3>2. QED
      BY <1>2, <1>4, <1>5, <1>18, <3>1 DEF DestroySnatch
  <2>3. QED
    BY <1>18, <2>1, <2>2 DEF DestroySnatch
<1>19. CASE DestroyPending(t)
  <2>1. CASE PendingContains(loc[t].buf)
    BY <1>3, <1>4, <1>5, <1>6, <1>19, <2>1 DEF DestroyPending
  <2>2. CASE ~PendingContains(loc[t].buf)
    BY <1>2, <1>4, <1>5, <1>19, <2>2 DEF DestroyPending
  <2>3. QED
    BY <2>1, <2>2
<1>20. CASE DestroyLife(t)
  <2>1. SameSubmissions(active, active')
    BY <1>1, <1>20, Attached DEF DestroyLife
  <2>2. QED
    BY <1>3, <1>4, <1>6, <1>20, <2>1 DEF DestroyLife
<1>21. QED
  BY <1>8, <1>9, <1>10, <1>11, <1>12, <1>13, <1>14, <1>15, <1>16, <1>17,
     <1>18, <1>19, <1>20 DEF BufferStep, FireStep

(* The thread that has the device-lost closure fires it, once.             *)
LEMMA LostEnds ==
  ASSUME TypeInv, EndInv, NEW t \in Thread, FireLost(t) PROVE EndInv'
<1>1. /\ ThreadInv /\ hist \in HistoryType /\ loc[t] \in Locals /\ loc[t].lost /\ pc[t] = "fire"
      /\ UNCHANGED <<gpu, active, valid, lostClosure, fenceR, fenceW>>
  BY LocType DEF TypeInv, FireLost, device, driver, life, locks
<1>2. Others(t) /\ pc'[t] = "fire" /\ ~loc'[t].lost
  <2>. DEFINE l == [loc[t] EXCEPT !.lost = FALSE]
  <2>1. Go(t, "fire", l) /\ ~l.lost
    BY <1>1 DEF FireLost, Locals
  <2>. HIDE DEF l
  <2>2. QED
    BY <1>1, <2>1, GoAt
<1>3. hist.lostFired = 0 /\ hist'.lostFired = 1 /\ hist'.halFailed = hist.halFailed
  <2>1. hist.lostFired = 0
    BY <1>1 DEF EndInv, LostInv
  <2>2. hist' = [hist EXCEPT !.lostFired = hist.lostFired + 1]
    BY DEF FireLost
  <2>3. QED
    BY <1>1, <2>1, <2>2 DEF HistoryType
<1>4. ~lostClosure /\ \A u \in Thread : ~loc'[u].lost
  BY <1>1, <1>2 DEF EndInv, LostInv, Others
<1>5. FenceInv' /\ EmptyInv'
  BY <1>1, <1>2 DEF EndInv, FenceInv, EmptyInv, Quiescent, FenceReaders, Others
<1>6. \A u \in Thread : pc'[u] = pc[u]
  BY <1>1, <1>2 DEF Others
<1>7. LostInv'
  BY <1>1, <1>3, <1>4, <1>6 DEF EndInv, LostInv, Quiescent
<1>8. QED
  BY <1>5, <1>7 DEF EndInv

(* Maintaining, but for where it takes the fence, where it looks whether   *)
(* the queue is empty and where it acts on that.                           *)
LEMMA MaintainEnds ==
  ASSUME TypeInv, EndInv, NEW t \in Thread, MaintainStep(t), ~PollFence(t),
         ~MaintainUnlock(t), ~MaintainResult(t), ~(Triage(t) /\ HeadDone(active, loc[t].done))
  PROVE  EndInv'
<1>1. /\ active \in Seq(Entries(WorkDone)) /\ hist \in HistoryType /\ loc[t] \in Locals
      /\ SameSubmissions(active, active)
  BY LocType DEF TypeInv, LifeTypeOK, Submission, SameSubmissions
<1>2. ASSUME NEW l, NEW w, Go(t, w, l), l.lost => loc[t].lost,
             w \notin Submitting \cup {"maintainResult"},
             fenceR' \in {fenceR, fenceR \ {t}},
             w \in FenceReaders => pc[t] \in FenceReaders /\ fenceR' = fenceR,
             UNCHANGED <<active, gpu, fenceW>>, valid' => valid, Unreported \/ Failed
      PROVE EndInv'
  <2>1. SameSubmissions(active, active')
    BY <1>1, <1>2
  <2>2. QED
    BY <1>2, <2>1, MoveEnds
<1>3. ASSUME NEW x
      PROVE /\ [loc[t] EXCEPT !.wait = x].lost = loc[t].lost
            /\ [loc[t] EXCEPT !.done = x].lost = loc[t].lost
            /\ [loc[t] EXCEPT !.works = x].lost = loc[t].lost
            /\ [loc[t] EXCEPT !.maps = x].lost = loc[t].lost
            /\ \A y : [loc[t] EXCEPT !.buf = x, !.op = y].lost = loc[t].lost
            /\ \A y, z : [loc[t] EXCEPT !.maps = x, !.buf = y, !.op = z].lost = loc[t].lost
            /\ [loc[t] EXCEPT !.todo = x].lost = loc[t].lost
            /\ \A y : [loc[t] EXCEPT !.todo = x, !.buf = y].lost = loc[t].lost
            /\ [loc[t] EXCEPT !.buf = x].lost = loc[t].lost
            /\ ~Nothing.lost
  BY <1>1 DEF Locals, Nothing
<1>4. UNCHANGED <<lostClosure, hist>> => Unreported
  BY DEF Unreported
<1>5. Lose => Failed /\ ~valid'
  BY <1>1, LoseFails
<1>6. ASSUME LeaveMaintain(t), UNCHANGED <<active, gpu>>, valid' => valid, Unreported \/ Failed
      PROVE EndInv'
  BY <1>2, <1>3, <1>6 DEF LeaveMaintain, Submitting, FenceReaders
<1> USE DEF Submitting, FenceReaders, device, life, driver, locks
<1>7. CASE MaintainBegin(t)
  <2>1. CASE LeaveMaintain(t)
    BY <1>4, <1>6, <1>7, <2>1 DEF MaintainBegin
  <2>2. CASE UNCHANGED locks /\ ~LeaveMaintain(t)
    <3>. DEFINE l == [loc[t] EXCEPT !.wait = WaitTarget(t)]
    <3>1. l.lost = loc[t].lost
      BY <1>3
    <3>2. \E w \in {"maintainFence", "maintainWait"} : Go(t, w, l)
      BY <1>7, <2>2 DEF MaintainBegin
    <3>. HIDE DEF l
    <3>3. QED
      BY <1>2, <1>4, <1>7, <2>2, <3>1, <3>2 DEF MaintainBegin
  <2>3. QED
    BY <1>7, <2>1, <2>2 DEF MaintainBegin
<1>8. CASE MaintainWait(t)
  BY <1>2, <1>4, <1>8 DEF MaintainWait
<1>9. CASE MaintainFence(t)
  <2>. DEFINE l == [loc[t] EXCEPT !.done = gpuDone]
  <2>1. l.lost = loc[t].lost
    BY <1>3
  <2>2. Go(t, "maintainLock", l)
    BY <1>9 DEF MaintainFence
  <2>. HIDE DEF l
  <2>3. QED
    BY <1>2, <1>4, <1>9, <2>1, <2>2 DEF MaintainFence
<1>10. CASE MaintainHalFails(t)
  BY <1>5, <1>6, <1>10 DEF MaintainHalFails
<1>11. CASE MaintainLock(t)
  <2>. DEFINE l == [loc[t] EXCEPT !.works = deferred]
  <2>1. l.lost = loc[t].lost
    BY <1>3
  <2>2. Go(t, "triage", l)
    BY <1>11 DEF MaintainLock
  <2>. HIDE DEF l
  <2>3. QED
    BY <1>2, <1>4, <1>11, <2>1, <2>2 DEF MaintainLock
<1>12. CASE Triage(t)
  BY <1>2, <1>4, <1>12 DEF Triage
<1>13. CASE MapReady(t)
  <2>1. \E l : l.lost = loc[t].lost /\
          \E w \in {"mapSet", "mapRestore", "mapReady", "panicked"} : Go(t, w, l)
    <3>. DEFINE b == Head(ready)
                l == [loc[t] EXCEPT !.buf = b, !.op = mapState[b].op]
                m == [loc[t] EXCEPT !.maps = Append(@, mapState[b].op)]
    <3>1. l.lost = loc[t].lost /\ m.lost = loc[t].lost
      BY <1>3
    <3>2. \/ Go(t, "mapSet", l) \/ Go(t, "mapRestore", l)
          \/ Go(t, "mapReady", m) \/ Go(t, "mapReady", loc[t]) \/ Go(t, "panicked", loc[t])
      BY <1>13 DEF MapReady
    <3>. HIDE DEF l, m
    <3>3. QED
      BY <3>1, <3>2
  <2>2. QED
    BY <1>2, <1>4, <1>13, <2>1 DEF MapReady
<1>14. ASSUME MapSet(t) \/ MapHalFails(t) PROVE EndInv'
  <2>1. \E l : l.lost = loc[t].lost /\ Go(t, "mapReady", l)
    <3>. DEFINE l == [loc[t] EXCEPT !.maps = Append(@, loc[t].op), !.buf = NoBuffer, !.op = 0]
    <3>1. l.lost = loc[t].lost
      BY <1>3
    <3>2. Go(t, "mapReady", l)
      BY <1>14 DEF MapSet, MapHalFails
    <3>. HIDE DEF l
    <3>3. QED
      BY <3>1, <3>2
  <2>2. /\ UNCHANGED <<active, gpu, fenceR, fenceW>> /\ (valid' => valid)
        /\ (Unreported \/ Failed) /\ pc[t] = "mapSet"
    BY <1>4, <1>5, <1>14 DEF MapSet, MapHalFails
  <2>3. QED
    BY <1>2, <2>1, <2>2
<1>15. CASE MapRestore(t)
  <2>. DEFINE l == [loc[t] EXCEPT !.buf = NoBuffer, !.op = 0]
  <2>1. l.lost = loc[t].lost
    BY <1>3
  <2>2. Go(t, "mapReady", l)
    BY <1>15 DEF MapRestore
  <2>. HIDE DEF l
  <2>3. QED
    BY <1>2, <1>4, <1>15, <2>1, <2>2 DEF MapRestore
<1>16. CASE ReleaseLock(t)
  <2>. DEFINE l == [loc[t] EXCEPT !.todo = {b \in Buffer : Referenced(b)}]
  <2>1. l.lost = loc[t].lost
    BY <1>3
  <2>2. Go(t, "releaseNext", l)
    BY <1>16 DEF ReleaseLock
  <2>. HIDE DEF l
  <2>3. QED
    BY <1>2, <1>4, <1>16, <2>1, <2>2 DEF ReleaseLock
<1>17. CASE ReleaseNext(t)
  <2>1. \E l : l.lost = loc[t].lost /\ (Go(t, "destroySnatch", l) \/ Go(t, "releaseNext", l))
    BY <1>3, <1>17 DEF ReleaseNext
  <2>2. QED
    BY <1>2, <1>4, <1>17, <2>1 DEF ReleaseNext
<1>18. CASE ReleaseDone(t)
  <2>. DEFINE l == [loc[t] EXCEPT !.buf = NoBuffer]
  <2>1. l.lost = loc[t].lost
    BY <1>3
  <2>2. Go(t, "fire", l)
    BY <1>18 DEF ReleaseDone
  <2>. HIDE DEF l
  <2>3. QED
    BY <1>2, <1>4, <1>18, <2>1, <2>2 DEF ReleaseDone
<1>19. QED
  BY <1>7, <1>8, <1>9, <1>10, <1>11, <1>12, <1>13, <1>14, <1>15, <1>16, <1>17,
     <1>18 DEF MaintainStep

(* Triage drains what leaves less in flight than there was.                *)
LEMMA DrainEnds ==
  ASSUME TypeInv, EndInv, NEW t \in Thread, Triage(t), HeadDone(active, loc[t].done)
  PROVE  EndInv'
<1>1. /\ ThreadInv /\ loc[t] \in Locals /\ active # <<>> /\ pc[t] = "triage"
      /\ UNCHANGED <<gpu, valid, lostClosure, fenceR, fenceW, hist>>
      /\ hist.lostFired \in Nat /\ lostClosure \in BOOLEAN
  BY LocType DEF TypeInv, DeviceTypeOK, HistoryType, Triage, HeadDone, device, driver, locks
<1>2. Others(t) /\ pc'[t] = "triage" /\ loc'[t].lost = loc[t].lost
  <2>. DEFINE l == [loc[t] EXCEPT !.works = ClosuresAfterHead(active, @)]
  <2>1. Go(t, "triage", l)
    BY DEF Triage
  <2>2. l.lost = loc[t].lost
    BY <1>1 DEF Locals
  <2>. HIDE DEF l
  <2>3. QED
    BY <1>1, <2>1, <2>2, GoAt
<1>3. Still(t)
  BY <1>1, <1>2 DEF Still, Unreported, Quiescent, EndInv, FenceInv, FenceReaders, Submitting
<1>4. QED
  BY <1>1, <1>3, StillKeeps

(* A thread that reads the fence keeps every submission out.               *)
LEMMA NoneSubmits ==
  ASSUME SubmissionInv, EndInv, NEW t \in Thread, pc[t] \in FenceReaders
  PROVE  fenceW = NoThread /\ \A u \in Thread : pc[u] \notin Submitting
BY ThreadAssumption DEF SubmissionInv, LockInv, EndInv, FenceInv

(* maintain takes the fence, to read.                                      *)
LEMMA PollEnds ==
  ASSUME TypeInv, EndInv, NEW t \in Thread, PollFence(t) PROVE EndInv'
<1>1. /\ ThreadInv /\ hist.lostFired \in Nat /\ lostClosure \in BOOLEAN
      /\ Go(t, "maintain", loc[t]) /\ fenceR' = fenceR \cup {t} /\ fenceW' = NoThread
      /\ UNCHANGED <<gpu, active, valid, lostClosure, hist>>
  BY DEF TypeInv, DeviceTypeOK, HistoryType, PollFence, device, driver, life
<1>2. Others(t) /\ pc'[t] = "maintain" /\ loc'[t] = loc[t]
  BY <1>1, GoAt
<1>3. Still(t)
  BY <1>1, <1>2 DEF Still, Unreported, Quiescent, Submitting
<1>4. QED
  BY <1>1, <1>3, StillKeeps

(* When the lifetime tracker has nothing, the GPU has nothing: who would   *)
(* be submitting would have the fence.                                     *)
LEMMA UnlockEnds ==
  ASSUME TypeInv, SubmissionInv, EndInv, NEW t \in Thread, MaintainUnlock(t) PROVE EndInv'
<1>1. /\ ThreadInv /\ loc[t] \in Locals /\ hist.lostFired \in Nat /\ lostClosure \in BOOLEAN
      /\ pc[t] = "mapReady" /\ UNCHANGED <<gpu, active, valid, lostClosure, fenceR, fenceW, hist>>
  BY LocType DEF TypeInv, DeviceTypeOK, HistoryType, MaintainUnlock, device, driver, life
<1>2. Others(t) /\ pc'[t] = "maintainResult" /\ loc'[t].lost = loc[t].lost
      /\ loc'[t].empty = (active = <<>>)
  <2>. DEFINE l == [loc[t] EXCEPT !.empty = (active = <<>>)]
  <2>1. Go(t, "maintainResult", l) /\ l.lost = loc[t].lost /\ l.empty = (active = <<>>)
    BY <1>1 DEF MaintainUnlock, Locals
  <2>. HIDE DEF l
  <2>2. QED
    BY <1>1, <2>1, GoAt
<1>3. active = <<>> => gpu = <<>>
  <2>1. SUFFICES ASSUME active = <<>>, gpu # <<>> PROVE FALSE
    OBVIOUS
  <2>2. 1 \in DOMAIN gpu
    <3>. DEFINE S == [index : Nat, bufs : SUBSET Buffer]
    <3>1. gpu \in Seq(S)
      BY DEF TypeInv, DeviceTypeOK
    <3>. HIDE DEF S
    <3>2. QED
      BY <2>1, <3>1
  <2>3. \E u \in Thread : pc[u] = "submitTrack"
    BY <2>1, <2>2 DEF SubmissionInv, TrackInv, Tracked
  <2>4. QED
    BY <1>1, <2>3, NoneSubmits DEF FenceReaders, Submitting
<1>4. t \in fenceR
  BY <1>1 DEF EndInv, FenceInv, FenceReaders
<1>5. Still(t)
  BY <1>1, <1>2, <1>3, <1>4 DEF Still, Unreported, Quiescent, Submitting, EndInv, FenceInv
<1>6. QED
  BY <1>1, <1>5, StillKeeps

(* The device-lost closure is taken when the device is invalid and nothing *)
(* is in flight; and then it is the only one taken.                        *)
LEMMA ResultEnds ==
  ASSUME TypeInv, SubmissionInv, EndInv, NEW t \in Thread, MaintainResult(t) PROVE EndInv'
<1>1. /\ ThreadInv /\ loc[t] \in Locals /\ pc[t] = "maintainResult"
      /\ hist.lostFired \in Nat /\ lostClosure \in BOOLEAN
      /\ fenceR' = fenceR \ {t} /\ UNCHANGED <<gpu, active, valid, fenceW, hist>>
      /\ SameSubmissions(active, active')
  BY LocType DEF TypeInv, DeviceTypeOK, HistoryType, MaintainResult, driver, life, SameSubmissions
<1>2. CASE ~AssertionHolds(t) \/ ~ShouldRelease(t)
  <2>1. lostClosure' = lostClosure /\ \E w \in {"panicked", "fire"} : Go(t, w, loc[t])
    BY <1>2 DEF MaintainResult
  <2>2. Unreported
    BY <1>1, <2>1 DEF Unreported
  <2>3. QED
    BY <1>1, <2>1, <2>2, MoveEnds DEF FenceReaders, Submitting
<1>3. CASE AssertionHolds(t) /\ ShouldRelease(t)
  <2>1. Others(t) /\ pc'[t] = "releaseLock" /\ loc'[t].lost = lostClosure
    <3>. DEFINE l == [loc[t] EXCEPT !.lost = lostClosure]
    <3>1. Go(t, "releaseLock", l) /\ l.lost = lostClosure
      BY <1>1, <1>3 DEF MaintainResult, LosingClosures, Locals
    <3>. HIDE DEF l
    <3>2. QED
      BY <1>1, <3>1, GoAt
  <2>2. lostClosure' = FALSE /\ ~valid /\ Quiescent
    BY <1>1, <1>3 DEF MaintainResult, ShouldRelease, EndInv, EmptyInv
  <2>3. \A u \in Thread : pc'[u] \notin Submitting
    <3>1. \A u \in Thread : pc[u] \notin Submitting
      BY <1>1, NoneSubmits DEF FenceReaders
    <3>2. QED
      BY <2>1, <3>1 DEF Others, Submitting
  <2>4. FenceInv' /\ EmptyInv'
    BY <1>1, <2>1 DEF EndInv, FenceInv, EmptyInv, Others, FenceReaders, Quiescent
  <2>5. \A u \in Thread : u # t => (loc'[u].lost <=> loc[u].lost)
    BY <2>1 DEF Others
  <2>6. LostInv'
    <3>1. CASE lostClosure
      BY <1>1, <2>1, <2>2, <2>3, <2>5, <3>1 DEF EndInv, LostInv, Quiescent
    <3>2. CASE ~lostClosure
      BY <1>1, <2>1, <2>2, <2>3, <2>5, <3>2 DEF EndInv, LostInv, Quiescent
    <3>3. QED
      BY <3>1, <3>2
  <2>7. QED
    BY <2>4, <2>6 DEF EndInv
<1>4. QED
  BY <1>2, <1>3

(* A submission begins on a valid device, and nobody reads the fence then. *)
LEMMA FenceEnds ==
  ASSUME TypeInv, EndInv, NEW t \in Thread, SubmitFence(t) PROVE EndInv'
<1>1. /\ ThreadInv /\ loc[t] \in Locals /\ hist.lostFired \in Nat /\ lostClosure \in BOOLEAN
      /\ UNCHANGED <<gpu, active, valid, lostClosure, hist, fenceR>> /\ fenceR = {}
  BY LocType DEF TypeInv, DeviceTypeOK, HistoryType, SubmitFence, FenceFree, device, driver, life
<1>2. /\ Others(t) /\ pc'[t] \in {"idle", "submitPrepare"}
      /\ pc'[t] = "submitPrepare" => valid
      /\ loc'[t].lost => loc[t].lost
  <2>. DEFINE l == [loc[t] EXCEPT !.idx = activeIndex + 1]
  <2>1. l.lost = loc[t].lost /\ ~Nothing.lost
    BY <1>1 DEF Locals, Nothing
  <2>2. Go(t, "idle", Nothing) \/ (Go(t, "submitPrepare", l) /\ valid)
    BY DEF SubmitFence
  <2>. HIDE DEF l
  <2>3. QED
    BY <1>1, <2>1, <2>2, GoAt
<1>3. Still(t)
  BY <1>1, <1>2 DEF Still, Unreported, Quiescent, FenceReaders, Submitting
<1>4. QED
  BY <1>1, <1>3, StillKeeps

(* A submission goes on, or comes to nothing.                              *)
LEMMA PrepareEnds ==
  ASSUME TypeInv, SubmissionInv, EndInv, NEW t \in Thread,
         SubmitPrepare(t) \/ SubmitReject(t) \/ SubmitHalFails(t)
  PROVE  EndInv'
<1>1. /\ ThreadInv /\ loc[t] \in Locals /\ hist \in HistoryType /\ hist.lostFired \in Nat
      /\ lostClosure \in BOOLEAN
      /\ UNCHANGED <<gpu, active, fenceR>> /\ pc[t] = "submitPrepare"
  BY LocType DEF TypeInv, DeviceTypeOK, HistoryType, SubmitPrepare, SubmitReject, SubmitHalFails,
                 driver, life, locks
<1>2. fenceR = {}
  BY <1>1, ThreadAssumption DEF SubmissionInv, LockInv, Submitting, EndInv, FenceInv
<1>3. /\ Others(t) /\ pc'[t] \in {"idle", "submitPrepare"}
      /\ loc'[t].lost => loc[t].lost
  <2>. DEFINE l == [loc[t] EXCEPT !.cmds = Tail(@), !.used = @ \cup Head(loc[t].cmds)]
  <2>1. l.lost = loc[t].lost /\ ~Nothing.lost
    BY <1>1 DEF Locals, Nothing
  <2>2. Go(t, "idle", Nothing) \/ Go(t, "submitPrepare", l)
    BY DEF SubmitPrepare, SubmitReject, SubmitHalFails
  <2>. HIDE DEF l
  <2>3. QED
    BY <1>1, <2>1, <2>2, GoAt
<1>4. (valid' => valid) /\ (Unreported \/ Failed)
  <2>1. CASE SubmitHalFails(t)
    BY <1>1, <2>1, LoseFails DEF SubmitHalFails
  <2>2. CASE ~SubmitHalFails(t)
    BY <2>2 DEF SubmitPrepare, SubmitReject, Unreported, device
  <2>3. QED
    BY <2>1, <2>2
<1>5. Still(t)
  BY <1>1, <1>2, <1>3, <1>4 DEF Still, Quiescent, FenceReaders, Submitting
<1>6. QED
  BY <1>1, <1>5, StillKeeps

(* A submission in progress keeps every reader out, and is not one on a    *)
(* device whose end was found.                                             *)
LEMMA SubmitterAlone ==
  ASSUME SubmissionInv, EndInv, NEW t \in Thread, pc[t] \in Submitting
  PROVE  /\ fenceW = t /\ fenceR = {} /\ \A u \in Thread : pc[u] \notin FenceReaders
         /\ hist.halFailed \/ (hist.lostFired # 1 /\ \A u \in Thread : ~loc[u].lost)
BY ThreadAssumption DEF SubmissionInv, LockInv, EndInv, FenceInv, LostInv

(* The driver takes a submission, or the lifetime tracker does.            *)
LEMMA EntrustEnds ==
  ASSUME TypeInv, SubmissionInv, EndInv, NEW t \in Thread, SubmitHal(t) \/ SubmitTrack(t)
  PROVE  EndInv'
<1>1. /\ ThreadInv /\ loc[t] \in Locals /\ hist \in HistoryType /\ pc[t] \in Submitting
      /\ UNCHANGED <<valid, lostClosure>>
  BY LocType DEF TypeInv, SubmitHal, SubmitTrack, Submitting, device
<1>2. /\ fenceW = t /\ fenceR = {} /\ (\A u \in Thread : pc[u] \notin FenceReaders)
      /\ hist.halFailed \/ (hist.lostFired # 1 /\ \A u \in Thread : ~loc[u].lost)
  BY <1>1, SubmitterAlone
<1>3. hist'.lostFired = hist.lostFired /\ hist'.halFailed = hist.halFailed
  BY <1>1 DEF SubmitHal, SubmitTrack, HistoryType
<1>4. /\ Others(t) /\ pc'[t] # "maintainResult" /\ (loc'[t].lost => loc[t].lost)
      /\ fenceR' = {} \/ (fenceR' = {t} /\ fenceW' = NoThread)
      /\ pc'[t] \in FenceReaders => t \in fenceR'
  <2>1. CASE SubmitHal(t)
    <3>. DEFINE all == loc[t].used \cup (IF recording THEN dst ELSE {})
                l == [loc[t] EXCEPT !.used = all, !.tmp = IF recording THEN temps ELSE {}]
    <3>1. l.lost = loc[t].lost
      BY <1>1 DEF Locals
    <3>2. Go(t, "submitTrack", l) /\ fenceR' = fenceR
      BY <2>1 DEF SubmitHal
    <3>. HIDE DEF l, all
    <3>3. QED
      BY <1>1, <1>2, <3>1, <3>2, GoAt DEF FenceReaders
  <2>2. CASE SubmitTrack(t)
    BY <1>1, <1>2, <2>2, GoAt DEF SubmitTrack, Nothing
  <2>3. QED
    BY <2>1, <2>2
<1>5. \A u \in Thread : u # t => pc'[u] \notin FenceReaders /\ pc'[u] # "maintainResult"
  BY <1>2, <1>4 DEF Others, FenceReaders
<1>6. FenceInv' /\ EmptyInv'
  BY <1>4, <1>5 DEF FenceInv, EmptyInv
<1>7. \A u \in Thread : loc'[u].lost => loc[u].lost
  BY <1>4 DEF Others
<1>8. LostInv'
  BY <1>1, <1>2, <1>3, <1>7 DEF EndInv, LostInv
<1>9. QED
  BY <1>6, <1>8 DEF EndInv

(* The GPU had something: nobody found the queue empty.                    *)
LEMMA GpuEnds == ASSUME EndInv, GpuComplete PROVE EndInv'
<1>1. UNCHANGED <<active, valid, lostClosure, fenceR, fenceW, pc, loc, hist>> /\ gpu # <<>>
  BY DEF GpuComplete, device, life, locks
<1>2. QED
  BY <1>1 DEF EndInv, FenceInv, EmptyInv, LostInv, Quiescent

-----------------------------------------------------------------------------
(* The device begins valid, with its closure.                              *)
LEMMA InitEnds == Init => EndInv
BY DEF Init, Nothing, NoHistory, EndInv, FenceInv, EmptyInv, LostInv, FenceReaders

(* Every step keeps the end of the device in order.                        *)
LEMMA NextEnds == TypeInv /\ SubmissionInv /\ EndInv /\ [Next]_vars => EndInv'
<1> SUFFICES ASSUME TypeInv, SubmissionInv, EndInv, [Next]_vars PROVE EndInv'
  OBVIOUS
<1>1. CASE UNCHANGED vars
  BY <1>1 DEF vars, device, driver, life, locks, EndInv, FenceInv, EmptyInv, LostInv, Quiescent
<1>2. CASE LoseElsewhere
  <2>1. /\ UNCHANGED <<gpu, active, fenceR, fenceW, pc, loc>> /\ hist \in HistoryType /\ Lose
        /\ hist.lostFired \in Nat /\ lostClosure \in BOOLEAN
    BY <1>2 DEF LoseElsewhere, TypeInv, DeviceTypeOK, HistoryType, driver, life, locks
  <2>2. Failed
    BY <2>1, LoseFails
  <2>3. FenceInv' /\ EmptyInv'
    BY <2>1 DEF EndInv, FenceInv, EmptyInv, Quiescent
  <2>4. LostInv'
    <3>1. CASE lostClosure
      BY <2>1, <2>2, <3>1 DEF EndInv, LostInv, Failed
    <3>2. CASE ~lostClosure
      BY <2>1, <2>2, <3>2 DEF EndInv, LostInv, Failed
    <3>3. QED
      BY <3>1, <3>2
  <2>5. QED
    BY <2>3, <2>4 DEF EndInv
<1>3. CASE GpuComplete
  BY <1>3, GpuEnds
<1>4. ASSUME NEW t \in Thread, Call(t) \/ Step(t) PROVE EndInv'
  <2>1. CASE Call(t)
    BY <2>1, CallEnds
  <2>2. CASE MaintainStep(t)
    BY <2>2, MaintainEnds, DrainEnds, PollEnds, UnlockEnds, ResultEnds
  <2>3. CASE FireStep(t) \/ BufferStep(t)
    BY <2>3, BufferEnds, LostEnds
  <2>4. CASE SubmitStep(t)
    BY <2>4, FenceEnds, PrepareEnds, EntrustEnds DEF SubmitStep
  <2>5. QED
    BY <1>4, <2>1, <2>2, <2>3, <2>4 DEF Step
<1>5. QED
  BY <1>1, <1>2, <1>3, <1>4 DEF Next

(***************************************************************************)
(* What maintain finds of the queue under the fence's read side still      *)
(* holds when it takes the device-lost closure, which is taken once; and   *)
(* after that no submission can begin.                                     *)
(***************************************************************************)
THEOREM DeviceEnd == Spec => []EndInv
<1>1. Init => EndInv
  BY InitEnds
<1>2. TypeInv /\ SubmissionInv /\ EndInv /\ [Next]_vars => EndInv'
  BY NextEnds
<1>3. QED
  BY <1>1, <1>2, Types, Submissions, PTL DEF Spec

(* A destroyed device is reported lost once, when the GPU has nothing left *)
(* of it.                                                                  *)
THEOREM LostOnceIdle == Spec => []LostWhenIdle
<1>1. EndInv => LostWhenIdle
  BY DEF EndInv, LostInv, Quiescent, LostWhenIdle
<1>2. QED
  BY <1>1, DeviceEnd, PTL
===============================================================================
