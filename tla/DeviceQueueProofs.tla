--------------------------- MODULE DeviceQueueProofs ---------------------------
(***************************************************************************)
(* Theorems about DeviceQueue, for any number of threads and buffers,      *)
(* whatever calls the threads make and whether the driver fails or not.    *)
(***************************************************************************)
EXTENDS DeviceQueue, WellFoundedInduction, TLAPS

-----------------------------------------------------------------------------
(***************************************************************************)
(* The methods of LifetimeTracker, for any set of buffers and any list of  *)
(* submissions, whatever the closures W they carry.                        *)
(***************************************************************************)

(* The search from the back finds a submission that uses the buffer, and   *)
(* no younger one does: what a map request waits for, and what a destroyed *)
(* handle is entrusted to.                                                 *)
LEMMA LatestUseFound ==
  ASSUME NEW W, NEW list \in Seq(Entries(W)), NEW b, Uses(list, b) # {}
  PROVE  /\ LatestUse(list, b) \in DOMAIN list
         /\ b \in list[LatestUse(list, b)].bufs
         /\ \A j \in DOMAIN list : b \in list[j].bufs => j <= LatestUse(list, b)
<1>. DEFINE U == Uses(list, b)
            T == {n \in Nat : \A j \in U : j <= n}
<1>1. U \subseteq 1..Len(list)
  BY DEF Uses
<1>2. Len(list) \in T
  BY <1>1
<1>3. PICK n \in T : \A m \in T : ~(<<m, n>> \in OpToRel(<, Nat))
  <2>1. T \subseteq Nat /\ T # {}
    BY <1>2
  <2>. HIDE DEF T
  <2>2. QED
    BY <2>1, WFMin, NatLessThanWellFounded
<1>4. \A m \in T : ~(m < n)
  BY <1>3 DEF OpToRel
<1>5. n \in U
  <2>1. SUFFICES ASSUME n \notin U PROVE FALSE
    OBVIOUS
  <2>2. PICK j \in U : TRUE
    OBVIOUS
  <2>3. \A k \in U : k < n
    BY <1>1, <2>1
  <2>4. n - 1 \in T
    BY <1>1, <2>2, <2>3
  <2>5. QED
    BY <1>4, <2>4
<1>6. \E i \in U : \A j \in U : j <= i
  BY <1>5
<1>7. LatestUse(list, b) \in U /\ \A j \in U : j <= LatestUse(list, b)
  BY <1>6 DEF LatestUse
<1>8. QED
  BY <1>7 DEF Uses

(* The index map_async hands back is a submission index. *)
LEMMA LatestIndexType ==
  ASSUME NEW W, NEW list \in Seq(Entries(W)), NEW b
  PROVE  LatestSubmissionIndex(list, b) \in Nat
<1>1. CASE Uses(list, b) = {}
  BY <1>1 DEF LatestSubmissionIndex
<1>2. CASE Uses(list, b) # {}
  <2>1. LatestUse(list, b) \in DOMAIN list
    BY <1>2, LatestUseFound
  <2>2. list[LatestUse(list, b)] \in Entries(W)
    BY <2>1
  <2>3. QED
    BY <1>2, <2>2 DEF LatestSubmissionIndex, Entries
<1>3. QED
  BY <1>1, <1>2

(* Changing one entry of a list leaves a list. *)
LEMMA EntryUpdate ==
  ASSUME NEW W, NEW list \in Seq(Entries(W)), NEW i \in DOMAIN list
  PROVE  /\ list[i] \in Entries(W)
         /\ \A e \in Entries(W) : [list EXCEPT ![i] = e] \in Seq(Entries(W))
OBVIOUS

(* LifetimeTracker::map. *)
LEMMA MapListType ==
  ASSUME NEW W, NEW list \in Seq(Entries(W)), NEW b \in Buffer
  PROVE  MapWithSubmission(list, b) \in Seq(Entries(W))
<1>1. CASE Uses(list, b) = {}
  BY <1>1 DEF MapWithSubmission
<1>2. CASE Uses(list, b) # {}
  <2>. DEFINE i == LatestUse(list, b)
              m == Append(list[i].mapped, b)
              e == [list[i] EXCEPT !.mapped = m]
  <2>1. i \in DOMAIN list /\ list[i] \in Entries(W)
    BY <1>2, LatestUseFound, EntryUpdate
  <2>2. m \in Seq(Buffer)
    BY <2>1 DEF Entries
  <2>3. e \in Entries(W)
    <3>. HIDE DEF m
    <3>. QED
      BY <2>1, <2>2 DEF Entries
  <2>4. MapWithSubmission(list, b) = [list EXCEPT ![i] = e]
    BY <1>2 DEF MapWithSubmission
  <2>5. QED
    BY <2>1, <2>3, <2>4, EntryUpdate
<1>3. QED
  BY <1>1, <1>2

(* schedule_resource_destruction. *)
LEMMA DestructionListType ==
  ASSUME NEW W, NEW list \in Seq(Entries(W)), NEW b \in Buffer
  PROVE  ScheduleResourceDestruction(list, b) \in Seq(Entries(W))
<1>1. CASE Uses(list, b) = {}
  BY <1>1 DEF ScheduleResourceDestruction
<1>2. CASE Uses(list, b) # {}
  <2>. DEFINE i == LatestUse(list, b)
              e == [list[i] EXCEPT !.temps = @ \cup {b}]
  <2>1. i \in DOMAIN list /\ list[i] \in Entries(W)
    BY <1>2, LatestUseFound, EntryUpdate
  <2>2. e \in Entries(W)
    BY <2>1 DEF Entries
  <2>3. ScheduleResourceDestruction(list, b) = [list EXCEPT ![i] = e]
    BY <1>2 DEF ScheduleResourceDestruction
  <2>4. QED
    BY <2>1, <2>2, <2>3, EntryUpdate
<1>3. QED
  BY <1>1, <1>2

(* add_work_done_closure. *)
LEMMA ClosureListType ==
  ASSUME NEW W, NEW list \in Seq(Entries(W)), NEW w \in W
  PROVE  ClosureWithSubmission(list, w) \in Seq(Entries(W))
<1>1. CASE list = <<>>
  BY <1>1 DEF ClosureWithSubmission
<1>2. CASE list # <<>>
  <2>. DEFINE i == Len(list)
              m == Append(list[i].closures, w)
              e == [list[i] EXCEPT !.closures = m]
  <2>1. i \in DOMAIN list /\ list[i] \in Entries(W)
    BY <1>2, EntryUpdate
  <2>2. m \in Seq(W)
    BY <2>1 DEF Entries
  <2>3. e \in Entries(W)
    <3>. HIDE DEF m
    <3>. QED
      BY <2>1, <2>2 DEF Entries
  <2>4. ClosureWithSubmission(list, w) = [list EXCEPT ![i] = e]
    BY <1>2 DEF ClosureWithSubmission
  <2>5. QED
    BY <2>1, <2>3, <2>4, EntryUpdate
<1>3. QED
  BY <1>1, <1>2

-----------------------------------------------------------------------------
(* The same submissions, with the same buffers, in the same order. *)
SameSubmissions(a, b) ==
    /\ DOMAIN b = DOMAIN a
    /\ \A i \in DOMAIN a : b[i].index = a[i].index /\ b[i].bufs = a[i].bufs

(* A map request, a destroyed handle and a work-done closure are attached  *)
(* to a submission without changing what the submission is.                *)
LEMMA Attached ==
  ASSUME NEW W, NEW list \in Seq(Entries(W)), NEW b, NEW w
  PROVE  /\ SameSubmissions(list, MapWithSubmission(list, b))
         /\ SameSubmissions(list, ScheduleResourceDestruction(list, b))
         /\ SameSubmissions(list, ClosureWithSubmission(list, w))
<1>1. SameSubmissions(list, list)
  BY DEF SameSubmissions
<1>2. SameSubmissions(list, MapWithSubmission(list, b))
  BY <1>1 DEF MapWithSubmission, SameSubmissions, Entries
<1>3. SameSubmissions(list, ScheduleResourceDestruction(list, b))
  BY <1>1 DEF ScheduleResourceDestruction, SameSubmissions, Entries
<1>4. SameSubmissions(list, ClosureWithSubmission(list, w))
  BY <1>1 DEF ClosureWithSubmission, SameSubmissions, Entries
<1>5. QED
  BY <1>2, <1>3, <1>4

-----------------------------------------------------------------------------
(***************************************************************************)
(* Locals: the fields an action assigns keep their types.                  *)
(***************************************************************************)

(* A thread outside every call has its locals at rest. *)
LEMMA NothingType == Nothing \in Locals /\ Nothing.after = "idle"
BY BoundAssumption DEF Nothing, Locals, Poll

(* Where a thread goes decides which operands it must have. *)
LEMMA GoType ==
  ASSUME ThreadInv, NEW t \in Thread, NEW w \in Location, NEW l \in Locals,
         Operands(w, l), Go(t, w, l)
  PROVE ThreadInv'
BY DEF Go, ThreadInv, ThreadTypeOK

(* Going back to rest. *)
LEMMA GoIdle == ASSUME ThreadInv, NEW t \in Thread, Go(t, "idle", Nothing) PROVE ThreadInv'
BY GoType, NothingType DEF Location, Operands, AtBuffer

(* The locals of a thread, and the fields they consist of. *)
LEMMA LocType ==
  ASSUME ThreadInv, NEW t \in Thread
  PROVE /\ loc[t] \in Locals /\ Operands(pc[t], loc[t])
        /\ loc[t].buf \in Buffer \cup {NoBuffer} /\ loc[t].op \in 0..MaxMap
        /\ loc[t].cmds \in Seq(SUBSET Buffer)
        /\ loc[t].used \subseteq Buffer /\ loc[t].tmp \subseteq Buffer
        /\ loc[t].idx \in Nat /\ loc[t].wait \in Nat \cup {Poll} /\ loc[t].done \in Nat
        /\ loc[t].maps \in Seq(MapOp) /\ loc[t].works \in Seq(WorkDone)
        /\ loc[t].after \in {"idle", "destroySnatch"} /\ loc[t].todo \subseteq Buffer
BY DEF ThreadInv, ThreadTypeOK, Locals

(***************************************************************************)
(* What an action leaves alone keeps its type.                             *)
(***************************************************************************)

(* The device, the indices and the driver. *)
LEMMA SameDevice ==
  ASSUME DeviceTypeOK, UNCHANGED <<device, indices, driver>> PROVE DeviceTypeOK'
BY DEF DeviceTypeOK, device, indices, driver

(* The lifetime tracker. *)
LEMMA SameLife == ASSUME LifeTypeOK, UNCHANGED life PROVE LifeTypeOK'
BY DEF LifeTypeOK, life

(* The buffers and the pending writes. *)
LEMMA SameBuffers == ASSUME BufferInv, UNCHANGED <<pending, buffers>> PROVE BufferInv'
BY DEF BufferInv, BufferTypeOK, pending, buffers

(* The locks. *)
LEMMA SameLocks == ASSUME LockTypeOK, UNCHANGED locks PROVE LockTypeOK'
BY DEF LockTypeOK, locks

(* Read-locking and read-unlocking the snatch lock. *)
LEMMA SnatchLocks ==
  ASSUME LockTypeOK, NEW t \in Thread, snatchR' \in {snatchR, snatchR \cup {t}, snatchR \ {t}},
         UNCHANGED <<fenceR, fenceW, trackersL, pendingL, lifeL, mapL>>
  PROVE LockTypeOK'
BY DEF LockTypeOK

(* The first error of the driver loses the device. *)
LEMMA LoseType ==
  ASSUME DeviceTypeOK, hist \in HistoryType, Lose, UNCHANGED <<indices, driver>>
  PROVE DeviceTypeOK' /\ hist' \in HistoryType
<1>. DEFINE n == hist.lostFired + (IF lostClosure THEN 1 ELSE 0)
<1>1. DeviceTypeOK'
  BY DEF Lose, DeviceTypeOK, indices, driver
<1>2. n \in Nat /\ hist' = [hist EXCEPT !.halFailed = TRUE, !.lostFired = n]
  BY DEF Lose, HistoryType
<1>3. hist' \in HistoryType
  <2>. HIDE DEF n
  <2>. QED
    BY <1>2 DEF HistoryType
<1>4. QED
  BY <1>1, <1>3

-----------------------------------------------------------------------------
(* The initial state has its type. *)
LEMMA InitType == Init => TypeInv
<1> SUFFICES ASSUME Init PROVE TypeInv
  OBVIOUS
<1>1. DeviceTypeOK /\ LifeTypeOK
  BY DEF Init, DeviceTypeOK, LifeTypeOK
<1>2. BufferInv
  <2>1. mapState \in [Buffer -> [st : MapStatus, op : 0..MaxMap]]
    BY BoundAssumption DEF Init, MapStatus, Idle
  <2>2. QED
    BY <2>1 DEF Init, BufferInv, BufferTypeOK, Idle
<1>3. LockTypeOK
  BY DEF Init, LockTypeOK
<1>4. ThreadInv
  BY NothingType DEF Init, ThreadInv, ThreadTypeOK, Location, Operands, AtBuffer
<1>5. hist \in HistoryType
  BY DEF Init, NoHistory, HistoryType
<1>6. QED
  BY <1>1, <1>2, <1>3, <1>4, <1>5 DEF TypeInv

(* Queue::submit. *)
LEMMA SubmitType ==
  ASSUME TypeInv, NEW t \in Thread, CallSubmit(t) \/ SubmitStep(t) PROVE TypeInv'
<1> USE DEF TypeInv
<1>l. /\ loc[t] \in Locals /\ loc[t].cmds \in Seq(SUBSET Buffer)
      /\ loc[t].used \subseteq Buffer /\ loc[t].tmp \subseteq Buffer /\ loc[t].idx \in Nat
      /\ Operands(pc[t], loc[t])
  BY LocType
<1>1. CASE CallSubmit(t)
  <2>1. PICK batch \in Batches : Go(t, "submitFence", [Nothing EXCEPT !.cmds = batch])
    BY <1>1 DEF CallSubmit
  <2>. DEFINE l == [Nothing EXCEPT !.cmds = batch]
  <2>2. l \in Locals /\ l.after = "idle"
    BY NothingType, BatchesAssumption DEF Locals
  <2>3. ThreadInv'
    <3>1. Go(t, "submitFence", l)
      BY <2>1
    <3>. HIDE DEF l
    <3>2. QED
      BY <2>2, <3>1, GoType DEF Location, Operands, AtBuffer
  <2>4. /\ UNCHANGED <<device, indices, driver, life, pending, buffers, hist>>
        /\ snatchR' = snatchR \cup {t}
        /\ UNCHANGED <<fenceR, fenceW, trackersL, pendingL, lifeL, mapL>>
    BY <1>1 DEF CallSubmit
  <2>5. DeviceTypeOK' /\ LifeTypeOK' /\ BufferInv'
    BY <2>4, SameDevice, SameLife, SameBuffers
  <2>6. LockTypeOK'
    BY <2>4, SnatchLocks
  <2>7. QED
    BY <2>3, <2>4, <2>5, <2>6
<1>2. CASE SubmitFence(t)
  <2>1. DeviceTypeOK' /\ LockTypeOK'
    BY <1>2 DEF SubmitFence, DeviceTypeOK, LockTypeOK, device, driver
  <2>. DEFINE l == [loc[t] EXCEPT !.idx = activeIndex + 1]
  <2>2. l \in Locals /\ l.after = loc[t].after /\ l.buf = loc[t].buf
    <3>1. activeIndex + 1 \in Nat
      BY DEF DeviceTypeOK
    <3>2. QED
      BY <1>l, <3>1 DEF Locals
  <2>3. ThreadInv'
    <3>1. CASE valid
      <4>1. Go(t, "submitPrepare", l) /\ pc[t] = "submitFence"
        BY <1>2, <3>1 DEF SubmitFence
      <4>. HIDE DEF l
      <4>. QED
        BY <4>1, <1>l, <2>2, GoType DEF Location, Operands, AtBuffer
    <3>2. CASE ~valid
      BY <1>2, <3>2, GoIdle DEF SubmitFence
    <3>3. QED
      BY <3>1, <3>2
  <2>4. QED
    BY <1>2, <2>1, <2>3, SameLife, SameBuffers DEF SubmitFence
<1>3. CASE SubmitPrepare(t)
  <2>1. Head(loc[t].cmds) \subseteq Buffer /\ Tail(loc[t].cmds) \in Seq(SUBSET Buffer)
    BY <1>3, <1>l DEF SubmitPrepare
  <2>. DEFINE l == [loc[t] EXCEPT !.cmds = Tail(@), !.used = @ \cup Head(loc[t].cmds)]
  <2>2. l \in Locals /\ l.after = loc[t].after /\ l.buf = loc[t].buf
    BY <1>l, <2>1 DEF Locals
  <2>3. ThreadInv'
    BY <1>3, <1>l, <2>2, GoType DEF SubmitPrepare, Location, Operands, AtBuffer
  <2>4. QED
    BY <1>3, <2>3, SameDevice, SameLife, SameBuffers, SameLocks DEF SubmitPrepare
<1>4. CASE SubmitReject(t)
  <2>1. ThreadInv' /\ LockTypeOK'
    BY <1>4, GoIdle DEF SubmitReject, LockTypeOK
  <2>2. QED
    BY <1>4, <2>1, SameDevice, SameLife, SameBuffers DEF SubmitReject
<1>5. CASE SubmitHal(t)
  <2>. DEFINE all == loc[t].used \cup (IF recording THEN dst ELSE {})
              l == [loc[t] EXCEPT !.used = all, !.tmp = IF recording THEN temps ELSE {}]
  <2>1. dst \subseteq Buffer /\ temps \subseteq Buffer
    BY DEF BufferInv, BufferTypeOK
  <2>2. l \in Locals /\ l.after = loc[t].after /\ l.buf = loc[t].buf
    BY <1>l, <2>1 DEF Locals
  <2>3. ThreadInv'
    <3>1. Go(t, "submitTrack", l) /\ pc[t] = "submitPrepare"
      BY <1>5 DEF SubmitHal
    <3>. HIDE DEF l
    <3>. QED
      BY <3>1, <1>l, <2>2, GoType DEF Location, Operands, AtBuffer
  <2>4. [index |-> loc[t].idx, bufs |-> all] \in [index : Nat, bufs : SUBSET Buffer]
    BY <1>l, <2>1
  <2>5. DeviceTypeOK'
    BY <1>5, <1>l, <2>4 DEF SubmitHal, DeviceTypeOK, device
  <2>6. LockTypeOK'
    BY <1>5 DEF SubmitHal, LockTypeOK
  <2>7. BufferInv'
    BY <1>5 DEF SubmitHal, PreSubmit, BufferInv, BufferTypeOK, buffers
  <2>8. QED
    BY <1>5, <2>3, <2>5, <2>6, <2>7, SameLife DEF SubmitHal
<1>6. CASE SubmitHalFails(t)
  <2>1. ThreadInv' /\ LockTypeOK'
    BY <1>6, GoIdle DEF SubmitHalFails, LockTypeOK
  <2>2. BufferInv'
    BY <1>6 DEF SubmitHalFails, PreSubmit, BufferInv, BufferTypeOK, buffers, pending
  <2>3. QED
    BY <1>6, <2>1, <2>2, LoseType, SameLife DEF SubmitHalFails
<1>7. CASE SubmitTrack(t)
  <2>1. Entry(loc[t].idx, loc[t].used, loc[t].tmp) \in Submission
    BY <1>l DEF Entry, Submission, Entries
  <2>2. LifeTypeOK'
    BY <1>7, <2>1 DEF SubmitTrack, TrackSubmission, LifeTypeOK
  <2>3. ThreadInv'
    BY <1>7, NothingType, GoType DEF SubmitTrack, Location, Operands, AtBuffer
  <2>4. LockTypeOK'
    BY <1>7 DEF SubmitTrack, LockTypeOK
  <2>5. hist' \in HistoryType
    BY <1>7, <1>l DEF SubmitTrack, HistoryType
  <2>6. QED
    BY <1>7, <2>2, <2>3, <2>4, <2>5, SameDevice, SameBuffers DEF SubmitTrack
<1>8. QED
  BY <1>1, <1>2, <1>3, <1>4, <1>5, <1>6, <1>7 DEF SubmitStep

(* Device::poll, Device::maintain and Device::release_gpu_resources. *)
LEMMA MaintainType ==
  ASSUME TypeInv, NEW t \in Thread, CallPoll(t) \/ CallWait(t) \/ MaintainStep(t)
  PROVE TypeInv'
<1> USE DEF TypeInv
<1>l. /\ loc[t] \in Locals /\ Operands(pc[t], loc[t])
      /\ loc[t].buf \in Buffer \cup {NoBuffer} /\ loc[t].op \in 0..MaxMap
      /\ loc[t].wait \in Nat \cup {Poll} /\ loc[t].done \in Nat
      /\ loc[t].maps \in Seq(MapOp) /\ loc[t].works \in Seq(WorkDone)
      /\ loc[t].todo \subseteq Buffer
  BY LocType
<1>1. CASE CallPoll(t)
  <2>1. ThreadInv'
    BY <1>1, NothingType, GoType DEF CallPoll, Location, Operands, AtBuffer
  <2>2. QED
    BY <1>1, <2>1, SameDevice, SameLife, SameBuffers, SnatchLocks DEF CallPoll
<1>2. CASE CallWait(t)
  <2>1. PICK timed \in BOOLEAN :
          \/ \E i \in 1..MaxSubmit :
                Go(t, "pollFence", [Nothing EXCEPT !.wait = i, !.timed = timed])
          \/ Go(t, "pollFence", [Nothing EXCEPT !.latest = TRUE, !.timed = timed])
    BY <1>2 DEF CallWait
  <2>. DEFINE one(i) == [Nothing EXCEPT !.wait = i, !.timed = timed]
              last == [Nothing EXCEPT !.latest = TRUE, !.timed = timed]
  <2>2. \A i \in 1..MaxSubmit : one(i) \in Locals /\ one(i).after = "idle"
    <3>1. ASSUME NEW i \in 1..MaxSubmit PROVE one(i) \in Locals /\ one(i).after = "idle"
      <4>1. i \in Nat
        BY BoundAssumption
      <4>2. QED
        BY <4>1, NothingType DEF Locals
    <3>2. QED
      BY <3>1
  <2>3. last \in Locals /\ last.after = "idle"
    BY NothingType DEF Locals
  <2>4. ThreadInv'
    <3>. HIDE DEF one, last
    <3>1. \A l \in Locals : l.after = "idle" /\ Go(t, "pollFence", l) => ThreadInv'
      BY GoType DEF Location, Operands, AtBuffer
    <3>2. (\E i \in 1..MaxSubmit : Go(t, "pollFence", one(i))) \/ Go(t, "pollFence", last)
      BY <2>1 DEF one, last
    <3>3. QED
      BY <2>2, <2>3, <3>1, <3>2
  <2>5. QED
    BY <1>2, <2>4, SameDevice, SameLife, SameBuffers, SnatchLocks DEF CallWait
<1>3. CASE PollFence(t)
  <2>1. ThreadInv' /\ LockTypeOK'
    BY <1>3, <1>l, GoType DEF PollFence, Location, Operands, AtBuffer, LockTypeOK
  <2>2. QED
    BY <1>3, <2>1, SameDevice, SameLife, SameBuffers DEF PollFence
<1>4. ASSUME LeaveMaintain(t) PROVE ThreadInv' /\ LockTypeOK'
  BY <1>4, GoIdle DEF LeaveMaintain, LockTypeOK
<1>5. CASE MaintainBegin(t)
  <2>. DEFINE l == [loc[t] EXCEPT !.wait = WaitTarget(t)]
              where == IF WaitTarget(t) = Poll THEN "maintainFence" ELSE "maintainWait"
  <2>1. WaitTarget(t) \in Nat \cup {Poll}
    BY <1>l DEF WaitTarget, DeviceTypeOK
  <2>2. l \in Locals /\ l.after = loc[t].after /\ l.buf = loc[t].buf
    BY <1>l, <2>1 DEF Locals
  <2>3. \/ LeaveMaintain(t)
        \/ Go(t, where, l) /\ UNCHANGED locks
    BY <1>5 DEF MaintainBegin
  <2>4. where \in {"maintainFence", "maintainWait"} /\ pc[t] = "maintain"
    BY <1>5 DEF MaintainBegin
  <2>5. ThreadInv' /\ LockTypeOK'
    <3>. HIDE DEF l, where
    <3>. QED
      BY <1>4, <1>l, <2>2, <2>3, <2>4, GoType, SameLocks DEF Location, Operands, AtBuffer
  <2>6. QED
    BY <1>5, <2>5, SameDevice, SameLife, SameBuffers DEF MaintainBegin
<1>6. CASE MaintainWait(t)
  <2>1. ThreadInv'
    BY <1>6, <1>l, GoType DEF MaintainWait, Location, Operands, AtBuffer
  <2>2. QED
    BY <1>6, <2>1, SameDevice, SameLife, SameBuffers, SameLocks DEF MaintainWait
<1>7. CASE MaintainFence(t)
  <2>. DEFINE l == [loc[t] EXCEPT !.done = gpuDone]
  <2>1. gpuDone \in Nat
    BY DEF DeviceTypeOK
  <2>2. l \in Locals /\ l.after = loc[t].after /\ l.buf = loc[t].buf
    BY <1>l, <2>1 DEF Locals
  <2>3. ThreadInv'
    BY <1>7, <1>l, <2>2, GoType DEF MaintainFence, Location, Operands, AtBuffer
  <2>4. QED
    BY <1>7, <2>3, SameDevice, SameLife, SameBuffers, SameLocks DEF MaintainFence
<1>8. CASE MaintainHalFails(t)
  BY <1>8, <1>4, LoseType, SameLife, SameBuffers DEF MaintainHalFails
<1>9. CASE MaintainLock(t)
  <2>. DEFINE l == [loc[t] EXCEPT !.works = deferred]
  <2>1. deferred \in Seq(WorkDone)
    BY DEF LifeTypeOK
  <2>2. l \in Locals /\ l.after = loc[t].after /\ l.buf = loc[t].buf
    BY <1>l, <2>1 DEF Locals
  <2>3. ThreadInv'
    BY <1>9, <1>l, <2>2, GoType DEF MaintainLock, Location, Operands, AtBuffer
  <2>4. LifeTypeOK' /\ LockTypeOK'
    BY <1>9 DEF MaintainLock, LifeTypeOK, LockTypeOK
  <2>5. QED
    BY <1>9, <2>3, <2>4, SameDevice, SameBuffers DEF MaintainLock
<1>10. CASE Triage(t)
  <2>1. active \in Seq(Submission) /\ ready \in Seq(Buffer)
    BY DEF LifeTypeOK
  <2>2. CASE HeadDone(active, loc[t].done)
    <3>1. Head(active) \in Submission /\ Tail(active) \in Seq(Submission)
      BY <2>1, <2>2 DEF HeadDone
    <3>2. /\ ReadyAfterHead(active, ready) \in Seq(Buffer)
          /\ ClosuresAfterHead(active, loc[t].works) \in Seq(WorkDone)
      BY <1>l, <2>1, <3>1 DEF ReadyAfterHead, ClosuresAfterHead, Submission, Entries
    <3>. DEFINE l == [loc[t] EXCEPT !.works = ClosuresAfterHead(active, @)]
    <3>3. l \in Locals /\ l.after = loc[t].after /\ l.buf = loc[t].buf
      BY <1>l, <3>2 DEF Locals
    <3>4. ThreadInv'
      BY <1>10, <2>2, <1>l, <3>3, GoType DEF Triage, Location, Operands, AtBuffer
    <3>5. LifeTypeOK'
      BY <1>10, <2>2, <3>1, <3>2 DEF Triage, LifeTypeOK
    <3>6. QED
      BY <1>10, <3>4, <3>5, SameDevice, SameBuffers, SameLocks DEF Triage
  <2>3. CASE ~HeadDone(active, loc[t].done)
    <3>1. ThreadInv'
      BY <1>10, <2>3, <1>l, GoType DEF Triage, Location, Operands, AtBuffer
    <3>2. LifeTypeOK'
      BY <1>10, <2>3 DEF Triage, LifeTypeOK
    <3>3. QED
      BY <1>10, <3>1, <3>2, SameDevice, SameBuffers, SameLocks DEF Triage
  <2>4. QED
    BY <2>2, <2>3
<1>11. CASE MapReady(t)
  <2>. DEFINE b == Head(ready)
              was == mapState[b]
              l == [loc[t] EXCEPT !.buf = b, !.op = was.op]
              refused == [loc[t] EXCEPT !.maps = Append(@, was.op)]
  <2>1. b \in Buffer /\ Tail(ready) \in Seq(Buffer)
    BY <1>11 DEF MapReady, LifeTypeOK
  <2>2. was.op \in 0..MaxMap /\ (was.st = "Waiting" => was.op \in MapOp)
    BY <2>1 DEF BufferInv, BufferTypeOK
  <2>3. l \in Locals /\ l.buf = b /\ l.op = was.op /\ l.after = loc[t].after
    <3>1. b \in Buffer /\ was.op \in 0..MaxMap
      BY <2>1, <2>2
    <3>. HIDE DEF b, was
    <3>2. QED
      BY <1>l, <3>1 DEF Locals
  <2>4. was.st = "Waiting" =>
          refused \in Locals /\ refused.after = loc[t].after /\ refused.buf = loc[t].buf
    <3>1. was.st = "Waiting" => Append(loc[t].maps, was.op) \in Seq(MapOp)
      BY <1>l, <2>2
    <3>. HIDE DEF was
    <3>2. QED
      BY <1>l, <3>1 DEF Locals
  <2>5. pc[t] = "mapReady"
    BY <1>11 DEF MapReady
  <2>6. \/ was.st = "Waiting" /\ Go(t, "mapSet", l)
        \/ was.st = "Waiting" /\ Go(t, "mapReady", refused)
        \/ Go(t, "mapRestore", l)
        \/ Go(t, "panicked", loc[t])
        \/ Go(t, "mapReady", loc[t])
    BY <1>11 DEF MapReady, RefuseMap
  <2>7. ThreadInv'
    <3>. HIDE DEF b, was, l, refused
    <3>1. CASE was.st = "Waiting" /\ Go(t, "mapSet", l)
      BY <3>1, <1>l, <2>1, <2>2, <2>3, <2>5, GoType DEF Location, Operands, AtBuffer
    <3>2. CASE was.st = "Waiting" /\ Go(t, "mapReady", refused)
      BY <3>2, <1>l, <2>4, <2>5, GoType DEF Location, Operands, AtBuffer
    <3>3. CASE Go(t, "mapRestore", l)
      BY <3>3, <1>l, <2>1, <2>3, <2>5, GoType DEF Location, Operands, AtBuffer
    <3>4. CASE Go(t, "panicked", loc[t]) \/ Go(t, "mapReady", loc[t])
      BY <3>4, <1>l, <2>5, GoType DEF Location, Operands, AtBuffer
    <3>5. QED
      BY <2>6, <3>1, <3>2, <3>3, <3>4
  <2>8. LifeTypeOK'
    BY <1>11, <2>1 DEF MapReady, LifeTypeOK
  <2>9. BufferInv'
    <3>1. mapState' = [mapState EXCEPT ![b] = Idle] /\ UNCHANGED <<pending, snatched, handle>>
      BY <1>11 DEF MapReady
    <3>2. Idle \in [st : MapStatus, op : 0..MaxMap] /\ Idle.st = "Idle"
      BY BoundAssumption DEF Idle, MapStatus
    <3>. HIDE DEF b
    <3>3. QED
      BY <3>1, <3>2 DEF BufferInv, BufferTypeOK, pending
  <2>10. QED
    BY <1>11, <2>7, <2>8, <2>9, SameDevice, SameLocks DEF MapReady
<1>12. CASE MapSet(t)
  <2>. DEFINE l == [loc[t] EXCEPT !.maps = Append(@, loc[t].op), !.buf = NoBuffer, !.op = 0]
  <2>1. loc[t].op \in MapOp /\ pc[t] = "mapSet"
    BY <1>12, <1>l DEF MapSet, Operands
  <2>2. l \in Locals /\ l.after = loc[t].after
    <3>. DEFINE m == Append(loc[t].maps, loc[t].op)
    <3>1. m \in Seq(MapOp)
      BY <1>l, <2>1
    <3>. DEFINE k == [loc[t] EXCEPT !.maps = m]
    <3>2. l = [k EXCEPT !.buf = NoBuffer, !.op = 0]
      BY <1>l DEF Locals
    <3>3. 0 \in 0..MaxMap
      BY BoundAssumption
    <3>4. k \in Locals /\ k.after = loc[t].after
      <4>. HIDE DEF m
      <4>1. QED
        BY <1>l, <3>1 DEF Locals
    <3>. HIDE DEF k, m
    <3>5. QED
      BY <3>2, <3>3, <3>4 DEF Locals
  <2>3. ThreadInv'
    <3>1. Go(t, "mapReady", l)
      BY <1>12 DEF MapSet
    <3>. HIDE DEF l
    <3>2. QED
      BY <1>l, <2>1, <2>2, <3>1, GoType DEF Location, Operands, AtBuffer
  <2>4. BufferInv'
    <3>1. [st |-> "Active", op |-> loc[t].op] \in [st : MapStatus, op : 0..MaxMap]
      BY <1>l DEF MapStatus
    <3>2. QED
      BY <1>12, <3>1 DEF MapSet, BufferInv, BufferTypeOK, pending
  <2>5. QED
    BY <1>12, <2>3, <2>4, SameDevice, SameLife, SameLocks DEF MapSet
<1>13. CASE MapRestore(t)
  <2>. DEFINE l == [loc[t] EXCEPT !.buf = NoBuffer, !.op = 0]
  <2>1. l \in Locals /\ l.after = loc[t].after /\ pc[t] = "mapRestore"
    <3>1. 0 \in 0..MaxMap
      BY BoundAssumption
    <3>2. QED
      BY <1>13, <1>l, <3>1 DEF Locals, MapRestore
  <2>2. ThreadInv'
    <3>1. Go(t, "mapReady", l)
      BY <1>13 DEF MapRestore
    <3>. HIDE DEF l
    <3>2. QED
      BY <1>l, <2>1, <3>1, GoType DEF Location, Operands, AtBuffer
  <2>3. BufferInv'
    <3>1. [st |-> "Active", op |-> loc[t].op] \in [st : MapStatus, op : 0..MaxMap]
      BY <1>l DEF MapStatus
    <3>2. QED
      BY <1>13, <3>1 DEF MapRestore, BufferInv, BufferTypeOK, pending
  <2>4. QED
    BY <1>13, <2>2, <2>3, SameDevice, SameLife, SameLocks DEF MapRestore
<1>14. CASE MaintainUnlock(t)
  <2>. DEFINE l == [loc[t] EXCEPT !.empty = (active = <<>>)]
  <2>1. l \in Locals /\ l.after = loc[t].after /\ pc[t] = "mapReady"
    BY <1>14, <1>l DEF Locals, MaintainUnlock
  <2>2. ThreadInv'
    <3>1. Go(t, "maintainResult", l)
      BY <1>14 DEF MaintainUnlock
    <3>. HIDE DEF l
    <3>2. QED
      BY <1>l, <2>1, <3>1, GoType DEF Location, Operands, AtBuffer
  <2>3. LockTypeOK'
    BY <1>14 DEF MaintainUnlock, LockTypeOK
  <2>4. QED
    BY <1>14, <2>2, <2>3, SameDevice, SameLife, SameBuffers DEF MaintainUnlock
<1>15. CASE MaintainResult(t)
  <2>. DEFINE l == LosingClosures(t)
  <2>1. l \in Locals /\ l.after = loc[t].after /\ pc[t] = "maintainResult"
    BY <1>15, <1>l DEF Locals, LosingClosures, MaintainResult, DeviceTypeOK
  <2>2. ThreadInv'
    <3>1. \/ Go(t, "panicked", loc[t])
          \/ Go(t, "releaseLock", l)
          \/ Go(t, "fire", loc[t])
      BY <1>15 DEF MaintainResult
    <3>. HIDE DEF l
    <3>2. QED
      BY <1>l, <2>1, <3>1, GoType DEF Location, Operands, AtBuffer
  <2>3. DeviceTypeOK' /\ LockTypeOK'
    BY <1>15 DEF MaintainResult, DeviceTypeOK, LockTypeOK, indices, driver
  <2>4. QED
    BY <1>15, <2>2, <2>3, SameLife, SameBuffers DEF MaintainResult
<1>16. CASE ReleaseLock(t)
  <2>. DEFINE all == {b \in Buffer : Referenced(b)}
              l == [loc[t] EXCEPT !.todo = all]
  <2>1. l \in Locals /\ l.after = loc[t].after /\ pc[t] = "releaseLock"
    <3>1. all \subseteq Buffer /\ pc[t] = "releaseLock"
      BY <1>16 DEF ReleaseLock
    <3>. HIDE DEF all
    <3>2. QED
      BY <3>1, <1>l DEF Locals
  <2>2. ThreadInv'
    <3>1. Go(t, "releaseNext", l)
      BY <1>16 DEF ReleaseLock
    <3>. HIDE DEF l
    <3>2. QED
      BY <1>l, <2>1, <3>1, GoType DEF Location, Operands, AtBuffer
  <2>3. LockTypeOK'
    BY <1>16 DEF ReleaseLock, LockTypeOK
  <2>4. QED
    BY <1>16, <2>2, <2>3, SameDevice, SameLife, SameBuffers DEF ReleaseLock
<1>17. CASE ReleaseNext(t)
  <2>1. PICK b \in loc[t].todo :
          Go(t, IF Referenced(b) THEN "destroySnatch" ELSE "releaseNext",
             [loc[t] EXCEPT !.todo = @ \ {b}, !.buf = IF Referenced(b) THEN b ELSE NoBuffer])
    BY <1>17 DEF ReleaseNext
  <2>. DEFINE l(x) == [loc[t] EXCEPT !.todo = @ \ {b}, !.buf = x]
  <2>2. ASSUME NEW x \in Buffer \cup {NoBuffer}
        PROVE l(x) \in Locals /\ l(x).after = loc[t].after /\ l(x).buf = x
    BY <1>l DEF Locals
  <2>3. (Go(t, "destroySnatch", l(b))) \/ (Go(t, "releaseNext", l(NoBuffer)))
    BY <2>1
  <2>4. b \in Buffer /\ pc[t] = "releaseNext"
    BY <1>17, <1>l DEF ReleaseNext
  <2>5. ThreadInv'
    <3>. HIDE DEF l
    <3>1. CASE Go(t, "destroySnatch", l(b))
      BY <3>1, <1>l, <2>2, <2>4, GoType DEF Location, Operands, AtBuffer
    <3>2. CASE Go(t, "releaseNext", l(NoBuffer))
      BY <3>2, <1>l, <2>2, <2>4, GoType DEF Location, Operands, AtBuffer
    <3>3. QED
      BY <2>3, <3>1, <3>2
  <2>6. QED
    BY <1>17, <2>5, SameDevice, SameLife, SameBuffers, SameLocks DEF ReleaseNext
<1>18. CASE ReleaseDone(t)
  <2>. DEFINE l == [loc[t] EXCEPT !.buf = NoBuffer]
  <2>1. l \in Locals /\ l.after = loc[t].after /\ pc[t] = "releaseNext"
    BY <1>18, <1>l DEF Locals, ReleaseDone
  <2>2. ThreadInv'
    <3>1. Go(t, "fire", l)
      BY <1>18 DEF ReleaseDone
    <3>. HIDE DEF l
    <3>2. QED
      BY <1>l, <2>1, <3>1, GoType DEF Location, Operands, AtBuffer
  <2>3. LockTypeOK'
    BY <1>18 DEF ReleaseDone, LockTypeOK
  <2>4. QED
    BY <1>18, <2>2, <2>3, SameDevice, SameLife, SameBuffers DEF ReleaseDone
<1>19. CASE MapHalFails(t)
  <2>. DEFINE l == [loc[t] EXCEPT !.maps = Append(@, loc[t].op), !.buf = NoBuffer, !.op = 0]
  <2>1. loc[t].op \in MapOp /\ pc[t] = "mapSet"
    BY <1>19, <1>l DEF MapHalFails, Operands
  <2>2. l \in Locals /\ l.after = loc[t].after
    <3>. DEFINE m == Append(loc[t].maps, loc[t].op)
    <3>1. m \in Seq(MapOp)
      BY <1>l, <2>1
    <3>. DEFINE k == [loc[t] EXCEPT !.maps = m]
    <3>2. l = [k EXCEPT !.buf = NoBuffer, !.op = 0]
      BY <1>l DEF Locals
    <3>3. 0 \in 0..MaxMap
      BY BoundAssumption
    <3>4. k \in Locals /\ k.after = loc[t].after
      <4>. HIDE DEF m
      <4>1. QED
        BY <1>l, <3>1 DEF Locals
    <3>. HIDE DEF k, m
    <3>5. QED
      BY <3>2, <3>3, <3>4 DEF Locals
  <2>3. ThreadInv'
    <3>1. Go(t, "mapReady", l)
      BY <1>19 DEF MapHalFails
    <3>. HIDE DEF l
    <3>2. QED
      BY <1>l, <2>1, <2>2, <3>1, GoType DEF Location, Operands, AtBuffer
  <2>4. QED
    BY <1>19, <2>3, LoseType, SameLife, SameBuffers, SameLocks DEF MapHalFails
<1>20. QED
  BY <1>1, <1>2, <1>3, <1>5, <1>6, <1>7, <1>8, <1>9, <1>10, <1>11,
     <1>12, <1>13, <1>14, <1>15, <1>16, <1>17, <1>18, <1>19 DEF MaintainStep

(* UserClosures::fire. *)
LEMMA FireType == ASSUME TypeInv, NEW t \in Thread, FireStep(t) PROVE TypeInv'
<1> USE DEF TypeInv
<1>l. /\ loc[t] \in Locals /\ Operands(pc[t], loc[t])
      /\ loc[t].maps \in Seq(MapOp) /\ loc[t].works \in Seq(WorkDone)
  BY LocType
<1>1. ASSUME NEW l \in Locals, pc[t] = "fire", Go(t, "fire", l),
             l.after = loc[t].after, l.buf = loc[t].buf
      PROVE ThreadInv'
  BY <1>1, <1>l, GoType DEF Location, Operands, AtBuffer
<1>2. CASE FireMapping(t)
  <2>. DEFINE l == [loc[t] EXCEPT !.maps = Tail(@)]
              o == Head(loc[t].maps)
  <2>1. o \in MapOp /\ Tail(loc[t].maps) \in Seq(MapOp)
    BY <1>2, <1>l DEF FireMapping
  <2>2. l \in Locals /\ l.after = loc[t].after /\ l.buf = loc[t].buf
    BY <1>l, <2>1 DEF Locals
  <2>3. ThreadInv'
    <3>1. pc[t] = "fire" /\ Go(t, "fire", l)
      BY <1>2 DEF FireMapping
    <3>. HIDE DEF l
    <3>2. QED
      BY <1>1, <2>2, <3>1
  <2>4. hist' \in HistoryType
    <3>. DEFINE f == [hist.mapFired EXCEPT ![o] = hist.mapFired[o] + 1]
    <3>1. hist' = [hist EXCEPT !.mapFired = f]
      BY <1>2 DEF FireMapping
    <3>2. f \in [MapOp -> Nat]
      <4>1. hist.mapFired \in [MapOp -> Nat]
        BY DEF HistoryType
      <4>2. hist.mapFired[o] + 1 \in Nat
        BY <2>1, <4>1
      <4>3. QED
        BY <4>1, <4>2
    <3>. HIDE DEF f
    <3>3. QED
      BY <3>1, <3>2 DEF HistoryType
  <2>5. QED
    BY <1>2, <2>3, <2>4, SameDevice, SameLife, SameBuffers, SameLocks DEF FireMapping
<1>3. CASE FireWorkDone(t)
  <2>. DEFINE l == [loc[t] EXCEPT !.works = Tail(@)]
              w == Head(loc[t].works)
  <2>1. w \in WorkDone /\ Tail(loc[t].works) \in Seq(WorkDone)
    BY <1>3, <1>l DEF FireWorkDone
  <2>2. l \in Locals /\ l.after = loc[t].after /\ l.buf = loc[t].buf
    BY <1>l, <2>1 DEF Locals
  <2>3. ThreadInv'
    <3>1. pc[t] = "fire" /\ Go(t, "fire", l)
      BY <1>3 DEF FireWorkDone
    <3>. HIDE DEF l
    <3>2. QED
      BY <1>1, <2>2, <3>1
  <2>4. hist' \in HistoryType
    <3>. DEFINE f == [hist.workFired EXCEPT ![w] = hist.workFired[w] + 1]
    <3>1. hist' = [hist EXCEPT !.workFired = f]
      BY <1>3 DEF FireWorkDone
    <3>2. f \in [WorkDone -> Nat]
      <4>1. hist.workFired \in [WorkDone -> Nat]
        BY DEF HistoryType
      <4>2. hist.workFired[w] + 1 \in Nat
        BY <2>1, <4>1
      <4>3. QED
        BY <4>1, <4>2
    <3>. HIDE DEF f
    <3>3. QED
      BY <3>1, <3>2 DEF HistoryType
  <2>5. QED
    BY <1>3, <2>3, <2>4, SameDevice, SameLife, SameBuffers, SameLocks DEF FireWorkDone
<1>4. CASE FireLost(t)
  <2>. DEFINE l == [loc[t] EXCEPT !.lost = FALSE]
  <2>1. l \in Locals /\ l.after = loc[t].after /\ l.buf = loc[t].buf
    BY <1>l DEF Locals
  <2>2. ThreadInv'
    <3>1. pc[t] = "fire" /\ Go(t, "fire", l)
      BY <1>4 DEF FireLost
    <3>. HIDE DEF l
    <3>2. QED
      BY <1>1, <2>1, <3>1
  <2>3. hist' \in HistoryType
    <3>. DEFINE n == hist.lostFired + 1
    <3>1. hist' = [hist EXCEPT !.lostFired = n] /\ n \in Nat
      BY <1>4 DEF FireLost, HistoryType
    <3>. HIDE DEF n
    <3>2. QED
      BY <3>1 DEF HistoryType
  <2>4. QED
    BY <1>4, <2>2, <2>3, SameDevice, SameLife, SameBuffers, SameLocks DEF FireLost
<1>5. CASE Fired(t)
  <2>. DEFINE l == [loc[t] EXCEPT !.after = "idle"]
  <2>1. l \in Locals /\ l.after = "idle" /\ l.buf = loc[t].buf
    BY <1>l DEF Locals
  <2>2. CASE loc[t].after = "idle"
    <3>1. ThreadInv'
      BY <1>5, <2>2, GoIdle DEF Fired
    <3>2. QED
      BY <1>5, <3>1, SameDevice, SameLife, SameBuffers, SameLocks DEF Fired
  <2>3. CASE loc[t].after # "idle"
    <3>1. Go(t, "destroySnatch", l)
      BY <1>5, <2>3 DEF Fired
    <3>2. loc[t].buf \in Buffer
      BY <1>l, <2>3 DEF Operands, Locals
    <3>3. ThreadInv'
      <4>. HIDE DEF l
      <4>. QED
        BY <2>1, <3>1, <3>2, GoType DEF Location, Operands, AtBuffer
    <3>4. QED
      BY <1>5, <3>3, SameDevice, SameLife, SameBuffers, SameLocks DEF Fired
  <2>4. QED
    BY <2>2, <2>3
<1>6. QED
  BY <1>2, <1>3, <1>4, <1>5 DEF FireStep

(* Queue::write_buffer. *)
LEMMA WriteType ==
  ASSUME TypeInv, NEW t \in Thread,
         CallWrite(t) \/ WritePending(t) \/ WriteTrack(t) \/ WriteCheck(t)
  PROVE TypeInv'
<1> USE DEF TypeInv
<1>l. loc[t] \in Locals /\ Operands(pc[t], loc[t])
  BY LocType
<1>1. ASSUME LeaveWrite(t) PROVE ThreadInv' /\ LockTypeOK'
  BY <1>1, GoIdle DEF LeaveWrite, LockTypeOK
<1>2. CASE CallWrite(t)
  <2>1. PICK b \in handle : Go(t, "writePending", [Nothing EXCEPT !.buf = b])
    BY <1>2 DEF CallWrite
  <2>. DEFINE l == [Nothing EXCEPT !.buf = b]
  <2>2. b \in Buffer
    BY DEF BufferInv, BufferTypeOK
  <2>3. l \in Locals /\ l.after = "idle" /\ l.buf = b
    BY <2>2, NothingType DEF Locals
  <2>4. ThreadInv'
    <3>. HIDE DEF l
    <3>. QED
      BY <2>1, <2>2, <2>3, GoType DEF l, Location, Operands, AtBuffer
  <2>5. QED
    BY <1>2, <2>4, SameDevice, SameLife, SameBuffers, SnatchLocks DEF CallWrite
<1>3. CASE WritePending(t)
  <2>1. CASE valid
    <3>1. ThreadInv'
      BY <1>3, <2>1, <1>l, GoType DEF WritePending, Location, Operands, AtBuffer
    <3>2. LockTypeOK'
      BY <1>3, <2>1 DEF WritePending, LockTypeOK
    <3>3. QED
      BY <1>3, <3>1, <3>2, SameDevice, SameLife, SameBuffers DEF WritePending
  <2>2. CASE ~valid
    BY <1>3, <2>2, <1>1, SameDevice, SameLife, SameBuffers DEF WritePending
  <2>3. QED
    BY <2>1, <2>2
<1>4. CASE WriteTrack(t)
  <2>1. CASE loc[t].buf \in snatched
    BY <1>4, <2>1, <1>1, SameDevice, SameLife, SameBuffers DEF WriteTrack
  <2>2. CASE loc[t].buf \notin snatched
    <3>1. ThreadInv'
      BY <1>4, <2>2, <1>l, GoType DEF WriteTrack, Location, Operands, AtBuffer
    <3>2. QED
      BY <1>4, <2>2, <3>1, SameDevice, SameLife, SameBuffers, SameLocks DEF WriteTrack
  <2>3. QED
    BY <2>1, <2>2
<1>5. CASE WriteCheck(t)
  <2>1. loc[t].buf \in Buffer
    BY <1>5, <1>l DEF WriteCheck, Operands, AtBuffer
  <2>2. BufferInv'
    BY <1>5, <2>1 DEF WriteCheck, BufferInv, BufferTypeOK, buffers
  <2>3. QED
    BY <1>5, <2>2, <1>1, SameDevice, SameLife DEF WriteCheck
<1>6. QED
  BY <1>2, <1>3, <1>4, <1>5

(* Buffer::map_async. *)
LEMMA MapAsyncType ==
  ASSUME TypeInv, NEW t \in Thread, CallMapAsync(t) \/ MapAsyncState(t) \/ MapAsyncLife(t)
  PROVE TypeInv'
<1> USE DEF TypeInv
<1>l. loc[t] \in Locals /\ Operands(pc[t], loc[t]) /\ loc[t].op \in 0..MaxMap
  BY LocType
<1>f. ASSUME NEW o \in MapOp, Go(t, "fire", [Nothing EXCEPT !.maps = <<o>>]) PROVE ThreadInv'
  <2>. DEFINE m == <<o>>
              l == [Nothing EXCEPT !.maps = m]
  <2>1. m \in Seq(MapOp) /\ Go(t, "fire", l)
    BY <1>f
  <2>2. l \in Locals /\ l.after = "idle"
    <3>. HIDE DEF m
    <3>. QED
      BY <2>1, NothingType DEF Locals
  <2>. HIDE DEF l
  <2>3. QED
    BY <2>1, <2>2, GoType DEF Location, Operands, AtBuffer
<1>1. CASE CallMapAsync(t)
  <2>. DEFINE o == hist.maps + 1
  <2>1. PICK b \in Buffer :
          /\ hist' = [hist EXCEPT !.maps = @ + 1, !.mapBuf[o] = b]
          /\ \/ Go(t, "mapAsyncState", [Nothing EXCEPT !.buf = b, !.op = o])
             \/ Go(t, "fire", [Nothing EXCEPT !.maps = <<o>>])
    BY <1>1 DEF CallMapAsync
  <2>2. o \in MapOp
    <3>1. hist.maps \in Nat
      BY DEF HistoryType
    <3>2. hist.maps < MaxMap
      BY <1>1 DEF CallMapAsync
    <3>3. QED
      BY <3>1, <3>2, BoundAssumption DEF MapOp
  <2>. DEFINE l == [Nothing EXCEPT !.buf = b, !.op = o]
  <2>3. l \in Locals /\ l.after = "idle" /\ l.buf = b /\ l.op = o
    <3>1. o \in 0..MaxMap
      BY <2>2, BoundAssumption DEF MapOp
    <3>. HIDE DEF o
    <3>2. QED
      BY <3>1, NothingType DEF Locals
  <2>4. ThreadInv'
    <3>1. CASE Go(t, "mapAsyncState", l)
      <4>. HIDE DEF l, o
      <4>. QED
        BY <3>1, <2>2, <2>3, GoType DEF Location, Operands, AtBuffer
    <3>2. CASE Go(t, "fire", [Nothing EXCEPT !.maps = <<o>>])
      <4>. HIDE DEF o
      <4>. QED
        BY <3>2, <2>2, <1>f
    <3>3. QED
      BY <2>1, <3>1, <3>2
  <2>5. hist' \in HistoryType
    <3>. DEFINE m == [hist.mapBuf EXCEPT ![o] = b]
    <3>1. m \in [MapOp -> Buffer \cup {NoBuffer}]
      BY DEF HistoryType
    <3>2. o \in Nat /\ hist' = [hist EXCEPT !.maps = o, !.mapBuf = m]
      BY <2>1 DEF HistoryType
    <3>. HIDE DEF m, o
    <3>3. QED
      BY <3>1, <3>2 DEF HistoryType
  <2>6. QED
    BY <1>1, <2>4, <2>5, SameDevice, SameLife, SameBuffers, SameLocks DEF CallMapAsync
<1>2. CASE MapAsyncState(t)
  <2>. DEFINE waiting == [st |-> "Waiting", op |-> loc[t].op]
  <2>1. pc[t] = "mapAsyncState" /\ loc[t].buf \in Buffer /\ loc[t].op \in MapOp
    BY <1>2, <1>l DEF MapAsyncState, Operands, AtBuffer
  <2>2. waiting \in [st : MapStatus, op : 0..MaxMap] /\ waiting.op \in MapOp
    BY <1>l, <2>1 DEF MapStatus
  <2>3. ThreadInv'
    <3>1. Go(t, "mapAsyncLife", loc[t]) \/ Go(t, "fire", [Nothing EXCEPT !.maps = <<loc[t].op>>])
      BY <1>2 DEF MapAsyncState
    <3>2. CASE Go(t, "mapAsyncLife", loc[t])
      BY <3>2, <1>l, <2>1, GoType DEF Location, Operands, AtBuffer
    <3>3. CASE Go(t, "fire", [Nothing EXCEPT !.maps = <<loc[t].op>>])
      BY <3>3, <2>1, <1>f
    <3>4. QED
      BY <3>1, <3>2, <3>3
  <2>4. BufferInv'
    <3>1. mapState' \in {mapState, [mapState EXCEPT ![loc[t].buf] = waiting]}
      BY <1>2 DEF MapAsyncState
    <3>. HIDE DEF waiting
    <3>2. QED
      BY <1>2, <2>2, <3>1 DEF MapAsyncState, BufferInv, BufferTypeOK, pending
  <2>5. QED
    BY <1>2, <2>3, <2>4, SameDevice, SameLife, SameLocks DEF MapAsyncState
<1>3. CASE MapAsyncLife(t)
  <2>1. loc[t].buf \in Buffer /\ loc[t].op \in MapOp
    BY <1>3, <1>l DEF MapAsyncLife, Operands, AtBuffer
  <2>2. active \in Seq(Entries(WorkDone)) /\ ready \in Seq(Buffer)
    BY DEF LifeTypeOK, Submission
  <2>3. LifeTypeOK'
    <3>1. MapWithSubmission(active, loc[t].buf) \in Seq(Entries(WorkDone))
      BY <2>1, <2>2, MapListType
    <3>2. MapAtOnce(active, ready, loc[t].buf) \in Seq(Buffer)
      BY <2>1, <2>2 DEF MapAtOnce
    <3>3. QED
      BY <1>3, <3>1, <3>2 DEF MapAsyncLife, LifeTypeOK, Submission
  <2>4. hist' \in HistoryType
    <3>. DEFINE i == LatestSubmissionIndex(active, loc[t].buf)
                m == [hist.mapIndex EXCEPT ![loc[t].op] = i]
    <3>1. i \in Nat
      BY <2>2, LatestIndexType
    <3>2. hist' = [hist EXCEPT !.mapIndex = m]
      BY <1>3 DEF MapAsyncLife
    <3>3. m \in [MapOp -> Nat \cup {-1}]
      <4>. HIDE DEF i
      <4>. QED
        BY <3>1 DEF HistoryType
    <3>. HIDE DEF m, i
    <3>4. QED
      BY <3>2, <3>3 DEF HistoryType
  <2>5. ThreadInv'
    BY <1>3, GoIdle DEF MapAsyncLife
  <2>6. QED
    BY <1>3, <2>3, <2>4, <2>5, SameDevice, SameBuffers, SameLocks DEF MapAsyncLife
<1>4. QED
  BY <1>1, <1>2, <1>3

(* Buffer::unmap, Buffer::destroy and dropping a buffer. *)
LEMMA UnmapType ==
  ASSUME TypeInv, NEW t \in Thread,
         CallUnmap(t) \/ CallDestroy(t) \/ CallDrop(t) \/ Unmap(t) \/ UnmapInit(t)
  PROVE TypeInv'
<1> USE DEF TypeInv
<1>l. loc[t] \in Locals /\ Operands(pc[t], loc[t])
  BY LocType
<1>1. ASSUME NEW b \in Buffer, NEW a \in {"idle", "destroySnatch"},
             Go(t, "unmap", [Nothing EXCEPT !.buf = b, !.after = a])
      PROVE ThreadInv'
  <2>. DEFINE l == [Nothing EXCEPT !.buf = b, !.after = a]
  <2>1. l \in Locals /\ l.buf = b
    BY NothingType DEF Locals
  <2>2. Go(t, "unmap", l)
    BY <1>1
  <2>. HIDE DEF l
  <2>3. QED
    BY <2>1, <2>2, GoType DEF Location, Operands, AtBuffer
<1>2. ASSUME NEW b \in Buffer, Go(t, "unmap", [Nothing EXCEPT !.buf = b]) PROVE ThreadInv'
  <2>. DEFINE l == [Nothing EXCEPT !.buf = b]
  <2>1. l \in Locals /\ l.buf = b
    BY NothingType DEF Locals
  <2>2. Go(t, "unmap", l)
    BY <1>2
  <2>. HIDE DEF l
  <2>3. QED
    BY <2>1, <2>2, GoType DEF Location, Operands, AtBuffer
<1>3. CASE CallUnmap(t)
  <2>1. ThreadInv'
    BY <1>3, <1>2 DEF CallUnmap
  <2>2. QED
    BY <1>3, <2>1, SameDevice, SameLife, SameBuffers, SameLocks DEF CallUnmap
<1>4. CASE CallDestroy(t)
  <2>1. ThreadInv'
    BY <1>4, <1>1 DEF CallDestroy
  <2>2. QED
    BY <1>4, <2>1, SameDevice, SameLife, SameBuffers, SameLocks DEF CallDestroy
<1>5. CASE CallDrop(t)
  <2>1. ThreadInv'
    BY <1>5, <1>2 DEF CallDrop
  <2>2. BufferInv'
    BY <1>5 DEF CallDrop, BufferInv, BufferTypeOK, pending
  <2>3. QED
    BY <1>5, <2>1, <2>2, SameDevice, SameLife, SameLocks DEF CallDrop
<1>6. CASE Unmap(t)
  <2>. DEFINE b == loc[t].buf
              was == mapState[b]
              l == [loc[t] EXCEPT !.maps = IF was.st = "Waiting" THEN <<was.op>> ELSE @]
  <2>1. pc[t] = "unmap" /\ b \in Buffer
    BY <1>6, <1>l DEF Unmap, Operands, AtBuffer
  <2>2. l \in Locals /\ l.after = loc[t].after /\ l.buf = b
    <3>. DEFINE m == IF was.st = "Waiting" THEN <<was.op>> ELSE loc[t].maps
    <3>1. m \in Seq(MapOp)
      BY <2>1, LocType DEF BufferInv
    <3>2. l = [loc[t] EXCEPT !.maps = m]
      OBVIOUS
    <3>. HIDE DEF m, l
    <3>3. QED
      BY <1>l, <3>1, <3>2 DEF Locals
  <2>3. ThreadInv'
    <3>1. Go(t, "fire", loc[t]) \/ Go(t, "unmapInit", loc[t]) \/ Go(t, "fire", l)
      BY <1>6 DEF Unmap
    <3>. HIDE DEF l
    <3>2. QED
      BY <1>l, <2>1, <2>2, <3>1, GoType DEF Location, Operands, AtBuffer
  <2>4. BufferInv'
    <3>1. mapState' \in {mapState, [mapState EXCEPT ![b] = Idle]}
          /\ UNCHANGED <<pending, snatched, handle>>
      BY <1>6 DEF Unmap
    <3>2. Idle \in [st : MapStatus, op : 0..MaxMap] /\ Idle.st = "Idle"
      BY BoundAssumption DEF Idle, MapStatus
    <3>. HIDE DEF b
    <3>3. QED
      BY <3>1, <3>2 DEF BufferInv, BufferTypeOK, pending
  <2>5. LockTypeOK'
    <3>1. snatchR' \in {snatchR, snatchR \cup {t}} /\ mapL' \in {mapL, [mapL EXCEPT ![b] = t]}
          /\ UNCHANGED <<fenceR, fenceW, trackersL, pendingL, lifeL>>
      BY <1>6 DEF Unmap
    <3>. HIDE DEF b
    <3>2. QED
      BY <3>1 DEF LockTypeOK
  <2>6. QED
    BY <1>6, <2>3, <2>4, <2>5, SameDevice, SameLife DEF Unmap
<1>7. CASE UnmapInit(t)
  <2>1. pc[t] = "unmapInit" /\ loc[t].buf \in Buffer
    BY <1>7, <1>l DEF UnmapInit, Operands, AtBuffer
  <2>2. ThreadInv'
    BY <1>7, <1>l, <2>1, GoType DEF UnmapInit, Location, Operands, AtBuffer
  <2>3. BufferInv'
    BY <1>7, <2>1 DEF UnmapInit, BufferInv, BufferTypeOK, buffers
  <2>4. LockTypeOK'
    BY <1>7 DEF UnmapInit, LockTypeOK
  <2>5. QED
    BY <1>7, <2>2, <2>3, <2>4, SameDevice, SameLife DEF UnmapInit
<1>8. QED
  BY <1>3, <1>4, <1>5, <1>6, <1>7

(* Snatching a buffer's handle and finding it an owner. *)
LEMMA DestroyType ==
  ASSUME TypeInv, NEW t \in Thread, DestroySnatch(t) \/ DestroyPending(t) \/ DestroyLife(t)
  PROVE TypeInv'
<1> USE DEF TypeInv
<1>l. loc[t] \in Locals /\ Operands(pc[t], loc[t])
  BY LocType
<1>1. ASSUME NEW l \in Locals, l.after = "idle", LeaveDestroy(t, l) PROVE ThreadInv'
  <2>. DEFINE m == [l EXCEPT !.buf = NoBuffer]
  <2>1. m \in Locals /\ m.after = "idle"
    BY <1>1 DEF Locals
  <2>2. Go(t, "releaseNext", m) \/ Go(t, "idle", Nothing)
    BY <1>1 DEF LeaveDestroy
  <2>. HIDE DEF m
  <2>3. QED
    BY <2>1, <2>2, GoIdle, GoType DEF Location, Operands, AtBuffer
<1>2. CASE DestroySnatch(t)
  <2>. DEFINE b == loc[t].buf
              l == [loc[t] EXCEPT !.tmp = {b}]
  <2>1. pc[t] = "destroySnatch" /\ b \in Buffer
    BY <1>2, <1>l DEF DestroySnatch, Operands, AtBuffer
  <2>2. loc[t].after = "idle"
    BY <1>l, <2>1 DEF Operands, Locals
  <2>3. l \in Locals /\ l.after = loc[t].after /\ l.buf = b
    BY <1>l, <2>1 DEF Locals
  <2>4. ThreadInv'
    <3>1. LeaveDestroy(t, loc[t]) \/ Go(t, "destroyPending", l)
      BY <1>2 DEF DestroySnatch
    <3>. HIDE DEF l
    <3>2. QED
      BY <1>l, <1>1, <2>1, <2>2, <2>3, <3>1, GoType DEF Location, Operands, AtBuffer
  <2>5. BufferInv'
    BY <1>2, <2>1 DEF DestroySnatch, BufferInv, BufferTypeOK, pending
  <2>6. QED
    BY <1>2, <2>4, <2>5, SameDevice, SameLife, SameLocks DEF DestroySnatch
<1>3. CASE DestroyPending(t)
  <2>. DEFINE l == [loc[t] EXCEPT !.tmp = {}]
  <2>1. pc[t] = "destroyPending" /\ loc[t].buf \in Buffer
    BY <1>3, <1>l DEF DestroyPending, Operands, AtBuffer
  <2>2. loc[t].after = "idle"
    BY <1>l, <2>1 DEF Operands, Locals
  <2>3. l \in Locals /\ l.after = loc[t].after
    BY <1>l DEF Locals
  <2>4. ThreadInv'
    <3>1. LeaveDestroy(t, l) \/ Go(t, "destroyLife", loc[t])
      BY <1>3 DEF DestroyPending
    <3>. HIDE DEF l
    <3>2. QED
      BY <1>l, <1>1, <2>1, <2>2, <2>3, <3>1, GoType DEF Location, Operands, AtBuffer
  <2>5. BufferInv'
    BY <1>3, <2>1 DEF DestroyPending, BufferInv, BufferTypeOK, buffers
  <2>6. LockTypeOK'
    BY <1>3 DEF DestroyPending, LockTypeOK
  <2>7. QED
    BY <1>3, <2>4, <2>5, <2>6, SameDevice, SameLife DEF DestroyPending
<1>4. CASE DestroyLife(t)
  <2>. DEFINE l == [loc[t] EXCEPT !.tmp = {}]
  <2>1. pc[t] = "destroyLife" /\ loc[t].buf \in Buffer
    BY <1>4, <1>l DEF DestroyLife, Operands, AtBuffer
  <2>2. loc[t].after = "idle"
    BY <1>l, <2>1 DEF Operands, Locals
  <2>3. l \in Locals /\ l.after = loc[t].after
    BY <1>l DEF Locals
  <2>4. ThreadInv'
    <3>1. LeaveDestroy(t, l)
      BY <1>4 DEF DestroyLife
    <3>. HIDE DEF l
    <3>2. QED
      BY <1>1, <2>2, <2>3, <3>1
  <2>5. LifeTypeOK'
    <3>1. active \in Seq(Entries(WorkDone))
      BY DEF LifeTypeOK, Submission
    <3>2. ScheduleResourceDestruction(active, loc[t].buf) \in Seq(Entries(WorkDone))
      BY <2>1, <3>1, DestructionListType
    <3>3. QED
      BY <1>4, <3>2 DEF DestroyLife, LifeTypeOK, Submission
  <2>6. LockTypeOK'
    BY <1>4 DEF DestroyLife, LockTypeOK
  <2>7. QED
    BY <1>4, <2>4, <2>5, <2>6, SameDevice, SameBuffers DEF DestroyLife
<1>5. QED
  BY <1>2, <1>3, <1>4

(* Queue::on_submitted_work_done, Device::destroy and the GPU. *)
LEMMA OtherType ==
  ASSUME TypeInv,
         GpuComplete \/ LoseElsewhere \/ \E t \in Thread : CallWorkDone(t) \/ CallDestroyDevice(t)
  PROVE TypeInv'
<1> USE DEF TypeInv
<1>0. ASSUME UNCHANGED <<pc, loc>> PROVE ThreadInv'
  BY <1>0 DEF ThreadInv, ThreadTypeOK
<1>1. CASE GpuComplete
  <2>. DEFINE S == [index : Nat, bufs : SUBSET Buffer]
  <2>1. Head(gpu) \in S /\ Tail(gpu) \in Seq(S)
    <3>1. gpu \in Seq(S) /\ gpu # <<>>
      BY <1>1 DEF GpuComplete, DeviceTypeOK
    <3>. HIDE DEF S
    <3>2. QED
      BY <3>1
  <2>2. DeviceTypeOK'
    BY <1>1, <2>1 DEF GpuComplete, DeviceTypeOK, device, indices
  <2>3. QED
    BY <1>0, <1>1, <2>2, SameLife, SameBuffers, SameLocks DEF GpuComplete
<1>2. ASSUME NEW t \in Thread, CallWorkDone(t) PROVE TypeInv'
  <2>. DEFINE w == hist.works + 1
              before == {o \in MapOp : hist.mapIndex[o] >= 0 /\ hist.mapFired[o] = 0}
              wi == [hist.workIndex EXCEPT ![w] = hist.tracked]
              wm == [hist.workMaps EXCEPT ![w] = before]
  <2>1. w \in WorkDone
    <3>1. hist.works \in Nat
      BY DEF HistoryType
    <3>2. hist.works < MaxWork
      BY <1>2 DEF CallWorkDone
    <3>3. QED
      BY <3>1, <3>2, BoundAssumption DEF WorkDone
  <2>2. LifeTypeOK'
    <3>1. active \in Seq(Entries(WorkDone)) /\ deferred \in Seq(WorkDone)
      BY DEF LifeTypeOK, Submission
    <3>2. ClosureWithSubmission(active, w) \in Seq(Entries(WorkDone))
      BY <2>1, <3>1, ClosureListType
    <3>3. ClosureDeferred(active, deferred, w) \in Seq(WorkDone)
      BY <2>1, <3>1 DEF ClosureDeferred
    <3>4. QED
      BY <1>2, <3>2, <3>3 DEF CallWorkDone, LifeTypeOK, Submission
  <2>3. hist' \in HistoryType
    <3>1. hist' = [hist EXCEPT !.works = w, !.workIndex = wi, !.workMaps = wm]
      BY <1>2 DEF CallWorkDone
    <3>2. before \subseteq MapOp
      OBVIOUS
    <3>3. w \in Nat
      BY <2>1 DEF WorkDone
    <3>. HIDE DEF before, w
    <3>4. /\ hist.workIndex \in [WorkDone -> Nat] /\ hist.tracked \in Nat
          /\ hist.workMaps \in [WorkDone -> SUBSET MapOp]
      BY DEF HistoryType
    <3>5. wi \in [WorkDone -> Nat] /\ wm \in [WorkDone -> SUBSET MapOp]
      BY <3>2, <3>4
    <3>. HIDE DEF wi, wm
    <3>6. QED
      BY <3>1, <3>3, <3>5 DEF HistoryType
  <2>4. QED
    BY <1>0, <1>2, <2>2, <2>3, SameDevice, SameBuffers, SameLocks DEF CallWorkDone
<1>3. ASSUME NEW t \in Thread, CallDestroyDevice(t) PROVE TypeInv'
  <2>1. DeviceTypeOK'
    BY <1>3 DEF CallDestroyDevice, DeviceTypeOK, indices, driver
  <2>2. QED
    BY <1>0, <1>3, <2>1, SameLife, SameBuffers, SameLocks DEF CallDestroyDevice
<1>4. CASE LoseElsewhere
  BY <1>0, <1>4, LoseType, SameLife, SameBuffers, SameLocks DEF LoseElsewhere
<1>5. QED
  BY <1>1, <1>2, <1>3, <1>4

-----------------------------------------------------------------------------
(* A step of any thread, of the GPU, or of neither, keeps the types. *)
LEMMA NextType == TypeInv /\ [Next]_vars => TypeInv'
<1> SUFFICES ASSUME TypeInv, [Next]_vars PROVE TypeInv'
  OBVIOUS
<1>1. CASE UNCHANGED vars
  <2>1. ThreadInv' /\ hist' \in HistoryType
    BY <1>1 DEF vars, TypeInv, ThreadInv, ThreadTypeOK
  <2>2. QED
    BY <1>1, <2>1, SameDevice, SameLife, SameBuffers, SameLocks DEF vars, TypeInv
<1>2. CASE GpuComplete \/ LoseElsewhere
  BY <1>2, OtherType
<1>3. ASSUME NEW t \in Thread, Call(t) \/ Step(t) PROVE TypeInv'
  <2>1. CASE CallSubmit(t) \/ SubmitStep(t)
    BY <2>1, SubmitType
  <2>2. CASE CallPoll(t) \/ CallWait(t) \/ MaintainStep(t)
    BY <2>2, MaintainType
  <2>3. CASE FireStep(t)
    BY <2>3, FireType
  <2>4. CASE CallWrite(t) \/ WritePending(t) \/ WriteTrack(t) \/ WriteCheck(t)
    BY <2>4, WriteType
  <2>5. CASE CallMapAsync(t) \/ MapAsyncState(t) \/ MapAsyncLife(t)
    BY <2>5, MapAsyncType
  <2>6. CASE CallUnmap(t) \/ CallDestroy(t) \/ CallDrop(t) \/ Unmap(t) \/ UnmapInit(t)
    BY <2>6, UnmapType
  <2>7. CASE DestroySnatch(t) \/ DestroyPending(t) \/ DestroyLife(t)
    BY <2>7, DestroyType
  <2>8. CASE CallWorkDone(t) \/ CallDestroyDevice(t)
    BY <2>8, OtherType
  <2>9. QED
    BY <1>3, <2>1, <2>2, <2>3, <2>4, <2>5, <2>6, <2>7, <2>8 DEF Call, Step, BufferStep
<1>4. QED
  BY <1>1, <1>2, <1>3 DEF Next

(***************************************************************************)
(* Every reachable state of the device and its queue is well typed, and a  *)
(* thread that maps, unmaps, writes or destroys has a buffer to do it to:  *)
(* no operand is missing after an early return of submit, of maintain or   *)
(* of Buffer::destroy.                                                     *)
(***************************************************************************)
THEOREM Types == Spec => []TypeInv
<1>1. Init => TypeInv
  BY InitType
<1>2. TypeInv /\ [Next]_vars => TypeInv'
  BY NextType
<1>3. QED
  BY <1>1, <1>2, PTL DEF Spec

(* The type invariant the runs check. *)
THEOREM TypeCorrect == Spec => []TypeOK
<1>1. TypeInv => TypeOK
  BY DEF TypeInv, TypeOK, BufferInv, ThreadInv
<1>2. QED
  BY <1>1, Types, PTL

--------------------------------------------------------------------------------
(* Submissions: ActiveSorted and InFlightTracked *)

(* Only thread t has moved. *)
Others(t) == \A u \in Thread \ {t} : pc'[u] = pc[u] /\ loc'[u] = loc[u]

(* A thread that goes somewhere is there, and the others are not moved. *)
LEMMA GoAt ==
  ASSUME ThreadInv, NEW t \in Thread, NEW w, NEW l, Go(t, w, l)
  PROVE  Others(t) /\ pc'[t] = w /\ loc'[t] = l
BY DEF ThreadInv, ThreadTypeOK, Go, Others

(* A step of t outside submit: it leaves the fence's write side alone, and *)
(* touches the pending writes' lock when it has it or when nobody has.     *)
Quiet(t) ==
    /\ Others(t)
    /\ pc[t] \notin Submitting /\ pc'[t] \notin Submitting
    /\ loc'[t].done <= gpuDone
    /\ pendingL' = pendingL \/ pendingL \in {NoThread, t}
    /\ pc'[t] \in AtPending => pendingL' = t
    /\ UNCHANGED <<indices, driver, fenceW>>

(* Such a step keeps the invariant. *)
LEMMA QuietKeeps ==
  ASSUME TypeInv, SubmissionInv, NEW t \in Thread, Quiet(t), SameSubmissions(active, active')
  PROVE  SubmissionInv'
<1> USE DEF SubmissionInv
<1>1. NoThread \notin Thread
  BY ThreadAssumption
<1>2. LockInv'
  <2>1. ASSUME NEW u \in Thread, pc'[u] \in AtPending PROVE pendingL' = u
    <3>1. CASE u = t
      BY <2>1, <3>1 DEF Quiet
    <3>2. CASE u # t
      BY <1>1, <2>1, <3>2 DEF Quiet, Others, LockInv
    <3>3. QED
      BY <3>1, <3>2
  <2>2. ASSUME NEW u \in Thread, pc'[u] \in Submitting PROVE fenceW' = u
    BY <2>2 DEF Quiet, Others, LockInv
  <2>3. QED
    BY <2>1, <2>2 DEF LockInv
<1>3. IndexInv'
  BY DEF Quiet, IndexInv, indices, driver
<1>4. LocalInv'
  <2>1. ASSUME NEW u \in Thread
        PROVE /\ loc'[u].done <= gpuDone'
              /\ pc'[u] \in Submitting => u # t /\ pc'[u] = pc[u] /\ loc'[u] = loc[u]
    BY DEF Quiet, Others, LocalInv, driver
  <2>2. QED
    BY <2>1 DEF Quiet, LocalInv, SameSubmissions, Submitting, indices, driver
<1>5. ActiveSorted'
  BY DEF Quiet, ActiveSorted, SameSubmissions, indices
<1>6. TrackInv'
  <2>1. ASSUME NEW s, Tracked(s) PROVE Tracked(s)'
    <3>1. CASE \E j \in DOMAIN active :
                  active[j].index = s.index /\ s.bufs \subseteq active[j].bufs
      BY <3>1 DEF SameSubmissions, Tracked
    <3>2. CASE \E u \in Thread : pc[u] = "submitTrack" /\ loc[u].idx = s.index
                                 /\ s.bufs \subseteq loc[u].used
      BY <3>2 DEF Quiet, Others, Submitting, Tracked
    <3>3. QED
      BY <2>1, <3>1, <3>2 DEF Tracked
  <2>2. QED
    BY <2>1 DEF Quiet, TrackInv, driver
<1>7. QED
  BY <1>2, <1>3, <1>4, <1>5, <1>6

(* The lifetime tracker is as it was. *)
LEMMA SameActive == active' = active => SameSubmissions(active, active')
BY DEF SameSubmissions

(* The calls, but for submit itself, begin quietly. *)
LEMMA CallKeeps ==
  ASSUME TypeInv, SubmissionInv, NEW t \in Thread, Call(t) PROVE SubmissionInv'
<1>1. /\ ThreadInv /\ gpuDone \in Nat /\ active \in Seq(Entries(WorkDone))
      /\ loc[t].done <= gpuDone
  BY DEF TypeInv, DeviceTypeOK, LifeTypeOK, Submission, SubmissionInv, LocalInv
<1>2. ASSUME NEW l, NEW w \in Location \ (Submitting \cup AtPending),
             Go(t, w, l), l.done = 0, pc[t] = "idle", active' = active,
             UNCHANGED <<indices, driver, fenceW, pendingL>>
      PROVE SubmissionInv'
  <2>1. Quiet(t)
    BY <1>1, <1>2, GoAt DEF Quiet, Submitting
  <2>2. QED
    BY <1>2, <2>1, QuietKeeps, SameActive
<1>3. ASSUME UNCHANGED <<pc, loc, fenceW, pendingL, indices, driver>>, pc[t] = "idle",
             SameSubmissions(active, active')
      PROVE SubmissionInv'
  <2>1. Quiet(t)
    BY <1>1, <1>3 DEF Quiet, Others, Submitting, AtPending
  <2>2. QED
    BY <1>3, <2>1, QuietKeeps
<1>. USE DEF MayCall, Location, Submitting, AtPending, Nothing, locks, life
<1>4. CASE CallSubmit(t)
  BY <1>2, <1>4 DEF CallSubmit
<1>5. CASE CallPoll(t)
  BY <1>2, <1>5 DEF CallPoll
<1>6. CASE CallWait(t)
  BY <1>2, <1>6 DEF CallWait
<1>7. CASE CallWrite(t)
  BY <1>2, <1>7 DEF CallWrite
<1>8. CASE CallMapAsync(t)
  BY <1>2, <1>8 DEF CallMapAsync
<1>9. CASE CallUnmap(t)
  BY <1>2, <1>9 DEF CallUnmap
<1>10. CASE CallDestroy(t)
  BY <1>2, <1>10 DEF CallDestroy
<1>11. CASE CallDrop(t)
  BY <1>2, <1>11 DEF CallDrop
<1>12. CASE CallWorkDone(t)
  BY <1>1, <1>3, <1>12, Attached DEF CallWorkDone
<1>13. CASE CallDestroyDevice(t)
  BY <1>3, <1>13, SameActive DEF CallDestroyDevice
<1>14. QED
  BY <1>4, <1>5, <1>6, <1>7, <1>8, <1>9, <1>10, <1>11, <1>12, <1>13 DEF Call

(* What an application does to buffers, and the closures it is told by. *)
LEMMA BufferKeeps ==
  ASSUME TypeInv, SubmissionInv, NEW t \in Thread, BufferStep(t) \/ FireStep(t)
  PROVE SubmissionInv'
<1>1. /\ ThreadInv /\ gpuDone \in Nat /\ active \in Seq(Entries(WorkDone))
      /\ loc[t] \in Locals /\ loc[t].done <= gpuDone
      /\ pc[t] \in AtPending => pendingL = t
  BY LocType DEF TypeInv, DeviceTypeOK, LifeTypeOK, Submission, SubmissionInv, LocalInv, LockInv
<1>2. ASSUME NEW l, NEW w \in Location \ Submitting,
             Go(t, w, l), l.done \in {0, loc[t].done}, pc[t] \notin Submitting,
             pendingL' = pendingL \/ pendingL \in {NoThread, t},
             w \in AtPending => pendingL' = t,
             SameSubmissions(active, active'), UNCHANGED <<indices, driver, fenceW>>
      PROVE SubmissionInv'
  <2>1. Quiet(t)
    BY <1>1, <1>2, GoAt DEF Quiet
  <2>2. QED
    BY <1>2, <2>1, QuietKeeps
<1>3. ASSUME NEW x
      PROVE /\ [loc[t] EXCEPT !.maps = x].done = loc[t].done
            /\ [loc[t] EXCEPT !.works = x].done = loc[t].done
            /\ [loc[t] EXCEPT !.lost = x].done = loc[t].done
            /\ [loc[t] EXCEPT !.after = x].done = loc[t].done
            /\ [loc[t] EXCEPT !.tmp = x].done = loc[t].done
            /\ [[loc[t] EXCEPT !.tmp = x] EXCEPT !.buf = NoBuffer].done = loc[t].done
            /\ [loc[t] EXCEPT !.buf = NoBuffer].done = loc[t].done
  BY <1>1 DEF Locals
<1>4. Nothing.done = 0 /\ \A x : [Nothing EXCEPT !.maps = x].done = 0
  BY DEF Nothing
<1>5. ASSUME NEW l, LeaveDestroy(t, l), pc[t] \in {"destroySnatch", "destroyPending", "destroyLife"},
             l.done = loc[t].done, [l EXCEPT !.buf = NoBuffer].done = loc[t].done,
             pendingL' = pendingL \/ pendingL \in {NoThread, t},
             SameSubmissions(active, active'), UNCHANGED <<indices, driver, fenceW>>
      PROVE SubmissionInv'
  BY <1>2, <1>4, <1>5 DEF LeaveDestroy, Location, Submitting, AtPending
<1>6. ASSUME LeaveWrite(t), pc[t] \in {"writePending", "writeTrack", "writeCheck"},
             pendingL \in {NoThread, t}, active' = active, UNCHANGED <<indices, driver>>
      PROVE SubmissionInv'
  BY <1>2, <1>4, <1>6, SameActive DEF LeaveWrite, Location, Submitting, AtPending
<1>. USE DEF Location, Submitting, AtPending, locks, life
<1>7. CASE FireMapping(t)
  BY <1>2, <1>3, <1>7, SameActive DEF FireMapping
<1>8. CASE FireWorkDone(t)
  BY <1>2, <1>3, <1>8, SameActive DEF FireWorkDone
<1>9. CASE FireLost(t)
  BY <1>2, <1>3, <1>9, SameActive DEF FireLost
<1>10. CASE Fired(t)
  BY <1>2, <1>3, <1>4, <1>10, SameActive DEF Fired
<1>11. CASE WritePending(t)
  <2>1. CASE valid
    BY <1>2, <1>11, <2>1, SameActive DEF WritePending
  <2>2. CASE ~valid
    BY <1>6, <1>11, <2>2 DEF WritePending
  <2>3. QED
    BY <2>1, <2>2
<1>12. CASE WriteTrack(t)
  <2>1. pendingL = t /\ pc[t] = "writeTrack"
    BY <1>1, <1>12 DEF WriteTrack
  <2>2. CASE loc[t].buf \in snatched
    BY <1>6, <1>12, <2>1, <2>2 DEF WriteTrack
  <2>3. CASE loc[t].buf \notin snatched
    BY <1>2, <1>12, <2>1, <2>3, SameActive DEF WriteTrack
  <2>4. QED
    BY <2>2, <2>3
<1>13. CASE WriteCheck(t)
  BY <1>1, <1>6, <1>13 DEF WriteCheck
<1>14. CASE MapAsyncState(t)
  <2>1. CASE mapState[loc[t].buf].st = "Idle"
    BY <1>2, <1>14, <2>1, SameActive DEF MapAsyncState
  <2>2. CASE mapState[loc[t].buf].st # "Idle"
    BY <1>2, <1>4, <1>14, <2>2, SameActive DEF MapAsyncState
  <2>3. QED
    BY <2>1, <2>2
<1>15. CASE MapAsyncLife(t)
  BY <1>1, <1>2, <1>4, <1>15, Attached DEF MapAsyncLife
<1>16. CASE Unmap(t)
  <2>1. \E l : /\ l.done = loc[t].done
               /\ Go(t, "fire", l) \/ Go(t, "unmapInit", l)
    BY <1>3, <1>16 DEF Unmap
  <2>2. QED
    BY <1>2, <1>16, <2>1, SameActive DEF Unmap
<1>17. CASE UnmapInit(t)
  BY <1>2, <1>17, SameActive DEF UnmapInit
<1>18. CASE DestroySnatch(t)
  <2>1. LeaveDestroy(t, loc[t]) \/ Go(t, "destroyPending", [loc[t] EXCEPT !.tmp = {loc[t].buf}])
    BY <1>18 DEF DestroySnatch
  <2>2. CASE LeaveDestroy(t, loc[t])
    BY <1>3, <1>5, <1>18, <2>2, SameActive DEF DestroySnatch
  <2>3. CASE \E l : l.done = loc[t].done /\ Go(t, "destroyPending", l)
    BY <1>2, <1>18, <2>3, SameActive DEF DestroySnatch
  <2>4. QED
    BY <1>3, <2>1, <2>2, <2>3
<1>19. CASE DestroyPending(t)
  <2>1. CASE PendingContains(loc[t].buf)
    BY <1>3, <1>5, <1>19, <2>1, SameActive DEF DestroyPending
  <2>2. CASE ~PendingContains(loc[t].buf)
    BY <1>2, <1>19, <2>2, SameActive DEF DestroyPending
  <2>3. QED
    BY <2>1, <2>2
<1>20. CASE DestroyLife(t)
  BY <1>1, <1>3, <1>5, <1>20, Attached DEF DestroyLife
<1>21. QED
  BY <1>7, <1>8, <1>9, <1>10, <1>11, <1>12, <1>13, <1>14, <1>15, <1>16, <1>17,
     <1>18, <1>19, <1>20 DEF BufferStep, FireStep

(* Triage drains the head of the list when the fence has passed it: the    *)
(* GPU does not have it any more.                                          *)
LEMMA DrainKeeps ==
  ASSUME TypeInv, SubmissionInv, NEW t \in Thread, Triage(t), HeadDone(active, loc[t].done)
  PROVE  SubmissionInv'
<1> USE DEF SubmissionInv
<1>1. /\ ThreadInv /\ gpuDone \in Nat /\ active \in Seq(Entries(WorkDone)) /\ active # <<>>
      /\ loc[t] \in Locals /\ loc[t].done \in Nat /\ loc[t].done <= gpuDone
      /\ gpu \in Seq([index : Nat, bufs : SUBSET Buffer])
  BY LocType DEF TypeInv, DeviceTypeOK, LifeTypeOK, Submission, LocalInv, HeadDone
<1>2. /\ active' = Tail(active) /\ pc[t] = "triage"
      /\ UNCHANGED <<indices, driver, fenceW, pendingL>>
  BY DEF Triage, locks
<1>3. Others(t) /\ pc'[t] = "triage" /\ loc'[t].done = loc[t].done
  <2>. DEFINE l == [loc[t] EXCEPT !.works = ClosuresAfterHead(active, @)]
  <2>1. Go(t, "triage", l)
    BY DEF Triage
  <2>2. l.done = loc[t].done
    BY <1>1 DEF Locals
  <2>. HIDE DEF l
  <2>3. QED
    BY <1>1, <2>1, <2>2, GoAt
<1>4. /\ Len(active') = Len(active) - 1
      /\ \A j \in DOMAIN active' : j + 1 \in DOMAIN active /\ active'[j] = active[j + 1]
  BY <1>1, <1>2
<1>5. LockInv' /\ IndexInv'
  BY <1>2, <1>3 DEF LockInv, IndexInv, Others, Submitting, AtPending, indices, driver
<1>6. LocalInv'
  <2>1. ASSUME NEW u \in Thread
        PROVE /\ loc'[u].done <= gpuDone
              /\ pc'[u] \in Submitting => u # t /\ pc'[u] = pc[u] /\ loc'[u] = loc[u]
    BY <1>1, <1>3, <2>1 DEF Others, LocalInv, Submitting
  <2>2. QED
    BY <1>2, <1>4, <2>1 DEF LocalInv, Submitting, indices, driver
<1>7. ActiveSorted'
  BY <1>1, <1>2, <1>4 DEF ActiveSorted, indices
<1>8. TrackInv'
  <2>1. ASSUME NEW i \in DOMAIN gpu PROVE Tracked(gpu[i])'
    <3>1. active[1].index < gpu[i].index
      <4>1. active[1].index <= loc[t].done /\ gpuDone < gpu[i].index
        BY <1>1 DEF HeadDone, IndexInv
      <4>2. active[1] \in Entries(WorkDone) /\ gpu[i].index \in Nat
        <5>1. active[1] \in Entries(WorkDone)
          BY <1>1, EntryUpdate
        <5>. DEFINE S == [index : Nat, bufs : SUBSET Buffer]
        <5>2. gpu[i] \in S
          <6>1. gpu \in Seq(S)
            BY <1>1
          <6>. HIDE DEF S
          <6>2. QED
            BY <6>1
        <5>3. QED
          BY <5>1, <5>2
      <4>3. active[1].index \in Nat
        BY <4>2 DEF Entries
      <4>4. QED
        BY <1>1, <4>1, <4>2, <4>3
    <3>2. CASE \E j \in DOMAIN active :
                  active[j].index = gpu[i].index /\ gpu[i].bufs \subseteq active[j].bufs
      <4>1. PICK j \in DOMAIN active :
                  active[j].index = gpu[i].index /\ gpu[i].bufs \subseteq active[j].bufs
        BY <3>2
      <4>2. j # 1
        <5>1. active[j].index \in Nat
          <6>1. active[j] \in Entries(WorkDone)
            BY <1>1, <4>1, EntryUpdate
          <6>2. QED
            BY <6>1 DEF Entries
        <5>2. QED
          BY <3>1, <4>1, <5>1
      <4>3. j - 1 \in DOMAIN active' /\ active'[j - 1] = active[j]
        BY <1>1, <1>4, <4>1, <4>2, <1>2
      <4>4. QED
        BY <1>2, <4>1, <4>3 DEF Tracked, driver
    <3>3. CASE \E u \in Thread : pc[u] = "submitTrack" /\ loc[u].idx = gpu[i].index
                                 /\ gpu[i].bufs \subseteq loc[u].used
      BY <1>2, <1>3, <3>3 DEF Tracked, Others, driver
    <3>4. QED
      BY <3>2, <3>3 DEF TrackInv, Tracked
  <2>2. QED
    BY <1>2, <2>1 DEF TrackInv, driver
<1>9. QED
  BY <1>5, <1>6, <1>7, <1>8

(* Polling and releasing, but for what triage drains. *)
LEMMA MaintainKeeps ==
  ASSUME TypeInv, SubmissionInv, NEW t \in Thread, MaintainStep(t) PROVE SubmissionInv'
<1>1. /\ ThreadInv /\ gpuDone \in Nat /\ active \in Seq(Entries(WorkDone))
      /\ loc[t] \in Locals /\ loc[t].done <= gpuDone
  BY LocType DEF TypeInv, DeviceTypeOK, LifeTypeOK, Submission, SubmissionInv, LocalInv
<1>2. ASSUME NEW l, NEW w \in Location \ (Submitting \cup AtPending),
             Go(t, w, l), l.done \in {0, gpuDone, loc[t].done},
             pc[t] \notin Submitting, active' = active,
             UNCHANGED <<indices, driver, fenceW, pendingL>>
      PROVE SubmissionInv'
  <2>1. Quiet(t)
    BY <1>1, <1>2, GoAt DEF Quiet
  <2>2. QED
    BY <1>2, <2>1, QuietKeeps, SameActive
<1>3. ASSUME NEW x
      PROVE /\ [loc[t] EXCEPT !.wait = x].done = loc[t].done
            /\ [loc[t] EXCEPT !.done = gpuDone].done = gpuDone
            /\ [loc[t] EXCEPT !.works = x].done = loc[t].done
            /\ [loc[t] EXCEPT !.maps = x].done = loc[t].done
            /\ \A y : [loc[t] EXCEPT !.buf = x, !.op = y].done = loc[t].done
            /\ \A y, z : [loc[t] EXCEPT !.maps = x, !.buf = y, !.op = z].done = loc[t].done
            /\ [loc[t] EXCEPT !.empty = x].done = loc[t].done
            /\ [loc[t] EXCEPT !.lost = x].done = loc[t].done
            /\ [loc[t] EXCEPT !.todo = x].done = loc[t].done
            /\ \A y : [loc[t] EXCEPT !.todo = x, !.buf = y].done = loc[t].done
            /\ [loc[t] EXCEPT !.buf = x].done = loc[t].done
  BY <1>1 DEF Locals
<1>4. Nothing.done = 0
  BY DEF Nothing
<1>. USE DEF Location, Submitting, AtPending, locks, life
<1>5. CASE PollFence(t)
  BY <1>2, <1>5 DEF PollFence
<1>6. CASE MaintainBegin(t)
  <2>1. CASE LeaveMaintain(t)
    BY <1>2, <1>4, <1>6, <2>1 DEF MaintainBegin, LeaveMaintain
  <2>2. CASE UNCHANGED locks
    <3>1. \/ LeaveMaintain(t)
          \/ \E l : l.done = loc[t].done /\
               (Go(t, "maintainFence", l) \/ Go(t, "maintainWait", l))
      <4>. DEFINE l == [loc[t] EXCEPT !.wait = WaitTarget(t)]
      <4>1. l.done = loc[t].done
        BY <1>3
      <4>2. \/ LeaveMaintain(t)
            \/ Go(t, "maintainFence", l) \/ Go(t, "maintainWait", l)
        BY <1>6 DEF MaintainBegin
      <4>. HIDE DEF l
      <4>3. QED
        BY <4>1, <4>2
    <3>2. QED
      BY <1>2, <1>6, <2>1, <2>2, <3>1 DEF MaintainBegin
  <2>3. QED
    BY <1>6, <2>1, <2>2 DEF MaintainBegin
<1>7. CASE MaintainWait(t)
  BY <1>2, <1>7 DEF MaintainWait
<1>8. CASE MaintainFence(t)
  BY <1>2, <1>3, <1>8 DEF MaintainFence
<1>9. CASE MaintainHalFails(t)
  BY <1>2, <1>4, <1>9 DEF MaintainHalFails, LeaveMaintain
<1>10. CASE MaintainLock(t)
  BY <1>2, <1>3, <1>10 DEF MaintainLock
<1>11. CASE MapReady(t)
  <2>1. \E l : l.done = loc[t].done /\
          \/ Go(t, "mapSet", l) \/ Go(t, "mapRestore", l)
          \/ Go(t, "mapReady", l) \/ Go(t, "panicked", l)
    <3>. DEFINE b == Head(ready)
                l == [loc[t] EXCEPT !.buf = b, !.op = mapState[b].op]
                m == [loc[t] EXCEPT !.maps = Append(@, mapState[b].op)]
    <3>1. l.done = loc[t].done /\ m.done = loc[t].done
      BY <1>3
    <3>2. \/ Go(t, "mapSet", l) \/ Go(t, "mapRestore", l)
          \/ Go(t, "mapReady", m) \/ Go(t, "mapReady", loc[t]) \/ Go(t, "panicked", loc[t])
      BY <1>11 DEF MapReady
    <3>. HIDE DEF l, m
    <3>3. QED
      BY <3>1, <3>2
  <2>2. QED
    BY <1>2, <1>11, <2>1 DEF MapReady
<1>12. CASE MapSet(t)
  <2>1. \E l : l.done = loc[t].done /\ Go(t, "mapReady", l)
    <3>. DEFINE l == [loc[t] EXCEPT !.maps = Append(@, loc[t].op), !.buf = NoBuffer, !.op = 0]
    <3>1. l.done = loc[t].done
      BY <1>3
    <3>2. Go(t, "mapReady", l)
      BY <1>12 DEF MapSet
    <3>. HIDE DEF l
    <3>3. QED
      BY <3>1, <3>2
  <2>2. QED
    BY <1>2, <1>12, <2>1 DEF MapSet
<1>13. CASE MapRestore(t)
  BY <1>2, <1>3, <1>13 DEF MapRestore
<1>14. CASE MaintainUnlock(t)
  BY <1>2, <1>3, <1>14 DEF MaintainUnlock
<1>15. CASE MaintainResult(t)
  <2>1. \E l : l.done = loc[t].done /\
          (Go(t, "panicked", l) \/ Go(t, "releaseLock", l) \/ Go(t, "fire", l))
    BY <1>3, <1>15 DEF MaintainResult, LosingClosures
  <2>2. QED
    BY <1>2, <1>15, <2>1 DEF MaintainResult
<1>16. CASE ReleaseLock(t)
  BY <1>2, <1>3, <1>16 DEF ReleaseLock
<1>17. CASE ReleaseNext(t)
  <2>1. \E l : l.done = loc[t].done /\ (Go(t, "destroySnatch", l) \/ Go(t, "releaseNext", l))
    BY <1>3, <1>17 DEF ReleaseNext
  <2>2. QED
    BY <1>2, <1>17, <2>1 DEF ReleaseNext
<1>18. CASE ReleaseDone(t)
  BY <1>2, <1>3, <1>18 DEF ReleaseDone
<1>19. CASE Triage(t)
  <2>1. CASE ~HeadDone(active, loc[t].done)
    BY <1>2, <1>19, <2>1 DEF Triage
  <2>2. CASE HeadDone(active, loc[t].done)
    BY <1>19, <2>2, DrainKeeps
  <2>3. QED
    BY <2>1, <2>2
<1>20. CASE MapHalFails(t)
  <2>1. \E l : l.done = loc[t].done /\ Go(t, "mapReady", l)
    <3>. DEFINE l == [loc[t] EXCEPT !.maps = Append(@, loc[t].op), !.buf = NoBuffer, !.op = 0]
    <3>1. l.done = loc[t].done
      BY <1>3
    <3>2. Go(t, "mapReady", l)
      BY <1>20 DEF MapHalFails
    <3>. HIDE DEF l
    <3>3. QED
      BY <3>1, <3>2
  <2>2. QED
    BY <1>2, <1>20, <2>1 DEF MapHalFails
<1>21. QED
  BY <1>5, <1>6, <1>7, <1>8, <1>9, <1>10, <1>11, <1>12, <1>13, <1>14, <1>15,
     <1>16, <1>17, <1>18, <1>19, <1>20 DEF MaintainStep

-----------------------------------------------------------------------------
(* A submission that ends without one: rejected, or refused by the driver. *)
LEMMA EndKeeps ==
  ASSUME TypeInv, SubmissionInv, NEW t \in Thread, pc[t] = "submitPrepare",
         Go(t, "idle", Nothing), fenceW' = NoThread, UNCHANGED <<indices, driver, active, pendingL>>
  PROVE  SubmissionInv'
<1> USE DEF SubmissionInv
<1>1. Others(t) /\ pc'[t] = "idle" /\ loc'[t].done = 0 /\ gpuDone \in Nat
  BY GoAt DEF TypeInv, DeviceTypeOK, Nothing
<1>2. \A u \in Thread : u # t => pc[u] \notin Submitting
  BY DEF LockInv, Submitting
<1>3. LockInv' /\ IndexInv' /\ ActiveSorted'
  BY <1>1, <1>2 DEF LockInv, IndexInv, ActiveSorted, Others, Submitting, AtPending, indices, driver
<1>4. LocalInv'
  <2>1. ASSUME NEW u \in Thread PROVE loc'[u].done <= gpuDone /\ pc'[u] \notin Submitting
    BY <1>1, <1>2 DEF LocalInv, Others, Submitting
  <2>2. QED
    BY <2>1 DEF LocalInv, Submitting, driver
<1>5. TrackInv'
  BY <1>1, <1>2 DEF TrackInv, Tracked, Submitting, driver
<1>6. QED
  BY <1>3, <1>4, <1>5

(* Nobody else submits while t does. *)
LEMMA Alone ==
  ASSUME SubmissionInv, NEW t \in Thread, pc[t] \in Submitting
  PROVE  fenceW = t /\ \A u \in Thread : u # t => pc[u] \notin Submitting
BY DEF SubmissionInv, LockInv

(* The beginning of a submission. *)
LEMMA FenceKeeps ==
  ASSUME TypeInv, SubmissionInv, NEW t \in Thread, SubmitFence(t) PROVE SubmissionInv'
<1> USE DEF SubmissionInv
<1>1. /\ ThreadInv /\ activeIndex \in Nat /\ lastSuccessful \in Nat /\ gpuDone \in Nat
      /\ loc[t] \in Locals /\ loc[t].done <= gpuDone /\ pc[t] = "submitFence"
      /\ fenceW = NoThread /\ active' = active
      /\ UNCHANGED <<lastSuccessful, driver, pendingL>> /\ activeIndex' = activeIndex + 1
  BY LocType DEF TypeInv, DeviceTypeOK, LocalInv, SubmitFence, FenceFree, life
<1>2. \A u \in Thread : pc[u] \notin Submitting
  BY <1>1, ThreadAssumption DEF LockInv
<1>3. /\ Others(t) /\ loc'[t].done <= gpuDone
      /\ \/ pc'[t] = "idle"
         \/ pc'[t] = "submitPrepare" /\ loc'[t].idx = activeIndex + 1 /\ fenceW' = t
  <2>. DEFINE l == [loc[t] EXCEPT !.idx = activeIndex + 1]
  <2>1. l.done = loc[t].done /\ l.idx = activeIndex + 1
    BY <1>1 DEF Locals
  <2>2. Go(t, "idle", Nothing) \/ (Go(t, "submitPrepare", l) /\ fenceW' = t)
    BY DEF SubmitFence
  <2>3. Nothing.done = 0
    BY DEF Nothing
  <2>. HIDE DEF l
  <2>4. QED
    BY <1>1, <2>1, <2>2, <2>3, GoAt
<1>4. LockInv'
  BY <1>1, <1>2, <1>3 DEF LockInv, Others, Submitting, AtPending
<1>5. IndexInv' /\ ActiveSorted'
  BY <1>1 DEF IndexInv, ActiveSorted, driver
<1>6. LocalInv'
  <2>1. ASSUME NEW u \in Thread, u # t PROVE loc'[u].done <= gpuDone /\ pc'[u] \notin Submitting
    BY <1>2, <1>3, <2>1 DEF LocalInv, Others
  <2>2. lastSuccessful < activeIndex + 1
    BY <1>1 DEF IndexInv
  <2>3. QED
    BY <1>1, <1>3, <2>1, <2>2 DEF LocalInv, Submitting, driver
<1>7. TrackInv'
  BY <1>1, <1>2 DEF TrackInv, Tracked, Submitting, driver
<1>8. QED
  BY <1>4, <1>5, <1>6, <1>7

(* A command buffer is taken over. *)
LEMMA PrepareKeeps ==
  ASSUME TypeInv, SubmissionInv, NEW t \in Thread, SubmitPrepare(t) PROVE SubmissionInv'
<1> USE DEF SubmissionInv
<1>1. /\ ThreadInv /\ loc[t] \in Locals /\ pc[t] = "submitPrepare"
      /\ UNCHANGED <<indices, driver, active, fenceW, pendingL>>
  BY LocType DEF TypeInv, SubmitPrepare, life, locks
<1>2. Others(t) /\ pc'[t] = pc[t] /\ loc'[t].done = loc[t].done /\ loc'[t].idx = loc[t].idx
  <2>. DEFINE l == [loc[t] EXCEPT !.cmds = Tail(@), !.used = @ \cup Head(loc[t].cmds)]
  <2>1. l.done = loc[t].done /\ l.idx = loc[t].idx
    BY <1>1 DEF Locals
  <2>2. Go(t, "submitPrepare", l)
    BY DEF SubmitPrepare
  <2>. HIDE DEF l
  <2>3. QED
    BY <1>1, <2>1, <2>2, GoAt
<1>3. \A u \in Thread : u # t => pc[u] \notin Submitting
  BY <1>1, Alone DEF Submitting
<1>4. LockInv' /\ IndexInv' /\ ActiveSorted'
  BY <1>1, <1>2 DEF LockInv, IndexInv, ActiveSorted, Others, indices, driver
<1>5. LocalInv'
  BY <1>1, <1>2, <1>3 DEF LocalInv, Others, Submitting, indices, driver
<1>6. TrackInv'
  BY <1>1, <1>3 DEF TrackInv, Tracked, Submitting, driver
<1>7. QED
  BY <1>4, <1>5, <1>6

(* The driver takes a submission: its index is above all it ever had. *)
LEMMA HalKeeps ==
  ASSUME TypeInv, SubmissionInv, NEW t \in Thread, SubmitHal(t) PROVE SubmissionInv'
<1> USE DEF SubmissionInv
<1>. DEFINE S == [index : Nat, bufs : SUBSET Buffer]
            all == loc[t].used \cup (IF recording THEN dst ELSE {})
            new == [index |-> loc[t].idx, bufs |-> all]
<1>1. /\ ThreadInv /\ activeIndex \in Nat /\ lastSuccessful \in Nat /\ gpuDone \in Nat
      /\ loc[t] \in Locals /\ loc[t].idx \in Nat /\ loc[t].done <= gpuDone
      /\ active \in Seq(Entries(WorkDone)) /\ gpu \in Seq(S)
      /\ pc[t] = "submitPrepare" /\ loc[t].idx = activeIndex /\ lastSuccessful < loc[t].idx
  BY LocType DEF TypeInv, DeviceTypeOK, LifeTypeOK, Submission, LocalInv, SubmitHal
<1>2. /\ active' = active /\ UNCHANGED <<activeIndex, gpuDone, fenceW>>
      /\ gpu' = Append(gpu, new) /\ lastSuccessful' = loc[t].idx
      /\ pendingL = NoThread /\ pendingL' = t
  BY <1>1 DEF SubmitHal, life
<1>3. /\ Others(t) /\ pc'[t] = "submitTrack" /\ loc'[t].done = loc[t].done
      /\ loc'[t].idx = loc[t].idx /\ loc'[t].used = all
  <2>. DEFINE l == [loc[t] EXCEPT !.used = all, !.tmp = IF recording THEN temps ELSE {}]
  <2>1. l.done = loc[t].done /\ l.idx = loc[t].idx /\ l.used = all
    BY <1>1 DEF Locals
  <2>2. Go(t, "submitTrack", l)
    BY DEF SubmitHal
  <2>. HIDE DEF l, all
  <2>3. QED
    BY <1>1, <2>1, <2>2, GoAt
<1>4. fenceW = t /\ \A u \in Thread : u # t => pc[u] \notin Submitting
  BY <1>1, Alone DEF Submitting
<1>5. \A u \in Thread : u # t => pc[u] \notin AtPending
  BY <1>2, ThreadAssumption DEF LockInv
<1>6. LockInv'
  BY <1>2, <1>3, <1>4, <1>5 DEF LockInv, Others
<1>7. ASSUME NEW i \in DOMAIN gpu
      PROVE gpu[i].index \in Nat /\ gpu[i].index <= lastSuccessful /\ gpuDone < gpu[i].index
  <2>1. gpu[i] \in S
    <3>1. gpu \in Seq(S)
      BY <1>1
    <3>. HIDE DEF S
    <3>2. QED
      BY <3>1
  <2>2. QED
    BY <2>1 DEF IndexInv
<1>8. /\ DOMAIN gpu' = DOMAIN gpu \cup {Len(gpu) + 1} /\ gpu'[Len(gpu) + 1] = new
      /\ \A i \in DOMAIN gpu : gpu'[i] = gpu[i] /\ i < Len(gpu) + 1
      /\ Len(gpu) + 1 \notin DOMAIN gpu
  <2>1. gpu \in Seq(S)
    BY <1>1
  <2>. HIDE DEF S, new
  <2>2. QED
    BY <1>2, <2>1
<1>9. IndexInv'
  <2>1. gpuDone < new.index /\ new.index <= lastSuccessful' /\ new.index = loc[t].idx
    BY <1>1, <1>2 DEF IndexInv
  <2>2. \A i \in DOMAIN gpu' : gpuDone' < gpu'[i].index /\ gpu'[i].index <= lastSuccessful'
    BY <1>1, <1>2, <1>7, <1>8, <2>1
  <2>3. \A i, j \in DOMAIN gpu' : i < j => gpu'[i].index < gpu'[j].index
    <3>1. ASSUME NEW i \in DOMAIN gpu', NEW j \in DOMAIN gpu', i < j
          PROVE gpu'[i].index < gpu'[j].index
      <4>1. i \in DOMAIN gpu
        BY <1>1, <1>8, <3>1
      <4>2. CASE j \in DOMAIN gpu
        BY <1>8, <3>1, <4>1, <4>2 DEF IndexInv
      <4>3. CASE j = Len(gpu) + 1
        BY <1>1, <1>7, <1>8, <2>1, <4>1, <4>3
      <4>4. QED
        BY <1>8, <4>2, <4>3
    <3>2. QED
      BY <3>1
  <2>4. gpuDone' <= lastSuccessful' /\ lastSuccessful' <= activeIndex'
    BY <1>1, <1>2 DEF IndexInv
  <2>5. QED
    BY <2>2, <2>3, <2>4 DEF IndexInv
<1>10. \A i \in DOMAIN active : active[i].index \in Nat /\ active[i].index <= lastSuccessful
  BY <1>1, EntryUpdate DEF ActiveSorted, Entries
<1>11. LocalInv'
  <2>1. ASSUME NEW u \in Thread
        PROVE  loc'[u].done <= gpuDone /\ (u # t => pc'[u] \notin Submitting)
    BY <1>1, <1>3, <1>4 DEF LocalInv, Others
  <2>2. \A i \in DOMAIN active : active[i].index < loc[t].idx
    BY <1>1, <1>10
  <2>. HIDE DEF all, new
  <2>3. QED
    BY <1>2, <1>3, <2>1, <2>2 DEF LocalInv, Submitting
<1>12. ActiveSorted'
  BY <1>1, <1>2, <1>10 DEF ActiveSorted
<1>13. TrackInv'
  <2>1. ASSUME NEW s, Tracked(s) PROVE Tracked(s)'
    BY <1>1, <1>2, <1>4, <2>1 DEF Tracked, Submitting
  <2>2. ASSUME NEW i \in DOMAIN gpu PROVE Tracked(gpu[i])'
    <3>1. PICK s : s = gpu[i] /\ Tracked(s)
      BY DEF TrackInv
    <3>2. gpu'[i] = s /\ Tracked(s)'
      BY <1>8, <2>1, <3>1
    <3>3. QED
      BY <3>2
  <2>3. Len(gpu') = Len(gpu) + 1
    <3>1. gpu \in Seq(S)
      BY <1>1
    <3>. HIDE DEF S, new
    <3>2. QED
      BY <1>2, <3>1
  <2>4. Tracked(gpu[Len(gpu)])'
    <3>1. gpu'[Len(gpu')] = new
      BY <1>8, <2>3
    <3>2. pc'[t] = "submitTrack" /\ loc'[t].idx = new.index /\ new.bufs \subseteq loc'[t].used
      BY <1>3
    <3>. HIDE DEF new
    <3>3. QED
      BY <3>1, <3>2 DEF Tracked
  <2>. HIDE DEF new
  <2>5. \A i \in DOMAIN gpu' : i \in DOMAIN gpu \/ i = Len(gpu')
    BY <1>8, <2>3
  <2>6. QED
    BY <2>2, <2>4, <2>5 DEF TrackInv
<1>14. QED
  BY <1>6, <1>9, <1>11, <1>12, <1>13

(* The lifetime tracker learns of a submission. *)
LEMMA TrackKeeps ==
  ASSUME TypeInv, SubmissionInv, NEW t \in Thread, SubmitTrack(t) PROVE SubmissionInv'
<1> USE DEF SubmissionInv
<1>. DEFINE new == Entry(loc[t].idx, loc[t].used, loc[t].tmp)
<1>1. /\ ThreadInv /\ activeIndex \in Nat /\ lastSuccessful \in Nat /\ gpuDone \in Nat
      /\ loc[t] \in Locals /\ loc[t].idx \in Nat
      /\ active \in Seq(Entries(WorkDone)) /\ pc[t] = "submitTrack"
      /\ loc[t].idx = lastSuccessful /\ \A i \in DOMAIN active : active[i].index < loc[t].idx
  BY LocType DEF TypeInv, DeviceTypeOK, LifeTypeOK, Submission, LocalInv, SubmitTrack
<1>2. /\ active' = Append(active, new) /\ UNCHANGED <<indices, driver>>
      /\ fenceW' = NoThread /\ pendingL' = NoThread
  BY DEF SubmitTrack, TrackSubmission
<1>3. Others(t) /\ pc'[t] = "maintain" /\ loc'[t].done = 0
  BY <1>1, GoAt DEF SubmitTrack, Nothing
<1>4. \A u \in Thread : u # t => pc[u] \notin Submitting /\ pc[u] \notin AtPending
  BY <1>1 DEF LockInv, Submitting, AtPending
<1>5. LockInv' /\ IndexInv'
  BY <1>2, <1>3, <1>4 DEF LockInv, IndexInv, Others, Submitting, AtPending, indices, driver
<1>6. LocalInv'
  <2>1. ASSUME NEW u \in Thread PROVE loc'[u].done <= gpuDone /\ pc'[u] \notin Submitting
    BY <1>1, <1>3, <1>4 DEF LocalInv, Others, Submitting
  <2>2. QED
    BY <1>2, <2>1 DEF LocalInv, Submitting, driver
<1>7. /\ new.index = loc[t].idx /\ new.bufs = loc[t].used
      /\ DOMAIN active' = DOMAIN active \cup {Len(active) + 1}
      /\ active'[Len(active) + 1] = new
      /\ \A i \in DOMAIN active : active'[i] = active[i]
      /\ \A i, j \in DOMAIN active' : i < j => i \in DOMAIN active
  <2>1. new.index = loc[t].idx /\ new.bufs = loc[t].used
    BY DEF Entry
  <2>. HIDE DEF new
  <2>2. QED
    BY <1>1, <1>2, <2>1
<1>. HIDE DEF new
<1>8. ActiveSorted'
  <2>1. ASSUME NEW i \in DOMAIN active', NEW j \in DOMAIN active', i < j
        PROVE active'[i].index < active'[j].index
    <3>1. i \in DOMAIN active
      BY <1>7, <2>1
    <3>2. CASE j \in DOMAIN active
      BY <1>7, <2>1, <3>1, <3>2 DEF ActiveSorted
    <3>3. CASE j = Len(active) + 1
      BY <1>1, <1>7, <3>1, <3>3
    <3>4. QED
      BY <1>7, <3>2, <3>3
  <2>2. \A i \in DOMAIN active' : active'[i].index <= lastSuccessful
    BY <1>1, <1>7 DEF ActiveSorted
  <2>3. QED
    BY <1>2, <2>1, <2>2 DEF ActiveSorted, indices
<1>9. TrackInv'
  <2>1. ASSUME NEW s, Tracked(s) PROVE Tracked(s)'
    <3>1. CASE \E j \in DOMAIN active :
                  active[j].index = s.index /\ s.bufs \subseteq active[j].bufs
      BY <1>7, <3>1 DEF Tracked
    <3>2. CASE loc[t].idx = s.index /\ s.bufs \subseteq loc[t].used
      BY <1>7, <3>2 DEF Tracked
    <3>3. QED
      BY <1>4, <2>1, <3>1, <3>2 DEF Tracked, Submitting
  <2>2. QED
    BY <1>2, <2>1 DEF TrackInv, driver
<1>10. QED
  BY <1>5, <1>6, <1>8, <1>9

(* The GPU completes the oldest submission it has. *)
LEMMA GpuKeeps == ASSUME TypeInv, SubmissionInv, GpuComplete PROVE SubmissionInv'
<1> USE DEF SubmissionInv
<1>. DEFINE S == [index : Nat, bufs : SUBSET Buffer]
<1>1. /\ gpu \in Seq(S) /\ gpu # <<>> /\ gpu' = Tail(gpu) /\ gpuDone' = gpu[1].index
      /\ UNCHANGED <<indices, life, pc, loc, fenceW, pendingL>>
      /\ gpuDone \in Nat /\ lastSuccessful \in Nat
      /\ \A u \in Thread : loc[u].done \in Nat
  BY LocType DEF TypeInv, DeviceTypeOK, GpuComplete, locks
<1>2. ASSUME NEW i \in DOMAIN gpu PROVE gpu[i].index \in Nat
  <2>1. gpu[i] \in S
    <3>1. gpu \in Seq(S)
      BY <1>1
    <3>. HIDE DEF S
    <3>2. QED
      BY <3>1
  <2>2. QED
    BY <2>1
<1>3. /\ \A i \in DOMAIN gpu' : i \in Nat /\ i + 1 \in DOMAIN gpu /\ gpu'[i] = gpu[i + 1] /\ 1 < i + 1
      /\ 1 \in DOMAIN gpu
  <2>1. gpu \in Seq(S) /\ gpu # <<>> /\ gpu' = Tail(gpu)
    BY <1>1
  <2>. HIDE DEF S
  <2>2. QED
    BY <2>1
<1>4. LockInv' /\ ActiveSorted'
  BY <1>1 DEF LockInv, ActiveSorted, indices, life
<1>5. gpuDone < gpuDone' /\ gpuDone' \in Nat /\ gpuDone' <= lastSuccessful
  BY <1>1, <1>2, <1>3 DEF IndexInv
<1>6. IndexInv'
  <2>1. \A i \in DOMAIN gpu' : gpuDone' < gpu'[i].index /\ gpu'[i].index <= lastSuccessful
    BY <1>1, <1>3 DEF IndexInv
  <2>2. \A i, j \in DOMAIN gpu' : i < j => gpu'[i].index < gpu'[j].index
    BY <1>3 DEF IndexInv
  <2>3. QED
    BY <1>1, <1>5, <2>1, <2>2 DEF IndexInv, indices
<1>7. LocalInv'
  <2>1. ASSUME NEW u \in Thread PROVE loc[u].done <= gpuDone'
    BY <1>1, <1>5 DEF LocalInv
  <2>2. QED
    BY <1>1, <2>1 DEF LocalInv, indices, life
<1>8. TrackInv'
  <2>1. ASSUME NEW s, Tracked(s) PROVE Tracked(s)'
    BY <1>1, <2>1 DEF Tracked, life
  <2>2. ASSUME NEW i \in DOMAIN gpu' PROVE Tracked(gpu[i])'
    <3>1. PICK s : s = gpu[i + 1] /\ Tracked(s)
      BY <1>3 DEF TrackInv
    <3>2. gpu'[i] = s /\ Tracked(s)'
      BY <1>3, <2>1, <3>1
    <3>3. QED
      BY <3>2
  <2>3. QED
    BY <2>2 DEF TrackInv
<1>9. QED
  BY <1>4, <1>6, <1>7, <1>8

(* Nothing is submitted in the initial state. *)
LEMMA InitSubmission == Init => SubmissionInv
BY DEF Init, SubmissionInv, LockInv, IndexInv, LocalInv, ActiveSorted, TrackInv,
       Submitting, AtPending, Nothing

(* Every step keeps the invariant. *)
LEMMA NextSubmission == TypeInv /\ SubmissionInv /\ [Next]_vars => SubmissionInv'
<1> SUFFICES ASSUME TypeInv, SubmissionInv, [Next]_vars PROVE SubmissionInv'
  OBVIOUS
<1>1. CASE UNCHANGED vars
  BY <1>1 DEF vars, indices, driver, life, locks, SubmissionInv, LockInv, IndexInv,
              LocalInv, ActiveSorted, TrackInv, Tracked
<1>2. CASE GpuComplete
  BY <1>2, GpuKeeps
<1>3. CASE LoseElsewhere
  BY <1>3 DEF LoseElsewhere, indices, driver, life, locks, SubmissionInv, LockInv, IndexInv,
              LocalInv, ActiveSorted, TrackInv, Tracked
<1>4. ASSUME NEW t \in Thread, Call(t) \/ Step(t) PROVE SubmissionInv'
  <2>1. CASE Call(t)
    BY <2>1, CallKeeps
  <2>2. CASE MaintainStep(t)
    BY <2>2, MaintainKeeps
  <2>3. CASE FireStep(t) \/ BufferStep(t)
    BY <2>3, BufferKeeps
  <2>4. CASE SubmitStep(t)
    <3>1. CASE SubmitReject(t)
      BY <3>1, EndKeeps DEF SubmitReject, life
    <3>2. CASE SubmitHalFails(t)
      BY <3>2, EndKeeps DEF SubmitHalFails, life
    <3>3. QED
      BY <2>4, <3>1, <3>2, FenceKeeps, PrepareKeeps, HalKeeps, TrackKeeps DEF SubmitStep
  <2>5. QED
    BY <1>4, <2>1, <2>2, <2>3, <2>4 DEF Step
<1>5. QED
  BY <1>1, <1>2, <1>3, <1>4 DEF Next

(***************************************************************************)
(* The fence's write side, taken before an index is allocated and kept     *)
(* until the submission is registered, and the pending writes' lock keep   *)
(* Queue::submit, LifetimeTracker and the GPU in step.                     *)
(***************************************************************************)
THEOREM Submissions == Spec => []SubmissionInv
<1>1. Init => SubmissionInv
  BY InitSubmission
<1>2. TypeInv /\ SubmissionInv /\ [Next]_vars => SubmissionInv'
  BY NextSubmission
<1>3. QED
  BY <1>1, <1>2, Types, PTL DEF Spec

(* The assertion triage_submissions cannot afford to make (life.rs:305).   *)
THEOREM Sorted == Spec => []ActiveSorted
<1>1. SubmissionInv => ActiveSorted
  BY DEF SubmissionInv
<1>2. QED
  BY <1>1, Submissions, PTL

(* What the GPU has, the lifetime tracker or the submitting thread has.    *)
THEOREM Tracking == Spec => []InFlightTracked
<1>1. SubmissionInv => InFlightTracked
  BY DEF SubmissionInv, TrackInv, Tracked, LockInv, Submitting, AtPending, InFlightTracked
<1>2. QED
  BY <1>1, Submissions, PTL

--------------------------------------------------------------------------------
(***************************************************************************)
(* NoUseAfterFree holds of DeviceQueue up to the first driver error, for   *)
(* any number of threads and buffers and whatever calls they make: a raw   *)
(* handle that is snatched while the GPU, a tracked submission or a        *)
(* recorded copy uses the buffer is always in somebody's temp_resources,   *)
(* and nobody drops it before the last of its users is done.               *)
(***************************************************************************)

(* Where a thread read-locks the snatch lock, as far as this proof asks:   *)
(* from validating or using raw handles until they are entrusted to the    *)
(* pending writes or to the lifetime tracker.                              *)
SnatchReaders ==
    {"submitFence", "submitPrepare", "submitTrack",
     "writePending", "writeTrack", "writeCheck", "unmapInit"}

(* A thread that has snatched a handle has it until DestroyPending or      *)
(* DestroyLife has found somebody who needs it.                            *)
Destroying == {"destroyPending", "destroyLife"}

(* What a thread inside a call may rely on.  A submit's and a write's      *)
(* buffers have their handles: nobody snatches them meanwhile.  A destroy  *)
(* that found no recorded copy keeps the pending writes locked, so that    *)
(* none can be recorded.                                                   *)
GuardInv ==
    \A t \in Thread :
      /\ pc[t] \in SnatchReaders => t \in snatchR
      /\ pc[t] \in {"submitFence", "submitPrepare"} => loc[t].used \cap snatched = {}
      /\ pc[t] \in {"writeCheck", "unmapInit"} => loc[t].buf \notin snatched
      /\ pc[t] \in Destroying => loc[t].buf \in loc[t].tmp
      /\ pc[t] = "destroyLife" => loc[t].buf \notin dst

(* Copies are recorded only in an encoder that is open. *)
RecordInv == dst # {} => recording

(* b's handle was just snatched, and who needs it is about to be asked.    *)
Asking(b) == \E t \in Thread : pc[t] = "destroyPending" /\ loc[t].buf = b

(* Somebody keeps b's handle, and for a submission no younger than n only  *)
(* if that one is not dropped before n is.                                 *)
KeptFor(b, n) ==
    \/ b \in temps
    \/ \E k \in DOMAIN active : b \in active[k].temps /\ n <= active[k].index
    \/ \E t \in Thread : pc[t] \in Destroying /\ loc[t].buf = b
    \/ \E t \in Thread : pc[t] = "submitTrack" /\ b \in loc[t].tmp

(* Whoever uses a buffer whose handle was snatched has a keeper for it.    *)
WritesKept == \A b \in snatched \cap dst : b \in temps \/ Asking(b)
SubmitKept ==
    \A t \in Thread : pc[t] = "submitTrack" =>
        \A b \in snatched \cap loc[t].used : b \in loc[t].tmp \/ Asking(b)
ActiveKept ==
    \A j \in DOMAIN active : \A b \in snatched \cap active[j].bufs :
        KeptFor(b, active[j].index)

HandleInv == hist.halFailed \/ (WritesKept /\ SubmitKept /\ ActiveKept)

OwnershipInv == GuardInv /\ RecordInv /\ HandleInv

-----------------------------------------------------------------------------
(* The same submissions, which keep the same handles. *)
SameKeepers(a, b) == SameSubmissions(a, b) /\ \A i \in DOMAIN a : b[i].temps = a[i].temps

(* A step of t that neither takes, nor entrusts, nor drops a handle, and   *)
(* records and submits nothing.                                            *)
LeavesHandles(t) ==
    /\ Others(t)
    /\ snatchR \ {t} \subseteq snatchR'
    /\ pc'[t] \in SnatchReaders => t \in snatchR'
    /\ pc[t] \notin Destroying \cup {"submitTrack"}
    /\ pc'[t] \notin Destroying \cup {"submitTrack"}
    /\ pc'[t] \in {"submitFence", "submitPrepare"} => loc'[t].used \cap snatched = {}
    /\ pc'[t] \in {"writeCheck", "unmapInit"} => loc'[t].buf \notin snatched
    /\ hist.halFailed => hist'.halFailed
    /\ SameKeepers(active, active')
    /\ UNCHANGED <<snatched, pending>>

(* Such a step leaves every handle where it was. *)
LEMMA HandlesStay ==
  ASSUME OwnershipInv, NEW t \in Thread, LeavesHandles(t)
  PROVE  OwnershipInv'
<1>1. GuardInv'
  <2>1. ASSUME NEW u \in Thread, u # t PROVE pc'[u] = pc[u] /\ loc'[u] = loc[u]
    BY <2>1 DEF LeavesHandles, Others
  <2>2. UNCHANGED <<snatched, dst>> /\ \A u \in Thread : u # t /\ u \in snatchR => u \in snatchR'
    BY DEF LeavesHandles, pending
  <2>3. QED
    BY <2>1, <2>2 DEF OwnershipInv, GuardInv, LeavesHandles, SnatchReaders, Destroying
<1>2. RecordInv'
  BY DEF OwnershipInv, RecordInv, LeavesHandles, pending
<1>3. CASE hist.halFailed
  BY <1>1, <1>2, <1>3 DEF OwnershipInv, HandleInv, LeavesHandles
<1>4. CASE ~hist.halFailed
  <2>1. UNCHANGED <<snatched, dst, temps>>
    BY DEF LeavesHandles, pending
  <2>2. ASSUME NEW u \in Thread, pc[u] \in Destroying \cup {"submitTrack"} \/ pc'[u] \in Destroying \cup {"submitTrack"}
        PROVE  pc'[u] = pc[u] /\ loc'[u] = loc[u]
    BY <2>2 DEF LeavesHandles, Others
  <2>3. \A b : Asking(b) => Asking(b)'
    BY <2>2 DEF Asking, Destroying
  <2>4. WritesKept'
    BY <1>4, <2>1, <2>3 DEF OwnershipInv, HandleInv, WritesKept
  <2>5. SubmitKept'
    BY <1>4, <2>1, <2>2, <2>3 DEF OwnershipInv, HandleInv, SubmitKept
  <2>6. ASSUME NEW b, NEW n, KeptFor(b, n) PROVE KeptFor(b, n)'
    <3>1. CASE b \in temps
      BY <2>1, <3>1 DEF KeptFor
    <3>2. CASE \E k \in DOMAIN active : b \in active[k].temps /\ n <= active[k].index
      BY <3>2 DEF KeptFor, LeavesHandles, SameKeepers, SameSubmissions
    <3>3. CASE \E u \in Thread : pc[u] \in Destroying /\ loc[u].buf = b
      BY <2>2, <3>3 DEF KeptFor
    <3>4. CASE \E u \in Thread : pc[u] = "submitTrack" /\ b \in loc[u].tmp
      BY <2>2, <3>4 DEF KeptFor
    <3>5. QED
      BY <2>6, <3>1, <3>2, <3>3, <3>4 DEF KeptFor
  <2>7. ActiveKept'
    BY <1>4, <2>1, <2>6 DEF OwnershipInv, HandleInv, ActiveKept, LeavesHandles, SameKeepers, SameSubmissions
  <2>8. QED
    BY <1>1, <1>2, <2>4, <2>5, <2>7 DEF OwnershipInv, HandleInv
<1>5. QED
  BY <1>3, <1>4

(* A map request and a work-done closure are attached to a submission      *)
(* without changing what it keeps.                                         *)
LEMMA AttachedKeeps ==
  ASSUME NEW W, NEW list \in Seq(Entries(W)), NEW b, NEW w
  PROVE  /\ SameKeepers(list, list)
         /\ SameKeepers(list, MapWithSubmission(list, b))
         /\ SameKeepers(list, ClosureWithSubmission(list, w))
<1>1. SameKeepers(list, list)
  BY DEF SameKeepers, SameSubmissions
<1>2. SameKeepers(list, MapWithSubmission(list, b))
  <2>1. \A i \in DOMAIN list : MapWithSubmission(list, b)[i].temps = list[i].temps
    BY DEF MapWithSubmission, Entries
  <2>2. QED
    BY <2>1, Attached DEF SameKeepers
<1>3. SameKeepers(list, ClosureWithSubmission(list, w))
  <2>1. \A i \in DOMAIN list : ClosureWithSubmission(list, w)[i].temps = list[i].temps
    BY DEF ClosureWithSubmission, Entries
  <2>2. QED
    BY <2>1, Attached DEF SameKeepers
<1>4. QED
  BY <1>1, <1>2, <1>3

(* No call begins by touching a handle. *)
LEMMA CallOwns ==
  ASSUME TypeInv, OwnershipInv, NEW t \in Thread, Call(t) PROVE OwnershipInv'
<1>1. ThreadInv /\ active \in Seq(Entries(WorkDone)) /\ hist \in HistoryType
  BY DEF TypeInv, LifeTypeOK, Submission
<1>2. SameKeepers(active, active)
  BY <1>1, AttachedKeeps
<1>3. ASSUME NEW l, NEW w, Go(t, w, l), pc[t] = "idle",
             w \notin Destroying \cup {"submitTrack", "submitPrepare", "writeCheck", "unmapInit"},
             w = "submitFence" => l.used = {},
             \/ snatchR' = snatchR \cup {t}
             \/ snatchR' = snatchR /\ w \notin SnatchReaders,
             hist'.halFailed = hist.halFailed, active' = active, UNCHANGED <<snatched, pending>>
      PROVE OwnershipInv'
  <2>1. Others(t) /\ pc'[t] = w /\ loc'[t] = l
    BY <1>1, <1>3, GoAt
  <2>2. LeavesHandles(t)
    BY <1>2, <1>3, <2>1 DEF LeavesHandles, Destroying
  <2>3. QED
    BY <2>2, HandlesStay
<1>4. ASSUME UNCHANGED <<pc, loc, snatchR, snatched, pending>>, pc[t] = "idle",
             hist'.halFailed = hist.halFailed, SameKeepers(active, active')
      PROVE OwnershipInv'
  <2>1. LeavesHandles(t)
    BY <1>4 DEF LeavesHandles, Others, SnatchReaders, Destroying
  <2>2. QED
    BY <2>1, HandlesStay
<1>5. \A x : [Nothing EXCEPT !.cmds = x].used = {}
  BY DEF Nothing
<1>6. \A x, y, z, v : /\ [hist EXCEPT !.maps = x, !.mapBuf[y] = z].halFailed = hist.halFailed
                      /\ [hist EXCEPT !.works = x, !.workIndex[x] = y, !.workMaps[x] = v].halFailed = hist.halFailed
  BY <1>1 DEF HistoryType
<1> USE DEF MayCall, SnatchReaders, Destroying, life, buffers, locks
<1>7. CASE CallSubmit(t)
  BY <1>3, <1>5, <1>7 DEF CallSubmit
<1>8. CASE CallPoll(t)
  BY <1>3, <1>8 DEF CallPoll
<1>9. CASE CallWait(t)
  BY <1>3, <1>9 DEF CallWait
<1>10. CASE CallWrite(t)
  BY <1>3, <1>10 DEF CallWrite
<1>11. CASE CallMapAsync(t)
  BY <1>3, <1>6, <1>11 DEF CallMapAsync
<1>12. CASE CallUnmap(t)
  BY <1>3, <1>12 DEF CallUnmap
<1>13. CASE CallDestroy(t)
  BY <1>3, <1>13 DEF CallDestroy
<1>14. CASE CallDrop(t)
  BY <1>3, <1>14 DEF CallDrop
<1>15. CASE CallWorkDone(t)
  BY <1>1, <1>4, <1>6, <1>15, AttachedKeeps DEF CallWorkDone
<1>16. CASE CallDestroyDevice(t)
  BY <1>2, <1>4, <1>16 DEF CallDestroyDevice
<1>17. QED
  BY <1>7, <1>8, <1>9, <1>10, <1>11, <1>12, <1>13, <1>14, <1>15, <1>16 DEF Call

(* Firing closures, mapping, and a write up to the check of its buffer     *)
(* touch no handle; the check finds a buffer that is not destroyed, and    *)
(* will not be while the snatch lock is read-locked.                       *)
LEMMA BufferOwns ==
  ASSUME TypeInv, OwnershipInv, NEW t \in Thread,
         \/ FireStep(t) \/ WritePending(t) \/ WriteTrack(t)
         \/ MapAsyncState(t) \/ MapAsyncLife(t) \/ Unmap(t)
  PROVE  OwnershipInv'
<1>1. /\ ThreadInv /\ active \in Seq(Entries(WorkDone)) /\ hist \in HistoryType
      /\ loc[t] \in Locals
      /\ pc[t] \in SnatchReaders => t \in snatchR
  BY LocType DEF TypeInv, LifeTypeOK, Submission, OwnershipInv, GuardInv
<1>2. SameKeepers(active, active)
  BY <1>1, AttachedKeeps
<1>3. ASSUME NEW l, NEW w, Go(t, w, l), pc[t] \notin Destroying \cup {"submitTrack"},
             w \notin Destroying \cup {"submitFence", "submitPrepare", "submitTrack"},
             w \in {"writeCheck", "unmapInit"} => l.buf \notin snatched,
             snatchR \ {t} \subseteq snatchR', w \in SnatchReaders => t \in snatchR',
             hist.halFailed => hist'.halFailed, SameKeepers(active, active'),
             UNCHANGED <<snatched, pending>>
      PROVE OwnershipInv'
  <2>1. Others(t) /\ pc'[t] = w /\ loc'[t] = l
    BY <1>1, <1>3, GoAt
  <2>2. LeavesHandles(t)
    BY <1>3, <2>1 DEF LeavesHandles
  <2>3. QED
    BY <2>2, HandlesStay
<1>4. \A x, y : /\ [hist EXCEPT !.lostFired = y].halFailed = hist.halFailed
                /\ [hist EXCEPT !.mapIndex[x] = y].halFailed = hist.halFailed
  BY <1>1 DEF HistoryType
<1> USE DEF SnatchReaders, Destroying, life, buffers, locks
<1>5. CASE FireMapping(t)
  <2>1. hist'.halFailed = hist.halFailed
    <3>. DEFINE f == [hist.mapFired EXCEPT ![Head(loc[t].maps)] = hist.mapFired[Head(loc[t].maps)] + 1]
    <3>1. hist' = [hist EXCEPT !.mapFired = f]
      BY <1>5 DEF FireMapping
    <3>. HIDE DEF f
    <3>2. QED
      BY <1>1, <3>1 DEF HistoryType
  <2>2. QED
    BY <1>2, <1>3, <1>5, <2>1 DEF FireMapping
<1>6. CASE FireWorkDone(t)
  <2>1. hist'.halFailed = hist.halFailed
    <3>. DEFINE f == [hist.workFired EXCEPT ![Head(loc[t].works)] = hist.workFired[Head(loc[t].works)] + 1]
    <3>1. hist' = [hist EXCEPT !.workFired = f]
      BY <1>6 DEF FireWorkDone
    <3>. HIDE DEF f
    <3>2. QED
      BY <1>1, <3>1 DEF HistoryType
  <2>2. QED
    BY <1>2, <1>3, <1>6, <2>1 DEF FireWorkDone
<1>7. CASE FireLost(t)
  BY <1>2, <1>3, <1>4, <1>7 DEF FireLost
<1>8. CASE Fired(t)
  BY <1>2, <1>3, <1>8 DEF Fired
<1>w. ASSUME LeaveWrite(t), pc[t] \notin Destroying \cup {"submitTrack"}, hist' = hist,
             active' = active, UNCHANGED <<snatched, pending>>
      PROVE OwnershipInv'
  BY <1>2, <1>3, <1>w DEF LeaveWrite
<1>9. CASE WritePending(t)
  <2>1. CASE valid
    BY <1>1, <1>2, <1>3, <1>9, <2>1 DEF WritePending
  <2>2. CASE ~valid
    BY <1>w, <1>9, <2>2 DEF WritePending
  <2>3. QED
    BY <2>1, <2>2
<1>10. CASE WriteTrack(t)
  <2>1. CASE loc[t].buf \notin snatched
    BY <1>1, <1>2, <1>3, <1>10, <2>1 DEF WriteTrack
  <2>2. CASE loc[t].buf \in snatched
    BY <1>w, <1>10, <2>2 DEF WriteTrack
  <2>3. QED
    BY <2>1, <2>2
<1>11. CASE MapAsyncState(t)
  BY <1>2, <1>3, <1>11 DEF MapAsyncState
<1>12. CASE MapAsyncLife(t)
  BY <1>1, <1>3, <1>4, <1>12, AttachedKeeps DEF MapAsyncLife
<1>13. CASE Unmap(t)
  <2>1. CASE loc[t].buf \in snatched \/ mapState[loc[t].buf].st # "Init"
    BY <1>2, <1>3, <1>13, <2>1 DEF Unmap
  <2>2. CASE loc[t].buf \notin snatched /\ mapState[loc[t].buf].st = "Init"
    BY <1>2, <1>3, <1>13, <2>2 DEF Unmap
  <2>3. QED
    BY <2>1, <2>2
<1>14. QED
  BY <1>5, <1>6, <1>7, <1>8, <1>9, <1>10, <1>11, <1>12, <1>13 DEF FireStep

(* Maintaining maps, polls and releases; what triage drains comes below.   *)
LEMMA MaintainOwns ==
  ASSUME TypeInv, OwnershipInv, NEW t \in Thread, MaintainStep(t),
         ~(Triage(t) /\ HeadDone(active, loc[t].done))
  PROVE  OwnershipInv'
<1>1. ThreadInv /\ active \in Seq(Entries(WorkDone)) /\ hist \in HistoryType
  BY DEF TypeInv, LifeTypeOK, Submission
<1>2. SameKeepers(active, active)
  BY <1>1, AttachedKeeps
<1>3. ASSUME NEW l, NEW w, Go(t, w, l), pc[t] \notin Destroying \cup {"submitTrack"},
             w \notin Destroying \cup SnatchReaders, snatchR \ {t} \subseteq snatchR',
             hist.halFailed => hist'.halFailed, active' = active,
             UNCHANGED <<snatched, pending>>
      PROVE OwnershipInv'
  <2>1. Others(t) /\ pc'[t] = w /\ loc'[t] = l
    BY <1>1, <1>3, GoAt
  <2>2. LeavesHandles(t)
    BY <1>2, <1>3, <2>1 DEF LeavesHandles, SnatchReaders
  <2>3. QED
    BY <2>2, HandlesStay
<1>4. Lose => hist'.halFailed
  BY <1>1 DEF Lose, HistoryType
<1> USE DEF SnatchReaders, Destroying, life, buffers, locks
<1>5. CASE PollFence(t)
  BY <1>3, <1>5 DEF PollFence
<1>6. CASE MaintainBegin(t)
  BY <1>3, <1>6 DEF MaintainBegin, LeaveMaintain
<1>7. CASE MaintainWait(t)
  BY <1>3, <1>7 DEF MaintainWait
<1>8. CASE MaintainFence(t)
  BY <1>3, <1>8 DEF MaintainFence
<1>9. CASE MaintainHalFails(t)
  BY <1>3, <1>4, <1>9 DEF MaintainHalFails, LeaveMaintain
<1>10. CASE MaintainLock(t)
  BY <1>3, <1>10 DEF MaintainLock
<1>11. CASE Triage(t)
  BY <1>3, <1>11 DEF Triage
<1>12. CASE MapReady(t)
  BY <1>3, <1>12 DEF MapReady
<1>13. CASE MapSet(t)
  BY <1>3, <1>13 DEF MapSet
<1>14. CASE MapHalFails(t)
  BY <1>3, <1>4, <1>14 DEF MapHalFails
<1>15. CASE MapRestore(t)
  BY <1>3, <1>15 DEF MapRestore
<1>16. CASE MaintainUnlock(t)
  BY <1>3, <1>16 DEF MaintainUnlock
<1>17. CASE MaintainResult(t)
  BY <1>3, <1>17 DEF MaintainResult
<1>18. CASE ReleaseLock(t)
  BY <1>3, <1>18 DEF ReleaseLock
<1>19. CASE ReleaseNext(t)
  BY <1>3, <1>19 DEF ReleaseNext
<1>20. CASE ReleaseDone(t)
  BY <1>3, <1>20 DEF ReleaseDone
<1>21. QED
  BY <1>5, <1>6, <1>7, <1>8, <1>9, <1>10, <1>11, <1>12, <1>13, <1>14, <1>15,
     <1>16, <1>17, <1>18, <1>19, <1>20 DEF MaintainStep

-----------------------------------------------------------------------------
(* What a step of t must do for the guarantees of GuardInv to outlive it:  *)
(* respect the snatch locks of the others, destroy only when nobody reads  *)
(* and record only when nobody has found that there is no copy.            *)
LEMMA GuardKeeps ==
  ASSUME OwnershipInv, NEW t \in Thread, Others(t), snatchR \ {t} \subseteq snatchR',
         snatched' = snatched \/ (snatchR = {} /\ pc'[t] \notin SnatchReaders),
         dst' \subseteq dst \/ \A u \in Thread : u # t => pc[u] # "destroyLife",
         pc'[t] \in SnatchReaders => t \in snatchR',
         pc'[t] \in {"submitFence", "submitPrepare"} => loc'[t].used \cap snatched = {},
         pc'[t] \notin {"writeCheck", "unmapInit"},
         pc'[t] \in Destroying => loc'[t].buf \in loc'[t].tmp,
         pc'[t] = "destroyLife" => loc'[t].buf \notin dst'
  PROVE  GuardInv'
<1>1. ASSUME NEW u \in Thread, u # t
      PROVE /\ pc'[u] = pc[u] /\ loc'[u] = loc[u]
            /\ u \in snatchR => u \in snatchR'
            /\ pc[u] \in SnatchReaders => u \in snatchR /\ snatched' = snatched
            /\ pc[u] = "destroyLife" => dst' \subseteq dst
  BY <1>1 DEF Others, OwnershipInv, GuardInv
<1>2. {"submitFence", "submitPrepare", "writeCheck", "unmapInit"} \subseteq SnatchReaders
  BY DEF SnatchReaders
<1>3. ASSUME NEW u \in Thread, u # t
      PROVE /\ pc'[u] \in SnatchReaders => u \in snatchR'
            /\ pc'[u] \in {"submitFence", "submitPrepare"} => loc'[u].used \cap snatched' = {}
            /\ pc'[u] \in {"writeCheck", "unmapInit"} => loc'[u].buf \notin snatched'
            /\ pc'[u] \in Destroying => loc'[u].buf \in loc'[u].tmp
            /\ pc'[u] = "destroyLife" => loc'[u].buf \notin dst'
  BY <1>1, <1>2, <1>3 DEF OwnershipInv, GuardInv
<1>4. pc'[t] \in SnatchReaders => snatched' = snatched
  OBVIOUS
<1>5. QED
  BY <1>2, <1>3, <1>4 DEF GuardInv

(* Recording a copy: into a buffer that has its handle, while the pending  *)
(* writes are locked.                                                      *)
LEMMA RecordOwns ==
  ASSUME TypeInv, LockInv, OwnershipInv, NEW t \in Thread, WriteCheck(t) \/ UnmapInit(t)
  PROVE  OwnershipInv'
<1>1. /\ ThreadInv /\ loc[t].buf \notin snatched
      /\ pc[t] \in {"writeCheck", "unmapInit"}
      /\ snatchR' = snatchR \ {t} /\ UNCHANGED <<snatched, temps, active, hist>>
      /\ \/ recording' = TRUE /\ dst' = dst \cup {loc[t].buf}
         \/ UNCHANGED <<recording, dst>>
  BY DEF TypeInv, OwnershipInv, GuardInv, WriteCheck, UnmapInit, LeaveWrite, life, buffers
<1>2. Others(t) /\ pc'[t] \in {"idle", "fire"}
  BY <1>1, GoAt DEF WriteCheck, UnmapInit, LeaveWrite
<1>3. \A u \in Thread : u # t => pc[u] # "destroyLife"
  BY ThreadAssumption DEF LockInv, AtPending, WriteCheck, UnmapInit
<1>4. GuardInv' /\ RecordInv'
  BY <1>1, <1>2, <1>3, GuardKeeps DEF SnatchReaders, Destroying, OwnershipInv, RecordInv
<1>5. ASSUME NEW u \in Thread, pc[u] \in Destroying \cup {"submitTrack"} \/ pc'[u] \in Destroying \cup {"submitTrack"}
      PROVE  pc'[u] = pc[u] /\ loc'[u] = loc[u]
  BY <1>1, <1>2, <1>5 DEF Others, Destroying
<1>6. \A b : Asking(b) => Asking(b)'
  BY <1>5 DEF Asking, Destroying
<1>7. \A b, n : KeptFor(b, n) => KeptFor(b, n)'
  BY <1>1, <1>5 DEF KeptFor
<1>8. HandleInv => HandleInv'
  <2>1. WritesKept => WritesKept'
    BY <1>1, <1>6 DEF WritesKept
  <2>2. SubmitKept => SubmitKept'
    BY <1>1, <1>5, <1>6 DEF SubmitKept
  <2>3. ActiveKept => ActiveKept'
    BY <1>1, <1>7 DEF ActiveKept
  <2>4. QED
    BY <1>1, <2>1, <2>2, <2>3 DEF HandleInv
<1>9. QED
  BY <1>4, <1>8 DEF OwnershipInv

(* Triage drops what the oldest submission keeps: nothing younger needs it. *)
LEMMA DrainOwns ==
  ASSUME TypeInv, ActiveSorted, OwnershipInv, NEW t \in Thread,
         Triage(t), HeadDone(active, loc[t].done)
  PROVE  OwnershipInv'
<1>1. /\ ThreadInv /\ active \in Seq(Entries(WorkDone)) /\ active # <<>>
      /\ active' = Tail(active) /\ pc[t] = "triage"
      /\ UNCHANGED <<snatched, recording, dst, temps, snatchR, hist>>
  BY DEF TypeInv, LifeTypeOK, Submission, HeadDone, Triage, buffers, pending, locks
<1>2. Others(t) /\ pc'[t] = "triage"
  BY <1>1, GoAt DEF Triage
<1>3. GuardInv' /\ RecordInv'
  BY <1>1, <1>2, GuardKeeps DEF SnatchReaders, Destroying, OwnershipInv, RecordInv
<1>4. ASSUME NEW u \in Thread, pc[u] \in Destroying \cup {"submitTrack"} \/ pc'[u] \in Destroying \cup {"submitTrack"}
      PROVE  pc'[u] = pc[u] /\ loc'[u] = loc[u]
  BY <1>1, <1>2, <1>4 DEF Others, Destroying
<1>5. \A b : Asking(b) => Asking(b)'
  BY <1>4 DEF Asking, Destroying
<1>6. /\ \A i \in DOMAIN active : active[i].index \in Nat
      /\ \A j \in DOMAIN active' : j + 1 \in DOMAIN active /\ active'[j] = active[j + 1] /\ 1 < j + 1
      /\ \A k \in DOMAIN active : k # 1 => k - 1 \in DOMAIN active' /\ active'[k - 1] = active[k]
      /\ 1 \in DOMAIN active
  <2>1. \A i \in DOMAIN active : active[i] \in Entries(WorkDone)
    BY <1>1, EntryUpdate
  <2>2. \A i \in DOMAIN active : active[i].index \in Nat
    BY <2>1 DEF Entries
  <2>3. Len(active) \in Nat \ {0} /\ Len(active') = Len(active) - 1
        /\ DOMAIN active = 1..Len(active) /\ DOMAIN active' = 1..(Len(active) - 1)
        /\ \A j \in 1..(Len(active) - 1) : active'[j] = active[j + 1]
    BY <1>1
  <2>4. QED
    BY <2>2, <2>3
<1>7. ASSUME ActiveKept PROVE ActiveKept'
  <2>1. SUFFICES ASSUME NEW j \in DOMAIN active', NEW b \in snatched \cap active'[j].bufs
                 PROVE  KeptFor(b, active[j].index)'
    BY <1>1 DEF ActiveKept
  <2>2. KeptFor(b, active[j + 1].index)
    BY <1>6, <1>7, <2>1 DEF ActiveKept
  <2>3. CASE \E k \in DOMAIN active : b \in active[k].temps /\ active[j + 1].index <= active[k].index
    <3>1. PICK k \in DOMAIN active : b \in active[k].temps /\ active[j + 1].index <= active[k].index
      BY <2>3
    <3>2. k # 1
      BY <1>6, <2>1, <3>1 DEF ActiveSorted
    <3>3. QED
      BY <1>6, <2>1, <3>1, <3>2 DEF KeptFor
  <2>4. QED
    BY <1>1, <1>4, <2>2, <2>3 DEF KeptFor
<1>8. HandleInv'
  BY <1>1, <1>4, <1>5, <1>7 DEF OwnershipInv, HandleInv, WritesKept, SubmitKept
<1>9. QED
  BY <1>3, <1>8 DEF OwnershipInv

(* Where Buffer::destroy goes on, and that is nowhere near a handle. *)
LEMMA DestroyLeaves ==
  ASSUME ThreadInv, NEW t \in Thread, NEW l, LeaveDestroy(t, l)
  PROVE  Others(t) /\ pc'[t] \in {"idle", "releaseNext"}
BY GoAt DEF LeaveDestroy

(* Snatching a handle, when nobody is submitting or writing. *)
LEMMA SnatchOwns ==
  ASSUME TypeInv, OwnershipInv, NEW t \in Thread, DestroySnatch(t)
  PROVE  OwnershipInv'
<1>1. /\ ThreadInv /\ active \in Seq(Entries(WorkDone)) /\ loc[t] \in Locals
      /\ loc[t].buf \in Buffer
      /\ pc[t] = "destroySnatch" /\ snatchR = {} /\ snatchR' = snatchR
      /\ UNCHANGED <<hist, active, pending, dst, temps, recording>>
  BY LocType DEF TypeInv, LifeTypeOK, Submission, DestroySnatch, life, pending, locks,
                 Operands, AtBuffer
<1>2. CASE loc[t].buf \in snatched
  <2>1. Others(t) /\ pc'[t] \in {"idle", "releaseNext"} /\ snatched' = snatched
    BY <1>1, <1>2, DestroyLeaves DEF DestroySnatch
  <2>2. LeavesHandles(t)
    BY <1>1, <2>1, AttachedKeeps DEF LeavesHandles, SnatchReaders, Destroying
  <2>3. QED
    BY <2>2, HandlesStay
<1>3. CASE loc[t].buf \notin snatched
  <2>. DEFINE l == [loc[t] EXCEPT !.tmp = {loc[t].buf}]
  <2>1. snatched' = snatched \cup {loc[t].buf} /\ Go(t, "destroyPending", l)
    BY <1>3 DEF DestroySnatch
  <2>2. l.buf = loc[t].buf /\ l.tmp = {loc[t].buf}
    BY <1>1 DEF Locals
  <2>. HIDE DEF l
  <2>3. Others(t) /\ pc'[t] = "destroyPending" /\ loc'[t] = l
    BY <1>1, <2>1, GoAt
  <2>4. GuardInv' /\ RecordInv'
    BY <1>1, <2>2, <2>3, GuardKeeps DEF SnatchReaders, Destroying, OwnershipInv, RecordInv
  <2>5. ASSUME NEW b, b = loc[t].buf PROVE Asking(b)' /\ \A n : KeptFor(b, n)'
    BY <2>2, <2>3, <2>5 DEF Asking, KeptFor, Destroying
  <2>6. ASSUME NEW b PROVE (Asking(b) => Asking(b)') /\ \A n : KeptFor(b, n) => KeptFor(b, n)'
    BY <1>1, <2>3 DEF Asking, KeptFor, Destroying, Others
  <2>7. \A u \in Thread : pc'[u] # "submitTrack"
    BY <1>1, <2>3 DEF Others, OwnershipInv, GuardInv, SnatchReaders
  <2>8. HandleInv => HandleInv'
    <3>1. WritesKept => WritesKept'
      BY <1>1, <2>1, <2>5, <2>6 DEF WritesKept
    <3>2. ActiveKept => ActiveKept'
      BY <1>1, <2>1, <2>5, <2>6 DEF ActiveKept
    <3>3. QED
      BY <1>1, <2>7, <3>1, <3>2 DEF HandleInv, SubmitKept
  <2>9. QED
    BY <2>4, <2>8 DEF OwnershipInv
<1>4. QED
  BY <1>2, <1>3

(* A recorded copy into the buffer takes the handle over. *)
LEMMA AskingOwns ==
  ASSUME TypeInv, LockInv, OwnershipInv, NEW t \in Thread, DestroyPending(t)
  PROVE  OwnershipInv'
<1>1. /\ ThreadInv /\ pc[t] = "destroyPending" /\ pendingL = NoThread
      /\ loc[t].buf \in loc[t].tmp
      /\ UNCHANGED <<hist, active, dst, recording, snatched, snatchR>>
  BY DEF TypeInv, OwnershipInv, GuardInv, Destroying, DestroyPending, life, buffers
<1>2. \A u \in Thread : pc[u] \notin {"submitTrack", "destroyLife"}
  BY <1>1, ThreadAssumption DEF LockInv, AtPending
<1>3. /\ Others(t)
      /\ \/ /\ loc[t].buf \in dst /\ temps' = temps \cup {loc[t].buf}
            /\ pc'[t] \in {"idle", "releaseNext"}
         \/ /\ loc[t].buf \notin dst /\ temps' = temps
            /\ pc'[t] = "destroyLife" /\ loc'[t] = loc[t]
  <2>1. CASE loc[t].buf \in dst
    BY <1>1, <2>1, DestroyLeaves DEF DestroyPending, PendingContains
  <2>2. CASE loc[t].buf \notin dst
    BY <1>1, <2>2, GoAt DEF DestroyPending, PendingContains
  <2>3. QED
    BY <2>1, <2>2
<1>4. GuardInv' /\ RecordInv'
  BY <1>1, <1>3, GuardKeeps DEF SnatchReaders, Destroying, OwnershipInv, RecordInv
<1>5. \A b : Asking(b) => Asking(b)' \/ b = loc[t].buf
  BY <1>3 DEF Asking, Others
<1>6. \A b, n : KeptFor(b, n) => KeptFor(b, n)'
  BY <1>1, <1>2, <1>3 DEF KeptFor, Destroying, Others
<1>7. HandleInv => HandleInv'
  <2>1. WritesKept => WritesKept'
    BY <1>1, <1>3, <1>5 DEF WritesKept
  <2>2. ActiveKept => ActiveKept'
    BY <1>1, <1>6 DEF ActiveKept
  <2>3. SubmitKept'
    BY <1>2, <1>3 DEF SubmitKept, Others
  <2>4. QED
    BY <1>1, <2>1, <2>2, <2>3 DEF HandleInv
<1>8. QED
  BY <1>4, <1>7 DEF OwnershipInv

(* Else the youngest submission that uses the buffer does: no other is     *)
(* being submitted, and no copy recorded, while the pending writes are     *)
(* locked.                                                                 *)
LEMMA EntrustOwns ==
  ASSUME TypeInv, LockInv, ActiveSorted, OwnershipInv, NEW t \in Thread, DestroyLife(t)
  PROVE  OwnershipInv'
<1>. DEFINE b == loc[t].buf
<1>1. /\ ThreadInv /\ active \in Seq(Entries(WorkDone))
      /\ pc[t] = "destroyLife" /\ pendingL = t /\ b \notin dst
      /\ active' = ScheduleResourceDestruction(active, b)
      /\ UNCHANGED <<hist, dst, recording, temps, snatched, snatchR>>
  BY DEF TypeInv, LifeTypeOK, Submission, OwnershipInv, GuardInv, LockInv, AtPending,
         DestroyLife, buffers, pending
<1>2. \A u \in Thread : pc[u] # "submitTrack"
  BY <1>1 DEF LockInv, AtPending
<1>3. Others(t) /\ pc'[t] \in {"idle", "releaseNext"}
  BY <1>1, DestroyLeaves DEF DestroyLife
<1>4. GuardInv' /\ RecordInv'
  BY <1>1, <1>3, GuardKeeps DEF SnatchReaders, Destroying, OwnershipInv, RecordInv
<1>5. \A x : Asking(x) => Asking(x)'
  BY <1>1, <1>3 DEF Asking, Others
<1>6. /\ SameSubmissions(active, active')
      /\ \A k \in DOMAIN active : active[k].temps \subseteq active'[k].temps
      /\ \A j \in DOMAIN active : b \in active[j].bufs =>
            \E k \in DOMAIN active : j <= k /\ b \in active'[k].temps
  <2>1. SameSubmissions(active, active')
    BY <1>1, Attached
  <2>2. CASE Uses(active, b) = {}
    BY <1>1, <2>1, <2>2 DEF ScheduleResourceDestruction, Uses
  <2>3. CASE Uses(active, b) # {}
    <3>. DEFINE k == LatestUse(active, b)
    <3>1. k \in DOMAIN active /\ \A j \in DOMAIN active : b \in active[j].bufs => j <= k
      BY <1>1, <2>3, LatestUseFound
    <3>2. active' = [active EXCEPT ![k].temps = @ \cup {b}]
      BY <1>1, <2>3 DEF ScheduleResourceDestruction
    <3>3. \A i \in DOMAIN active : active[i] \in Entries(WorkDone)
      BY <1>1, EntryUpdate
    <3>. HIDE DEF k, b
    <3>4. /\ active'[k].temps = active[k].temps \cup {b}
          /\ \A i \in DOMAIN active : i # k => active'[i] = active[i]
      BY <1>1, <3>1, <3>2, <3>3 DEF Entries
    <3>5. QED
      BY <2>1, <3>1, <3>4
  <2>4. QED
    BY <2>2, <2>3
<1>7. ASSUME ActiveKept PROVE ActiveKept'
  <2>1. SUFFICES ASSUME NEW j \in DOMAIN active, NEW x \in snatched \cap active[j].bufs
                 PROVE  KeptFor(x, active[j].index)'
    BY <1>1, <1>6 DEF ActiveKept, SameSubmissions
  <2>2. KeptFor(x, active[j].index) /\ active'[j].index = active[j].index
    BY <1>6, <1>7 DEF ActiveKept, SameSubmissions
  <2>3. CASE x \in temps
    BY <1>1, <2>3 DEF KeptFor
  <2>4. CASE \E k \in DOMAIN active : x \in active[k].temps /\ active[j].index <= active[k].index
    BY <1>6, <2>2, <2>4 DEF KeptFor, SameSubmissions
  <2>5. CASE x = b
    <3>1. PICK k \in DOMAIN active : j <= k /\ x \in active'[k].temps
      BY <1>6, <2>5
    <3>2. active[j].index <= active[k].index
      <4>1. active[j] \in Entries(WorkDone) /\ active[k] \in Entries(WorkDone)
        BY <1>1, <3>1, EntryUpdate
      <4>2. j = k \/ j < k
        BY <1>1, <3>1
      <4>3. active[j].index \in Nat /\ active[k].index \in Nat
        BY <4>1 DEF Entries
      <4>4. QED
        BY <3>1, <4>2, <4>3 DEF ActiveSorted
    <3>3. k \in DOMAIN active' /\ active'[k].index = active[k].index
      BY <1>6, <3>1 DEF SameSubmissions
    <3>4. QED
      BY <2>2, <3>1, <3>2, <3>3 DEF KeptFor
  <2>6. CASE \E u \in Thread : pc[u] \in Destroying /\ loc[u].buf = x
    BY <1>3, <2>5, <2>6 DEF KeptFor, Others
  <2>7. QED
    BY <1>2, <2>2, <2>3, <2>4, <2>6 DEF KeptFor
<1>8. HandleInv'
  <2>1. SubmitKept'
    BY <1>2, <1>3 DEF SubmitKept, Others
  <2>2. WritesKept => WritesKept'
    BY <1>1, <1>5 DEF WritesKept
  <2>3. QED
    BY <1>1, <1>7, <2>1, <2>2 DEF OwnershipInv, HandleInv
<1>9. QED
  BY <1>4, <1>8 DEF OwnershipInv

(* A submission up to the driver's answer: it validates every buffer while *)
(* it read-locks the snatch lock; a refusal ends what is claimed.          *)
LEMMA PrepareOwns ==
  ASSUME TypeInv, OwnershipInv, NEW t \in Thread,
         SubmitFence(t) \/ SubmitPrepare(t) \/ SubmitReject(t) \/ SubmitHalFails(t)
  PROVE  OwnershipInv'
<1>1. /\ ThreadInv /\ active \in Seq(Entries(WorkDone)) /\ loc[t] \in Locals
      /\ pc[t] \in SnatchReaders => t \in snatchR
      /\ pc[t] \in {"submitFence", "submitPrepare"} => loc[t].used \cap snatched = {}
      /\ hist \in HistoryType
  BY LocType DEF TypeInv, LifeTypeOK, Submission, OwnershipInv, GuardInv
<1>2. SameKeepers(active, active)
  BY <1>1, AttachedKeeps
<1>3. CASE SubmitFence(t)
  <2>. DEFINE l == [loc[t] EXCEPT !.idx = activeIndex + 1]
  <2>1. l.used = loc[t].used
    BY <1>1 DEF Locals
  <2>2. \/ Go(t, "submitPrepare", l) /\ snatchR' = snatchR
        \/ Go(t, "idle", Nothing) /\ snatchR' = snatchR \ {t}
    BY <1>3 DEF SubmitFence
  <2>. HIDE DEF l
  <2>3. Others(t) /\ (pc'[t] = "idle" \/ (pc'[t] = "submitPrepare" /\ loc'[t] = l /\ snatchR' = snatchR))
    BY <1>1, <2>2, GoAt
  <2>4. LeavesHandles(t)
    BY <1>1, <1>2, <1>3, <2>1, <2>2, <2>3
    DEF LeavesHandles, SnatchReaders, Destroying, SubmitFence, life, buffers
  <2>5. QED
    BY <2>4, HandlesStay
<1>4. CASE SubmitPrepare(t)
  <2>. DEFINE h == Head(loc[t].cmds)
              l == [loc[t] EXCEPT !.cmds = Tail(@), !.used = @ \cup h]
  <2>1. l.used = loc[t].used \cup h
    BY <1>1 DEF Locals
  <2>2. Go(t, "submitPrepare", l) /\ h \cap snatched = {}
    BY <1>4 DEF SubmitPrepare, CommandBufferValid
  <2>. HIDE DEF l, h
  <2>3. Others(t) /\ pc'[t] = "submitPrepare" /\ loc'[t] = l
    BY <1>1, <2>2, GoAt
  <2>4. l.used \cap snatched = {} /\ t \in snatchR
    BY <1>1, <1>4, <2>1, <2>2 DEF SubmitPrepare, SnatchReaders
  <2>5. LeavesHandles(t)
    BY <1>2, <1>4, <2>3, <2>4
    DEF LeavesHandles, SnatchReaders, Destroying, SubmitPrepare, life, buffers, locks
  <2>6. QED
    BY <2>5, HandlesStay
<1>5. CASE SubmitReject(t)
  <2>1. Others(t) /\ pc'[t] = "idle"
    BY <1>1, <1>5, GoAt DEF SubmitReject
  <2>2. LeavesHandles(t)
    BY <1>2, <1>5, <2>1 DEF LeavesHandles, SnatchReaders, Destroying, SubmitReject, life, buffers
  <2>3. QED
    BY <2>2, HandlesStay
<1>6. CASE SubmitHalFails(t)
  <2>1. /\ Others(t) /\ pc'[t] = "idle" /\ snatchR' = snatchR \ {t} /\ snatched' = snatched
        /\ dst' = {} \/ UNCHANGED pending
    BY <1>1, <1>6, GoAt DEF SubmitHalFails, PreSubmit, buffers
  <2>2. dst' \subseteq dst
    BY <2>1 DEF pending
  <2>3. GuardInv'
    BY <2>1, <2>2, GuardKeeps DEF SnatchReaders, Destroying
  <2>4. RecordInv'
    BY <2>1 DEF OwnershipInv, RecordInv, pending
  <2>5. hist'.halFailed
    BY <1>1, <1>6 DEF SubmitHalFails, Lose, HistoryType
  <2>6. QED
    BY <2>3, <2>4, <2>5 DEF OwnershipInv, HandleInv
<1>7. QED
  BY <1>3, <1>4, <1>5, <1>6

(* The driver has the submission, and with it what was recorded: what the  *)
(* pending writes kept goes with the writes.                               *)
LEMMA HalOwns ==
  ASSUME TypeInv, LockInv, OwnershipInv, NEW t \in Thread, SubmitHal(t) PROVE OwnershipInv'
<1>. DEFINE all == loc[t].used \cup (IF recording THEN dst ELSE {})
            tmp == IF recording THEN temps ELSE {}
            l == [loc[t] EXCEPT !.used = all, !.tmp = tmp]
<1>1. /\ ThreadInv /\ loc[t] \in Locals /\ pc[t] = "submitPrepare" /\ pendingL = NoThread
      /\ t \in snatchR /\ loc[t].used \cap snatched = {}
      /\ recording' = FALSE /\ dst' = {} /\ temps' = IF recording THEN {} ELSE temps
      /\ UNCHANGED <<active, hist, snatched, snatchR>>
  BY LocType DEF TypeInv, OwnershipInv, GuardInv, SnatchReaders, SubmitHal, PreSubmit, life, buffers
<1>2. Others(t) /\ pc'[t] = "submitTrack" /\ loc'[t].used = all /\ loc'[t].tmp = tmp
  <2>1. l.used = all /\ l.tmp = tmp
    BY <1>1 DEF Locals
  <2>2. Go(t, "submitTrack", l)
    BY DEF SubmitHal
  <2>. HIDE DEF l, all, tmp
  <2>3. QED
    BY <1>1, <2>1, <2>2, GoAt
<1>3. \A u \in Thread : pc[u] \notin {"submitTrack", "destroyLife"}
  BY <1>1, ThreadAssumption DEF LockInv, AtPending
<1>4. GuardInv' /\ RecordInv'
  <2>. HIDE DEF all, tmp
  <2>1. QED
    BY <1>1, <1>2, GuardKeeps DEF SnatchReaders, Destroying, RecordInv
<1>5. \A b : Asking(b) => Asking(b)'
  BY <1>1, <1>2 DEF Asking, Others
<1>6. \A b, n : KeptFor(b, n) => KeptFor(b, n)'
  <2>1. ASSUME NEW b, b \in temps PROVE b \in temps' \/ b \in tmp
    BY <1>1, <2>1
  <2>. HIDE DEF all, tmp
  <2>2. QED
    BY <1>1, <1>2, <1>3, <2>1 DEF KeptFor, Destroying, Others
<1>7. HandleInv => HandleInv'
  <2>1. WritesKept'
    BY <1>1 DEF WritesKept
  <2>2. WritesKept => SubmitKept'
    <3>1. \A b \in snatched \cap all : b \in dst /\ recording
      BY <1>1 DEF OwnershipInv, RecordInv
    <3>2. WritesKept => \A b \in snatched \cap all : b \in tmp \/ Asking(b)'
      BY <1>5, <3>1 DEF WritesKept
    <3>3. \A u \in Thread : pc'[u] = "submitTrack" => u = t
      BY <1>2, <1>3 DEF Others
    <3>. HIDE DEF all, tmp
    <3>4. QED
      BY <1>1, <1>2, <3>2, <3>3 DEF SubmitKept
  <2>3. ActiveKept => ActiveKept'
    BY <1>1, <1>6 DEF ActiveKept
  <2>4. QED
    BY <1>1, <2>1, <2>2, <2>3 DEF HandleInv
<1>8. QED
  BY <1>4, <1>7 DEF OwnershipInv

(* The lifetime tracker takes over the submission and what it keeps; no    *)
(* submission it has is younger.                                           *)
LEMMA TrackOwns ==
  ASSUME TypeInv, LocalInv, LockInv, OwnershipInv, NEW t \in Thread, SubmitTrack(t)
  PROVE  OwnershipInv'
<1>. DEFINE new == Entry(loc[t].idx, loc[t].used, loc[t].tmp)
<1>1. /\ ThreadInv /\ hist \in HistoryType /\ pc[t] = "submitTrack" /\ pendingL = t
      /\ active' = Append(active, new) /\ loc[t].idx \in Nat
      /\ \A i \in DOMAIN active : active[i].index < loc[t].idx
      /\ \A i \in DOMAIN active : active[i].index \in Nat
      /\ UNCHANGED <<dst, temps, recording, snatched, snatchR>>
  <2>1. active \in Seq(Entries(WorkDone)) /\ ThreadInv /\ hist \in HistoryType
    BY DEF TypeInv, LifeTypeOK, Submission
  <2>2. \A i \in DOMAIN active : active[i].index \in Nat
    BY <2>1, EntryUpdate DEF Entries
  <2>3. QED
    BY <2>1, <2>2, LocType
    DEF LocalInv, LockInv, AtPending, SubmitTrack, TrackSubmission, pending, buffers
<1>2. Others(t) /\ pc'[t] = "maintain" /\ hist'.halFailed = hist.halFailed
  BY <1>1, GoAt DEF SubmitTrack, HistoryType
<1>n. PICK n : n = Len(active) + 1
  OBVIOUS
<1>3. /\ DOMAIN active' = DOMAIN active \cup {n} /\ active'[n] = new
      /\ \A i \in DOMAIN active : active'[i] = active[i]
      /\ new.index = loc[t].idx /\ new.bufs = loc[t].used /\ new.temps = loc[t].tmp
  <2>1. active \in Seq(Entries(WorkDone))
    BY DEF TypeInv, LifeTypeOK, Submission
  <2>2. new.index = loc[t].idx /\ new.bufs = loc[t].used /\ new.temps = loc[t].tmp
    BY DEF Entry
  <2>. HIDE DEF new
  <2>3. QED
    BY <1>1, <1>n, <2>1, <2>2
<1>. HIDE DEF new
<1>4. GuardInv' /\ RecordInv'
  BY <1>1, <1>2, GuardKeeps DEF SnatchReaders, Destroying, OwnershipInv, RecordInv
<1>5. \A b : Asking(b) => Asking(b)'
  BY <1>1, <1>2 DEF Asking, Others
<1>6. \A u \in Thread : pc'[u] # "submitTrack"
  BY <1>1, <1>2 DEF Others, LockInv, AtPending
<1>7. ASSUME ActiveKept, SubmitKept PROVE ActiveKept'
  <2>1. ASSUME NEW j \in DOMAIN active, NEW b \in snatched \cap active[j].bufs
        PROVE  KeptFor(b, active[j].index)'
    <3>1. KeptFor(b, active[j].index)
      BY <1>7, <2>1 DEF ActiveKept
    <3>2. active'[j].index = active[j].index
      BY <1>3
    <3>3. CASE b \in temps
      BY <1>1, <3>3 DEF KeptFor
    <3>4. CASE \E k \in DOMAIN active : b \in active[k].temps /\ active[j].index <= active[k].index
      BY <1>3, <3>2, <3>4 DEF KeptFor
    <3>5. CASE \E u \in Thread : pc[u] \in Destroying /\ loc[u].buf = b
      BY <1>1, <1>2, <3>5 DEF KeptFor, Destroying, Others
    <3>6. CASE b \in loc[t].tmp
      BY <1>1, <1>3, <3>2, <3>6 DEF KeptFor
    <3>7. \A u \in Thread : pc[u] = "submitTrack" => u = t
      BY <1>1 DEF LockInv, AtPending
    <3>8. QED
      BY <3>1, <3>3, <3>4, <3>5, <3>6, <3>7 DEF KeptFor
  <2>2. ASSUME NEW b \in snatched \cap loc[t].used PROVE KeptFor(b, active[n].index)'
    <3>1. b \in loc[t].tmp \/ Asking(b)'
      BY <1>1, <1>5, <1>7 DEF SubmitKept
    <3>2. CASE b \in loc[t].tmp
      BY <1>1, <1>3, <3>2 DEF KeptFor
    <3>3. CASE Asking(b)'
      BY <3>3 DEF KeptFor, Asking, Destroying
    <3>4. QED
      BY <3>1, <3>2, <3>3
  <2>3. QED
    <3>1. SUFFICES ASSUME NEW j \in DOMAIN active', NEW b \in snatched \cap active'[j].bufs
                   PROVE  KeptFor(b, active[j].index)'
      BY <1>1 DEF ActiveKept
    <3>2. CASE j \in DOMAIN active
      BY <1>3, <2>1, <3>2
    <3>3. CASE j = n
      BY <1>3, <2>2, <3>3
    <3>4. QED
      BY <1>3, <3>2, <3>3
<1>8. HandleInv'
  BY <1>1, <1>2, <1>5, <1>6, <1>7 DEF OwnershipInv, HandleInv, WritesKept, SubmitKept
<1>9. QED
  BY <1>4, <1>8 DEF OwnershipInv

-----------------------------------------------------------------------------
(***************************************************************************)
(* Every handle somebody still uses is kept: the argument of               *)
(* Buffer::destroy, contains_buffer, schedule_resource_destruction and     *)
(* temp_resources together, with the snatch lock and the pending writes'   *)
(* lock that make it one.                                                  *)
(***************************************************************************)
THEOREM Ownership == Spec => []OwnershipInv
<1>1. Init => OwnershipInv
  BY DEF Init, OwnershipInv, GuardInv, RecordInv, HandleInv, WritesKept, SubmitKept, ActiveKept,
         SnatchReaders, Destroying
<1>2. TypeInv /\ SubmissionInv /\ OwnershipInv /\ [Next]_vars => OwnershipInv'
  <2> SUFFICES ASSUME TypeInv, SubmissionInv, OwnershipInv, [Next]_vars PROVE OwnershipInv'
    OBVIOUS
  <2>1. LockInv /\ LocalInv /\ ActiveSorted
    BY DEF SubmissionInv
  <2>2. CASE UNCHANGED <<pc, loc, snatchR, snatched, dst, temps, recording, active, hist>>
    BY <2>2 DEF OwnershipInv, GuardInv, RecordInv, HandleInv, WritesKept, SubmitKept,
                ActiveKept, Asking, KeptFor
  <2>3. CASE GpuComplete \/ UNCHANGED vars
    BY <2>2, <2>3 DEF GpuComplete, vars, life, pending, buffers, locks
  <2>4. CASE LoseElsewhere
    <3>1. hist'.halFailed
      BY <2>4 DEF LoseElsewhere, Lose, TypeInv, HistoryType
    <3>2. UNCHANGED <<pc, loc, snatchR, snatched, dst, recording>>
      BY <2>4 DEF LoseElsewhere, pending, buffers, locks
    <3>3. QED
      BY <3>1, <3>2 DEF OwnershipInv, GuardInv, RecordInv, HandleInv
  <2>5. ASSUME NEW t \in Thread, Call(t) \/ Step(t) PROVE OwnershipInv'
    <3>1. CASE Call(t)
      BY <3>1, CallOwns
    <3>2. CASE SubmitStep(t)
      BY <2>1, <3>2, PrepareOwns, HalOwns, TrackOwns DEF SubmitStep
    <3>3. CASE MaintainStep(t)
      BY <2>1, <3>3, MaintainOwns, DrainOwns
    <3>4. CASE FireStep(t) \/ BufferStep(t)
      BY <2>1, <3>4, BufferOwns, RecordOwns, SnatchOwns, AskingOwns, EntrustOwns DEF BufferStep
    <3>5. QED
      BY <2>5, <3>1, <3>2, <3>3, <3>4 DEF Step
  <2>6. QED
    BY <2>3, <2>4, <2>5 DEF Next
<1>3. QED
  BY <1>1, <1>2, Types, Submissions, PTL DEF Spec

(* "all the resources it uses must remain alive until it has finished      *)
(* executing" (life.rs, on ActiveSubmission), up to the first driver error. *)
THEOREM NothingFreedInUse == Spec => []NoUseAfterFree
<1>1. SubmissionInv /\ OwnershipInv => NoUseAfterFree
  <2> SUFFICES ASSUME SubmissionInv, OwnershipInv, ~hist.halFailed
               PROVE  /\ \A i \in DOMAIN gpu : \A b \in gpu[i].bufs : RawAlive(b)
                      /\ \A b \in dst : RawAlive(b)
    BY DEF NoUseAfterFree
  <2>1. WritesKept /\ SubmitKept /\ ActiveKept
    BY DEF OwnershipInv, HandleInv
  <2>2. \A b : Asking(b) => \E t \in Thread : b \in loc[t].tmp
    BY DEF Asking, OwnershipInv, GuardInv, Destroying
  <2>3. ASSUME NEW b \in snatched, NEW n, KeptFor(b, n) PROVE RawAlive(b)
    BY <2>3 DEF KeptFor, RawAlive, OwnershipInv, GuardInv
  <2>4. ASSUME NEW b \in dst PROVE RawAlive(b)
    BY <2>1, <2>2 DEF WritesKept, RawAlive, Referenced
  <2>5. ASSUME NEW i \in DOMAIN gpu, NEW b \in gpu[i].bufs PROVE RawAlive(b)
    <3>1. Tracked(gpu[i])
      BY DEF SubmissionInv, TrackInv
    <3>2. CASE \E j \in DOMAIN active : b \in active[j].bufs
      BY <2>1, <2>3, <3>2 DEF ActiveKept, RawAlive, Referenced
    <3>3. CASE \E t \in Thread : pc[t] = "submitTrack" /\ b \in loc[t].used
      BY <2>1, <2>2, <3>3 DEF SubmitKept, RawAlive, Referenced, ThreadHolds
    <3>4. QED
      BY <3>1, <3>2, <3>3 DEF Tracked
  <2>6. QED
    BY <2>4, <2>5
<1>2. QED
  BY <1>1, Submissions, Ownership, PTL
================================================================================
