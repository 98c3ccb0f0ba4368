------------------------------ MODULE DeviceQueue ------------------------------
(***************************************************************************)
(* The heart of wgpu-core: threads that submit work to a Queue, write to   *)
(* and map its buffers, destroy and drop them, poll the Device and lose    *)
(* it, while the GPU executes what was submitted.                          *)
(*                                                                         *)
(* Each action is what one thread does between two places where another    *)
(* thread can get in the way: taking a lock, or letting one go.  The locks *)
(* are the code's: the snatch lock and the fence lock (reader-writer), the *)
(* trackers, the pending writes, the lifetime tracker and each buffer's    *)
(* map_state (mutexes).  The snatch lock's write side is never held from   *)
(* one action to another, and submit holds command_indices only inside the *)
(* fence's write side, so neither has a variable.                          *)
(*                                                                         *)
(* Ownership is Rust's: nothing frees a buffer explicitly.  Its raw handle *)
(* lives as long as something owns it (RawAlive), and the question is      *)
(* whether the GPU may still be using it when nothing does.                *)
(***************************************************************************)
EXTENDS LifetimeTracker

CONSTANTS
    Thread,            \* the threads of the application
    NoThread,          \* "no thread holds this lock"
    NoBuffer,          \* "no buffer is being worked on"
    Mappable,          \* buffers created with a MAP_READ or MAP_WRITE usage
    CopyDst,           \* buffers created with the COPY_DST usage
    MappedAtCreation,  \* buffers that start mapped through a staging buffer
    Calls,             \* the calls each thread makes
    Batches,           \* the lists of command buffers one submit may carry;
                       \* a command buffer is the set of buffers it uses
    Patient,           \* TRUE: clients leave a buffer's mapping alone until
                       \* the callback of the request they made has run
    HalMayFail,        \* TRUE: calls into the driver may fail
    MaxSubmit,         \* bound on the submissions
    MaxMap,            \* bound on the map requests
    MaxWork            \* bound on the work-done closures

CallName ==
    {"submit", "write", "map", "unmap", "destroy", "drop",
     "poll", "wait", "waitTimeout", "workDone", "destroyDevice"}

ASSUME ThreadAssumption == NoThread \notin Thread
ASSUME BufferAssumption == NoBuffer \notin Buffer
ASSUME UsageAssumption ==
    /\ Mappable \subseteq Buffer
    /\ CopyDst \subseteq Buffer
    /\ MappedAtCreation \subseteq Buffer
ASSUME CallsAssumption == Calls \in [Thread -> SUBSET CallName]
ASSUME BatchesAssumption == Batches \subseteq Seq(SUBSET Buffer)
ASSUME FlagAssumption == Patient \in BOOLEAN /\ HalMayFail \in BOOLEAN
ASSUME BoundAssumption ==
    MaxSubmit \in Nat /\ MaxMap \in Nat /\ MaxWork \in Nat

VARIABLES
    valid,            \* Device::valid
    lostClosure,      \* TRUE while Device::device_lost_closure holds a closure
    activeIndex,      \* CommandIndices::active_submission_index
    lastSuccessful,   \* Device::last_successful_submission_index
    gpu,              \* what the driver has and the GPU has not completed
    gpuDone,          \* the fence's value
    active,           \* LifetimeTracker::active
    ready,            \* LifetimeTracker::ready_to_map
    deferred,         \* LifetimeTracker::work_done_closures
    recording,        \* PendingWrites::is_recording
    dst,              \* PendingWrites::dst_buffers
    temps,            \* PendingWrites::temp_resources, its destroyed buffers
    snatched,         \* buffers whose raw handle has been snatched
    mapState,         \* Buffer::map_state
    handle,           \* buffers the application still holds
    snatchR,          \* readers of the snatch lock
    fenceR, fenceW,   \* readers and writer of the fence lock
    trackersL,        \* holder of the Device::trackers mutex
    pendingL,         \* holder of the Queue::pending_writes mutex
    lifeL,            \* holder of the Queue::life_tracker mutex
    mapL,             \* holder of each Buffer::map_state mutex
    pc, loc,          \* where each thread is, and its locals
    hist              \* what was asked and what was answered: see History

device == <<valid, lostClosure>>
indices == <<activeIndex, lastSuccessful>>
driver == <<gpu, gpuDone>>
life == <<active, ready, deferred>>
pending == <<recording, dst, temps>>
buffers == <<snatched, mapState, handle>>
locks == <<snatchR, fenceR, fenceW, trackersL, pendingL, lifeL, mapL>>
vars == <<device, indices, driver, life, pending, buffers, locks, pc, loc, hist>>

MapOp == 1..MaxMap
WorkDone == 1..MaxWork
Poll == -1              \* the `wait` of a thread that does not wait

(***************************************************************************)
(* The locals of a thread: the buffer and the map request it works on, the *)
(* command buffers left to process, the buffers and destroyed handles of   *)
(* the submission it is making (or the handle it is destroying), the       *)
(* submission index it made or waits for, whether the wait has a timeout,  *)
(* the fence value it read, whether it found the queue empty, the closures *)
(* to fire, what to do once they have fired, and the buffers still to      *)
(* release after a device loss.                                            *)
(***************************************************************************)
Locals ==
    [buf : Buffer \cup {NoBuffer}, op : 0..MaxMap,
     cmds : Seq(SUBSET Buffer), used : SUBSET Buffer, tmp : SUBSET Buffer,
     idx : Nat, wait : Nat \cup {Poll}, latest : BOOLEAN, timed : BOOLEAN,
     done : Nat, empty : BOOLEAN,
     maps : Seq(MapOp), works : Seq(WorkDone), lost : BOOLEAN,
     after : {"idle", "destroySnatch"}, todo : SUBSET Buffer]

Nothing ==
    [buf |-> NoBuffer, op |-> 0, cmds |-> <<>>, used |-> {}, tmp |-> {},
     idx |-> 0, wait |-> Poll, latest |-> FALSE, timed |-> FALSE,
     done |-> 0, empty |-> FALSE,
     maps |-> <<>>, works |-> <<>>, lost |-> FALSE,
     after |-> "idle", todo |-> {}]

Location ==
    {"idle", "fire", "panicked",
     "submitFence", "submitPrepare", "submitTrack",
     "pollFence", "maintain", "maintainWait", "maintainFence", "maintainLock",
     "triage", "mapReady", "mapSet", "mapRestore", "maintainResult",
     "releaseLock", "releaseNext", "destroySnatch", "destroyPending", "destroyLife",
     "writePending", "writeTrack", "writeCheck",
     "mapAsyncState", "mapAsyncLife", "unmap", "unmapInit"}

MapStatus == {"Init", "Idle", "Waiting", "Active"}
Idle == [st |-> "Idle", op |-> 0]

(***************************************************************************)
(* History: how many requests were made; for every map request its buffer, *)
(* the submission index its caller was told to wait for and how often its  *)
(* callback ran; for every work-done closure the last submission tracked   *)
(* and the map requests unanswered when it was registered, and how often   *)
(* it ran; the device-lost closure's runs; and whether a driver call       *)
(* failed.  No action's guard reads it, but for the bounds and for what a  *)
(* patient client remembers of its own requests.                           *)
(***************************************************************************)
NoHistory ==
    [maps |-> 0, works |-> 0, tracked |-> 0,
     mapBuf |-> [o \in MapOp |-> NoBuffer], mapIndex |-> [o \in MapOp |-> -1],
     mapFired |-> [o \in MapOp |-> 0],
     workIndex |-> [w \in WorkDone |-> 0],
     workMaps |-> [w \in WorkDone |-> {}],
     workFired |-> [w \in WorkDone |-> 0],
     lostFired |-> 0, halFailed |-> FALSE]

(***************************************************************************)
(* Who owns a buffer.  A buffer object is kept by the application, by the  *)
(* pending writes, by the submissions tracked, by the lists of buffers to  *)
(* map, by a pending mapping (which holds its parent) and by the threads   *)
(* at work.  Its raw handle is kept by the object until it is snatched,    *)
(* and by a temp_resources list (or the thread moving it) after that.      *)
(***************************************************************************)
ThreadHolds(t, b) ==
    \/ loc[t].buf = b
    \/ b \in loc[t].used
    \/ \E i \in DOMAIN loc[t].cmds : b \in loc[t].cmds[i]

Referenced(b) ==
    \/ b \in handle
    \/ b \in dst
    \/ mapState[b].st = "Waiting"
    \/ \E i \in DOMAIN ready : ready[i] = b
    \/ \E i \in DOMAIN active :
          b \in active[i].bufs \/ \E j \in DOMAIN active[i].mapped : active[i].mapped[j] = b
    \/ \E t \in Thread : ThreadHolds(t, b)

RawAlive(b) ==
    IF b \in snatched
    THEN \/ b \in temps
         \/ \E i \in DOMAIN active : b \in active[i].temps
         \/ \E t \in Thread : b \in loc[t].tmp
    ELSE Referenced(b)

Init ==
    /\ valid = TRUE /\ lostClosure = TRUE
    /\ activeIndex = 0 /\ lastSuccessful = 0
    /\ gpu = <<>> /\ gpuDone = 0
    /\ active = <<>> /\ ready = <<>> /\ deferred = <<>>
    /\ recording = FALSE /\ dst = {} /\ temps = {}
    /\ snatched = {} /\ handle = Buffer
    /\ mapState = [b \in Buffer |->
                     IF b \in MappedAtCreation THEN [st |-> "Init", op |-> 0] ELSE Idle]
    /\ snatchR = {} /\ fenceR = {} /\ fenceW = NoThread
    /\ trackersL = NoThread /\ pendingL = NoThread /\ lifeL = NoThread
    /\ mapL = [b \in Buffer |-> NoThread]
    /\ pc = [t \in Thread |-> "idle"]
    /\ loc = [t \in Thread |-> Nothing]
    /\ hist = NoHistory

Go(t, where, locals) ==
    /\ pc' = [pc EXCEPT ![t] = where]
    /\ loc' = [loc EXCEPT ![t] = locals]

(***************************************************************************)
(* A thread makes a call only when it is in none.                          *)
(***************************************************************************)
MayCall(t, c) == pc[t] = "idle" /\ c \in Calls[t]

(***************************************************************************)
(* Device::lose, which handle_hal_error calls on the spot: whatever locks  *)
(* the thread holds, the device is invalid and its closure has run.        *)
(***************************************************************************)
Lose ==
    /\ valid' = FALSE /\ lostClosure' = FALSE
    /\ hist' = [hist EXCEPT !.halFailed = TRUE,
                            !.lostFired = @ + (IF lostClosure THEN 1 ELSE 0)]
-----------------------------------------------------------------------------
(***************************************************************************)
(* Queue::submit                                                           *)
(***************************************************************************)

(* The call begins by read-locking the snatch lock. *)
CallSubmit(t) ==
    /\ MayCall(t, "submit") /\ activeIndex < MaxSubmit
    /\ \E batch \in Batches :
          /\ \A i \in DOMAIN batch : batch[i] \subseteq handle
          /\ Go(t, "submitFence", [Nothing EXCEPT !.cmds = batch])
    /\ snatchR' = snatchR \cup {t}
    /\ UNCHANGED <<device, indices, driver, life, pending, buffers, hist,
                   fenceR, fenceW, trackersL, pendingL, lifeL, mapL>>

(* Nobody holds the fence lock, on either side. *)
FenceFree_Shared == fenceR = {}                 \* wrong: submissions overlap
FenceFree == fenceW = NoThread /\ fenceR = {}

(* The fence is write-locked, an index is allocated, and only then is the  *)
(* device's validity looked at: an invalid device costs an index.          *)
SubmitFence(t) ==
    /\ pc[t] = "submitFence" /\ FenceFree
    /\ activeIndex' = activeIndex + 1
    /\ IF valid
       THEN /\ fenceW' = t /\ snatchR' = snatchR
            /\ Go(t, "submitPrepare", [loc[t] EXCEPT !.idx = activeIndex + 1])
       ELSE /\ fenceW' = fenceW /\ snatchR' = snatchR \ {t}
            /\ Go(t, "idle", Nothing)
    /\ UNCHANGED <<device, lastSuccessful, driver, life, pending, buffers, hist,
                   fenceR, trackersL, pendingL, lifeL, mapL>>

(* validate_command_buffer, for the buffers. *)
CommandBufferValid(bufs) ==
    /\ bufs \cap snatched = {}
    /\ \A b \in bufs : mapState[b].st = "Idle"

(* One command buffer: validated, and its resources taken over. *)
SubmitPrepare(t) ==
    /\ pc[t] = "submitPrepare" /\ loc[t].cmds # <<>>
    /\ \A b \in Head(loc[t].cmds) : mapL[b] = NoThread
    /\ CommandBufferValid(Head(loc[t].cmds))
    /\ trackersL = NoThread
    /\ Go(t, "submitPrepare",
          [loc[t] EXCEPT !.cmds = Tail(@), !.used = @ \cup Head(loc[t].cmds)])
    /\ UNCHANGED <<device, indices, driver, life, pending, buffers, locks, hist>>

(* An invalid command buffer fails the whole submission. *)
SubmitReject(t) ==
    /\ pc[t] = "submitPrepare" /\ loc[t].cmds # <<>>
    /\ \A b \in Head(loc[t].cmds) : mapL[b] = NoThread
    /\ ~CommandBufferValid(Head(loc[t].cmds))
    /\ Go(t, "idle", Nothing)
    /\ fenceW' = NoThread /\ snatchR' = snatchR \ {t}
    /\ UNCHANGED <<device, indices, driver, life, pending, buffers, hist,
                   fenceR, trackersL, pendingL, lifeL, mapL>>

(* PendingWrites::pre_submit: what was recorded leaves with the submission. *)
PreSubmit ==
    /\ recording' = FALSE /\ dst' = {}
    /\ temps' = IF recording THEN {} ELSE temps

(* The pending writes are locked, flushed, and everything goes to the driver. *)
SubmitHal(t) ==
    /\ pc[t] = "submitPrepare" /\ loc[t].cmds = <<>> /\ pendingL = NoThread
    /\ pendingL' = t
    /\ PreSubmit
    /\ LET writes == IF recording THEN dst ELSE {}
           all == loc[t].used \cup writes
       IN /\ gpu' = Append(gpu, [index |-> loc[t].idx, bufs |-> all])
          /\ Go(t, "submitTrack",
                [loc[t] EXCEPT !.used = all, !.tmp = IF recording THEN temps ELSE {}])
    /\ lastSuccessful' = IF loc[t].idx > lastSuccessful THEN loc[t].idx ELSE lastSuccessful
    /\ UNCHANGED <<device, activeIndex, gpuDone, life, buffers, hist,
                   snatchR, fenceR, fenceW, trackersL, lifeL, mapL>>

(* The driver refuses: the device is lost.  It may do so while a command     *)
(* buffer's barriers are encoded; in pre_submit, which has then taken        *)
(* dst_buffers but not temp_resources; or when given the submission, and     *)
(* then what was flushed is dropped.                                         *)
SubmitHalFails(t) ==
    /\ HalMayFail /\ pc[t] = "submitPrepare"
    /\ Lose
    /\ \/ loc[t].cmds # <<>> /\ UNCHANGED pending
       \/ /\ loc[t].cmds = <<>> /\ pendingL = NoThread
          /\ PreSubmit \/ (recording /\ dst' = {} /\ recording' \in BOOLEAN /\ temps' = temps)
    /\ Go(t, "idle", Nothing)
    /\ fenceW' = NoThread /\ snatchR' = snatchR \ {t}
    /\ UNCHANGED <<indices, driver, life, buffers,
                   fenceR, trackersL, pendingL, lifeL, mapL>>

(* The lifetime tracker learns of the submission; only then are the pending  *)
(* writes unlocked and the fence lock downgraded for maintain.               *)
SubmitTrack(t) ==
    /\ pc[t] = "submitTrack" /\ lifeL = NoThread
    /\ active' = TrackSubmission(active, loc[t].idx, loc[t].used, loc[t].tmp)
    /\ hist' = [hist EXCEPT !.tracked = loc[t].idx]
    /\ pendingL' = NoThread
    /\ fenceW' = NoThread /\ fenceR' = fenceR \cup {t}
    /\ Go(t, "maintain", Nothing)
    /\ UNCHANGED <<device, indices, driver, ready, deferred, pending, buffers,
                   snatchR, trackersL, lifeL, mapL>>

-----------------------------------------------------------------------------
(***************************************************************************)
(* Device::poll and Device::maintain                                       *)
(***************************************************************************)

(* PollType::Poll.  The call begins by read-locking the snatch lock. *)
CallPoll(t) ==
    /\ MayCall(t, "poll")
    /\ Go(t, "pollFence", Nothing)
    /\ snatchR' = snatchR \cup {t}
    /\ UNCHANGED <<device, indices, driver, life, pending, buffers, hist,
                   fenceR, fenceW, trackersL, pendingL, lifeL, mapL>>

(* PollType::Wait on an index or on the latest, with or without a timeout. *)
CallWait(t) ==
    /\ \E timed \in BOOLEAN :
          /\ MayCall(t, IF timed THEN "waitTimeout" ELSE "wait")
          /\ \/ \E i \in 1..MaxSubmit :
                  Go(t, "pollFence", [Nothing EXCEPT !.wait = i, !.timed = timed])
             \/ Go(t, "pollFence", [Nothing EXCEPT !.latest = TRUE, !.timed = timed])
    /\ snatchR' = snatchR \cup {t}
    /\ UNCHANGED <<device, indices, driver, life, pending, buffers, hist,
                   fenceR, fenceW, trackersL, pendingL, lifeL, mapL>>

PollFence(t) ==
    /\ pc[t] = "pollFence" /\ fenceW = NoThread
    /\ fenceR' = fenceR \cup {t}
    /\ Go(t, "maintain", loc[t])
    /\ UNCHANGED <<device, indices, driver, life, pending, buffers, hist,
                   snatchR, fenceW, trackersL, pendingL, lifeL, mapL>>

(* An early return of maintain drops both guards; closures are empty then. *)
LeaveMaintain(t) ==
    /\ fenceR' = fenceR \ {t} /\ snatchR' = snatchR \ {t}
    /\ Go(t, "idle", Nothing)
    /\ UNCHANGED <<fenceW, trackersL, pendingL, lifeL, mapL>>

WaitTarget_Allocated(t) ==                      \* wrong: the index may have failed
    IF loc[t].latest THEN activeIndex ELSE loc[t].wait
WaitTarget(t) == IF loc[t].latest THEN lastSuccessful ELSE loc[t].wait

(* Which submission to wait for; WrongSubmissionIndex for one that never   *)
(* succeeded.                                                              *)
MaintainBegin(t) ==
    /\ pc[t] = "maintain"
    /\ IF ~loc[t].latest /\ loc[t].wait > lastSuccessful
       THEN LeaveMaintain(t)
       ELSE /\ Go(t, IF WaitTarget(t) = Poll THEN "maintainFence" ELSE "maintainWait",
                  [loc[t] EXCEPT !.wait = WaitTarget(t)])
            /\ UNCHANGED locks
    /\ UNCHANGED <<device, indices, driver, life, pending, buffers, hist>>

(* hal::Device::wait, which returns when the fence gets there or, if there *)
(* is one, when the timeout has passed.                                    *)
MaintainWait(t) ==
    /\ pc[t] = "maintainWait"
    /\ gpuDone >= loc[t].wait \/ loc[t].timed
    /\ Go(t, "maintainFence", loc[t])
    /\ UNCHANGED <<device, indices, driver, life, pending, buffers, locks, hist>>

MaintainFence(t) ==
    /\ pc[t] = "maintainFence"
    /\ Go(t, "maintainLock", [loc[t] EXCEPT !.done = gpuDone])
    /\ UNCHANGED <<device, indices, driver, life, pending, buffers, locks, hist>>

(* wait or get_fence_value fails: the device is lost, nothing is triaged. *)
MaintainHalFails(t) ==
    /\ HalMayFail /\ pc[t] \in {"maintainWait", "maintainFence"}
    /\ Lose
    /\ LeaveMaintain(t)
    /\ UNCHANGED <<indices, driver, life, pending, buffers>>

(* Queue::maintain locks the lifetime tracker; triage_submissions starts   *)
(* with the deferred closures.                                             *)
MaintainLock(t) ==
    /\ pc[t] = "maintainLock" /\ lifeL = NoThread
    /\ lifeL' = t
    /\ deferred' = <<>>
    /\ Go(t, "triage", [loc[t] EXCEPT !.works = deferred])
    /\ UNCHANGED <<device, indices, driver, active, ready, pending, buffers, hist,
                   snatchR, fenceR, fenceW, trackersL, pendingL, mapL>>

(* triage_submissions, one finished submission at a time: dropping its     *)
(* encoders drops the buffers and the destroyed handles they held.         *)
Triage(t) ==
    /\ pc[t] = "triage"
    /\ IF HeadDone(active, loc[t].done)
       THEN /\ active' = Tail(active)
            /\ ready' = ReadyAfterHead(active, ready)
            /\ Go(t, "triage", [loc[t] EXCEPT !.works = ClosuresAfterHead(active, @)])
       ELSE /\ UNCHANGED <<active, ready>>
            /\ Go(t, "mapReady", loc[t])
    /\ UNCHANGED <<device, indices, driver, deferred, pending, buffers, locks, hist>>

(***************************************************************************)
(* handle_mapping and Buffer::map.  Buffer::map takes the state, leaving   *)
(* Idle behind, lets go of the map_state lock while it maps the memory and *)
(* locks it again to store the outcome.                                    *)
(***************************************************************************)
RefuseMap_Aborted(b) ==                 \* wrong: an aborted request is refused too
    mapState[b].st = "Idle" \/ (mapState[b].st = "Waiting" /\ b \in snatched)
RefuseMap(b) == mapState[b].st = "Waiting" /\ b \in snatched

MapReady(t) ==
    /\ pc[t] = "mapReady" /\ ready # <<>>
    /\ mapL[Head(ready)] = NoThread
    /\ ready' = Tail(ready)
    /\ LET b == Head(ready)
           was == mapState[b]
           l == [loc[t] EXCEPT !.buf = b, !.op = was.op]
       IN /\ mapState' = [mapState EXCEPT ![b] = Idle]
          /\ \/ was.st = "Waiting" /\ b \notin snatched /\ Go(t, "mapSet", l)
             \/ RefuseMap(b)
                /\ Go(t, "mapReady", [loc[t] EXCEPT !.maps = Append(@, was.op)])
             \/ was.st = "Active" /\ Go(t, "mapRestore", l)
             \/ was.st \in {"Idle", "Init"}
                /\ Go(t, IF was.st = "Init" THEN "panicked" ELSE "mapReady", loc[t])
    /\ UNCHANGED <<device, indices, driver, active, deferred, pending, snatched, handle,
                   locks, hist>>

(* The memory is mapped: the state becomes Active, the callback is kept.   *)
MapSet(t) ==
    /\ pc[t] = "mapSet" /\ mapL[loc[t].buf] = NoThread
    /\ mapState' = [mapState EXCEPT ![loc[t].buf] = [st |-> "Active", op |-> loc[t].op]]
    /\ Go(t, "mapReady",
          [loc[t] EXCEPT !.maps = Append(@, loc[t].op), !.buf = NoBuffer, !.op = 0])
    /\ UNCHANGED <<device, indices, driver, life, pending, snatched, handle, locks, hist>>

(* The driver cannot map it: the device is lost, the callback is told, and *)
(* the state stays Idle.                                                   *)
MapHalFails(t) ==
    /\ HalMayFail /\ pc[t] = "mapSet"
    /\ Lose
    /\ Go(t, "mapReady",
          [loc[t] EXCEPT !.maps = Append(@, loc[t].op), !.buf = NoBuffer, !.op = 0])
    /\ UNCHANGED <<indices, driver, life, pending, buffers, locks>>

(* Queued twice and mapped already: the state is put back. *)
MapRestore(t) ==
    /\ pc[t] = "mapRestore" /\ mapL[loc[t].buf] = NoThread
    /\ mapState' = [mapState EXCEPT ![loc[t].buf] = [st |-> "Active", op |-> loc[t].op]]
    /\ Go(t, "mapReady", [loc[t] EXCEPT !.buf = NoBuffer, !.op = 0])
    /\ UNCHANGED <<device, indices, driver, life, pending, snatched, handle, locks, hist>>

MaintainUnlock_Guarded(t) ==            \* wrong: the snatch guard is kept
    /\ pc[t] = "mapReady" /\ ready = <<>>
    /\ lifeL' = NoThread
    /\ Go(t, "maintainResult", [loc[t] EXCEPT !.empty = (active = <<>>)])
    /\ UNCHANGED <<device, indices, driver, life, pending, buffers, hist,
                   snatchR, fenceR, fenceW, trackersL, pendingL, mapL>>

(* Queue::maintain returns, and maintain drops the snatch guard. *)
MaintainUnlock(t) ==
    /\ pc[t] = "mapReady" /\ ready = <<>>
    /\ lifeL' = NoThread /\ snatchR' = snatchR \ {t}
    /\ Go(t, "maintainResult", [loc[t] EXCEPT !.empty = (active = <<>>)])
    /\ UNCHANGED <<device, indices, driver, life, pending, buffers, hist,
                   fenceR, fenceW, trackersL, pendingL, mapL>>

(* The assertion on the result of a wait, and the end of a device that is  *)
(* invalid and has nothing in flight.                                      *)
AssertionHolds(t) == loc[t].empty /\ loc[t].wait # Poll => loc[t].done >= loc[t].wait

ShouldRelease_Busy(t) == ~valid                 \* wrong: the queue may be busy
ShouldRelease(t) == ~valid /\ loc[t].empty

LosingClosures_Only(t) ==                       \* wrong: the others are forgotten
    [Nothing EXCEPT !.lost = lostClosure]
LosingClosures(t) == [loc[t] EXCEPT !.lost = lostClosure]

MaintainResult(t) ==
    /\ pc[t] = "maintainResult"
    /\ fenceR' = fenceR \ {t}
    /\ IF ~AssertionHolds(t)
       THEN lostClosure' = lostClosure /\ Go(t, "panicked", loc[t])
       ELSE IF ShouldRelease(t)
       THEN lostClosure' = FALSE /\ Go(t, "releaseLock", LosingClosures(t))
       ELSE lostClosure' = lostClosure /\ Go(t, "fire", loc[t])
    /\ UNCHANGED <<valid, indices, driver, life, pending, buffers, hist,
                   snatchR, fenceW, trackersL, pendingL, lifeL, mapL>>

(***************************************************************************)
(* Device::release_gpu_resources destroys every buffer the device tracks,  *)
(* in no particular order, with the trackers locked throughout.            *)
(***************************************************************************)
ReleaseLock(t) ==
    /\ pc[t] = "releaseLock" /\ trackersL = NoThread
    /\ trackersL' = t
    /\ Go(t, "releaseNext", [loc[t] EXCEPT !.todo = {b \in Buffer : Referenced(b)}])
    /\ UNCHANGED <<device, indices, driver, life, pending, buffers, hist,
                   snatchR, fenceR, fenceW, pendingL, lifeL, mapL>>

ReleaseNext(t) ==
    /\ pc[t] = "releaseNext"
    /\ \E b \in loc[t].todo :
          Go(t, IF Referenced(b) THEN "destroySnatch" ELSE "releaseNext",
             [loc[t] EXCEPT !.todo = @ \ {b}, !.buf = IF Referenced(b) THEN b ELSE NoBuffer])
    /\ UNCHANGED <<device, indices, driver, life, pending, buffers, locks, hist>>

ReleaseDone(t) ==
    /\ pc[t] = "releaseNext" /\ loc[t].todo = {}
    /\ trackersL' = NoThread
    /\ Go(t, "fire", [loc[t] EXCEPT !.buf = NoBuffer])
    /\ UNCHANGED <<device, indices, driver, life, pending, buffers, hist,
                   snatchR, fenceR, fenceW, pendingL, lifeL, mapL>>

(***************************************************************************)
(* UserClosures::fire, one closure at a time and with nothing locked: the  *)
(* mappings, then the work-done closures, then the device-lost closure.    *)
(***************************************************************************)
FireMapping(t) ==
    /\ pc[t] = "fire" /\ loc[t].maps # <<>>
    /\ Go(t, "fire", [loc[t] EXCEPT !.maps = Tail(@)])
    /\ hist' = [hist EXCEPT !.mapFired[Head(loc[t].maps)] = @ + 1]
    /\ UNCHANGED <<device, indices, driver, life, pending, buffers, locks>>

FireWorkDone_First(t) ==                \* wrong: does not wait for the mappings
    /\ pc[t] = "fire" /\ loc[t].works # <<>>
    /\ Go(t, "fire", [loc[t] EXCEPT !.works = Tail(@)])
    /\ hist' = [hist EXCEPT !.workFired[Head(loc[t].works)] = @ + 1]
    /\ UNCHANGED <<device, indices, driver, life, pending, buffers, locks>>

FireWorkDone(t) ==
    /\ pc[t] = "fire" /\ loc[t].maps = <<>> /\ loc[t].works # <<>>
    /\ Go(t, "fire", [loc[t] EXCEPT !.works = Tail(@)])
    /\ hist' = [hist EXCEPT !.workFired[Head(loc[t].works)] = @ + 1]
    /\ UNCHANGED <<device, indices, driver, life, pending, buffers, locks>>

FireLost(t) ==
    /\ pc[t] = "fire" /\ loc[t].maps = <<>> /\ loc[t].works = <<>> /\ loc[t].lost
    /\ Go(t, "fire", [loc[t] EXCEPT !.lost = FALSE])
    /\ hist' = [hist EXCEPT !.lostFired = @ + 1]
    /\ UNCHANGED <<device, indices, driver, life, pending, buffers, locks>>

(* The call returns, or goes on to destroy the buffer it has unmapped. *)
Fired(t) ==
    /\ pc[t] = "fire" /\ loc[t].maps = <<>> /\ loc[t].works = <<>> /\ ~loc[t].lost
    /\ IF loc[t].after = "idle"
       THEN Go(t, "idle", Nothing)
       ELSE Go(t, "destroySnatch", [loc[t] EXCEPT !.after = "idle"])
    /\ UNCHANGED <<device, indices, driver, life, pending, buffers, locks, hist>>

-----------------------------------------------------------------------------
(***************************************************************************)
(* Queue::write_buffer                                                     *)
(***************************************************************************)

(* The validity check and the read-lock of the snatch lock. *)
CallWrite(t) ==
    /\ MayCall(t, "write") /\ valid
    /\ \E b \in handle : Go(t, "writePending", [Nothing EXCEPT !.buf = b])
    /\ snatchR' = snatchR \cup {t}
    /\ UNCHANGED <<device, indices, driver, life, pending, buffers, hist,
                   fenceR, fenceW, trackersL, pendingL, lifeL, mapL>>

LeaveWrite(t) ==
    /\ Go(t, "idle", Nothing)
    /\ snatchR' = snatchR \ {t} /\ pendingL' = NoThread
    /\ UNCHANGED <<fenceR, fenceW, trackersL, lifeL, mapL>>

(* The pending writes are locked; write_staging_buffer_impl looks at the   *)
(* device's validity again.                                                *)
WritePending(t) ==
    /\ pc[t] = "writePending" /\ pendingL = NoThread
    /\ IF valid
       THEN /\ pendingL' = t
            /\ Go(t, "writeTrack", loc[t])
            /\ UNCHANGED <<snatchR, fenceR, fenceW, trackersL, lifeL, mapL>>
       ELSE LeaveWrite(t)
    /\ UNCHANGED <<device, indices, driver, life, pending, buffers, hist>>

(* The trackers are locked for the barrier; a destroyed buffer ends the call. *)
WriteTrack(t) ==
    /\ pc[t] = "writeTrack" /\ trackersL = NoThread
    /\ IF loc[t].buf \in snatched
       THEN LeaveWrite(t)
       ELSE Go(t, "writeCheck", loc[t]) /\ UNCHANGED locks
    /\ UNCHANGED <<device, indices, driver, life, pending, buffers, hist>>

(* validate_write_buffer_impl, and on success the copy is recorded. *)
WriteCheck(t) ==
    /\ pc[t] = "writeCheck" /\ mapL[loc[t].buf] = NoThread
    /\ IF mapState[loc[t].buf].st = "Idle" /\ loc[t].buf \in CopyDst
       THEN recording' = TRUE /\ dst' = dst \cup {loc[t].buf}
       ELSE UNCHANGED <<recording, dst>>
    /\ LeaveWrite(t)
    /\ UNCHANGED <<device, indices, driver, life, temps, buffers, hist>>

-----------------------------------------------------------------------------
(***************************************************************************)
(* Buffer::map_async                                                       *)
(***************************************************************************)

(* No request made for b is still unanswered. *)
AtRest(b) ==
    \A o \in 1..hist.maps : hist.mapBuf[o] = b => hist.mapFired[o] > 0

(* Whether a client of the kind modelled would touch b's mapping now. *)
MayTouch(b) == b \in handle /\ (Patient => AtRest(b))

(* The request is refused at once on an invalid device, a destroyed buffer *)
(* or a buffer without a mappable usage.                                   *)
CallMapAsync(t) ==
    /\ MayCall(t, "map") /\ hist.maps < MaxMap
    /\ \E b \in Buffer :
          /\ MayTouch(b)
          /\ hist' = [hist EXCEPT !.maps = @ + 1, !.mapBuf[hist.maps + 1] = b]
          /\ IF b \in Mappable /\ valid /\ b \notin snatched
             THEN Go(t, "mapAsyncState", [Nothing EXCEPT !.buf = b, !.op = hist.maps + 1])
             ELSE Go(t, "fire", [Nothing EXCEPT !.maps = <<hist.maps + 1>>])
    /\ UNCHANGED <<device, indices, driver, life, pending, buffers, locks>>

(* Under the map_state lock: Idle becomes Waiting, all else is an error,   *)
(* which the callback is told.                                             *)
MapAsyncState(t) ==
    /\ pc[t] = "mapAsyncState" /\ mapL[loc[t].buf] = NoThread
    /\ IF mapState[loc[t].buf].st = "Idle"
       THEN /\ mapState' = [mapState EXCEPT ![loc[t].buf] =
                               [st |-> "Waiting", op |-> loc[t].op]]
            /\ Go(t, "mapAsyncLife", loc[t])
       ELSE /\ mapState' = mapState
            /\ Go(t, "fire", [Nothing EXCEPT !.maps = <<loc[t].op>>])
    /\ UNCHANGED <<device, indices, driver, life, pending, snatched, handle, locks, hist>>

(* The trackers are passed through, then the lifetime tracker is told.     *)
MapAsyncLife(t) ==
    /\ pc[t] = "mapAsyncLife" /\ trackersL = NoThread /\ lifeL = NoThread
    /\ active' = MapWithSubmission(active, loc[t].buf)
    /\ ready' = MapAtOnce(active, ready, loc[t].buf)
    /\ hist' = [hist EXCEPT !.mapIndex[loc[t].op] = LatestSubmissionIndex(active, loc[t].buf)]
    /\ Go(t, "idle", Nothing)
    /\ UNCHANGED <<device, indices, driver, deferred, pending, buffers, locks>>

-----------------------------------------------------------------------------
(***************************************************************************)
(* Buffer::unmap, Buffer::destroy, and dropping a buffer                   *)
(***************************************************************************)

(* Global::buffer_unmap checks the buffer and the device first. *)
CallUnmap(t) ==
    /\ MayCall(t, "unmap") /\ valid
    /\ \E b \in Buffer \ snatched :
          MayTouch(b) /\ Go(t, "unmap", [Nothing EXCEPT !.buf = b])
    /\ UNCHANGED <<device, indices, driver, life, pending, buffers, locks, hist>>

(* Global::buffer_destroy unmaps, ignores the outcome, and destroys. *)
CallDestroy(t) ==
    /\ MayCall(t, "destroy")
    /\ \E b \in Buffer :
          /\ MayTouch(b)
          /\ Go(t, "unmap", [Nothing EXCEPT !.buf = b, !.after = "destroySnatch"])
    /\ UNCHANGED <<device, indices, driver, life, pending, buffers, locks, hist>>

(* Global::buffer_drop forgets the id, unmaps, and lets go of the buffer. *)
CallDrop(t) ==
    /\ MayCall(t, "drop")
    /\ \E b \in Buffer :
          /\ MayTouch(b)
          /\ handle' = handle \ {b}
          /\ Go(t, "unmap", [Nothing EXCEPT !.buf = b])
    /\ UNCHANGED <<device, indices, driver, life, pending, snatched, mapState, locks, hist>>

(* unmap_inner takes the map state.  A pending request is aborted, which   *)
(* its callback is told; a staging buffer (Init) still has to be copied,   *)
(* and the guards on the snatch lock and on map_state are kept for that.   *)
Unmap(t) ==
    /\ pc[t] = "unmap"
    /\ LET b == loc[t].buf
           was == mapState[b]
       IN \/ /\ b \in snatched
             /\ Go(t, "fire", loc[t])
             /\ UNCHANGED <<mapState, snatchR, mapL>>
          \/ /\ b \notin snatched /\ mapL[b] = NoThread
             /\ mapState' = [mapState EXCEPT ![b] = Idle]
             /\ IF was.st = "Init"
                THEN /\ snatchR' = snatchR \cup {t}
                     /\ mapL' = [mapL EXCEPT ![b] = t]
                     /\ Go(t, "unmapInit", loc[t])
                ELSE /\ UNCHANGED <<snatchR, mapL>>
                     /\ Go(t, "fire",
                           [loc[t] EXCEPT !.maps = IF was.st = "Waiting" THEN <<was.op>> ELSE @])
    /\ UNCHANGED <<device, indices, driver, life, pending, snatched, handle, hist,
                   fenceR, fenceW, trackersL, pendingL, lifeL>>

(* The copy from the staging buffer is recorded in the pending writes. *)
UnmapInit(t) ==
    /\ pc[t] = "unmapInit" /\ pendingL = NoThread
    /\ recording' = TRUE /\ dst' = dst \cup {loc[t].buf}
    /\ snatchR' = snatchR \ {t}
    /\ mapL' = [mapL EXCEPT ![loc[t].buf] = NoThread]
    /\ Go(t, "fire", loc[t])
    /\ UNCHANGED <<device, indices, driver, life, temps, buffers, hist,
                   fenceR, fenceW, trackersL, pendingL, lifeL>>

(* Where a call of Buffer::destroy goes on, with locals l. *)
LeaveDestroy(t, l) ==
    IF trackersL = t THEN Go(t, "releaseNext", [l EXCEPT !.buf = NoBuffer])
                     ELSE Go(t, "idle", Nothing)

(* Snatching the raw handle takes the write side of the snatch lock. *)
DestroySnatch(t) ==
    /\ pc[t] = "destroySnatch" /\ snatchR = {}
    /\ LET b == loc[t].buf
       IN IF b \in snatched
          THEN snatched' = snatched /\ LeaveDestroy(t, loc[t])
          ELSE /\ snatched' = snatched \cup {b}
               /\ Go(t, "destroyPending", [loc[t] EXCEPT !.tmp = {b}])
    /\ UNCHANGED <<device, indices, driver, life, pending, mapState, handle, locks, hist>>

(* PendingWrites::contains_buffer. *)
PendingContains_Never(b) == FALSE               \* wrong: not asked
PendingContains(b) == b \in dst

(* The pending writes are locked: if they write to the buffer, they get    *)
(* the handle.                                                             *)
DestroyPending(t) ==
    /\ pc[t] = "destroyPending" /\ pendingL = NoThread
    /\ IF PendingContains(loc[t].buf)
       THEN /\ temps' = temps \cup {loc[t].buf} /\ pendingL' = pendingL
            /\ LeaveDestroy(t, [loc[t] EXCEPT !.tmp = {}])
       ELSE /\ temps' = temps /\ pendingL' = t
            /\ Go(t, "destroyLife", loc[t])
    /\ UNCHANGED <<device, indices, driver, life, recording, dst, buffers, hist,
                   snatchR, fenceR, fenceW, trackersL, lifeL, mapL>>

(* Else, with the lifetime tracker locked too, the youngest submission     *)
(* that uses the buffer gets it, or it is dropped, which frees it.         *)
DestroyLife(t) ==
    /\ pc[t] = "destroyLife" /\ lifeL = NoThread
    /\ active' = ScheduleResourceDestruction(active, loc[t].buf)
    /\ pendingL' = NoThread
    /\ LeaveDestroy(t, [loc[t] EXCEPT !.tmp = {}])
    /\ UNCHANGED <<device, indices, driver, ready, deferred, pending, buffers, hist,
                   snatchR, fenceR, fenceW, trackersL, lifeL, mapL>>

-----------------------------------------------------------------------------
(***************************************************************************)
(* Queue::on_submitted_work_done and Device::destroy                       *)
(***************************************************************************)
CallWorkDone(t) ==
    /\ MayCall(t, "workDone") /\ hist.works < MaxWork /\ lifeL = NoThread
    /\ LET w == hist.works + 1
       IN /\ active' = ClosureWithSubmission(active, w)
          /\ deferred' = ClosureDeferred(active, deferred, w)
          /\ hist' = [hist EXCEPT
                !.works = w, !.workIndex[w] = hist.tracked,
                !.workMaps[w] = {o \in MapOp : hist.mapIndex[o] >= 0 /\ hist.mapFired[o] = 0}]
    /\ UNCHANGED <<device, indices, driver, ready, pending, buffers, locks, pc, loc>>

CallDestroyDevice_Silent(t) ==          \* wrong: the closure goes with the device
    /\ MayCall(t, "destroyDevice") /\ valid
    /\ valid' = FALSE /\ lostClosure' = FALSE
    /\ UNCHANGED <<indices, driver, life, pending, buffers, locks, pc, loc, hist>>

CallDestroyDevice(t) ==
    /\ MayCall(t, "destroyDevice") /\ valid
    /\ valid' = FALSE
    /\ UNCHANGED <<lostClosure, indices, driver, life, pending, buffers, locks, pc, loc, hist>>

(***************************************************************************)
(* The GPU completes submissions in the order the driver was given them.   *)
(***************************************************************************)
GpuComplete ==
    /\ gpu # <<>>
    /\ gpuDone' = Head(gpu).index
    /\ gpu' = Tail(gpu)
    /\ UNCHANGED <<device, indices, life, pending, buffers, locks, pc, loc, hist>>

(***************************************************************************)
(* lose_if_oom, at the end of poll and of submit, and the driver calls of  *)
(* what is not modelled (creating resources, encoding) may fail too, with  *)
(* none of the locks above held by the caller.                             *)
(***************************************************************************)
LoseElsewhere ==
    /\ HalMayFail
    /\ Lose
    /\ UNCHANGED <<indices, driver, life, pending, buffers, locks, pc, loc>>

-----------------------------------------------------------------------------
(* The calls an application decides to make, and the steps the code takes  *)
(* inside them.                                                            *)
Call(t) ==
    \/ CallSubmit(t) \/ CallPoll(t) \/ CallWait(t) \/ CallWrite(t)
    \/ CallMapAsync(t) \/ CallUnmap(t) \/ CallDestroy(t) \/ CallDrop(t)
    \/ CallWorkDone(t) \/ CallDestroyDevice(t)

SubmitStep(t) ==
    \/ SubmitFence(t) \/ SubmitPrepare(t) \/ SubmitReject(t)
    \/ SubmitHal(t) \/ SubmitHalFails(t) \/ SubmitTrack(t)

MaintainStep(t) ==
    \/ PollFence(t) \/ MaintainBegin(t) \/ MaintainWait(t) \/ MaintainFence(t)
    \/ MaintainHalFails(t) \/ MaintainLock(t) \/ Triage(t)
    \/ MapReady(t) \/ MapSet(t) \/ MapHalFails(t) \/ MapRestore(t)
    \/ MaintainUnlock(t) \/ MaintainResult(t)
    \/ ReleaseLock(t) \/ ReleaseNext(t) \/ ReleaseDone(t)

FireStep(t) == FireMapping(t) \/ FireWorkDone(t) \/ FireLost(t) \/ Fired(t)

BufferStep(t) ==
    \/ WritePending(t) \/ WriteTrack(t) \/ WriteCheck(t)
    \/ MapAsyncState(t) \/ MapAsyncLife(t)
    \/ Unmap(t) \/ UnmapInit(t) \/ DestroySnatch(t)
    \/ DestroyPending(t) \/ DestroyLife(t)

Step(t) == SubmitStep(t) \/ MaintainStep(t) \/ FireStep(t) \/ BufferStep(t)

Next == GpuComplete \/ LoseElsewhere \/ \E t \in Thread : Call(t) \/ Step(t)

Spec == Init /\ [][Next]_vars

(***************************************************************************)
(* The GPU gets on with its work, a thread inside a call gets on with it   *)
(* (the locks are parking_lot's, which are eventually fair), and an        *)
(* application that may poll does so again and again.  Nobody else is      *)
(* obliged to call anything.                                               *)
(***************************************************************************)
Fairness ==
    /\ WF_vars(GpuComplete)
    /\ \A t \in Thread : SF_vars(Step(t)) /\ SF_vars(CallPoll(t))

FairSpec == Spec /\ Fairness

-----------------------------------------------------------------------------
(***************************************************************************)
(* Correctness                                                             *)
(***************************************************************************)
HistoryType ==
    [maps : Nat, works : Nat, tracked : Nat,
     mapBuf : [MapOp -> Buffer \cup {NoBuffer}], mapIndex : [MapOp -> Nat \cup {-1}],
     mapFired : [MapOp -> Nat],
     workIndex : [WorkDone -> Nat], workMaps : [WorkDone -> SUBSET MapOp],
     workFired : [WorkDone -> Nat],
     lostFired : Nat, halFailed : BOOLEAN]

Submission == Entries(WorkDone)

(* The type invariant, in the parts the actions change together. *)
DeviceTypeOK ==
    /\ valid \in BOOLEAN /\ lostClosure \in BOOLEAN
    /\ activeIndex \in Nat /\ lastSuccessful \in Nat
    /\ gpu \in Seq([index : Nat, bufs : SUBSET Buffer]) /\ gpuDone \in Nat

LifeTypeOK ==
    active \in Seq(Submission) /\ ready \in Seq(Buffer) /\ deferred \in Seq(WorkDone)

BufferTypeOK ==
    /\ recording \in BOOLEAN /\ dst \subseteq Buffer /\ temps \subseteq Buffer
    /\ snatched \subseteq Buffer /\ handle \subseteq Buffer
    /\ mapState \in [Buffer -> [st : MapStatus, op : 0..MaxMap]]

LockTypeOK ==
    /\ snatchR \subseteq Thread /\ fenceR \subseteq Thread
    /\ fenceW \in Thread \cup {NoThread} /\ trackersL \in Thread \cup {NoThread}
    /\ pendingL \in Thread \cup {NoThread} /\ lifeL \in Thread \cup {NoThread}
    /\ mapL \in [Buffer -> Thread \cup {NoThread}]

ThreadTypeOK == pc \in [Thread -> Location] /\ loc \in [Thread -> Locals]

TypeOK ==
    /\ DeviceTypeOK /\ LifeTypeOK /\ BufferTypeOK /\ LockTypeOK /\ ThreadTypeOK
    /\ hist \in HistoryType

(***************************************************************************)
(* "all the resources it uses must remain alive until it has finished      *)
(* executing" (life.rs, on ActiveSubmission): whatever the application     *)
(* destroys or drops, and whenever, the raw handle of a buffer outlives    *)
(* every submission the GPU still has that uses it, and every copy into it *)
(* that is recorded and not submitted.  Up to the first driver error: a    *)
(* failed submission drops what it flushed without asking what else is in  *)
(* flight.                                                                 *)
(***************************************************************************)
NoUseAfterFree ==
    ~hist.halFailed =>
      /\ \A i \in DOMAIN gpu : \A b \in gpu[i].bufs : RawAlive(b)
      /\ \A b \in dst : RawAlive(b)

(***************************************************************************)
(* The assertion triage_submissions would make if it could (life.rs:305),  *)
(* and what makes its prefix search right: `active` is sorted, and holds   *)
(* nothing that was not submitted.                                         *)
(***************************************************************************)
ActiveSorted ==
    /\ \A i, j \in DOMAIN active : i < j => active[i].index < active[j].index
    /\ \A i \in DOMAIN active : active[i].index <= lastSuccessful

(***************************************************************************)
(* What the GPU has, the lifetime tracker knows, with all the buffers it   *)
(* uses; but for the submission a thread is just about to register, and    *)
(* that thread still has the pending writes and the fence to itself.       *)
(***************************************************************************)
InFlightTracked ==
    \A i \in DOMAIN gpu :
      \/ \E j \in DOMAIN active :
            active[j].index = gpu[i].index /\ gpu[i].bufs \subseteq active[j].bufs
      \/ \E t \in Thread :
            /\ pc[t] = "submitTrack" /\ loc[t].idx = gpu[i].index
            /\ fenceW = t /\ pendingL = t

(***************************************************************************)
(* "A buffer cannot be mapped until all active queue submissions that use  *)
(* it have completed" (life.rs:153): the CPU and the GPU never have the    *)
(* same buffer.                                                            *)
(***************************************************************************)
MappedNotInFlight ==
    \A b \in Buffer : mapState[b].st = "Active" =>
        \A i \in DOMAIN gpu : b \notin gpu[i].bufs

(***************************************************************************)
(* "`op.callback` is guaranteed to be called" (global.rs:2066), as far as  *)
(* safety goes: it never runs twice, and until it has run somebody still   *)
(* has it: the buffer it waits on, or a thread that will fire it.          *)
(***************************************************************************)
MapCallbackKept ==
    \A o \in 1..hist.maps :
      \/ hist.mapFired[o] = 1
      \/ /\ hist.mapFired[o] = 0
         /\ \/ \E b \in Buffer : mapState[b] = [st |-> "Waiting", op |-> o]
            \/ \E t \in Thread :
                  \/ loc[t].op = o /\ pc[t] \in {"mapAsyncState", "mapSet"}
                  \/ \E i \in DOMAIN loc[t].maps : loc[t].maps[i] = o

(***************************************************************************)
(* "`closure` is guaranteed to be called" (queue.rs:1519), likewise.       *)
(***************************************************************************)
WorkDoneKept ==
    \A w \in 1..hist.works :
      \/ hist.workFired[w] = 1
      \/ /\ hist.workFired[w] = 0
         /\ \/ \E i \in DOMAIN deferred : deferred[i] = w
            \/ \E i \in DOMAIN active : \E j \in DOMAIN active[i].closures :
                  active[i].closures[j] = w
            \/ \E t \in Thread : \E i \in DOMAIN loc[t].works : loc[t].works[i] = w

(***************************************************************************)
(* A work-done closure runs only when the GPU has completed every          *)
(* submission tracked before it was registered.                            *)
(***************************************************************************)
WorkDoneAfterGpu ==
    \A w \in WorkDone : hist.workFired[w] > 0 => gpuDone >= hist.workIndex[w]

(***************************************************************************)
(* "the spec requires all mapping callbacks that are registered before a   *)
(* on_submitted_work_done callback to be fired before the                  *)
(* on_submitted_work_done callback" (device/mod.rs, in fire).              *)
(***************************************************************************)
WorkDoneAfterMaps ==
    \A w \in WorkDone : hist.workFired[w] > 0 =>
        \A o \in hist.workMaps[w] : hist.mapFired[o] > 0

(***************************************************************************)
(* A destroyed device is reported lost once, and only when the GPU has     *)
(* nothing left of it: device_destroy's "currently-enqueued operations on  *)
(* any queue on this device are completed".                                *)
(***************************************************************************)
LostWhenIdle ==
    /\ hist.lostFired <= 1
    /\ hist.lostFired = 1 /\ ~hist.halFailed => gpu = <<>> /\ active = <<>>

(***************************************************************************)
(* The assertions and panics of maintain and Buffer::map never happen:     *)
(* "This is defensive, as this should never be hit."                       *)
(***************************************************************************)
NeverPanics == \A t \in Thread : pc[t] # "panicked"

(***************************************************************************)
(* The threads that hold the lock t is about to take.                      *)
(***************************************************************************)
Holder(l) == {l} \ {NoThread}

BlockedBy(t) ==
    CASE pc[t] = "submitFence" -> fenceR \cup Holder(fenceW)
      [] pc[t] = "submitPrepare" ->
           IF loc[t].cmds = <<>> THEN Holder(pendingL)
           ELSE Holder(trackersL) \cup UNION {Holder(mapL[b]) : b \in Head(loc[t].cmds)}
      [] pc[t] \in {"submitTrack", "maintainLock", "destroyLife"} -> Holder(lifeL)
      [] pc[t] = "pollFence" -> Holder(fenceW)
      [] pc[t] = "mapReady" -> IF ready = <<>> THEN {} ELSE Holder(mapL[Head(ready)])
      [] pc[t] \in {"mapSet", "mapRestore", "writeCheck", "mapAsyncState", "unmap"} ->
           Holder(mapL[loc[t].buf])
      [] pc[t] \in {"releaseLock", "writeTrack"} -> Holder(trackersL)
      [] pc[t] = "destroySnatch" -> snatchR
      [] pc[t] \in {"writePending", "unmapInit", "destroyPending"} -> Holder(pendingL)
      [] pc[t] = "mapAsyncLife" -> Holder(trackersL) \cup Holder(lifeL)
      [] OTHER -> {}

(***************************************************************************)
(* "the system as a whole is always able to make progress: it is free of   *)
(* deadlocks" (lock/ranked.rs:47): no set of threads, one thread included, *)
(* each wait for a lock another of the set holds.                          *)
(***************************************************************************)
NoDeadlock ==
    ~\E S \in SUBSET Thread :
        S # {} /\ \A t \in S : BlockedBy(t) \cap S # {}

(***************************************************************************)
(* "`op.callback` is guaranteed to be called" (global.rs:2066): every map  *)
(* request, granted, refused, aborted or overtaken by the end of its       *)
(* buffer or of the device, is answered.                                   *)
(***************************************************************************)
MapAnswered ==
    \A o \in MapOp : (hist.maps >= o) ~> (hist.mapFired[o] = 1)

(***************************************************************************)
(* "`closure` is guaranteed to be called" (queue.rs:1519).                 *)
(***************************************************************************)
WorkDoneAnswered ==
    \A w \in WorkDone : (hist.works >= w) ~> (hist.workFired[w] = 1)

(***************************************************************************)
(* A destroyed device reports its loss: the closure set before             *)
(* Device::destroy runs once the queue has drained.                        *)
(***************************************************************************)
LostAnswered == ~valid ~> (hist.lostFired = 1)

-----------------------------------------------------------------------------
(***************************************************************************)
(* What the type invariant needs to be inductive: a thread that works on a *)
(* buffer, or on a map request, has one; and so has a pending mapping.     *)
(***************************************************************************)
AtBuffer ==
    {"mapSet", "mapRestore", "destroySnatch", "destroyPending", "destroyLife",
     "writePending", "writeTrack", "writeCheck", "mapAsyncState", "mapAsyncLife",
     "unmap", "unmapInit"}

Operands(where, locals) ==
    /\ where \in AtBuffer => locals.buf \in Buffer
    /\ locals.after = "destroySnatch" =>
          where \in {"unmap", "unmapInit", "fire"} /\ locals.buf \in Buffer
    /\ where \in {"mapSet", "mapAsyncState", "mapAsyncLife"} => locals.op \in MapOp

ThreadInv == ThreadTypeOK /\ \A t \in Thread : Operands(pc[t], loc[t])

BufferInv ==
    /\ BufferTypeOK
    /\ \A b \in Buffer : mapState[b].st = "Waiting" => mapState[b].op \in MapOp

TypeInv ==
    /\ DeviceTypeOK /\ LifeTypeOK /\ BufferInv /\ LockTypeOK /\ ThreadInv
    /\ hist \in HistoryType

(***************************************************************************)
(* What ActiveSorted and InFlightTracked need to be inductive.  A submit   *)
(* has the fence to itself, so its index is the last one allocated and     *)
(* above all that was submitted; the driver completes in index order, so   *)
(* what triage drains (loc.done is a fence value) is not what the GPU      *)
(* still has; and what the GPU has beyond `active` is what the thread that *)
(* submitted it holds, along with the pending writes.                      *)
(***************************************************************************)
Submitting == {"submitPrepare", "submitTrack"}
AtPending == {"submitTrack", "writeTrack", "writeCheck", "destroyLife"}

LockInv ==
    \A t \in Thread :
      /\ pc[t] \in Submitting => fenceW = t
      /\ pc[t] \in AtPending => pendingL = t

IndexInv ==
    /\ gpuDone <= lastSuccessful /\ lastSuccessful <= activeIndex
    /\ \A i \in DOMAIN gpu : gpuDone < gpu[i].index /\ gpu[i].index <= lastSuccessful
    /\ \A i, j \in DOMAIN gpu : i < j => gpu[i].index < gpu[j].index

LocalInv ==
    \A t \in Thread :
      /\ loc[t].done <= gpuDone
      /\ pc[t] = "submitPrepare" =>
            loc[t].idx = activeIndex /\ lastSuccessful < loc[t].idx
      /\ pc[t] = "submitTrack" =>
            /\ loc[t].idx = lastSuccessful
            /\ \A i \in DOMAIN active : active[i].index < loc[t].idx

Tracked(s) ==
    \/ \E j \in DOMAIN active : active[j].index = s.index /\ s.bufs \subseteq active[j].bufs
    \/ \E t \in Thread :
          pc[t] = "submitTrack" /\ loc[t].idx = s.index /\ s.bufs \subseteq loc[t].used

TrackInv == \A i \in DOMAIN gpu : Tracked(gpu[i])

SubmissionInv == LockInv /\ IndexInv /\ LocalInv /\ ActiveSorted /\ TrackInv
================================================================================
