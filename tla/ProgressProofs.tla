---------------------------- MODULE ProgressProofs ----------------------------
(***************************************************************************)
(* Nothing that threads do brings DeviceQueue to a halt: NoDeadlock, for   *)
(* clients that keep out of the two circles its locks allow.  A queue      *)
(* write closes both: with the release of a lost device's resources, and   *)
(* with the end of a mapping at creation.                                  *)
(* Nor to a panic: NeverPanics, for clients that wait without a timeout,   *)
(* or of which one alone submits and polls.                                *)
(***************************************************************************)
EXTENDS MappingProofs

(* No queue write; or a device that is not lost, and no buffer that is     *)
(* mapped at its creation through a staging buffer.                        *)
NoWrites == \A t \in Thread : "write" \notin Calls[t]
NoLoss ==
    /\ MappedAtCreation = {} /\ ~HalMayFail
    /\ \A t \in Thread : "destroyDevice" \notin Calls[t]

-----------------------------------------------------------------------------
(* Where a thread can be that holds a lock. *)
LifeHolders == {"triage", "mapReady", "mapSet", "mapRestore", "panicked"}
TrackersHolders == {"releaseNext", "destroySnatch", "destroyPending", "destroyLife"}
FenceHolders == FenceReaders \cup {"panicked"}
SnatchHolders ==
    {"submitFence", "submitPrepare", "submitTrack", "pollFence",
     "maintain", "maintainWait", "maintainFence", "maintainLock",
     "triage", "mapReady", "mapSet", "mapRestore", "panicked",
     "writePending", "writeTrack", "writeCheck", "unmapInit"}

(* A thread holds what it holds where the code takes it to need it.        *)
Entitled(t) ==
    /\ lifeL = t => pc[t] \in LifeHolders
    /\ pendingL = t => pc[t] \in AtPending
    /\ trackersL = t => pc[t] \in TrackersHolders
    /\ fenceW = t => pc[t] \in Submitting
    /\ t \in fenceR => pc[t] \in FenceHolders
    /\ t \in snatchR => pc[t] \in SnatchHolders
    /\ \A b \in Buffer : mapL[b] = t => pc[t] = "unmapInit" /\ loc[t].buf = b
HeldInv == \A t \in Thread : Entitled(t)

(* A step of t takes locks for t alone, and keeps to that. *)
Takes(t) ==
    /\ Others(t)
    /\ lifeL' \in {lifeL, NoThread, t} /\ pendingL' \in {pendingL, NoThread, t}
    /\ trackersL' \in {trackersL, NoThread, t} /\ fenceW' \in {fenceW, NoThread, t}
    /\ fenceR' \subseteq fenceR \cup {t} /\ snatchR' \subseteq snatchR \cup {t}
    /\ \A b \in Buffer : mapL'[b] \in {mapL[b], NoThread, t}
    /\ Entitled(t)'

LEMMA TakesKeeps == ASSUME HeldInv, NEW t \in Thread, Takes(t) PROVE HeldInv'
<1>1. NoThread \notin Thread
  BY ThreadAssumption
<1>2. ASSUME NEW u \in Thread \ {t} PROVE Entitled(u)'
  <2>1. pc'[u] = pc[u] /\ loc'[u] = loc[u] /\ Entitled(u)
    BY DEF Takes, Others, HeldInv
  <2>2. /\ lifeL' = u => lifeL = u
        /\ pendingL' = u => pendingL = u
        /\ trackersL' = u => trackersL = u
        /\ fenceW' = u => fenceW = u
        /\ u \in fenceR' => u \in fenceR
        /\ u \in snatchR' => u \in snatchR
        /\ \A b \in Buffer : mapL'[b] = u => mapL[b] = u
    BY <1>1 DEF Takes
  <2>3. QED
    BY <2>1, <2>2 DEF Entitled
<1>3. QED
  BY <1>2 DEF Takes, HeldInv

(* Where a thread holds nothing. *)
Bare ==
    {"idle", "fire", "releaseLock", "mapAsyncState", "mapAsyncLife", "unmap"}

LEMMA BareHolds ==
  ASSUME HeldInv, NEW t \in Thread, pc[t] \in Bare
  PROVE  /\ lifeL # t /\ pendingL # t /\ trackersL # t /\ fenceW # t
         /\ t \notin fenceR /\ t \notin snatchR /\ \A b \in Buffer : mapL[b] # t
BY DEF HeldInv, Entitled, Bare, LifeHolders, AtPending, TrackersHolders, Submitting,
       FenceHolders, FenceReaders, SnatchHolders

(* A step that takes no lock and lets none go. *)
LEMMA MoveTakes ==
  ASSUME ThreadInv, HeldInv, NEW t \in Thread, NEW w, NEW l, Go(t, w, l), UNCHANGED locks,
         pc[t] # "unmapInit",
         lifeL = t => w \in LifeHolders,
         pendingL = t => w \in AtPending,
         trackersL = t => w \in TrackersHolders,
         fenceW = t => w \in Submitting,
         t \in fenceR => w \in FenceHolders,
         t \in snatchR => w \in SnatchHolders
  PROVE  HeldInv'
<1>1. Others(t) /\ pc'[t] = w
  BY GoAt
<1>2. \A b \in Buffer : mapL[b] # t
  BY DEF HeldInv, Entitled
<1>3. Takes(t)
  BY <1>1, <1>2 DEF Takes, Entitled, locks
<1>4. QED
  BY <1>3, TakesKeeps


(* The calls begin by holding nothing, but for the snatch lock to read. *)
LEMMA CallHolds ==
  ASSUME TypeInv, HeldInv, NEW t \in Thread, Call(t) PROVE HeldInv'
<1>1. ThreadInv
  BY DEF TypeInv
<1>2. CASE CallWorkDone(t) \/ CallDestroyDevice(t)
  BY <1>2 DEF CallWorkDone, CallDestroyDevice, HeldInv, Entitled, locks
<1>3. ASSUME pc[t] = "idle", NEW w, NEW l, Go(t, w, l), UNCHANGED locks PROVE HeldInv'
  BY <1>1, <1>3, BareHolds, MoveTakes DEF Bare
<1>4. ASSUME pc[t] = "idle", NEW w \in SnatchHolders, NEW l, Go(t, w, l),
             snatchR' = snatchR \cup {t},
             UNCHANGED <<fenceR, fenceW, trackersL, pendingL, lifeL, mapL>>
      PROVE HeldInv'
  <2>1. Others(t) /\ pc'[t] = w
    BY <1>1, <1>4, GoAt
  <2>2. Takes(t)
    BY <1>4, <2>1, BareHolds DEF Takes, Entitled, Bare
  <2>3. QED
    BY <2>2, TakesKeeps
<1>5. CASE CallSubmit(t) \/ CallPoll(t) \/ CallWait(t) \/ CallWrite(t)
  <2>1. pc[t] = "idle"
    BY <1>5 DEF CallSubmit, CallPoll, CallWait, CallWrite, MayCall
  <2>2. PICK w \in {"submitFence", "pollFence", "writePending"} : \E l : Go(t, w, l)
    BY <1>5 DEF CallSubmit, CallPoll, CallWait, CallWrite
  <2>3. /\ snatchR' = snatchR \cup {t}
        /\ UNCHANGED <<fenceR, fenceW, trackersL, pendingL, lifeL, mapL>>
    BY <1>5 DEF CallSubmit, CallPoll, CallWait, CallWrite
  <2>4. w \in SnatchHolders
    BY <2>2 DEF SnatchHolders
  <2>5. QED
    BY <1>4, <2>1, <2>2, <2>3, <2>4
<1>6. CASE CallMapAsync(t)
  BY <1>3, <1>6 DEF CallMapAsync, MayCall
<1>7. CASE CallUnmap(t)
  BY <1>3, <1>7 DEF CallUnmap, MayCall
<1>8. CASE CallDestroy(t)
  BY <1>3, <1>8 DEF CallDestroy, MayCall
<1>9. CASE CallDrop(t)
  BY <1>3, <1>9 DEF CallDrop, MayCall
<1>10. QED
  BY <1>2, <1>5, <1>6, <1>7, <1>8, <1>9 DEF Call

(* What a thread in submit holds: the snatch lock, and the fence but at    *)
(* first.                                                                  *)
LEMMA SubmitHolds ==
  ASSUME TypeInv, HeldInv, NEW t \in Thread, SubmitStep(t) PROVE HeldInv'
<1>1. ThreadInv
  BY DEF TypeInv
<1>2. pc[t] \in {"submitFence", "submitPrepare", "submitTrack"}
  BY DEF SubmitStep, SubmitFence, SubmitPrepare, SubmitReject, SubmitHal, SubmitHalFails, SubmitTrack
<1>3. /\ lifeL # t /\ trackersL # t /\ t \notin fenceR /\ \A b \in Buffer : mapL[b] # t
      /\ pendingL = t => pc[t] = "submitTrack"
      /\ fenceW = t => pc[t] # "submitFence"
  BY <1>2 DEF HeldInv, Entitled, LifeHolders, TrackersHolders, FenceHolders, FenceReaders,
              AtPending, Submitting
<1>4. CASE SubmitFence(t)
  <2>1. PICK w \in {"submitPrepare", "idle"} : \E l : Go(t, w, l)
    BY <1>4 DEF SubmitFence
  <2>2. Others(t) /\ pc'[t] = w
    BY <1>1, <2>1, GoAt
  <2>3. Takes(t)
    <3>1. CASE valid
      <4>1. pc'[t] = "submitPrepare"
        BY <1>1, <1>4, <3>1, GoAt DEF SubmitFence
      <4>2. QED
        BY <1>3, <1>4, <2>2, <3>1, <4>1 DEF SubmitFence, Takes, Entitled, Submitting, SnatchHolders
    <3>2. CASE ~valid
      BY <1>3, <1>4, <2>2, <3>2 DEF SubmitFence, Takes, Entitled
    <3>3. QED
      BY <3>1, <3>2
  <2>4. QED
    BY <2>3, TakesKeeps
<1>5. CASE SubmitPrepare(t)
  <2>1. PICK l : Go(t, "submitPrepare", l)
    BY <1>5 DEF SubmitPrepare
  <2>2. pc[t] = "submitPrepare" /\ UNCHANGED locks
    BY <1>5 DEF SubmitPrepare
  <2>3. QED
    BY <1>1, <1>3, <2>1, <2>2, MoveTakes DEF Submitting, SnatchHolders
<1>6. CASE SubmitReject(t) \/ SubmitHalFails(t)
  <2>1. /\ Go(t, "idle", Nothing) /\ pc[t] = "submitPrepare"
        /\ fenceW' = NoThread /\ snatchR' = snatchR \ {t}
        /\ UNCHANGED <<fenceR, trackersL, pendingL, lifeL, mapL>>
    BY <1>6 DEF SubmitReject, SubmitHalFails
  <2>2. Others(t) /\ pc'[t] = "idle"
    BY <1>1, <2>1, GoAt
  <2>3. Takes(t)
    BY <1>3, <2>1, <2>2, ThreadAssumption DEF Takes, Entitled
  <2>4. QED
    BY <2>3, TakesKeeps
<1>7. CASE SubmitHal(t)
  <2>1. PICK l : Go(t, "submitTrack", l)
    BY <1>7 DEF SubmitHal
  <2>2. /\ pendingL' = t
        /\ UNCHANGED <<snatchR, fenceR, fenceW, trackersL, lifeL, mapL>>
    BY <1>7 DEF SubmitHal
  <2>3. Others(t) /\ pc'[t] = "submitTrack"
    BY <1>1, <2>1, GoAt
  <2>4. Takes(t)
    BY <1>3, <2>2, <2>3 DEF Takes, Entitled, AtPending, Submitting, SnatchHolders
  <2>5. QED
    BY <2>4, TakesKeeps
<1>8. CASE SubmitTrack(t)
  <2>1. /\ Go(t, "maintain", Nothing) /\ pendingL' = NoThread
        /\ fenceW' = NoThread /\ fenceR' = fenceR \cup {t}
        /\ UNCHANGED <<snatchR, trackersL, lifeL, mapL>>
    BY <1>8 DEF SubmitTrack
  <2>2. Others(t) /\ pc'[t] = "maintain"
    BY <1>1, <2>1, GoAt
  <2>3. Takes(t)
    BY <1>3, <2>1, <2>2, ThreadAssumption
    DEF Takes, Entitled, FenceHolders, FenceReaders, SnatchHolders
  <2>4. QED
    BY <2>3, TakesKeeps
<1>9. QED
  BY <1>4, <1>5, <1>6, <1>7, <1>8 DEF SubmitStep

(* maintain, and the release of a lost device's resources. *)
LEMMA MaintainHolds ==
  ASSUME TypeInv, HeldInv, NEW t \in Thread, MaintainStep(t) PROVE HeldInv'
<1>1. ThreadInv
  BY DEF TypeInv
<1>2. Entitled(t)
  BY DEF HeldInv
<1>3. CASE PollFence(t)
  <2>1. /\ Go(t, "maintain", loc[t]) /\ pc[t] = "pollFence" /\ fenceR' = fenceR \cup {t}
        /\ UNCHANGED <<snatchR, fenceW, trackersL, pendingL, lifeL, mapL>>
    BY <1>3 DEF PollFence
  <2>2. Others(t) /\ pc'[t] = "maintain"
    BY <1>1, <2>1, GoAt
  <2>3. Takes(t)
    BY <1>2, <2>1, <2>2
    DEF Takes, Entitled, LifeHolders, TrackersHolders, AtPending, Submitting, FenceHolders,
        FenceReaders, SnatchHolders
  <2>4. QED
    BY <2>3, TakesKeeps
<1>4. ASSUME pc[t] \in {"maintain", "maintainWait", "maintainFence"}, LeaveMaintain(t)
      PROVE HeldInv'
  <2>1. /\ Go(t, "idle", Nothing) /\ fenceR' = fenceR \ {t} /\ snatchR' = snatchR \ {t}
        /\ UNCHANGED <<fenceW, trackersL, pendingL, lifeL, mapL>>
    BY <1>4 DEF LeaveMaintain
  <2>2. Others(t) /\ pc'[t] = "idle"
    BY <1>1, <2>1, GoAt
  <2>3. Takes(t)
    BY <1>2, <1>4, <2>1, <2>2
    DEF Takes, Entitled, LifeHolders, TrackersHolders, AtPending, Submitting
  <2>4. QED
    BY <2>3, TakesKeeps
<1>5. ASSUME NEW S \in {{"maintain", "maintainWait", "maintainFence", "maintainLock"}, LifeHolders},
             pc[t] \in S, NEW w \in S, NEW l, Go(t, w, l), UNCHANGED locks
      PROVE HeldInv'
  <2>1. /\ pc[t] # "unmapInit" /\ pendingL # t /\ trackersL # t /\ fenceW # t
        /\ lifeL = t => w \in LifeHolders
        /\ w \in FenceHolders /\ w \in SnatchHolders
    BY <1>2, <1>5
    DEF Entitled, LifeHolders, TrackersHolders, AtPending, Submitting, FenceHolders,
        FenceReaders, SnatchHolders
  <2>2. QED
    BY <1>1, <1>5, <2>1, MoveTakes
<1>6. CASE MaintainBegin(t)
  <2>1. pc[t] = "maintain"
    BY <1>6 DEF MaintainBegin
  <2>2. \/ LeaveMaintain(t)
        \/ UNCHANGED locks /\ \E w \in {"maintainFence", "maintainWait"} : \E l : Go(t, w, l)
    BY <1>6 DEF MaintainBegin
  <2>3. QED
    BY <1>4, <1>5, <2>1, <2>2
<1>7. CASE MaintainWait(t) \/ MaintainFence(t)
  <2>1. /\ pc[t] \in {"maintainWait", "maintainFence"} /\ UNCHANGED locks
        /\ \E w \in {"maintainFence", "maintainLock"} : \E l : Go(t, w, l)
    BY <1>7 DEF MaintainWait, MaintainFence
  <2>2. QED
    BY <1>5, <2>1
<1>8. CASE MaintainHalFails(t)
  BY <1>4, <1>8 DEF MaintainHalFails
<1>9. CASE MaintainLock(t)
  <2>1. PICK l : Go(t, "triage", l)
    BY <1>9 DEF MaintainLock
  <2>2. /\ pc[t] = "maintainLock" /\ lifeL' = t
        /\ UNCHANGED <<snatchR, fenceR, fenceW, trackersL, pendingL, mapL>>
    BY <1>9 DEF MaintainLock
  <2>3. Others(t) /\ pc'[t] = "triage"
    BY <1>1, <2>1, GoAt
  <2>4. Takes(t)
    BY <1>2, <2>2, <2>3
    DEF Takes, Entitled, LifeHolders, TrackersHolders, AtPending, Submitting, FenceHolders,
        FenceReaders, SnatchHolders
  <2>5. QED
    BY <2>4, TakesKeeps
<1>10. CASE Triage(t)
  <2>1. /\ pc[t] = "triage" /\ UNCHANGED locks
        /\ \E w \in {"triage", "mapReady"} : \E l : Go(t, w, l)
    BY <1>10 DEF Triage
  <2>2. QED
    BY <1>5, <2>1 DEF LifeHolders
<1>11. CASE MapReady(t)
  <2>1. /\ pc[t] = "mapReady" /\ UNCHANGED locks
        /\ \E w \in {"mapReady", "mapSet", "mapRestore", "panicked"} : \E l : Go(t, w, l)
    BY <1>11 DEF MapReady
  <2>2. QED
    BY <1>5, <2>1 DEF LifeHolders
<1>12. CASE MapSet(t) \/ MapHalFails(t) \/ MapRestore(t)
  <2>1. /\ pc[t] \in {"mapSet", "mapRestore"} /\ UNCHANGED locks
        /\ \E l : Go(t, "mapReady", l)
    BY <1>12 DEF MapSet, MapHalFails, MapRestore
  <2>2. QED
    BY <1>5, <2>1 DEF LifeHolders
<1>13. CASE MaintainUnlock(t)
  <2>1. PICK l : Go(t, "maintainResult", l)
    BY <1>13 DEF MaintainUnlock
  <2>2. /\ pc[t] = "mapReady" /\ lifeL' = NoThread /\ snatchR' = snatchR \ {t}
        /\ UNCHANGED <<fenceR, fenceW, trackersL, pendingL, mapL>>
    BY <1>13 DEF MaintainUnlock
  <2>3. Others(t) /\ pc'[t] = "maintainResult"
    BY <1>1, <2>1, GoAt
  <2>4. Takes(t)
    BY <1>2, <2>2, <2>3, ThreadAssumption
    DEF Takes, Entitled, TrackersHolders, AtPending, Submitting, FenceHolders, FenceReaders
  <2>5. QED
    BY <2>4, TakesKeeps
<1>14. CASE MaintainResult(t)
  <2>1. PICK w \in {"panicked", "releaseLock", "fire"} : \E l : Go(t, w, l)
    BY <1>14 DEF MaintainResult
  <2>2. /\ pc[t] = "maintainResult" /\ fenceR' = fenceR \ {t}
        /\ UNCHANGED <<snatchR, fenceW, trackersL, pendingL, lifeL, mapL>>
    BY <1>14 DEF MaintainResult
  <2>3. Others(t) /\ pc'[t] = w
    BY <1>1, <2>1, GoAt
  <2>4. Takes(t)
    BY <1>2, <2>2, <2>3
    DEF Takes, Entitled, LifeHolders, TrackersHolders, AtPending, Submitting, SnatchHolders
  <2>5. QED
    BY <2>4, TakesKeeps
<1>15. CASE ReleaseLock(t)
  <2>1. PICK l : Go(t, "releaseNext", l)
    BY <1>15 DEF ReleaseLock
  <2>2. /\ pc[t] = "releaseLock" /\ trackersL' = t
        /\ UNCHANGED <<snatchR, fenceR, fenceW, pendingL, lifeL, mapL>>
    BY <1>15 DEF ReleaseLock
  <2>3. Others(t) /\ pc'[t] = "releaseNext"
    BY <1>1, <2>1, GoAt
  <2>4. Takes(t)
    BY <2>2, <2>3, BareHolds DEF Takes, Entitled, TrackersHolders, Bare
  <2>5. QED
    BY <2>4, TakesKeeps
<1>16. CASE ReleaseNext(t)
  <2>1. /\ pc[t] = "releaseNext" /\ UNCHANGED locks
        /\ \E w \in {"destroySnatch", "releaseNext"} : \E l : Go(t, w, l)
    BY <1>16 DEF ReleaseNext
  <2>2. /\ pendingL # t /\ lifeL # t /\ fenceW # t /\ t \notin fenceR /\ t \notin snatchR
    BY <1>2, <2>1
    DEF Entitled, LifeHolders, AtPending, Submitting, FenceHolders, FenceReaders, SnatchHolders
  <2>3. QED
    BY <1>1, <2>1, <2>2, MoveTakes DEF TrackersHolders
<1>17. CASE ReleaseDone(t)
  <2>1. PICK l : Go(t, "fire", l)
    BY <1>17 DEF ReleaseDone
  <2>2. /\ pc[t] = "releaseNext" /\ trackersL' = NoThread
        /\ UNCHANGED <<snatchR, fenceR, fenceW, pendingL, lifeL, mapL>>
    BY <1>17 DEF ReleaseDone
  <2>3. Others(t) /\ pc'[t] = "fire"
    BY <1>1, <2>1, GoAt
  <2>4. Takes(t)
    BY <1>2, <2>2, <2>3, ThreadAssumption
    DEF Takes, Entitled, LifeHolders, AtPending, Submitting, FenceHolders, FenceReaders, SnatchHolders
  <2>5. QED
    BY <2>4, TakesKeeps
<1>18. QED
  BY <1>3, <1>6, <1>7, <1>8, <1>9, <1>10, <1>11, <1>12, <1>13, <1>14, <1>15, <1>16, <1>17
  DEF MaintainStep


(* Writing, mapping, unmapping and destroying a buffer. *)
LEMMA BufferHolds ==
  ASSUME TypeInv, HeldInv, NEW t \in Thread, BufferStep(t) \/ FireStep(t) PROVE HeldInv'
<1>1. ThreadInv
  BY DEF TypeInv
<1>2. Entitled(t)
  BY DEF HeldInv
<1>3. ASSUME pc[t] \in Bare, NEW w, NEW l, Go(t, w, l), UNCHANGED locks PROVE HeldInv'
  BY <1>1, <1>3, BareHolds, MoveTakes DEF Bare
<1>4. ASSUME pc[t] \in {"writePending", "writeTrack", "writeCheck"}, LeaveWrite(t)
      PROVE HeldInv'
  <2>1. /\ Go(t, "idle", Nothing) /\ snatchR' = snatchR \ {t} /\ pendingL' = NoThread
        /\ UNCHANGED <<fenceR, fenceW, trackersL, lifeL, mapL>>
    BY <1>4 DEF LeaveWrite
  <2>2. Others(t) /\ pc'[t] = "idle"
    BY <1>1, <2>1, GoAt
  <2>3. Takes(t)
    BY <1>2, <1>4, <2>1, <2>2, ThreadAssumption
    DEF Takes, Entitled, LifeHolders, TrackersHolders, Submitting, FenceHolders, FenceReaders
  <2>4. QED
    BY <2>3, TakesKeeps
<1>5. CASE WritePending(t)
  <2>1. pc[t] = "writePending"
    BY <1>5 DEF WritePending
  <2>2. CASE valid
    <3>1. /\ Go(t, "writeTrack", loc[t]) /\ pendingL' = t
          /\ UNCHANGED <<snatchR, fenceR, fenceW, trackersL, lifeL, mapL>>
      BY <1>5, <2>2 DEF WritePending
    <3>2. Others(t) /\ pc'[t] = "writeTrack"
      BY <1>1, <3>1, GoAt
    <3>3. Takes(t)
      BY <1>2, <2>1, <3>1, <3>2
      DEF Takes, Entitled, LifeHolders, TrackersHolders, AtPending, Submitting, FenceHolders,
          FenceReaders, SnatchHolders
    <3>4. QED
      BY <3>3, TakesKeeps
  <2>3. CASE ~valid
    BY <1>4, <1>5, <2>1, <2>3 DEF WritePending
  <2>4. QED
    BY <2>2, <2>3
<1>6. CASE WriteTrack(t)
  <2>1. pc[t] = "writeTrack"
    BY <1>6 DEF WriteTrack
  <2>2. LeaveWrite(t) \/ (Go(t, "writeCheck", loc[t]) /\ UNCHANGED locks)
    BY <1>6 DEF WriteTrack
  <2>3. CASE Go(t, "writeCheck", loc[t]) /\ UNCHANGED locks
    <3>1. lifeL # t /\ trackersL # t /\ fenceW # t /\ t \notin fenceR
      BY <1>2, <2>1
      DEF Entitled, LifeHolders, TrackersHolders, Submitting, FenceHolders, FenceReaders
    <3>2. QED
      BY <1>1, <2>1, <2>3, <3>1, MoveTakes DEF AtPending, SnatchHolders
  <2>4. QED
    BY <1>4, <2>1, <2>2, <2>3
<1>7. CASE WriteCheck(t)
  BY <1>4, <1>7 DEF WriteCheck
<1>8. CASE MapAsyncState(t) \/ MapAsyncLife(t)
  <2>1. /\ pc[t] \in {"mapAsyncState", "mapAsyncLife"} /\ UNCHANGED locks
        /\ \E w, l : Go(t, w, l)
    BY <1>8 DEF MapAsyncState, MapAsyncLife
  <2>2. QED
    BY <1>3, <2>1 DEF Bare
<1>9. CASE Unmap(t)
  <2>1. pc[t] = "unmap"
    BY <1>9 DEF Unmap
  <2>2. CASE UNCHANGED <<snatchR, mapL>>
    <3>1. UNCHANGED locks /\ \E w, l : Go(t, w, l)
      BY <1>9, <2>2 DEF Unmap, locks
    <3>2. QED
      BY <1>3, <2>1, <3>1 DEF Bare
  <2>3. CASE ~UNCHANGED <<snatchR, mapL>>
    <3>1. /\ Go(t, "unmapInit", loc[t]) /\ snatchR' = snatchR \cup {t}
          /\ mapL' = [mapL EXCEPT ![loc[t].buf] = t]
          /\ UNCHANGED <<fenceR, fenceW, trackersL, pendingL, lifeL>>
      BY <1>9, <2>3 DEF Unmap
    <3>2. Others(t) /\ pc'[t] = "unmapInit" /\ loc'[t] = loc[t]
      BY <1>1, <3>1, GoAt
    <3>3. /\ loc[t].buf \in Buffer
          /\ \A b \in Buffer : mapL'[b] = IF b = loc[t].buf THEN t ELSE mapL[b]
      BY <1>1, <2>1, <3>1 DEF TypeInv, LockTypeOK, ThreadInv, Operands, AtBuffer
    <3>4. Takes(t)
      BY <2>1, <3>1, <3>2, <3>3, BareHolds DEF Takes, Entitled, Bare, SnatchHolders
    <3>5. QED
      BY <3>4, TakesKeeps
  <2>4. QED
    BY <2>2, <2>3
<1>10. CASE UnmapInit(t)
  <2>1. /\ Go(t, "fire", loc[t]) /\ pc[t] = "unmapInit" /\ snatchR' = snatchR \ {t}
        /\ mapL' = [mapL EXCEPT ![loc[t].buf] = NoThread]
        /\ UNCHANGED <<fenceR, fenceW, trackersL, pendingL, lifeL>>
    BY <1>10 DEF UnmapInit
  <2>2. Others(t) /\ pc'[t] = "fire"
    BY <1>1, <2>1, GoAt
  <2>3. \A b \in Buffer : mapL'[b] = IF b = loc[t].buf THEN NoThread ELSE mapL[b]
    BY <2>1 DEF TypeInv, LockTypeOK
  <2>4. Takes(t)
    BY <1>2, <2>1, <2>2, <2>3, ThreadAssumption
    DEF Takes, Entitled, LifeHolders, TrackersHolders, AtPending, Submitting, FenceHolders,
        FenceReaders
  <2>5. QED
    BY <2>4, TakesKeeps
<1>11. ASSUME pc[t] \in TrackersHolders, NEW l, LeaveDestroy(t, l),
              pendingL' \in {pendingL, NoThread}, pendingL' # t,
              UNCHANGED <<snatchR, fenceR, fenceW, trackersL, lifeL, mapL>>
       PROVE HeldInv'
  <2>1. \/ trackersL = t /\ Others(t) /\ pc'[t] = "releaseNext"
        \/ trackersL # t /\ Others(t) /\ pc'[t] = "idle"
    BY <1>1, <1>11, GoAt DEF LeaveDestroy
  <2>2. Takes(t)
    BY <1>2, <1>11, <2>1
    DEF Takes, Entitled, LifeHolders, TrackersHolders, Submitting, FenceHolders,
        FenceReaders, SnatchHolders
  <2>3. QED
    BY <2>2, TakesKeeps
<1>12. CASE DestroySnatch(t)
  <2>1. pc[t] = "destroySnatch" /\ UNCHANGED locks
    BY <1>12 DEF DestroySnatch
  <2>2. \/ LeaveDestroy(t, loc[t])
        \/ \E l : Go(t, "destroyPending", l)
    BY <1>12 DEF DestroySnatch
  <2>3. pendingL # t /\ lifeL # t /\ fenceW # t /\ t \notin fenceR /\ t \notin snatchR
    BY <1>2, <2>1
    DEF Entitled, LifeHolders, AtPending, Submitting, FenceHolders, FenceReaders, SnatchHolders
  <2>4. CASE LeaveDestroy(t, loc[t])
    BY <1>11, <2>1, <2>3, <2>4 DEF locks, TrackersHolders
  <2>5. CASE \E l : Go(t, "destroyPending", l)
    BY <1>1, <2>1, <2>3, <2>5, MoveTakes DEF TrackersHolders
  <2>6. QED
    BY <2>2, <2>4, <2>5
<1>13. CASE DestroyPending(t)
  <2>1. /\ pc[t] = "destroyPending" /\ pendingL = NoThread
        /\ UNCHANGED <<snatchR, fenceR, fenceW, trackersL, lifeL, mapL>>
    BY <1>13 DEF DestroyPending
  <2>2. \/ pendingL' = pendingL /\ \E l : LeaveDestroy(t, l)
        \/ pendingL' = t /\ Go(t, "destroyLife", loc[t])
    BY <1>13 DEF DestroyPending
  <2>3. CASE pendingL' = pendingL /\ \E l : LeaveDestroy(t, l)
    BY <1>11, <2>1, <2>3, ThreadAssumption DEF TrackersHolders
  <2>4. CASE pendingL' = t /\ Go(t, "destroyLife", loc[t])
    <3>1. Others(t) /\ pc'[t] = "destroyLife"
      BY <1>1, <2>4, GoAt
    <3>2. Takes(t)
      BY <1>2, <2>1, <2>4, <3>1
      DEF Takes, Entitled, LifeHolders, TrackersHolders, AtPending, Submitting, FenceHolders,
          FenceReaders, SnatchHolders
    <3>3. QED
      BY <3>2, TakesKeeps
  <2>5. QED
    BY <2>2, <2>3, <2>4
<1>14. CASE DestroyLife(t)
  <2>1. /\ pc[t] = "destroyLife" /\ pendingL' = NoThread /\ \E l : LeaveDestroy(t, l)
        /\ UNCHANGED <<snatchR, fenceR, fenceW, trackersL, lifeL, mapL>>
    BY <1>14 DEF DestroyLife
  <2>2. QED
    BY <1>11, <2>1, ThreadAssumption DEF TrackersHolders
<1>15. CASE FireStep(t)
  <2>1. pc[t] = "fire" /\ UNCHANGED locks /\ \E w, l : Go(t, w, l)
    BY <1>15 DEF FireStep, FireMapping, FireWorkDone, FireLost, Fired
  <2>2. QED
    BY <1>3, <2>1 DEF Bare
<1>16. QED
  BY <1>5, <1>6, <1>7, <1>8, <1>9, <1>10, <1>12, <1>13, <1>14, <1>15 DEF BufferStep

(* A thread holds a lock only where the code takes it to. *)
LEMMA NextHolds == TypeInv /\ HeldInv /\ [Next]_vars => HeldInv'
<1>1. SUFFICES ASSUME TypeInv, HeldInv, [Next]_vars PROVE HeldInv'
  OBVIOUS
<1>2. CASE UNCHANGED vars \/ GpuComplete \/ LoseElsewhere
  <2>1. UNCHANGED <<locks, pc, loc>>
    BY <1>2 DEF vars, GpuComplete, LoseElsewhere
  <2>2. QED
    BY <1>1, <2>1 DEF HeldInv, Entitled, locks
<1>3. QED
  BY <1>1, <1>2, CallHolds, SubmitHolds, MaintainHolds, BufferHolds DEF Next, Step

(***************************************************************************)
(* Who holds which lock where: no call returns with one, and none is held  *)
(* while a closure runs.                                                   *)
(***************************************************************************)
THEOREM Holders == Spec => []HeldInv
<1>1. Init => HeldInv
  BY ThreadAssumption DEF Init, HeldInv, Entitled
<1>2. TypeInv /\ HeldInv /\ [Next]_vars => HeldInv'
  BY NextHolds
<1>3. QED
  BY <1>1, <1>2, Types, PTL DEF Spec


-----------------------------------------------------------------------------
(* A lost device's resources are released when its last submission is      *)
(* over: whoever begins another finds the device invalid.                  *)
ReleaseInv ==
    \A t \in Thread : pc[t] = "releaseLock" \/ trackersL = t =>
        ~valid /\ \A u \in Thread : pc[u] \notin Submitting

(* A step that neither begins a release nor a submission on such a device. *)
LEMMA ReleaseStays ==
  ASSUME ReleaseInv, NEW t \in Thread, Others(t), valid' => valid,
         pc'[t] \in Submitting => pc[t] \in Submitting \/ valid,
         pc'[t] # "releaseLock", trackersL' \in {trackersL, NoThread}
  PROVE  ReleaseInv'
BY ThreadAssumption DEF ReleaseInv, Others

LEMMA CallReleases ==
  ASSUME TypeInv, ReleaseInv, NEW t \in Thread, Call(t) PROVE ReleaseInv'
<1>1. ThreadInv
  BY DEF TypeInv
<1>2. CASE CallWorkDone(t) \/ CallDestroyDevice(t)
  BY <1>2 DEF CallWorkDone, CallDestroyDevice, ReleaseInv, device, locks
<1>3. CASE ~(CallWorkDone(t) \/ CallDestroyDevice(t))
  <2>1. PICK w \in Location \ (Submitting \cup {"releaseLock"}) : \E l : Go(t, w, l)
    BY <1>3 DEF Call, CallSubmit, CallPoll, CallWait, CallWrite, CallMapAsync, CallUnmap,
                CallDestroy, CallDrop, Location, Submitting
  <2>2. Others(t) /\ pc'[t] = w
    BY <1>1, <2>1, GoAt
  <2>3. UNCHANGED <<valid, trackersL>>
    BY <1>3 DEF Call, CallSubmit, CallPoll, CallWait, CallWrite, CallMapAsync, CallUnmap,
                CallDestroy, CallDrop, device, locks
  <2>4. QED
    BY <2>1, <2>2, <2>3, ReleaseStays
<1>4. QED
  BY <1>2, <1>3

LEMMA SubmitReleases ==
  ASSUME TypeInv, ReleaseInv, NEW t \in Thread, SubmitStep(t) PROVE ReleaseInv'
<1>1. ThreadInv
  BY DEF TypeInv
<1>2. /\ trackersL' = trackersL /\ (valid' => valid)
      /\ pc[t] \in Submitting \/ SubmitFence(t)
  BY DEF SubmitStep, SubmitFence, SubmitPrepare, SubmitReject, SubmitHal, SubmitHalFails,
         SubmitTrack, Submitting, Lose, device, locks
<1>3. PICK w \in {"idle", "submitPrepare", "submitTrack", "maintain"} :
             (\E l : Go(t, w, l)) /\ (SubmitFence(t) => w = "idle" \/ valid)
  <2>1. CASE SubmitFence(t)
    <3>1. CASE valid
      BY <2>1, <3>1 DEF SubmitFence
    <3>2. CASE ~valid
      BY <2>1, <3>2 DEF SubmitFence
    <3>3. QED
      BY <3>1, <3>2
  <2>2. CASE ~SubmitFence(t)
    BY <2>2 DEF SubmitStep, SubmitPrepare, SubmitReject, SubmitHal, SubmitHalFails, SubmitTrack
  <2>3. QED
    BY <2>1, <2>2
<1>4. Others(t) /\ pc'[t] = w
  BY <1>1, <1>3, GoAt
<1>5. pc'[t] \in Submitting => pc[t] \in Submitting \/ valid
  <2>1. CASE pc[t] \in Submitting
    BY <2>1
  <2>2. CASE SubmitFence(t)
    BY <1>3, <1>4, <2>2 DEF Submitting
  <2>3. QED
    BY <1>2, <2>1, <2>2
<1>6. pc'[t] # "releaseLock"
  BY <1>3, <1>4
<1>7. QED
  BY <1>2, <1>4, <1>5, <1>6, ReleaseStays

LEMMA MaintainReleases ==
  ASSUME TypeInv, SubmissionInv, EndInv, ReleaseInv, NEW t \in Thread, MaintainStep(t)
  PROVE  ReleaseInv'
<1>1. ThreadInv
  BY DEF TypeInv
<1>2. CASE MaintainResult(t) /\ AssertionHolds(t) /\ ShouldRelease(t)
  <2>1. PICK l : Go(t, "releaseLock", l)
    BY <1>2 DEF MaintainResult
  <2>2. Others(t) /\ pc'[t] = "releaseLock"
    BY <1>1, <2>1, GoAt
  <2>3. ~valid' /\ \A u \in Thread : pc[u] \notin Submitting
    BY <1>2, NoneSubmits DEF MaintainResult, ShouldRelease, FenceReaders
  <2>4. QED
    BY <2>2, <2>3 DEF ReleaseInv, Others, Submitting
<1>3. CASE ReleaseLock(t)
  <2>1. PICK l : Go(t, "releaseNext", l)
    BY <1>3 DEF ReleaseLock
  <2>2. /\ Others(t) /\ pc'[t] = "releaseNext" /\ pc[t] = "releaseLock"
        /\ valid' = valid /\ trackersL' = t
    BY <1>1, <1>3, <2>1, GoAt DEF ReleaseLock, device
  <2>3. QED
    BY <2>2 DEF ReleaseInv, Others, Submitting
<1>4. CASE /\ ~(MaintainResult(t) /\ AssertionHolds(t) /\ ShouldRelease(t))
           /\ ~ReleaseLock(t)
  <2>1. PICK w \in Location \ (Submitting \cup {"releaseLock"}) : \E l : Go(t, w, l)
    <3>1. CASE MaintainResult(t)
      BY <1>4, <3>1 DEF MaintainResult, Location, Submitting
    <3>2. CASE MapReady(t)
      BY <3>2 DEF MapReady, Location, Submitting
    <3>3. CASE MaintainBegin(t)
      BY <3>3 DEF MaintainBegin, LeaveMaintain, Location, Submitting
    <3>4. CASE ~(MaintainResult(t) \/ MapReady(t) \/ MaintainBegin(t))
      BY <1>4, <3>4
      DEF MaintainStep, PollFence, LeaveMaintain, MaintainWait, MaintainFence,
          MaintainHalFails, MaintainLock, Triage, MapSet, MapHalFails, MapRestore,
          MaintainUnlock, ReleaseNext, ReleaseDone, Location, Submitting
    <3>5. QED
      BY <3>1, <3>2, <3>3, <3>4
  <2>2. trackersL' \in {trackersL, NoThread}
    <3>1. CASE MaintainBegin(t) \/ MapReady(t) \/ MaintainResult(t)
      BY <3>1 DEF MaintainBegin, LeaveMaintain, MapReady, MaintainResult, locks
    <3>2. CASE ~(MaintainBegin(t) \/ MapReady(t) \/ MaintainResult(t))
      BY <1>4, <3>2
      DEF MaintainStep, PollFence, LeaveMaintain, MaintainWait, MaintainFence,
          MaintainHalFails, MaintainLock, Triage, MapSet, MapHalFails, MapRestore,
          MaintainUnlock, ReleaseNext, ReleaseDone, locks
    <3>3. QED
      BY <3>1, <3>2
  <2>3. valid' => valid
    <3>1. CASE MaintainHalFails(t) \/ MapHalFails(t)
      BY <3>1 DEF MaintainHalFails, MapHalFails, Lose
    <3>2. CASE ~(MaintainHalFails(t) \/ MapHalFails(t))
      BY <1>4, <3>2
      DEF MaintainStep, PollFence, MaintainBegin, MaintainWait, MaintainFence,
          MaintainLock, Triage, MapReady, MapSet, MapRestore,
          MaintainUnlock, MaintainResult, ReleaseNext, ReleaseDone, device
    <3>3. QED
      BY <3>1, <3>2
  <2>4. Others(t) /\ pc'[t] = w
    BY <1>1, <2>1, GoAt
  <2>5. QED
    BY <2>1, <2>2, <2>3, <2>4, ReleaseStays
<1>5. QED
  BY <1>2, <1>3, <1>4

LEMMA BufferReleases ==
  ASSUME TypeInv, ReleaseInv, NEW t \in Thread, BufferStep(t) \/ FireStep(t)
  PROVE  ReleaseInv'
<1>1. ThreadInv
  BY DEF TypeInv
<1>2. PICK w \in Location \ (Submitting \cup {"releaseLock"}) : \E l : Go(t, w, l)
  BY DEF BufferStep, FireStep, FireMapping, FireWorkDone, FireLost, Fired, WritePending,
         LeaveWrite, WriteTrack, WriteCheck, MapAsyncState, MapAsyncLife, Unmap, UnmapInit,
         DestroySnatch, DestroyPending, DestroyLife, LeaveDestroy, Location, Submitting
<1>3. UNCHANGED <<trackersL, valid>>
  BY DEF BufferStep, FireStep, FireMapping, FireWorkDone, FireLost, Fired, WritePending,
         LeaveWrite, WriteTrack, WriteCheck, MapAsyncState, MapAsyncLife, Unmap, UnmapInit,
         DestroySnatch, DestroyPending, DestroyLife, device, locks
<1>4. Others(t) /\ pc'[t] = w
  BY <1>1, <1>2, GoAt
<1>5. QED
  BY <1>2, <1>3, <1>4, ReleaseStays

(***************************************************************************)
(* While a device's resources are released nobody submits, so the trackers *)
(* are taken by submit when nobody has them.                               *)
(***************************************************************************)
THEOREM Releases == Spec => []ReleaseInv
<1>1. Init => ReleaseInv
  BY ThreadAssumption DEF Init, ReleaseInv
<1>2. TypeInv /\ SubmissionInv /\ EndInv /\ ReleaseInv /\ [Next]_vars => ReleaseInv'
  <2>1. SUFFICES ASSUME TypeInv, SubmissionInv, EndInv, ReleaseInv, [Next]_vars
                 PROVE  ReleaseInv'
    OBVIOUS
  <2>2. CASE UNCHANGED vars \/ GpuComplete \/ LoseElsewhere
    <3>1. UNCHANGED <<trackersL, pc>> /\ (valid' => valid)
      BY <2>2 DEF vars, GpuComplete, LoseElsewhere, Lose, device, locks
    <3>2. QED
      BY <2>1, <3>1 DEF ReleaseInv
  <2>3. QED
    BY <2>1, <2>2, CallReleases, SubmitReleases, MaintainReleases, BufferReleases DEF Next, Step
<1>3. QED
  BY <1>1, <1>2, Types, Submissions, DeviceEnd, PTL DEF Spec


-----------------------------------------------------------------------------
(* A buffer in its mapping at creation, or being taken out of it.          *)
Staged(b) == mapState[b].st = "Init" \/ mapL[b] # NoThread

(* A map request for b was granted a place, and t works on it.             *)
AtRequest == {"mapAsyncLife", "mapSet", "mapRestore"}
AsksFor(t, b) == pc[t] \in AtRequest /\ loc[t].buf = b
Pending(t, b) == Queued(b) \/ AsksFor(t, b)

(* Nobody may ask to map such a buffer, so nobody who maps waits for one.  *)
StagedInv == \A b \in Buffer : Staged(b) => ~Queued(b) /\ \A t \in Thread : ~AsksFor(t, b)

LEMMA StagedStays ==
  ASSUME StagedInv, NEW t \in Thread, Others(t),
         \A b \in Buffer : Staged(b)' => Staged(b) /\ (Pending(t, b)' => Pending(t, b))
  PROVE  StagedInv'
<1>1. ASSUME NEW b \in Buffer, Staged(b)'
      PROVE  ~Queued(b)' /\ \A u \in Thread : ~AsksFor(u, b)'
  <2>1. /\ ~Queued(b) /\ \A u \in Thread : ~AsksFor(u, b)
        /\ Pending(t, b)' => Pending(t, b)
    BY <1>1 DEF StagedInv
  <2>2. ~Queued(b)' /\ ~AsksFor(t, b)'
    BY <2>1 DEF Pending
  <2>3. \A u \in Thread \ {t} : ~AsksFor(u, b)'
    BY <2>1 DEF AsksFor, Others
  <2>4. QED
    BY <2>2, <2>3
<1>2. QED
  BY <1>1 DEF StagedInv

LEMMA SameQueued ==
  ASSUME ready' = ready, SameQueues(active, active') PROVE \A b : Queued(b)' <=> Queued(b)
BY DEF Queued, Mapped, SameQueues, SameSubmissions

(* Nobody moves. *)
LEMMA StagedSame ==
  ASSUME StagedInv, UNCHANGED <<pc, loc, mapState, mapL, ready>>, SameQueues(active, active')
  PROVE  StagedInv'
BY SameQueued DEF StagedInv, Staged, AsksFor

(* A step away from the requests, which stages no buffer. *)
LEMMA StagedAway ==
  ASSUME ThreadInv, StagedInv, NEW t \in Thread, NEW w, NEW l, Go(t, w, l), w \notin AtRequest,
         mapState' = mapState, \A b \in Buffer : mapL'[b] \in {mapL[b], NoThread},
         ready' = ready, SameQueues(active, active')
  PROVE  StagedInv'
<1>1. Others(t) /\ pc'[t] = w
  BY GoAt
<1>2. \A b \in Buffer : Staged(b)' => Staged(b) /\ (Pending(t, b)' => Pending(t, b))
  BY <1>1, SameQueued DEF Staged, Pending, AsksFor
<1>3. QED
  BY <1>1, <1>2, StagedStays

LEMMA CallStages ==
  ASSUME TypeInv, StagedInv, NEW t \in Thread, Call(t) PROVE StagedInv'
<1>1. ThreadInv /\ active \in Seq(Entries(WorkDone))
  BY DEF TypeInv, LifeTypeOK, Submission
<1>2. CASE CallWorkDone(t)
  <2>1. UNCHANGED <<pc, loc, mapState, mapL, ready>>
    BY <1>2 DEF CallWorkDone, buffers, locks
  <2>2. SameQueues(active, active')
    BY <1>1, <1>2, AttachedQueues DEF CallWorkDone
  <2>3. QED
    BY <2>1, <2>2, StagedSame
<1>3. SameQueues(active, active)
  BY <1>1, AttachedQueues
<1>4. CASE CallDestroyDevice(t)
  <2>1. UNCHANGED <<pc, loc, mapState, mapL, ready, active>>
    BY <1>4 DEF CallDestroyDevice, life, buffers, locks
  <2>2. QED
    BY <1>3, <2>1, StagedSame
<1>5. CASE ~(CallWorkDone(t) \/ CallDestroyDevice(t))
  <2>1. PICK w \in Location \ AtRequest : \E l : Go(t, w, l)
    BY <1>5 DEF Call, CallSubmit, CallPoll, CallWait, CallWrite, CallMapAsync, CallUnmap,
                CallDestroy, CallDrop, Location, AtRequest
  <2>2. UNCHANGED <<mapState, mapL, ready, active>>
    BY <1>5 DEF Call, CallSubmit, CallPoll, CallWait, CallWrite, CallMapAsync, CallUnmap,
                CallDestroy, CallDrop, life, buffers, locks
  <2>3. QED
    BY <1>1, <1>3, <2>1, <2>2, StagedAway
<1>6. QED
  BY <1>2, <1>4, <1>5

LEMMA SubmitStages ==
  ASSUME TypeInv, StagedInv, NEW t \in Thread, SubmitStep(t) PROVE StagedInv'
<1>1. ThreadInv /\ active \in Seq(Entries(WorkDone))
  BY DEF TypeInv, LifeTypeOK, Submission
<1>2. PICK w \in Location \ AtRequest : \E l : Go(t, w, l)
  BY DEF SubmitStep, SubmitFence, SubmitPrepare, SubmitReject, SubmitHal, SubmitHalFails,
         SubmitTrack, Location, AtRequest
<1>3. CASE SubmitTrack(t)
  <2>. DEFINE new == Entry(loc[t].idx, loc[t].used, loc[t].tmp)
  <2>1. UNCHANGED <<mapState, mapL, ready>> /\ active' = Append(active, new)
    BY <1>3 DEF SubmitTrack, TrackSubmission, buffers
  <2>2. new.mapped = <<>>
    BY DEF Entry
  <2>. HIDE DEF new
  <2>3. PICK n : /\ DOMAIN active' = DOMAIN active \cup {n} /\ active'[n] = new
                 /\ \A i \in DOMAIN active : active'[i] = active[i]
    <3>1. /\ DOMAIN active' = DOMAIN active \cup {Len(active) + 1}
          /\ active'[Len(active) + 1] = new
          /\ \A i \in DOMAIN active : active'[i] = active[i]
      BY <1>1, <2>1
    <3>2. QED
      BY <3>1
  <2>4. \A b : ~Mapped(n, b)'
    BY <2>2, <2>3, EmptyList DEF Mapped
  <2>5. \A b : Queued(b)' => Queued(b)
    BY <2>1, <2>3, <2>4 DEF Queued, Mapped
  <2>6. Others(t) /\ pc'[t] \notin AtRequest
    BY <1>1, <1>2, GoAt
  <2>7. \A b \in Buffer : Staged(b)' => Staged(b) /\ (Pending(t, b)' => Pending(t, b))
    BY <2>1, <2>5, <2>6 DEF Staged, Pending, AsksFor
  <2>8. QED
    BY <2>6, <2>7, StagedStays
<1>4. CASE ~SubmitTrack(t)
  <2>1. UNCHANGED <<mapState, mapL, ready, active>>
    BY <1>4 DEF SubmitStep, SubmitFence, SubmitPrepare, SubmitReject, SubmitHal,
                SubmitHalFails, life, buffers, locks
  <2>2. SameQueues(active, active)
    BY <1>1, AttachedQueues
  <2>3. QED
    BY <1>1, <1>2, <2>1, <2>2, StagedAway
<1>5. QED
  BY <1>3, <1>4

LEMMA MaintainStages ==
  ASSUME TypeInv, StagedInv, NEW t \in Thread, MaintainStep(t) PROVE StagedInv'
<1>1. /\ ThreadInv /\ active \in Seq(Entries(WorkDone)) /\ ready \in Seq(Buffer)
      /\ mapState \in [Buffer -> [st : MapStatus, op : 0..MaxMap]]
  BY DEF TypeInv, LifeTypeOK, Submission, BufferInv, BufferTypeOK
<1>2. SameQueues(active, active)
  BY <1>1, AttachedQueues
<1>3. CASE Triage(t)
  <2>1. /\ UNCHANGED <<mapState, mapL>>
        /\ \E w \in {"triage", "mapReady"} : \E l : Go(t, w, l)
    BY <1>3 DEF Triage, buffers, locks
  <2>2. Others(t) /\ pc'[t] \notin AtRequest
    BY <1>1, <2>1, GoAt DEF AtRequest
  <2>3. \A b : Queued(b)' => Queued(b)
    <3>1. CASE ~HeadDone(active, loc[t].done)
      BY <1>3, <3>1 DEF Triage, Queued, Mapped
    <3>2. CASE HeadDone(active, loc[t].done)
      <4>1. active # <<>> /\ active' = Tail(active) /\ ready' = ready \o Head(active).mapped
        BY <1>3, <3>2 DEF Triage, HeadDone, ReadyAfterHead
      <4>2. active[1].mapped \in Seq(Buffer) /\ Head(active) = active[1] /\ 1 \in DOMAIN active
        <5>1. Head(active) = active[1] /\ active[1] \in Entries(WorkDone) /\ 1 \in DOMAIN active
          BY <1>1, <4>1
        <5>2. QED
          BY <5>1 DEF Entries
      <4>3. \A b : Within(ready', b) => Within(ready, b) \/ Mapped(1, b)
        BY <1>1, <4>1, <4>2, JoinList DEF Mapped
      <4>4. \A i \in DOMAIN active' : i + 1 \in DOMAIN active /\ active'[i] = active[i + 1]
        BY <1>1, <4>1
      <4>5. QED
        BY <4>2, <4>3, <4>4 DEF Queued, Mapped
    <3>3. QED
      BY <3>1, <3>2
  <2>4. \A b \in Buffer : Staged(b)' => Staged(b) /\ (Pending(t, b)' => Pending(t, b))
    BY <2>1, <2>2, <2>3 DEF Staged, Pending, AsksFor
  <2>5. QED
    BY <2>2, <2>4, StagedStays
<1>4. CASE MapReady(t)
  <2>1. PICK b \in Buffer : b = Head(ready)
    BY <1>1, <1>4 DEF MapReady
  <2>2. /\ ready # <<>> /\ ready' = Tail(ready) /\ UNCHANGED <<active, mapL>>
        /\ mapState' = [mapState EXCEPT ![b] = Idle]
    BY <1>4, <2>1 DEF MapReady, locks
  <2>3. \A x : /\ Queued(x)' => Queued(x)
               /\ x = b => Queued(x)
    BY <1>1, <2>1, <2>2, TailList DEF Queued, Mapped
  <2>4. \A x \in Buffer : Staged(x)' => Staged(x)
    BY <1>1, <2>2 DEF Staged, Idle
  <2>5. Others(t) /\ (pc'[t] \in AtRequest => loc'[t].buf = b)
    <3>. DEFINE l == [loc[t] EXCEPT !.buf = b, !.op = mapState[b].op]
    <3>1. /\ loc[t] \in Locals
          /\ \/ Go(t, "mapSet", l) \/ Go(t, "mapRestore", l)
             \/ \E w \in {"mapReady", "panicked"} : \E k : Go(t, w, k)
      BY <1>1, <1>4, <2>1, LocType DEF MapReady
    <3>2. l.buf = b
      BY <3>1 DEF Locals
    <3>. HIDE DEF l
    <3>3. CASE Go(t, "mapSet", l) \/ Go(t, "mapRestore", l)
      BY <1>1, <3>2, <3>3, GoAt
    <3>4. CASE \E w \in {"mapReady", "panicked"} : \E k : Go(t, w, k)
      BY <1>1, <3>4, GoAt DEF AtRequest
    <3>5. QED
      BY <3>1, <3>3, <3>4
  <2>6. \A x \in Buffer : Staged(x)' => Staged(x) /\ (Pending(t, x)' => Pending(t, x))
    BY <2>3, <2>4, <2>5 DEF Pending, AsksFor
  <2>7. QED
    BY <2>5, <2>6, StagedStays
<1>5. CASE MapSet(t) \/ MapRestore(t)
  <2>1. /\ \E l : Go(t, "mapReady", l) /\ UNCHANGED <<active, ready, mapL>>
        /\ mapState' = [mapState EXCEPT ![loc[t].buf] = [st |-> "Active", op |-> loc[t].op]]
    BY <1>5 DEF MapSet, MapRestore, life, locks
  <2>2. Others(t) /\ pc'[t] \notin AtRequest
    BY <1>1, <2>1, GoAt DEF AtRequest
  <2>3. \A x \in Buffer : Staged(x)' => Staged(x)
    BY <1>1, <2>1 DEF Staged
  <2>4. \A x \in Buffer : Staged(x)' => Staged(x) /\ (Pending(t, x)' => Pending(t, x))
    BY <1>2, <2>1, <2>2, <2>3, SameQueued DEF Pending, AsksFor
  <2>5. QED
    BY <2>2, <2>4, StagedStays
<1>6. CASE ~(Triage(t) \/ MapReady(t) \/ MapSet(t) \/ MapRestore(t))
  <2>1. PICK w \in Location \ AtRequest : \E l : Go(t, w, l)
    <3>1. CASE MaintainBegin(t) \/ MaintainResult(t)
      BY <3>1 DEF MaintainBegin, MaintainResult, LeaveMaintain, Location, AtRequest
    <3>2. CASE ~(MaintainBegin(t) \/ MaintainResult(t))
      BY <1>6, <3>2
      DEF MaintainStep, PollFence, LeaveMaintain, MaintainWait, MaintainFence,
          MaintainHalFails, MaintainLock, MapHalFails, MaintainUnlock, ReleaseLock,
          ReleaseNext, ReleaseDone, Location, AtRequest
    <3>3. QED
      BY <3>1, <3>2
  <2>2. UNCHANGED <<mapState, mapL, ready, active>>
    <3>1. CASE MaintainBegin(t) \/ MaintainResult(t)
      BY <3>1 DEF MaintainBegin, MaintainResult, LeaveMaintain, life, buffers, locks
    <3>2. CASE ~(MaintainBegin(t) \/ MaintainResult(t))
      BY <1>6, <3>2
      DEF MaintainStep, PollFence, LeaveMaintain, MaintainWait, MaintainFence,
          MaintainHalFails, MaintainLock, MapHalFails, MaintainUnlock, ReleaseLock,
          ReleaseNext, ReleaseDone, life, buffers, locks
    <3>3. QED
      BY <3>1, <3>2
  <2>3. QED
    BY <1>1, <1>2, <2>1, <2>2, StagedAway
<1>7. QED
  BY <1>3, <1>4, <1>5, <1>6


LEMMA BufferStages ==
  ASSUME TypeInv, StagedInv, NEW t \in Thread, BufferStep(t) \/ FireStep(t)
  PROVE  StagedInv'
<1>1. /\ ThreadInv /\ active \in Seq(Entries(WorkDone)) /\ ready \in Seq(Buffer)
      /\ mapState \in [Buffer -> [st : MapStatus, op : 0..MaxMap]]
      /\ mapL \in [Buffer -> Thread \cup {NoThread}]
      /\ pc[t] \in AtBuffer => loc[t].buf \in Buffer
  BY DEF TypeInv, LifeTypeOK, Submission, BufferInv, BufferTypeOK, LockTypeOK, ThreadInv, Operands
<1>2. SameQueues(active, active)
  BY <1>1, AttachedQueues
<1>3. CASE MapAsyncState(t)
  <2>1. PICK b \in Buffer : b = loc[t].buf
    BY <1>1, <1>3 DEF MapAsyncState, AtBuffer
  <2>2. UNCHANGED <<active, ready, mapL>> /\ mapL[b] = NoThread
    BY <1>3, <2>1 DEF MapAsyncState, life, locks
  <2>3. CASE mapState[b].st = "Idle"
    <3>1. /\ Go(t, "mapAsyncLife", loc[t])
          /\ mapState' = [mapState EXCEPT ![b] = [st |-> "Waiting", op |-> loc[t].op]]
      BY <1>3, <2>1, <2>3 DEF MapAsyncState
    <3>2. Others(t) /\ pc'[t] = "mapAsyncLife" /\ loc'[t].buf = b
      BY <1>1, <2>1, <3>1, GoAt
    <3>3. \A x \in Buffer : Staged(x)' => Staged(x) /\ x # b
      BY <1>1, <2>2, <3>1 DEF Staged
    <3>4. \A x \in Buffer : Staged(x)' => Staged(x) /\ (Pending(t, x)' => Pending(t, x))
      BY <1>2, <2>2, <3>2, <3>3, SameQueued DEF Pending, AsksFor
    <3>5. QED
      BY <3>2, <3>4, StagedStays
  <2>4. CASE mapState[b].st # "Idle"
    <3>1. mapState' = mapState /\ \E l : Go(t, "fire", l)
      BY <1>3, <2>1, <2>4 DEF MapAsyncState
    <3>2. QED
      BY <1>1, <1>2, <2>2, <3>1, StagedAway DEF AtRequest
  <2>5. QED
    BY <2>3, <2>4
<1>4. CASE MapAsyncLife(t)
  <2>1. PICK b \in Buffer : b = loc[t].buf
    BY <1>1, <1>4 DEF MapAsyncLife, AtBuffer
  <2>2. /\ UNCHANGED <<mapState, mapL>> /\ pc[t] = "mapAsyncLife" /\ Go(t, "idle", Nothing)
        /\ active' = MapWithSubmission(active, b) /\ ready' = MapAtOnce(active, ready, b)
    BY <1>4, <2>1 DEF MapAsyncLife, buffers, locks
  <2>3. \A x : Queued(x)' => Queued(x) \/ x = b
    <3>1. CASE Uses(active, b) = {}
      <4>1. active' = active /\ ready' = Append(ready, b)
        BY <2>2, <3>1 DEF MapWithSubmission, MapAtOnce
      <4>2. QED
        BY <1>1, <4>1, AppendList DEF Queued, Mapped
    <3>2. CASE Uses(active, b) # {}
      <4>1. PICK i : i = LatestUse(active, b)
        OBVIOUS
      <4>2. ready' = ready /\ active' = MapWithSubmission(active, b)
            /\ active \in Seq(Entries(WorkDone))
        BY <1>1, <2>2, <3>2 DEF MapAtOnce
      <4>3. /\ i \in DOMAIN active /\ DOMAIN active' = DOMAIN active
            /\ active[i].mapped \in Seq(Buffer)
            /\ active'[i].mapped = Append(active[i].mapped, b)
            /\ \A j \in DOMAIN active : j # i => active'[j] = active[j]
        BY <3>2, <4>1, <4>2, MapListed
      <4>4. \A x : Mapped(i, x)' => Mapped(i, x) \/ x = b
        BY <4>3, AppendList DEF Mapped
      <4>5. QED
        BY <4>2, <4>3, <4>4 DEF Queued, Mapped
    <3>3. QED
      BY <3>1, <3>2
  <2>4. Others(t) /\ pc'[t] = "idle"
    BY <1>1, <2>2, GoAt
  <2>5. \A x \in Buffer : Staged(x)' => Staged(x) /\ (Pending(t, x)' => Pending(t, x))
    BY <2>1, <2>2, <2>3, <2>4 DEF Staged, Pending, AsksFor, AtRequest
  <2>6. QED
    BY <2>4, <2>5, StagedStays
<1>5. CASE Unmap(t)
  <2>1. PICK b \in Buffer : b = loc[t].buf
    BY <1>1, <1>5 DEF Unmap, AtBuffer
  <2>2. /\ UNCHANGED <<active, ready>>
        /\ \E w \in {"unmapInit", "fire"} : \E l : Go(t, w, l)
    BY <1>5 DEF Unmap, life
  <2>3. Others(t) /\ pc'[t] \notin AtRequest
    BY <1>1, <2>2, GoAt DEF AtRequest
  <2>4. \A x \in Buffer : Staged(x)' => Staged(x)
    <3>1. \/ UNCHANGED <<mapState, mapL>>
          \/ mapState' = [mapState EXCEPT ![b] = Idle] /\ mapL' = mapL
          \/ /\ mapState' = [mapState EXCEPT ![b] = Idle] /\ mapL' = [mapL EXCEPT ![b] = t]
             /\ mapState[b].st = "Init"
      BY <1>5, <2>1 DEF Unmap
    <3>2. CASE UNCHANGED <<mapState, mapL>>
      BY <3>2 DEF Staged
    <3>3. CASE mapState' = [mapState EXCEPT ![b] = Idle] /\ mapL' = mapL
      BY <1>1, <3>3 DEF Staged, Idle
    <3>4. ASSUME mapState' = [mapState EXCEPT ![b] = Idle], mapL' = [mapL EXCEPT ![b] = t],
                 mapState[b].st = "Init"
          PROVE  \A x \in Buffer : Staged(x)' => Staged(x)
      <4>1. \A x \in Buffer : x # b => mapState'[x] = mapState[x] /\ mapL'[x] = mapL[x]
        BY <1>1, <3>4
      <4>2. QED
        BY <3>4, <4>1 DEF Staged
    <3>5. QED
      BY <3>1, <3>2, <3>3, <3>4
  <2>5. \A x \in Buffer : Staged(x)' => Staged(x) /\ (Pending(t, x)' => Pending(t, x))
    BY <1>2, <2>2, <2>3, <2>4, SameQueued DEF Pending, AsksFor
  <2>6. QED
    BY <2>3, <2>5, StagedStays
<1>6. CASE UnmapInit(t)
  <2>1. /\ UNCHANGED <<mapState, active, ready>> /\ Go(t, "fire", loc[t])
        /\ mapL' = [mapL EXCEPT ![loc[t].buf] = NoThread]
    BY <1>6 DEF UnmapInit, life, buffers
  <2>2. \A x \in Buffer : mapL'[x] \in {mapL[x], NoThread}
    BY <1>1, <2>1
  <2>3. QED
    BY <1>1, <1>2, <2>1, <2>2, StagedAway DEF AtRequest
<1>7. CASE /\ ~(MapAsyncState(t) \/ MapAsyncLife(t))
           /\ ~(Unmap(t) \/ UnmapInit(t))
  <2>1. PICK w \in Location \ AtRequest : \E l : Go(t, w, l)
    BY <1>7 DEF BufferStep, FireStep, FireMapping, FireWorkDone, FireLost, Fired, WritePending,
         LeaveWrite, WriteTrack, WriteCheck,
         DestroySnatch, DestroyPending, DestroyLife, LeaveDestroy, Location, AtRequest
  <2>2. UNCHANGED <<mapState, mapL, ready>>
    BY <1>7 DEF BufferStep, FireStep, FireMapping, FireWorkDone, FireLost, Fired, WritePending,
         LeaveWrite, WriteTrack, WriteCheck,
         DestroySnatch, DestroyPending, DestroyLife, life, buffers, locks
  <2>3. SameQueues(active, active')
    <3>1. CASE DestroyLife(t)
      BY <1>1, <3>1, AttachedQueues DEF DestroyLife
    <3>2. CASE ~DestroyLife(t)
      <4>1. active' = active
        BY <1>7, <3>2 DEF BufferStep, FireStep, FireMapping, FireWorkDone, FireLost, Fired,
             WritePending, WriteTrack, WriteCheck, DestroySnatch, DestroyPending, life
      <4>2. QED
        BY <1>2, <4>1
    <3>3. QED
      BY <3>1, <3>2
  <2>4. QED
    BY <1>1, <2>1, <2>2, <2>3, StagedAway
<1>8. QED
  BY <1>3, <1>4, <1>5, <1>6, <1>7

(***************************************************************************)
(* A buffer mapped at its creation waits for nobody to map it, and nobody  *)
(* maps it before it is unmapped, with its map_state locked throughout: so *)
(* maintain never finds that lock taken.                                   *)
(***************************************************************************)
THEOREM StagedApart == Spec => []StagedInv
<1>1. Init => StagedInv
  BY EmptyList DEF Init, StagedInv, Queued, AsksFor, AtRequest
<1>2. TypeInv /\ StagedInv /\ [Next]_vars => StagedInv'
  <2>1. SUFFICES ASSUME TypeInv, StagedInv, [Next]_vars PROVE StagedInv'
    OBVIOUS
  <2>2. CASE UNCHANGED vars \/ GpuComplete \/ LoseElsewhere
    <3>1. UNCHANGED <<pc, loc, mapState, mapL, ready, active>>
      BY <2>2 DEF vars, GpuComplete, LoseElsewhere, life, buffers, locks
    <3>2. SameQueues(active, active')
      BY <3>1 DEF SameQueues, SameSubmissions
    <3>3. QED
      BY <2>1, <3>1, <3>2, StagedSame
  <2>3. QED
    BY <2>1, <2>2, CallStages, SubmitStages, MaintainStages, BufferStages DEF Next, Step
<1>3. QED
  BY <1>1, <1>2, Types, PTL DEF Spec

-----------------------------------------------------------------------------
(* What clients that call no write, or lose no device, never see. *)
Writing == {"writePending", "writeTrack", "writeCheck"}
QuietInv == \A t \in Thread : pc[t] \notin Writing
IntactInv ==
    /\ valid /\ trackersL = NoThread
    /\ \A t \in Thread : pc[t] # "releaseLock"
    /\ \A b \in Buffer : mapState[b].st # "Init" /\ mapL[b] = NoThread

LEMMA QuietClients == ASSUME NoWrites PROVE Spec => []QuietInv
<1>1. Init => QuietInv
  BY DEF Init, QuietInv, Writing
<1>2. TypeInv /\ QuietInv /\ [Next]_vars => QuietInv'
  <2>1. SUFFICES ASSUME TypeInv, QuietInv, [Next]_vars PROVE QuietInv'
    OBVIOUS
  <2>2. ThreadInv
    BY <2>1 DEF TypeInv
  <2>3. CASE UNCHANGED vars \/ GpuComplete \/ LoseElsewhere
    BY <2>1, <2>3 DEF vars, GpuComplete, LoseElsewhere, QuietInv
  <2>4. ASSUME NEW t \in Thread, Call(t) \/ Step(t) PROVE QuietInv'
    <3>1. CASE CallWorkDone(t) \/ CallDestroyDevice(t)
      BY <2>1, <3>1 DEF CallWorkDone, CallDestroyDevice, QuietInv
    <3>2. ASSUME NEW w \in Location \ Writing, NEW l, Go(t, w, l) PROVE QuietInv'
      BY <2>1, <2>2, <3>2, GoAt DEF QuietInv, Others
    <3>3. CASE Call(t) /\ ~(CallWorkDone(t) \/ CallDestroyDevice(t))
      <4>1. \E w \in Location \ Writing : \E l : Go(t, w, l)
        BY <3>3 DEF NoWrites, Call, CallSubmit, CallPoll, CallWait, CallWrite, MayCall,
                    CallMapAsync, CallUnmap, CallDestroy, CallDrop, Location, Writing
      <4>2. QED
        BY <3>2, <4>1
    <3>4. CASE SubmitStep(t)
      <4>1. \E w \in Location \ Writing : \E l : Go(t, w, l)
        BY <3>4 DEF SubmitStep, SubmitFence, SubmitPrepare, SubmitReject, SubmitHal,
                    SubmitHalFails, SubmitTrack, Location, Writing
      <4>2. QED
        BY <3>2, <4>1
    <3>5. CASE MaintainStep(t)
      <4>1. CASE MaintainBegin(t) \/ MaintainResult(t) \/ MapReady(t)
        <5>1. \E w \in Location \ Writing : \E l : Go(t, w, l)
          <6>1. CASE MaintainBegin(t)
            BY <6>1 DEF MaintainBegin, LeaveMaintain, Location, Writing
          <6>2. CASE MaintainResult(t)
            BY <6>2 DEF MaintainResult, Location, Writing
          <6>3. CASE MapReady(t)
            BY <6>3 DEF MapReady, Location, Writing
          <6>4. QED
            BY <4>1, <6>1, <6>2, <6>3
        <5>2. QED
          BY <3>2, <5>1
      <4>2. CASE ~(MaintainBegin(t) \/ MaintainResult(t) \/ MapReady(t))
        <5>1. \E w \in Location \ Writing : \E l : Go(t, w, l)
          BY <3>5, <4>2
          DEF MaintainStep, PollFence, LeaveMaintain, MaintainWait, MaintainFence,
              MaintainHalFails, MaintainLock, Triage, MapSet, MapHalFails, MapRestore,
              MaintainUnlock, ReleaseLock, ReleaseNext, ReleaseDone, Location, Writing
        <5>2. QED
          BY <3>2, <5>1
      <4>3. QED
        BY <4>1, <4>2
    <3>6. CASE FireStep(t) \/ BufferStep(t)
      <4>1. pc[t] \notin Writing
        BY <2>1 DEF QuietInv
      <4>2. \E w \in Location \ Writing : \E l : Go(t, w, l)
        BY <3>6, <4>1
        DEF BufferStep, FireStep, FireMapping, FireWorkDone, FireLost, Fired, WritePending,
            WriteTrack, WriteCheck, MapAsyncState, MapAsyncLife, Unmap, UnmapInit,
            DestroySnatch, DestroyPending, DestroyLife, LeaveDestroy, Location, Writing
      <4>3. QED
        BY <3>2, <4>2
    <3>7. QED
      BY <2>4, <3>1, <3>3, <3>4, <3>5, <3>6 DEF Step
  <2>5. QED
    BY <2>1, <2>3, <2>4 DEF Next
<1>3. QED
  BY <1>1, <1>2, Types, PTL DEF Spec


LEMMA IntactClients == ASSUME NoLoss PROVE Spec => []IntactInv
<1>1. Init => IntactInv
  BY DEF Init, NoLoss, IntactInv, Idle
<1>2. TypeInv /\ IntactInv /\ [Next]_vars => IntactInv'
  <2>1. SUFFICES ASSUME TypeInv, IntactInv, [Next]_vars PROVE IntactInv'
    OBVIOUS
  <2>2. /\ ThreadInv /\ ~HalMayFail
        /\ mapState \in [Buffer -> [st : MapStatus, op : 0..MaxMap]]
        /\ mapL \in [Buffer -> Thread \cup {NoThread}]
        /\ \A t \in Thread : pc[t] \in AtBuffer => loc[t].buf \in Buffer
    BY <2>1 DEF NoLoss, TypeInv, BufferInv, BufferTypeOK, LockTypeOK, ThreadInv, Operands
  <2>3. CASE UNCHANGED vars \/ GpuComplete
    BY <2>1, <2>3 DEF vars, GpuComplete, device, buffers, locks, IntactInv
  <2>4. ~LoseElsewhere
    BY <2>2 DEF LoseElsewhere
  <2>5. ASSUME NEW t \in Thread, NEW w \in Location \ {"releaseLock"}, NEW l, Go(t, w, l),
               valid' = valid, trackersL' \in {trackersL, NoThread},
               \A b \in Buffer : /\ mapState'[b].st = "Init" => mapState[b].st = "Init"
                                 /\ mapL'[b] \in {mapL[b], NoThread}
        PROVE IntactInv'
    <3>1. Others(t) /\ pc'[t] = w
      BY <2>2, <2>5, GoAt
    <3>2. QED
      BY <2>1, <2>5, <3>1 DEF IntactInv, Others
  <2>6. ASSUME NEW t \in Thread, Call(t) PROVE IntactInv'
    <3>1. ~CallDestroyDevice(t)
      BY DEF NoLoss, CallDestroyDevice, MayCall
    <3>2. CASE CallWorkDone(t)
      BY <2>1, <3>2 DEF CallWorkDone, device, buffers, locks, IntactInv
    <3>3. CASE ~CallWorkDone(t)
      <4>1. PICK w \in Location \ {"releaseLock"} : \E l : Go(t, w, l)
        BY <2>6, <3>1, <3>3
        DEF Call, CallSubmit, CallPoll, CallWait, CallWrite, CallMapAsync, CallUnmap,
            CallDestroy, CallDrop, Location
      <4>2. UNCHANGED <<valid, trackersL, mapState, mapL>>
        BY <2>6, <3>1, <3>3
        DEF Call, CallSubmit, CallPoll, CallWait, CallWrite, CallMapAsync, CallUnmap,
            CallDestroy, CallDrop, device, buffers, locks
      <4>3. QED
        BY <2>5, <4>1, <4>2
    <3>4. QED
      BY <3>2, <3>3
  <2>7. ASSUME NEW t \in Thread, SubmitStep(t) PROVE IntactInv'
    <3>1. PICK w \in Location \ {"releaseLock"} : \E l : Go(t, w, l)
      BY <2>7 DEF SubmitStep, SubmitFence, SubmitPrepare, SubmitReject, SubmitHal,
                  SubmitHalFails, SubmitTrack, Location
    <3>2. UNCHANGED <<valid, trackersL, mapState, mapL>>
      BY <2>2, <2>7 DEF SubmitStep, SubmitFence, SubmitPrepare, SubmitReject, SubmitHal,
                        SubmitHalFails, SubmitTrack, device, buffers, locks
    <3>3. QED
      BY <2>5, <3>1, <3>2
  <2>8. ASSUME NEW t \in Thread, MaintainStep(t) PROVE IntactInv'
    <3>1. CASE MapReady(t)
      <4>1. \E w \in {"mapReady", "mapSet", "mapRestore", "panicked"} : \E l : Go(t, w, l)
        BY <3>1 DEF MapReady
      <4>2. PICK b : mapState' = [mapState EXCEPT ![b] = Idle]
        BY <3>1 DEF MapReady
      <4>3. UNCHANGED <<valid, trackersL, mapL>>
        BY <3>1 DEF MapReady, device, locks
      <4>4. QED
        BY <2>2, <2>5, <4>1, <4>2, <4>3 DEF Location, Idle
    <3>2. CASE MapSet(t) \/ MapRestore(t)
      <4>1. /\ \E l : Go(t, "mapReady", l)
            /\ mapState' = [mapState EXCEPT ![loc[t].buf] = [st |-> "Active", op |-> loc[t].op]]
            /\ UNCHANGED <<valid, trackersL, mapL>>
        BY <3>2 DEF MapSet, MapRestore, device, locks
      <4>2. QED
        BY <2>2, <2>5, <4>1 DEF Location
    <3>3. CASE MaintainBegin(t)
      <4>1. \E w \in {"idle", "maintainFence", "maintainWait"} : \E l : Go(t, w, l)
        BY <3>3 DEF MaintainBegin, LeaveMaintain
      <4>2. UNCHANGED <<valid, trackersL, mapState, mapL>>
        BY <3>3 DEF MaintainBegin, LeaveMaintain, device, buffers, locks
      <4>3. QED
        BY <2>5, <4>1, <4>2 DEF Location
    <3>4. CASE MaintainResult(t)
      <4>1. \E w \in {"panicked", "fire"} : \E l : Go(t, w, l)
        BY <2>1, <3>4 DEF MaintainResult, ShouldRelease, IntactInv
      <4>2. UNCHANGED <<valid, trackersL, mapState, mapL>>
        BY <3>4 DEF MaintainResult, buffers
      <4>3. QED
        BY <2>5, <4>1, <4>2 DEF Location
    <3>5. ~(MaintainHalFails(t) \/ MapHalFails(t) \/ ReleaseLock(t))
      BY <2>1, <2>2 DEF MaintainHalFails, MapHalFails, ReleaseLock, IntactInv
    <3>6. CASE ~(MapReady(t) \/ MapSet(t) \/ MapRestore(t) \/ MaintainBegin(t) \/ MaintainResult(t))
      <4>1. PICK w \in Location \ {"releaseLock"} : \E l : Go(t, w, l)
        BY <2>8, <3>5, <3>6
        DEF MaintainStep, PollFence, MaintainWait, MaintainFence, MaintainLock, Triage,
            MaintainUnlock, ReleaseNext, ReleaseDone, Location
      <4>2. UNCHANGED <<valid, mapState, mapL>> /\ trackersL' \in {trackersL, NoThread}
        BY <2>8, <3>5, <3>6
        DEF MaintainStep, PollFence, MaintainWait, MaintainFence, MaintainLock, Triage,
            MaintainUnlock, ReleaseNext, ReleaseDone, device, buffers, locks
      <4>3. QED
        BY <2>5, <4>1, <4>2
    <3>7. QED
      BY <3>1, <3>2, <3>3, <3>4, <3>6
  <2>9. ASSUME NEW t \in Thread, FireStep(t) \/ BufferStep(t) PROVE IntactInv'
    <3>1. PICK w \in Location \ {"releaseLock"} : \E l : Go(t, w, l)
      BY <2>9 DEF BufferStep, FireStep, FireMapping, FireWorkDone, FireLost, Fired, WritePending,
           LeaveWrite, WriteTrack, WriteCheck, MapAsyncState, MapAsyncLife, Unmap, UnmapInit,
           DestroySnatch, DestroyPending, DestroyLife, LeaveDestroy, Location
    <3>2. UNCHANGED <<valid, trackersL>>
      BY <2>9 DEF BufferStep, FireStep, FireMapping, FireWorkDone, FireLost, Fired, WritePending,
           LeaveWrite, WriteTrack, WriteCheck, MapAsyncState, MapAsyncLife, Unmap, UnmapInit,
           DestroySnatch, DestroyPending, DestroyLife, device, locks
    <3>3. \A b \in Buffer : /\ mapState'[b].st = "Init" => mapState[b].st = "Init"
                            /\ mapL'[b] \in {mapL[b], NoThread}
      <4>1. CASE MapAsyncState(t)
        BY <2>2, <4>1 DEF MapAsyncState, locks
      <4>2. CASE Unmap(t)
        <5>1. loc[t].buf \in Buffer
          BY <2>2, <4>2 DEF Unmap, AtBuffer
        <5>2. /\ mapL' = mapL
              /\ mapState' = mapState \/ mapState' = [mapState EXCEPT ![loc[t].buf] = Idle]
          BY <2>1, <4>2, <5>1 DEF Unmap, IntactInv
        <5>3. QED
          BY <2>2, <5>2 DEF Idle
      <4>3. CASE UnmapInit(t)
        BY <2>2, <4>3 DEF UnmapInit, buffers
      <4>4. CASE ~(MapAsyncState(t) \/ Unmap(t) \/ UnmapInit(t))
        BY <2>9, <4>4
        DEF BufferStep, FireStep, FireMapping, FireWorkDone, FireLost, Fired, WritePending,
            LeaveWrite, WriteTrack, WriteCheck, MapAsyncLife,
            DestroySnatch, DestroyPending, DestroyLife, buffers, locks
      <4>5. QED
        BY <4>1, <4>2, <4>3, <4>4
    <3>4. QED
      BY <2>5, <3>1, <3>2, <3>3
  <2>10. QED
    BY <2>1, <2>3, <2>4, <2>6, <2>7, <2>8, <2>9 DEF Next, Step
<1>3. QED
  BY <1>1, <1>2, Types, PTL DEF Spec

-----------------------------------------------------------------------------
(* A set of threads each of which waits for another is empty: a thread of  *)
(* it is at none of these places, each for the reason that those it would  *)
(* wait for are at places above.                                           *)
LEMMA Unblocked ==
  ASSUME TypeInv, HeldInv, ReleaseInv, StagedInv, QuietInv \/ IntactInv,
         NEW S \in SUBSET Thread, \A t \in S : BlockedBy(t) \cap S # {}
  PROVE  S = {}
<1>. USE DEF Holder
<1>1. /\ ThreadInv /\ ready \in Seq(Buffer)
      /\ \A t \in Thread : pc[t] \in AtBuffer => loc[t].buf \in Buffer
      /\ \A t \in Thread : Entitled(t)
      /\ NoThread \notin Thread
  BY ThreadAssumption DEF TypeInv, LifeTypeOK, ThreadInv, Operands, HeldInv
<1>2. ASSUME NEW t \in S PROVE pc[t] \notin {"mapReady", "mapSet", "mapRestore"}
  <2>1. CASE pc[t] = "mapReady"
    <3>1. /\ ready # <<>> /\ Holder(mapL[Head(ready)]) \cap S # {}
      BY <2>1 DEF BlockedBy
    <3>2. PICK b \in Buffer : b = Head(ready) /\ Within(ready, b)
      BY <1>1, <3>1, TailList
    <3>3. mapL[b] = NoThread
      BY <3>2 DEF StagedInv, Staged, Queued
    <3>4. QED
      BY <1>1, <3>1, <3>2, <3>3
  <2>2. CASE pc[t] \in {"mapSet", "mapRestore"}
    <3>1. Holder(mapL[loc[t].buf]) \cap S # {} /\ loc[t].buf \in Buffer
      BY <1>1, <2>2 DEF BlockedBy, AtBuffer
    <3>2. mapL[loc[t].buf] = NoThread
      BY <2>2, <3>1 DEF StagedInv, Staged, AsksFor, AtRequest
    <3>3. QED
      BY <3>1, <3>2
  <2>3. QED
    BY <2>1, <2>2
<1>3. ASSUME NEW t \in S PROVE pc[t] # "panicked"
  BY DEF BlockedBy
<1>4. ASSUME NEW t \in S PROVE lifeL # t
  BY <1>1, <1>2, <1>3 DEF Entitled, LifeHolders, BlockedBy
<1>5. ASSUME NEW t \in S PROVE pc[t] \notin {"submitTrack", "maintainLock", "destroyLife"}
  BY <1>4 DEF BlockedBy
<1>6. ASSUME NEW t \in S PROVE pc[t] \notin {"writeTrack", "writeCheck"}
  <2>1. CASE QuietInv
    BY <2>1 DEF QuietInv, Writing
  <2>2. CASE IntactInv
    <3>1. trackersL \notin S /\ \A b \in Buffer : mapL[b] \notin S
      BY <1>1, <2>2 DEF IntactInv
    <3>2. pc[t] = "writeTrack" => FALSE
      BY <3>1 DEF BlockedBy
    <3>3. pc[t] = "writeCheck" => FALSE
      BY <1>1, <3>1 DEF BlockedBy, AtBuffer
    <3>4. QED
      BY <3>2, <3>3
  <2>3. QED
    BY <2>1, <2>2
<1>7. ASSUME NEW t \in S PROVE pendingL # t
  BY <1>1, <1>5, <1>6 DEF Entitled, AtPending
<1>8. ASSUME NEW t \in S PROVE pc[t] \notin {"writePending", "unmapInit", "destroyPending"}
  BY <1>7 DEF BlockedBy
<1>9. ASSUME NEW t \in S, NEW b \in Buffer PROVE mapL[b] # t
  BY <1>1, <1>8 DEF Entitled
<1>10. ASSUME NEW t \in S PROVE pc[t] \notin {"mapAsyncState", "unmap"}
  BY <1>1, <1>9 DEF BlockedBy, AtBuffer
<1>11. ASSUME NEW t \in S PROVE pc[t] # "submitPrepare"
  <2>1. SUFFICES ASSUME pc[t] = "submitPrepare" PROVE FALSE
    OBVIOUS
  <2>2. trackersL \notin S
    BY <2>1 DEF ReleaseInv, Submitting
  <2>3. loc[t].cmds # <<>> => Head(loc[t].cmds) \subseteq Buffer
    <3>1. loc[t].cmds \in Seq(SUBSET Buffer)
      BY <1>1, LocType DEF Locals
    <3>2. QED
      BY <3>1
  <2>4. CASE loc[t].cmds = <<>>
    BY <1>7, <2>1, <2>4 DEF BlockedBy
  <2>5. CASE loc[t].cmds # <<>>
    <3>1. PICK u \in S : u \in BlockedBy(t)
      OBVIOUS
    <3>2. u \in Holder(trackersL) \cup UNION {Holder(mapL[b]) : b \in Head(loc[t].cmds)}
      BY <2>1, <2>5, <3>1 DEF BlockedBy
    <3>3. u = trackersL \/ \E b \in Buffer : u = mapL[b]
      BY <2>3, <2>5, <3>2
    <3>4. QED
      BY <1>9, <2>2, <3>3
  <2>6. QED
    BY <2>4, <2>5
<1>12. ASSUME NEW t \in S PROVE fenceW # t
  BY <1>1, <1>5, <1>11 DEF Entitled, Submitting
<1>13. ASSUME NEW t \in S PROVE pc[t] # "pollFence"
  BY <1>12 DEF BlockedBy
<1>14. ASSUME NEW t \in S PROVE pc[t] \notin {"maintain", "maintainWait", "maintainFence", "triage", "maintainResult", "releaseNext"}
  BY DEF BlockedBy
<1>15. ASSUME NEW t \in S PROVE t \notin fenceR
  BY <1>1, <1>2, <1>3, <1>5, <1>14 DEF Entitled, FenceHolders, FenceReaders
<1>16. ASSUME NEW t \in S PROVE pc[t] # "submitFence"
  BY <1>12, <1>15 DEF BlockedBy
<1>17. ASSUME NEW t \in S PROVE t \notin snatchR
  BY <1>1, <1>2, <1>3, <1>5, <1>6, <1>8, <1>11, <1>13, <1>14, <1>16 DEF Entitled, SnatchHolders
<1>18. ASSUME NEW t \in S PROVE pc[t] # "destroySnatch"
  BY <1>17 DEF BlockedBy
<1>19. ASSUME NEW t \in S PROVE trackersL # t
  BY <1>1, <1>5, <1>8, <1>14, <1>18 DEF Entitled, TrackersHolders
<1>20. ASSUME NEW t \in S PROVE pc[t] \notin {"releaseLock", "mapAsyncLife"}
  BY <1>4, <1>19 DEF BlockedBy
<1>21. ASSUME NEW t \in S PROVE FALSE
  <2>1. BlockedBy(t) = {}
    BY <1>2, <1>5, <1>6, <1>8, <1>10, <1>11, <1>13, <1>16, <1>18, <1>20 DEF BlockedBy
  <2>2. QED
    BY <2>1
<1>22. QED
  BY <1>21

(***************************************************************************)
(* "the system as a whole is always able to make progress: it is free of   *)
(* deadlocks" (lock/ranked.rs:47), for every number of threads: as long as *)
(* no thread calls Queue::write_buffer, whatever is mapped, destroyed,     *)
(* dropped or lost; or, with writes, as long as the device is never lost   *)
(* and no buffer is mapped at creation through a staging buffer.  The run  *)
(* release_deadlock shows what happens without.                            *)
(***************************************************************************)
THEOREM DeadlockFree == ASSUME NoWrites \/ NoLoss PROVE Spec => []NoDeadlock
<1>1. TypeInv /\ HeldInv /\ ReleaseInv /\ StagedInv /\ (QuietInv \/ IntactInv) => NoDeadlock
  BY Unblocked DEF NoDeadlock
<1>2. CASE NoWrites
  <2>1. Spec => []QuietInv
    BY <1>2, QuietClients
  <2>2. QED
    BY <1>1, <2>1, Types, Holders, Releases, StagedApart, PTL
<1>3. CASE NoLoss
  <2>1. Spec => []IntactInv
    BY <1>3, IntactClients
  <2>2. QED
    BY <1>1, <2>1, Types, Holders, Releases, StagedApart, PTL
<1>4. QED
  BY <1>2, <1>3

-----------------------------------------------------------------------------
(* Where a thread in maintain has its target, and where its fence value.   *)
Triaging == {"maintainLock", "triage", "mapReady", "mapSet", "mapRestore"}
Answered == Triaging \cup {"maintainResult"}
Awaiting == Answered \cup {"maintainWait", "maintainFence"}
Inside ==
    Awaiting \cup {"submitFence", "submitPrepare", "submitTrack", "pollFence", "maintain"}

(* Nobody waits with a timeout; or c alone submits, polls or waits.        *)
Timeouts(t) == "waitTimeout" \in Calls[t]
NoTimeouts == \A t \in Thread : ~Timeouts(t)
Maintains(t) == Calls[t] \cap {"submit", "poll", "wait", "waitTimeout"} # {}
SoleMaintainer(c) == c \in Thread /\ \A t \in Thread \ {c} : ~Maintains(t)

(* A thread waits for what was submitted, and but for a timeout until the  *)
(* fence is there.                                                         *)
WaitInv ==
    \A t \in Thread :
      /\ pc[t] \in Awaiting => loc[t].wait <= lastSuccessful
      /\ pc[t] = "maintainFence" => loc[t].timed \/ loc[t].wait <= gpuDone
      /\ pc[t] \in Answered => loc[t].timed \/ loc[t].wait <= loc[t].done

(* What was submitted last is tracked until the fence is there.            *)
LastTracked == \E i \in DOMAIN active : active[i].index = lastSuccessful
LastInv ==
    lastSuccessful <= gpuDone \/ LastTracked \/ \E t \in Thread : pc[t] = "submitTrack"

UntimedInv == \A t \in Thread : pc[t] \in Inside => ~loc[t].timed

(* A thread that maintains alone finds the tracker empty only when its own *)
(* fence value says so.                                                    *)
SoleInv(c) ==
    /\ \A t \in Thread \ {c} : pc[t] \notin Inside
    /\ pc[c] \in Triaging => lastSuccessful <= loc[c].done \/ LastTracked
    /\ (pc[c] = "maintainResult" /\ loc[c].empty) => lastSuccessful <= loc[c].done

(* How a thread comes to wait, and what it keeps while it does.            *)
KeepsWait(t) == loc'[t].wait = loc[t].wait /\ loc'[t].timed = loc[t].timed
AwaitStep(t) ==
    \/ /\ pc[t] = "maintain" /\ pc'[t] = "maintainWait"
       /\ loc'[t].wait <= lastSuccessful /\ loc'[t].timed = loc[t].timed
    \/ /\ pc[t] = "maintain" /\ pc'[t] = "maintainFence"
       /\ loc'[t].wait = Poll /\ loc'[t].timed = loc[t].timed
    \/ /\ pc[t] = "maintainWait" /\ pc'[t] = "maintainFence" /\ KeepsWait(t)
       /\ loc[t].wait <= gpuDone \/ loc[t].timed
    \/ /\ pc[t] = "maintainFence" /\ pc'[t] = "maintainLock" /\ KeepsWait(t)
       /\ loc'[t].done = gpuDone
    \/ /\ pc[t] \in Triaging /\ pc'[t] \in Answered /\ KeepsWait(t)
       /\ loc'[t].done = loc[t].done
       /\ pc'[t] = "maintainResult" => loc'[t].empty = (active = <<>>)

(* What a step of t does to it, as far as waiting goes. *)
Course(t) ==
    /\ Others(t)
    /\ pc'[t] \in Awaiting => AwaitStep(t)
    /\ pc'[t] \in Inside \ Awaiting =>
         \/ pc[t] \in Inside /\ (loc'[t].timed => loc[t].timed)
         \/ pc[t] = "idle" /\ Maintains(t) /\ (loc'[t].timed => Timeouts(t))

(* A step that leaves submit and maintain, or stays out of them. *)
LEMMA OutsideCourse ==
  ASSUME ThreadInv, NEW t \in Thread, NEW w, NEW l, Go(t, w, l), w \notin Inside
  PROVE  Course(t)
BY GoAt DEF Course, Inside, Awaiting

(* The calls: three begin inside. *)
LEMMA CallCourse ==
  ASSUME TypeInv, NEW t \in Thread, Call(t) PROVE Course(t)
<1>1. ThreadInv
  BY DEF TypeInv
<1>2. CASE CallWorkDone(t) \/ CallDestroyDevice(t)
  <2>1. pc' = pc /\ loc' = loc /\ pc[t] = "idle"
    BY <1>2 DEF CallWorkDone, CallDestroyDevice, MayCall
  <2>2. QED
    BY <2>1 DEF Course, Others, Inside, Awaiting, Answered, Triaging
<1>3. CASE CallSubmit(t)
  <2>1. PICK batch : Go(t, "submitFence", [Nothing EXCEPT !.cmds = batch])
    BY <1>3 DEF CallSubmit
  <2>. DEFINE l == [Nothing EXCEPT !.cmds = batch]
  <2>2. Go(t, "submitFence", l) /\ l.timed = FALSE
    BY <2>1 DEF Nothing
  <2>. HIDE DEF l
  <2>3. Others(t) /\ pc'[t] = "submitFence" /\ loc'[t].timed = FALSE
    BY <1>1, <2>2, GoAt
  <2>4. pc[t] = "idle" /\ Maintains(t)
    BY <1>3 DEF CallSubmit, MayCall, Maintains
  <2>5. QED
    BY <2>3, <2>4 DEF Course, Awaiting, Answered, Triaging
<1>4. CASE CallPoll(t)
  <2>1. Others(t) /\ pc'[t] = "pollFence" /\ loc'[t] = Nothing
    BY <1>1, <1>4, GoAt DEF CallPoll
  <2>2. pc[t] = "idle" /\ Maintains(t)
    BY <1>4 DEF CallPoll, MayCall, Maintains
  <2>3. QED
    BY <2>1, <2>2 DEF Course, Awaiting, Answered, Triaging, Nothing
<1>5. CASE CallWait(t)
  <2>1. PICK timed \in BOOLEAN :
          /\ MayCall(t, IF timed THEN "waitTimeout" ELSE "wait")
          /\ \/ \E i \in 1..MaxSubmit :
                  Go(t, "pollFence", [Nothing EXCEPT !.wait = i, !.timed = timed])
             \/ Go(t, "pollFence", [Nothing EXCEPT !.latest = TRUE, !.timed = timed])
    BY <1>5 DEF CallWait
  <2>2. \A x : /\ [Nothing EXCEPT !.wait = x, !.timed = timed].timed = timed
               /\ [Nothing EXCEPT !.latest = x, !.timed = timed].timed = timed
    BY DEF Nothing
  <2>3. \E l : l.timed = timed /\ Go(t, "pollFence", l)
    BY <2>1, <2>2
  <2>4. Others(t) /\ pc'[t] = "pollFence" /\ loc'[t].timed = timed
    BY <1>1, <2>3, GoAt
  <2>5. pc[t] = "idle" /\ Maintains(t) /\ (timed => Timeouts(t))
    BY <2>1 DEF MayCall, Maintains, Timeouts
  <2>6. QED
    BY <2>4, <2>5 DEF Course, Awaiting, Answered, Triaging
<1>6. CASE ~(CallWorkDone(t) \/ CallDestroyDevice(t) \/ CallSubmit(t) \/ CallPoll(t) \/ CallWait(t))
  <2>1. PICK w \in Location \ Inside : \E l : Go(t, w, l)
    BY <1>6 DEF Call, CallWrite, CallMapAsync, CallUnmap, CallDestroy, CallDrop, Location,
                Inside, Awaiting, Answered, Triaging
  <2>2. QED
    BY <1>1, <2>1, OutsideCourse
<1>7. QED
  BY <1>2, <1>3, <1>4, <1>5, <1>6

(* What an application does to buffers, and the closures it is told by. *)
LEMMA BufferCourse ==
  ASSUME TypeInv, NEW t \in Thread, BufferStep(t) \/ FireStep(t) PROVE Course(t)
<1>1. ThreadInv /\ loc[t] \in Locals
  BY LocType DEF TypeInv
<1>. DEFINE Away == Location \ Inside
<1>2. SUFFICES \E w \in Away : \E l : Go(t, w, l)
  BY <1>1, OutsideCourse
<1>. USE DEF Location, Inside, Awaiting, Answered, Triaging
<1>3. CASE FireStep(t)
  BY <1>1, <1>3 DEF FireStep, FireMapping, FireWorkDone, FireLost, Fired, Locals
<1>4. CASE DestroySnatch(t) \/ DestroyPending(t) \/ DestroyLife(t)
  BY <1>4 DEF DestroySnatch, DestroyPending, DestroyLife, LeaveDestroy
<1>5. CASE WritePending(t) \/ WriteTrack(t) \/ WriteCheck(t)
  BY <1>5 DEF WritePending, WriteTrack, WriteCheck, LeaveWrite
<1>6. CASE MapAsyncState(t) \/ MapAsyncLife(t) \/ Unmap(t) \/ UnmapInit(t)
  BY <1>6 DEF MapAsyncState, MapAsyncLife, Unmap, UnmapInit
<1>7. QED
  BY <1>3, <1>4, <1>5, <1>6 DEF BufferStep

(* Submit keeps clear of waiting: it hands its thread to maintain. *)
LEMMA SubmitCourse ==
  ASSUME TypeInv, NEW t \in Thread, SubmitStep(t) PROVE Course(t)
<1>1. ThreadInv /\ loc[t] \in Locals
  BY LocType DEF TypeInv
<1>2. pc[t] \in {"submitFence", "submitPrepare", "submitTrack"}
  BY DEF SubmitStep, SubmitFence, SubmitPrepare, SubmitReject, SubmitHal, SubmitHalFails, SubmitTrack
<1>3. ASSUME NEW w \in {"idle", "submitPrepare", "submitTrack", "maintain"}, NEW l, Go(t, w, l),
             l.timed \in {FALSE, loc[t].timed}
      PROVE Course(t)
  BY <1>1, <1>2, <1>3, GoAt DEF Course, Inside, Awaiting, Answered, Triaging
<1>4. Nothing.timed = FALSE
  BY DEF Nothing
<1>5. CASE SubmitFence(t)
  <2>. DEFINE l == [loc[t] EXCEPT !.idx = activeIndex + 1]
  <2>1. Go(t, "submitPrepare", l) \/ Go(t, "idle", Nothing)
    BY <1>5 DEF SubmitFence
  <2>2. l.timed = loc[t].timed
    BY <1>1 DEF Locals
  <2>. HIDE DEF l
  <2>3. QED
    BY <1>3, <1>4, <2>1, <2>2
<1>6. CASE SubmitPrepare(t)
  <2>. DEFINE l == [loc[t] EXCEPT !.cmds = Tail(@), !.used = @ \cup Head(loc[t].cmds)]
  <2>1. Go(t, "submitPrepare", l)
    BY <1>6 DEF SubmitPrepare
  <2>2. l.timed = loc[t].timed
    BY <1>1 DEF Locals
  <2>. HIDE DEF l
  <2>3. QED
    BY <1>3, <2>1, <2>2
<1>7. CASE SubmitHal(t)
  <2>. DEFINE all == loc[t].used \cup (IF recording THEN dst ELSE {})
              l == [loc[t] EXCEPT !.used = all, !.tmp = IF recording THEN temps ELSE {}]
  <2>1. Go(t, "submitTrack", l)
    BY <1>7 DEF SubmitHal
  <2>2. l.timed = loc[t].timed
    BY <1>1 DEF Locals
  <2>. HIDE DEF l
  <2>3. QED
    BY <1>3, <2>1, <2>2
<1>8. CASE SubmitReject(t) \/ SubmitHalFails(t)
  BY <1>3, <1>4, <1>8 DEF SubmitReject, SubmitHalFails
<1>9. CASE SubmitTrack(t)
  BY <1>3, <1>4, <1>9 DEF SubmitTrack
<1>10. QED
  BY <1>5, <1>6, <1>7, <1>8, <1>9 DEF SubmitStep

(* maintain, action by action. *)
LEMMA MaintainCourse ==
  ASSUME TypeInv, NEW t \in Thread, MaintainStep(t) PROVE Course(t)
<1>1. /\ ThreadInv /\ loc[t] \in Locals /\ gpuDone \in Nat /\ lastSuccessful \in Nat
  BY LocType DEF TypeInv, DeviceTypeOK
<1>2. ASSUME NEW w \in {"idle", "panicked", "releaseLock", "fire", "destroySnatch", "releaseNext"},
             NEW l, Go(t, w, l)
      PROVE Course(t)
  <2>1. w \notin Inside
    BY <1>2 DEF Inside, Awaiting, Answered, Triaging
  <2>2. QED
    BY <1>1, <1>2, <2>1, OutsideCourse
<1>3. ASSUME NEW x
      PROVE /\ [loc[t] EXCEPT !.wait = x].wait = x
            /\ [loc[t] EXCEPT !.wait = x].timed = loc[t].timed
            /\ [loc[t] EXCEPT !.done = x].done = x
            /\ [loc[t] EXCEPT !.empty = x].empty = x
  BY <1>1 DEF Locals
<1>4. ASSUME NEW l, NEW w \in Answered \ {"maintainResult"}, Go(t, w, l), pc[t] \in Triaging,
             l.wait = loc[t].wait, l.timed = loc[t].timed, l.done = loc[t].done
      PROVE Course(t)
  <2>1. Others(t) /\ pc'[t] = w /\ loc'[t] = l
    BY <1>1, <1>4, GoAt
  <2>2. AwaitStep(t)
    BY <1>4, <2>1 DEF AwaitStep, KeepsWait
  <2>3. QED
    BY <1>4, <2>1, <2>2 DEF Course, Awaiting
<1>5. ASSUME NEW x
      PROVE /\ LET l == [loc[t] EXCEPT !.works = x]
               IN l.wait = loc[t].wait /\ l.timed = loc[t].timed /\ l.done = loc[t].done
            /\ LET l == [loc[t] EXCEPT !.empty = x]
               IN l.wait = loc[t].wait /\ l.timed = loc[t].timed /\ l.done = loc[t].done
            /\ LET l == [loc[t] EXCEPT !.done = x]
               IN l.wait = loc[t].wait /\ l.timed = loc[t].timed
  BY <1>1 DEF Locals
<1>6. CASE PollFence(t)
  <2>1. Others(t) /\ pc'[t] = "maintain" /\ loc'[t] = loc[t] /\ pc[t] = "pollFence"
    BY <1>1, <1>6, GoAt DEF PollFence
  <2>2. QED
    BY <2>1 DEF Course, Inside, Awaiting, Answered, Triaging
<1>7. CASE MaintainBegin(t)
  <2>1. CASE ~loc[t].latest /\ loc[t].wait > lastSuccessful
    BY <1>2, <1>7, <2>1 DEF MaintainBegin, LeaveMaintain
  <2>2. CASE ~(~loc[t].latest /\ loc[t].wait > lastSuccessful)
    <3>. DEFINE l == [loc[t] EXCEPT !.wait = WaitTarget(t)]
    <3>1. /\ pc[t] = "maintain"
          /\ Go(t, IF WaitTarget(t) = Poll THEN "maintainFence" ELSE "maintainWait", l)
      BY <1>7, <2>2 DEF MaintainBegin
    <3>2. l.wait = WaitTarget(t) /\ l.timed = loc[t].timed
      BY <1>3
    <3>3. WaitTarget(t) <= lastSuccessful
      BY <1>1, <2>2 DEF WaitTarget, Locals, Poll
    <3>. HIDE DEF l
    <3>4. /\ Others(t) /\ loc'[t] = l
          /\ pc'[t] = IF WaitTarget(t) = Poll THEN "maintainFence" ELSE "maintainWait"
      BY <1>1, <3>1, GoAt
    <3>5. AwaitStep(t)
      BY <3>1, <3>2, <3>3, <3>4 DEF AwaitStep
    <3>6. QED
      BY <3>4, <3>5 DEF Course, Awaiting
  <2>3. QED
    BY <2>1, <2>2
<1>8. CASE MaintainWait(t)
  <2>1. /\ Others(t) /\ pc'[t] = "maintainFence" /\ loc'[t] = loc[t] /\ pc[t] = "maintainWait"
        /\ gpuDone >= loc[t].wait \/ loc[t].timed
    BY <1>1, <1>8, GoAt DEF MaintainWait
  <2>2. loc[t].wait <= gpuDone \/ loc[t].timed
    <3>1. loc[t].wait \in Int
      BY <1>1 DEF Locals, Poll
    <3>2. QED
      BY <1>1, <2>1, <3>1
  <2>3. QED
    BY <2>1, <2>2 DEF Course, Awaiting, AwaitStep, KeepsWait
<1>9. CASE MaintainFence(t)
  <2>. DEFINE l == [loc[t] EXCEPT !.done = gpuDone]
  <2>1. pc[t] = "maintainFence" /\ Go(t, "maintainLock", l)
    BY <1>9 DEF MaintainFence
  <2>2. l.done = gpuDone /\ l.wait = loc[t].wait /\ l.timed = loc[t].timed
    BY <1>3, <1>5
  <2>. HIDE DEF l
  <2>3. Others(t) /\ pc'[t] = "maintainLock" /\ loc'[t] = l
    BY <1>1, <2>1, GoAt
  <2>4. QED
    BY <2>1, <2>2, <2>3 DEF Course, Awaiting, AwaitStep, KeepsWait, Answered, Triaging
<1>10. CASE MaintainHalFails(t)
  BY <1>2, <1>10 DEF MaintainHalFails, LeaveMaintain
<1>11. CASE MaintainLock(t)
  <2>. DEFINE l == [loc[t] EXCEPT !.works = deferred]
  <2>1. pc[t] = "maintainLock" /\ Go(t, "triage", l)
    BY <1>11 DEF MaintainLock
  <2>2. l.wait = loc[t].wait /\ l.timed = loc[t].timed /\ l.done = loc[t].done
    BY <1>5
  <2>. HIDE DEF l
  <2>3. QED
    BY <1>4, <2>1, <2>2 DEF Answered, Triaging
<1>12. CASE Triage(t)
  <2>. DEFINE l == [loc[t] EXCEPT !.works = ClosuresAfterHead(active, @)]
  <2>1. pc[t] = "triage" /\ (Go(t, "triage", l) \/ Go(t, "mapReady", loc[t]))
    BY <1>12 DEF Triage
  <2>2. l.wait = loc[t].wait /\ l.timed = loc[t].timed /\ l.done = loc[t].done
    BY <1>1 DEF Locals
  <2>. HIDE DEF l
  <2>3. QED
    BY <1>4, <2>1, <2>2 DEF Answered, Triaging
<1>13. CASE MapReady(t)
  <2>. DEFINE b == Head(ready)
              l == [loc[t] EXCEPT !.buf = b, !.op = mapState[b].op]
              m == [loc[t] EXCEPT !.maps = Append(@, mapState[b].op)]
  <2>1. /\ l.wait = loc[t].wait /\ l.timed = loc[t].timed /\ l.done = loc[t].done
        /\ m.wait = loc[t].wait /\ m.timed = loc[t].timed /\ m.done = loc[t].done
    BY <1>1 DEF Locals
  <2>2. /\ pc[t] = "mapReady"
        /\ \/ Go(t, "mapSet", l) \/ Go(t, "mapRestore", l)
           \/ Go(t, "mapReady", m) \/ Go(t, "mapReady", loc[t]) \/ Go(t, "panicked", loc[t])
    BY <1>13 DEF MapReady
  <2>. HIDE DEF l, m
  <2>3. CASE Go(t, "panicked", loc[t])
    BY <1>2, <2>3
  <2>4. QED
    BY <1>4, <2>1, <2>2, <2>3 DEF Answered, Triaging
<1>14. CASE MapSet(t) \/ MapHalFails(t)
  <2>. DEFINE l == [loc[t] EXCEPT !.maps = Append(@, loc[t].op), !.buf = NoBuffer, !.op = 0]
  <2>1. pc[t] = "mapSet" /\ Go(t, "mapReady", l)
    BY <1>14 DEF MapSet, MapHalFails
  <2>2. l.wait = loc[t].wait /\ l.timed = loc[t].timed /\ l.done = loc[t].done
    BY <1>1 DEF Locals
  <2>. HIDE DEF l
  <2>3. QED
    BY <1>4, <2>1, <2>2 DEF Answered, Triaging
<1>15. CASE MapRestore(t)
  <2>. DEFINE l == [loc[t] EXCEPT !.buf = NoBuffer, !.op = 0]
  <2>1. pc[t] = "mapRestore" /\ Go(t, "mapReady", l)
    BY <1>15 DEF MapRestore
  <2>2. l.wait = loc[t].wait /\ l.timed = loc[t].timed /\ l.done = loc[t].done
    BY <1>1 DEF Locals
  <2>. HIDE DEF l
  <2>3. QED
    BY <1>4, <2>1, <2>2 DEF Answered, Triaging
<1>16. CASE MaintainUnlock(t)
  <2>. DEFINE l == [loc[t] EXCEPT !.empty = (active = <<>>)]
  <2>1. pc[t] = "mapReady" /\ Go(t, "maintainResult", l)
    BY <1>16 DEF MaintainUnlock
  <2>2. /\ l.wait = loc[t].wait /\ l.timed = loc[t].timed /\ l.done = loc[t].done
        /\ l.empty = (active = <<>>)
    BY <1>3, <1>5
  <2>. HIDE DEF l
  <2>3. Others(t) /\ pc'[t] = "maintainResult" /\ loc'[t] = l
    BY <1>1, <2>1, GoAt
  <2>4. AwaitStep(t)
    BY <2>1, <2>2, <2>3 DEF AwaitStep, KeepsWait, Answered, Triaging
  <2>5. QED
    BY <2>3, <2>4 DEF Course, Awaiting, Answered
<1>17. CASE MaintainResult(t)
  BY <1>2, <1>17 DEF MaintainResult
<1>18. CASE ReleaseLock(t) \/ ReleaseNext(t) \/ ReleaseDone(t)
  BY <1>2, <1>18 DEF ReleaseLock, ReleaseNext, ReleaseDone
<1>19. QED
  BY <1>6, <1>7, <1>8, <1>9, <1>10, <1>11, <1>12, <1>13, <1>14, <1>15, <1>16, <1>17, <1>18
  DEF MaintainStep

(* So every step keeps its course. *)
LEMMA Courses ==
  ASSUME TypeInv, NEW t \in Thread, Call(t) \/ Step(t) PROVE Course(t)
BY CallCourse, SubmitCourse, MaintainCourse, BufferCourse DEF Step

(* What a step of t does to the submissions. *)
Submissive(t) ==
    /\ gpuDone' = gpuDone
    /\ \/ /\ SameSubmissions(active, active') /\ lastSuccessful' = lastSuccessful
          /\ pc[t] # "submitTrack"
       \/ SubmitHal(t) \/ SubmitTrack(t)
       \/ Triage(t) /\ HeadDone(active, loc[t].done)

(* Only a submit and the triage of what is done change the list. *)
LEMMA Courtesy ==
  ASSUME TypeInv, NEW t \in Thread, Call(t) \/ Step(t) PROVE Submissive(t)
<1>1. active \in Seq(Entries(WorkDone))
  BY DEF TypeInv, LifeTypeOK, Submission
<1>2. CASE Call(t)
  <2>1. CASE CallWorkDone(t)
    BY <1>1, <2>1, Attached DEF CallWorkDone, Submissive, indices, driver, MayCall
  <2>2. CASE ~CallWorkDone(t)
    <3>1. active' = active /\ lastSuccessful' = lastSuccessful /\ gpuDone' = gpuDone
      BY <1>2, <2>2
      DEF Call, CallSubmit, CallPoll, CallWait, CallWrite, CallMapAsync, CallUnmap,
          CallDestroy, CallDrop, CallDestroyDevice, life, indices, driver
    <3>2. pc[t] = "idle"
      BY <1>2, <2>2
      DEF Call, CallSubmit, CallPoll, CallWait, CallWrite, CallMapAsync, CallUnmap,
          CallDestroy, CallDrop, CallDestroyDevice, MayCall
    <3>3. QED
      BY <3>1, <3>2, SameActive DEF Submissive
  <2>3. QED
    BY <2>1, <2>2
<1>3. CASE SubmitStep(t)
  <2>1. CASE SubmitHal(t) \/ SubmitTrack(t)
    BY <2>1 DEF Submissive, SubmitHal, SubmitTrack, driver
  <2>2. CASE ~(SubmitHal(t) \/ SubmitTrack(t))
    <3>1. /\ active' = active /\ lastSuccessful' = lastSuccessful /\ gpuDone' = gpuDone
          /\ pc[t] # "submitTrack"
      BY <1>3, <2>2
      DEF SubmitStep, SubmitFence, SubmitPrepare, SubmitReject, SubmitHalFails, life, indices, driver
    <3>2. QED
      BY <3>1, SameActive DEF Submissive
  <2>3. QED
    BY <2>1, <2>2
<1>4. CASE MaintainStep(t)
  <2>1. CASE Triage(t) /\ HeadDone(active, loc[t].done)
    BY <2>1 DEF Submissive, Triage, driver
  <2>2. CASE ~(Triage(t) /\ HeadDone(active, loc[t].done))
    <3>1. lastSuccessful' = lastSuccessful /\ gpuDone' = gpuDone
      BY <1>4
      DEF MaintainStep, PollFence, MaintainBegin, MaintainWait, MaintainFence, MaintainHalFails,
          MaintainLock, Triage, MapReady, MapSet, MapHalFails, MapRestore, MaintainUnlock,
          MaintainResult, ReleaseLock, ReleaseNext, ReleaseDone, indices, driver
    <3>2. active' = active
      BY <1>4, <2>2
      DEF MaintainStep, PollFence, MaintainBegin, MaintainWait, MaintainFence, MaintainHalFails,
          MaintainLock, Triage, MapReady, MapSet, MapHalFails, MapRestore, MaintainUnlock,
          MaintainResult, ReleaseLock, ReleaseNext, ReleaseDone, life
    <3>3. pc[t] # "submitTrack"
      BY <1>4
      DEF MaintainStep, PollFence, MaintainBegin, MaintainWait, MaintainFence, MaintainHalFails,
          MaintainLock, Triage, MapReady, MapSet, MapHalFails, MapRestore, MaintainUnlock,
          MaintainResult, ReleaseLock, ReleaseNext, ReleaseDone
    <3>4. QED
      BY <3>1, <3>2, <3>3, SameActive DEF Submissive
  <2>3. QED
    BY <2>1, <2>2
<1>5. CASE BufferStep(t) \/ FireStep(t)
  <2>1. lastSuccessful' = lastSuccessful /\ gpuDone' = gpuDone
    BY <1>5
    DEF BufferStep, FireStep, FireMapping, FireWorkDone, FireLost, Fired, WritePending, LeaveWrite,
        WriteTrack, WriteCheck, MapAsyncState, MapAsyncLife, Unmap, UnmapInit,
        DestroySnatch, DestroyPending, DestroyLife, indices, driver
  <2>2. pc[t] # "submitTrack"
    BY <1>5
    DEF BufferStep, FireStep, FireMapping, FireWorkDone, FireLost, Fired, WritePending,
        WriteTrack, WriteCheck, MapAsyncState, MapAsyncLife, Unmap, UnmapInit,
        DestroySnatch, DestroyPending, DestroyLife
  <2>3. SameSubmissions(active, active')
    <3>1. CASE MapAsyncLife(t)
      BY <1>1, <3>1, Attached DEF MapAsyncLife
    <3>2. CASE DestroyLife(t)
      BY <1>1, <3>2, Attached DEF DestroyLife
    <3>3. CASE ~(MapAsyncLife(t) \/ DestroyLife(t))
      <4>1. active' = active
        BY <1>5, <3>3
        DEF BufferStep, FireStep, FireMapping, FireWorkDone, FireLost, Fired, WritePending,
            LeaveWrite, WriteTrack, WriteCheck, MapAsyncState, Unmap, UnmapInit,
            DestroySnatch, DestroyPending, life
      <4>2. QED
        BY <4>1, SameActive
    <3>4. QED
      BY <3>1, <3>2, <3>3
  <2>4. QED
    BY <2>1, <2>2, <2>3 DEF Submissive
<1>6. QED
  BY <1>2, <1>3, <1>4, <1>5 DEF Step

(* Indices and the fence value only grow. *)
LEMMA Growing ==
  ASSUME TypeInv, TypeInv', SubmissionInv, SubmissionInv', [Next]_vars
  PROVE  /\ gpuDone \in Nat /\ gpuDone' \in Nat /\ gpuDone <= gpuDone'
         /\ lastSuccessful \in Nat /\ lastSuccessful' \in Nat
         /\ lastSuccessful <= lastSuccessful'
         /\ \A t \in Thread : /\ loc[t].wait \in Int /\ loc'[t].wait \in Int
                              /\ loc[t].done \in Nat /\ loc'[t].done \in Nat
                              /\ loc[t].done <= gpuDone
<1>1. /\ gpuDone \in Nat /\ gpuDone' \in Nat /\ lastSuccessful \in Nat /\ lastSuccessful' \in Nat
      /\ gpu \in Seq([index : Nat, bufs : SUBSET Buffer])
  BY DEF TypeInv, DeviceTypeOK
<1>2. \A t \in Thread : /\ loc[t].wait \in Int /\ loc'[t].wait \in Int
                        /\ loc[t].done \in Nat /\ loc'[t].done \in Nat
                        /\ loc[t].done <= gpuDone
  <2>1. ThreadTypeOK /\ ThreadTypeOK' /\ \A t \in Thread : loc[t].done <= gpuDone
    BY DEF TypeInv, ThreadInv, SubmissionInv, LocalInv
  <2>2. \A t \in Thread : loc[t] \in Locals /\ loc'[t] \in Locals
    BY <2>1 DEF ThreadTypeOK
  <2>3. \A l \in Locals : l.wait \in Int /\ l.done \in Nat
    BY DEF Locals, Poll
  <2>4. QED
    BY <2>1, <2>2, <2>3
<1>3. CASE GpuComplete
  <2>1. gpu # <<>> /\ gpuDone' = Head(gpu).index /\ lastSuccessful' = lastSuccessful
    BY <1>3 DEF GpuComplete, indices
  <2>2. gpuDone < gpu[1].index /\ Head(gpu) = gpu[1]
    BY <1>1, <2>1 DEF SubmissionInv, IndexInv
  <2>3. QED
    BY <1>1, <1>2, <2>1, <2>2
<1>4. CASE UNCHANGED vars \/ LoseElsewhere
  BY <1>1, <1>2, <1>4 DEF vars, indices, driver, LoseElsewhere
<1>5. ASSUME NEW t \in Thread, Call(t) \/ Step(t)
      PROVE  gpuDone <= gpuDone' /\ lastSuccessful <= lastSuccessful'
  <2>1. Submissive(t)
    BY <1>5, Courtesy
  <2>2. gpuDone' = gpuDone
    BY <2>1 DEF Submissive
  <2>3. CASE SubmitHal(t)
    BY <1>1, <2>3 DEF SubmitHal, SubmissionInv, LocalInv
  <2>4. CASE ~SubmitHal(t)
    BY <1>1, <2>1, <2>2, <2>4 DEF Submissive, SubmitTrack, Triage, indices
  <2>5. QED
    BY <1>1, <2>2, <2>3, <2>4
<1>6. QED
  BY <1>1, <1>2, <1>3, <1>4, <1>5 DEF Next

(* What a thread waits for stays submitted, and what it saw stays done. *)
LEMMA WaitKeeps ==
  ASSUME TypeInv, TypeInv', SubmissionInv, SubmissionInv', WaitInv, [Next]_vars
  PROVE  WaitInv'
<1>. DEFINE Sound(t) == /\ pc[t] \in Awaiting => loc[t].wait <= lastSuccessful
                        /\ pc[t] = "maintainFence" => loc[t].timed \/ loc[t].wait <= gpuDone
                        /\ pc[t] \in Answered => loc[t].timed \/ loc[t].wait <= loc[t].done
<1>1. ASSUME NEW t \in Thread, pc'[t] = pc[t], loc'[t] = loc[t] PROVE Sound(t)'
  BY <1>1, Growing DEF WaitInv
<1>2. ASSUME NEW t \in Thread, AwaitStep(t) PROVE Sound(t)'
  <2>1. CASE pc[t] = "maintain" /\ pc'[t] = "maintainWait"
    BY <1>2, <2>1, Growing DEF AwaitStep, Awaiting, Answered, Triaging
  <2>2. CASE pc[t] = "maintain" /\ pc'[t] = "maintainFence"
    BY <1>2, <2>2, Growing DEF AwaitStep, Answered, Triaging, Poll
  <2>3. CASE pc[t] = "maintainWait"
    BY <1>2, <2>3, Growing DEF AwaitStep, KeepsWait, WaitInv, Awaiting, Answered, Triaging
  <2>4. CASE pc[t] = "maintainFence"
    BY <1>2, <2>4, Growing DEF AwaitStep, KeepsWait, WaitInv, Awaiting, Answered, Triaging
  <2>5. CASE pc[t] \in Triaging
    BY <1>2, <2>5, Growing DEF AwaitStep, KeepsWait, WaitInv, Awaiting, Answered, Triaging
  <2>6. QED
    BY <1>2, <2>1, <2>2, <2>3, <2>4, <2>5 DEF AwaitStep
<1>3. ASSUME NEW t \in Thread, Call(t) \/ Step(t) PROVE WaitInv'
  <2>1. Course(t)
    BY <1>3, Courses
  <2>2. ASSUME NEW u \in Thread PROVE Sound(u)'
    <3>1. CASE u # t
      BY <1>1, <2>1, <3>1 DEF Course, Others
    <3>2. CASE u = t /\ pc'[t] \in Awaiting
      BY <1>2, <2>1, <3>2 DEF Course
    <3>3. CASE u = t /\ pc'[t] \notin Awaiting
      BY <3>3 DEF Awaiting
    <3>4. QED
      BY <3>1, <3>2, <3>3
  <2>3. QED
    BY <2>2 DEF WaitInv
<1>4. CASE UNCHANGED vars \/ GpuComplete \/ LoseElsewhere
  <2>1. pc' = pc /\ loc' = loc
    BY <1>4 DEF vars, GpuComplete, LoseElsewhere
  <2>2. QED
    BY <1>1, <2>1 DEF WaitInv
<1>5. QED
  BY <1>3, <1>4 DEF Next

(* A submission that leaves the tracker is done. *)
LEMMA DrainedLast ==
  ASSUME TypeInv, NEW d \in Nat, HeadDone(active, d), active' = Tail(active), LastTracked,
         lastSuccessful' = lastSuccessful
  PROVE  lastSuccessful <= d \/ LastTracked'
<1>1. active \in Seq(Entries(WorkDone)) /\ active # <<>>
  BY DEF TypeInv, LifeTypeOK, Submission, HeadDone
<1>2. PICK i \in DOMAIN active : active[i].index = lastSuccessful
  BY DEF LastTracked
<1>3. CASE i = 1
  BY <1>1, <1>2, <1>3 DEF HeadDone
<1>4. CASE i # 1
  <2>1. i - 1 \in DOMAIN active' /\ active'[i - 1] = active[i]
    BY <1>1, <1>2, <1>4
  <2>2. QED
    BY <1>2, <2>1 DEF LastTracked
<1>5. QED
  BY <1>3, <1>4

(* What is attached to entries leaves them in the list. *)
LEMMA SameLast ==
  ASSUME SameSubmissions(active, active'), lastSuccessful' = lastSuccessful, LastTracked
  PROVE  LastTracked'
BY DEF SameSubmissions, LastTracked

(* The youngest submission: handed over, tracked, done, drained. *)
LEMMA LastKeeps ==
  ASSUME TypeInv, TypeInv', SubmissionInv, SubmissionInv', LastInv, [Next]_vars
  PROVE  LastInv'
<1>1. CASE UNCHANGED vars \/ GpuComplete \/ LoseElsewhere
  <2>1. UNCHANGED <<pc, active, lastSuccessful>>
    BY <1>1 DEF vars, GpuComplete, LoseElsewhere, life, indices
  <2>2. QED
    BY <2>1, Growing DEF LastInv, LastTracked
<1>2. ASSUME NEW t \in Thread, Call(t) \/ Step(t) PROVE LastInv'
  <2>1. Submissive(t) /\ Others(t)
    BY <1>2, Courtesy, Courses DEF Course
  <2>2. ThreadInv /\ active \in Seq(Entries(WorkDone))
    BY DEF TypeInv, LifeTypeOK, Submission
  <2>3. CASE SubmitHal(t)
    <3>1. \E l : Go(t, "submitTrack", l)
      BY <2>3 DEF SubmitHal
    <3>2. QED
      BY <2>2, <3>1, GoAt DEF LastInv
  <2>4. CASE SubmitTrack(t)
    <3>. DEFINE new == Entry(loc[t].idx, loc[t].used, loc[t].tmp)
    <3>1. active' = Append(active, new) /\ new.index = loc[t].idx /\ lastSuccessful' = lastSuccessful
      BY <2>4 DEF SubmitTrack, TrackSubmission, Entry, indices
    <3>2. loc[t].idx = lastSuccessful
      BY <2>4 DEF SubmitTrack, SubmissionInv, LocalInv
    <3>. HIDE DEF new
    <3>3. Len(active) + 1 \in DOMAIN active' /\ active'[Len(active) + 1] = new
      BY <2>2, <3>1
    <3>4. QED
      BY <3>1, <3>2, <3>3 DEF LastInv, LastTracked
  <2>5. CASE Triage(t) /\ HeadDone(active, loc[t].done)
    <3>1. /\ active' = Tail(active) /\ lastSuccessful' = lastSuccessful /\ gpuDone' = gpuDone
          /\ pc[t] = "triage"
      BY <2>5 DEF Triage, indices, driver
    <3>2. \A u \in Thread : pc[u] = "submitTrack" => pc'[u] = "submitTrack"
      BY <2>1, <3>1 DEF Others
    <3>3. LastTracked => lastSuccessful <= loc[t].done \/ LastTracked'
      BY <2>5, <3>1, DrainedLast, Growing
    <3>4. QED
      BY <3>1, <3>2, <3>3, Growing DEF LastInv
  <2>6. CASE /\ SameSubmissions(active, active') /\ lastSuccessful' = lastSuccessful
             /\ pc[t] # "submitTrack" /\ gpuDone' = gpuDone
    <3>1. \A u \in Thread : pc[u] = "submitTrack" => pc'[u] = "submitTrack"
      BY <2>1, <2>6 DEF Others
    <3>2. QED
      BY <2>6, <3>1, SameLast DEF LastInv
  <2>7. QED
    BY <2>1, <2>3, <2>4, <2>5, <2>6 DEF Submissive
<1>3. QED
  BY <1>1, <1>2 DEF Next

(* A timeout comes from the call alone. *)
LEMMA UntimedKeeps ==
  ASSUME NoTimeouts, TypeInv, UntimedInv, [Next]_vars PROVE UntimedInv'
<1>1. CASE UNCHANGED vars \/ GpuComplete \/ LoseElsewhere
  BY <1>1 DEF vars, GpuComplete, LoseElsewhere, UntimedInv
<1>2. ASSUME NEW t \in Thread, Call(t) \/ Step(t) PROVE UntimedInv'
  <2>1. Course(t)
    BY <1>2, Courses
  <2>2. pc'[t] \in Inside => ~loc'[t].timed
    <3>1. CASE pc'[t] \in Awaiting
      <4>1. AwaitStep(t)
        BY <2>1, <3>1 DEF Course
      <4>2. pc[t] \in Inside /\ loc'[t].timed = loc[t].timed
        BY <4>1 DEF AwaitStep, KeepsWait, Inside, Awaiting, Answered, Triaging
      <4>3. QED
        BY <4>2 DEF UntimedInv
    <3>2. CASE pc'[t] \in Inside \ Awaiting
      BY <2>1, <3>2 DEF Course, UntimedInv, NoTimeouts
    <3>3. QED
      BY <3>1, <3>2
  <2>3. QED
    BY <2>1, <2>2 DEF Course, Others, UntimedInv
<1>3. QED
  BY <1>1, <1>2 DEF Next

(* Nobody else submits or drains between c's reading of the fence and     *)
(* its result.                                                             *)
LEMMA SoleKeeps ==
  ASSUME TypeInv, TypeInv', SubmissionInv, SubmissionInv', LastInv, LastInv',
         NEW c, SoleMaintainer(c), SoleInv(c), [Next]_vars
  PROVE  SoleInv(c)'
<1>1. c \in Thread
  BY DEF SoleMaintainer
<1>2. CASE UNCHANGED vars \/ GpuComplete \/ LoseElsewhere
  BY <1>2 DEF vars, GpuComplete, LoseElsewhere, life, indices, SoleInv, LastTracked
<1>3. ASSUME NEW t \in Thread, Call(t) \/ Step(t) PROVE SoleInv(c)'
  <2>1. Course(t) /\ Submissive(t)
    BY <1>3, Courses, Courtesy
  <2>2. pc'[t] \in Inside => pc[t] \in Inside \/ Maintains(t)
    BY <2>1 DEF Course, AwaitStep, Inside, Awaiting, Answered, Triaging
  <2>3. ASSUME NEW u \in Thread \ {c} PROVE pc'[u] \notin Inside
    BY <2>1, <2>2 DEF Course, Others, SoleInv, SoleMaintainer
  <2>4. CASE t # c
    <3>1. pc[t] \notin Inside /\ pc'[c] = pc[c] /\ loc'[c] = loc[c]
      BY <1>1, <2>1, <2>4 DEF Course, Others, SoleInv
    <3>2. ~(SubmitHal(t) \/ SubmitTrack(t) \/ Triage(t))
      BY <3>1 DEF SubmitHal, SubmitTrack, Triage, Inside, Awaiting, Answered, Triaging
    <3>3. SameSubmissions(active, active') /\ lastSuccessful' = lastSuccessful
      BY <2>1, <3>2 DEF Submissive
    <3>4. QED
      BY <2>3, <3>1, <3>3, SameLast DEF SoleInv
  <2>5. CASE t = c
    <3>1. ASSUME pc'[c] \in Triaging PROVE lastSuccessful' <= loc'[c].done \/ LastTracked'
      <4>1. AwaitStep(c)
        BY <2>1, <2>5, <3>1 DEF Course, Awaiting, Answered
      <4>2. CASE pc[c] = "maintainFence"
        <5>1. loc'[c].done = gpuDone /\ gpuDone' = gpuDone
          BY <2>1, <2>5, <4>1, <4>2 DEF AwaitStep, Triaging, Submissive
        <5>2. \A u \in Thread : pc'[u] # "submitTrack"
          BY <2>3, <3>1 DEF Inside, Triaging
        <5>3. QED
          BY <5>1, <5>2 DEF LastInv
      <4>3. CASE pc[c] \in Triaging
        <5>1. loc'[c].done = loc[c].done
          BY <4>1, <4>3 DEF AwaitStep, Triaging
        <5>2. lastSuccessful <= loc[c].done \/ LastTracked
          BY <4>3 DEF SoleInv
        <5>3. CASE Triage(c) /\ HeadDone(active, loc[c].done)
          <6>1. active' = Tail(active) /\ lastSuccessful' = lastSuccessful
            BY <5>3 DEF Triage, indices
          <6>2. loc[c].done \in Nat
            BY <1>1, Growing
          <6>3. QED
            BY <5>1, <5>2, <5>3, <6>1, <6>2, DrainedLast
        <5>4. CASE SameSubmissions(active, active') /\ lastSuccessful' = lastSuccessful
          BY <5>1, <5>2, <5>4, SameLast
        <5>5. QED
          BY <2>1, <2>5, <4>3, <5>3, <5>4 DEF Submissive, SubmitHal, SubmitTrack, Triaging
      <4>4. QED
        BY <3>1, <4>1, <4>2, <4>3 DEF AwaitStep, Triaging
    <3>2. ASSUME pc'[c] = "maintainResult", loc'[c].empty PROVE lastSuccessful' <= loc'[c].done
      <4>1. AwaitStep(c)
        BY <2>1, <2>5, <3>2 DEF Course, Awaiting, Answered
      <4>2. /\ pc[c] \in Triaging /\ loc'[c].done = loc[c].done
            /\ active = <<>>
        BY <3>2, <4>1 DEF AwaitStep
      <4>3. lastSuccessful <= loc[c].done
        BY <4>2 DEF SoleInv, LastTracked
      <4>4. lastSuccessful' = lastSuccessful
        BY <2>1, <2>5, <4>2 DEF Submissive, SubmitHal, SubmitTrack, Triage, Triaging, indices
      <4>5. QED
        BY <4>2, <4>3, <4>4
    <3>3. QED
      BY <2>3, <3>1, <3>2 DEF SoleInv
  <2>6. QED
    BY <2>4, <2>5
<1>4. QED
  BY <1>2, <1>3 DEF Next

(* Where a thread may panic. *)
LEMMA PanicsWhere ==
  ASSUME TypeInv, NEW t \in Thread, Call(t) \/ Step(t), pc'[t] = "panicked", pc[t] # "panicked"
  PROVE  \/ /\ pc[t] = "mapReady" /\ ready # <<>> /\ mapState[Head(ready)].st = "Init"
         \/ pc[t] = "maintainResult" /\ ~AssertionHolds(t)
<1>1. ThreadInv
  BY DEF TypeInv
<1>2. ASSUME NEW w, NEW l, Go(t, w, l) PROVE w = "panicked"
  BY <1>1, <1>2, GoAt
<1>3. CASE Call(t)
  BY <1>2, <1>3 DEF Call, CallSubmit, CallPoll, CallWait, CallWrite, CallMapAsync, CallUnmap,
    CallDestroy, CallDrop, CallWorkDone, CallDestroyDevice
<1>4. CASE SubmitStep(t)
  BY <1>2, <1>4 DEF SubmitStep, SubmitFence, SubmitPrepare, SubmitReject, SubmitHal,
    SubmitHalFails, SubmitTrack
<1>5. CASE MaintainStep(t) /\ ~MapReady(t) /\ ~MaintainResult(t)
  BY <1>2, <1>5 DEF MaintainStep, PollFence, MaintainBegin, MaintainWait, MaintainFence,
    MaintainHalFails, LeaveMaintain, MaintainLock, Triage, MapSet, MapHalFails, MapRestore,
    MaintainUnlock, ReleaseLock, ReleaseNext, ReleaseDone
<1>6. CASE MapReady(t)
  BY <1>2, <1>6 DEF MapReady
<1>7. CASE MaintainResult(t)
  BY <1>2, <1>7 DEF MaintainResult
<1>8. CASE BufferStep(t) \/ FireStep(t)
  BY <1>2, <1>8 DEF BufferStep, FireStep, FireMapping, FireWorkDone, FireLost, Fired,
    WritePending, LeaveWrite, WriteTrack, WriteCheck, MapAsyncState, MapAsyncLife, Unmap,
    UnmapInit, DestroySnatch, DestroyPending, DestroyLife, LeaveDestroy
<1>9. QED
  BY <1>3, <1>4, <1>5, <1>6, <1>7, <1>8 DEF Step

(* What a thread in maintain waits for was submitted, and but for a        *)
(* timeout is done by the time it reads its fence value                    *)
(* (device/resource.rs:880-894).                                           *)
THEOREM Waits == Spec => []WaitInv
<1>1. Init => WaitInv
  BY DEF Init, WaitInv, Awaiting, Answered, Triaging
<1>2. QED
  BY <1>1, WaitKeeps, Types, Submissions, PTL DEF Spec

(* The last submission is on its way to the tracker, in it, or done, so    *)
(* that an empty queue is one that has nothing left (device/life.rs).      *)
THEOREM LastInTracker == Spec => []LastInv
<1>1. Init => LastInv
  BY DEF Init, LastInv
<1>2. QED
  BY <1>1, LastKeeps, Types, Submissions, PTL DEF Spec

(* Where no call has a timeout. *)
LEMMA Untimed == ASSUME NoTimeouts PROVE Spec => []UntimedInv
<1>1. Init => UntimedInv
  BY DEF Init, UntimedInv, Inside, Awaiting, Answered, Triaging
<1>2. TypeInv /\ UntimedInv /\ [Next]_vars => UntimedInv'
  BY UntimedKeeps
<1>3. QED
  BY <1>1, <1>2, Types, PTL DEF Spec

(* Where one thread maintains. *)
LEMMA Sole == ASSUME NEW c, SoleMaintainer(c) PROVE Spec => []SoleInv(c)
<1>1. Init => SoleInv(c)
  BY DEF Init, SoleInv, SoleMaintainer, Inside, Awaiting, Answered, Triaging
<1>2. /\ TypeInv /\ TypeInv' /\ SubmissionInv /\ SubmissionInv' /\ LastInv /\ LastInv'
      /\ SoleInv(c) /\ [Next]_vars
      => SoleInv(c)'
  BY SoleKeeps
<1>3. QED
  BY <1>1, <1>2, Types, Submissions, LastInTracker, PTL DEF Spec

(* Then what maintain asserts holds. *)
LEMMA AssertionKept ==
  ASSUME TypeInv, TypeInv', SubmissionInv, SubmissionInv', [Next]_vars, WaitInv,
         UntimedInv \/ \E c \in Thread : SoleInv(c),
         NEW t \in Thread, pc[t] = "maintainResult"
  PROVE  AssertionHolds(t)
<1>1. CASE UntimedInv
  BY <1>1, Growing DEF WaitInv, UntimedInv, AssertionHolds, Inside, Awaiting, Answered
<1>2. CASE \E c \in Thread : SoleInv(c)
  <2>1. PICK c \in Thread : SoleInv(c)
    BY <1>2
  <2>2. t = c
    BY <2>1 DEF SoleInv, Inside, Awaiting, Answered
  <2>3. loc[t].wait <= lastSuccessful /\ (loc[t].empty => lastSuccessful <= loc[t].done)
    BY <2>1, <2>2 DEF WaitInv, SoleInv, Awaiting, Answered
  <2>4. QED
    BY <2>3, Growing DEF AssertionHolds
<1>3. QED
  BY <1>1, <1>2

(* Neither way into a panic is open. *)
LEMMA PanicKeeps ==
  ASSUME TypeInv, TypeInv', SubmissionInv, SubmissionInv', StagedInv, WaitInv,
         UntimedInv \/ \E c \in Thread : SoleInv(c), NeverPanics, [Next]_vars
  PROVE  NeverPanics'
<1>1. CASE UNCHANGED vars \/ GpuComplete \/ LoseElsewhere
  BY <1>1 DEF vars, GpuComplete, LoseElsewhere, NeverPanics
<1>2. ASSUME NEW t \in Thread, Call(t) \/ Step(t) PROVE NeverPanics'
  <2>1. \A u \in Thread \ {t} : pc'[u] = pc[u]
    BY <1>2, Courses DEF Course, Others
  <2>2. ASSUME pc'[t] = "panicked" PROVE FALSE
    <3>1. CASE pc[t] = "maintainResult" /\ ~AssertionHolds(t)
      BY <3>1, AssertionKept
    <3>2. CASE pc[t] = "mapReady" /\ ready # <<>> /\ mapState[Head(ready)].st = "Init"
      <4>1. ready \in Seq(Buffer)
        BY DEF TypeInv, LifeTypeOK
      <4>2. PICK b \in Buffer : b = Head(ready) /\ Within(ready, b)
        BY <3>2, <4>1, TailList
      <4>3. QED
        BY <3>2, <4>2 DEF StagedInv, Staged, Queued
    <3>3. QED
      BY <1>2, <2>2, <3>1, <3>2, PanicsWhere DEF NeverPanics
  <2>3. QED
    BY <2>1, <2>2 DEF NeverPanics
<1>3. QED
  BY <1>1, <1>2 DEF Next

(***************************************************************************)
(* maintain panics neither at its assertion that an empty queue's fence    *)
(* has passed what it waited for, which "should never be hit"              *)
(* (device/resource.rs:941), nor over a buffer in ready_to_map that has no *)
(* pending mapping (resource.rs:800): for any number of threads when none  *)
(* waits with a timeout, or when one alone submits, polls and waits.  The  *)
(* run wait_assertion shows the rest.                                      *)
(***************************************************************************)
THEOREM PanicFree ==
  ASSUME NoTimeouts \/ \E c \in Thread : SoleMaintainer(c) PROVE Spec => []NeverPanics
<1>1. Init => NeverPanics
  BY DEF Init, NeverPanics
<1>2. CASE NoTimeouts
  <2>1. /\ TypeInv /\ TypeInv' /\ SubmissionInv /\ SubmissionInv' /\ StagedInv /\ WaitInv
        /\ UntimedInv /\ NeverPanics /\ [Next]_vars
        => NeverPanics'
    BY PanicKeeps
  <2>2. Spec => []UntimedInv
    BY <1>2, Untimed
  <2>3. QED
    BY <1>1, <2>1, <2>2, Types, Submissions, StagedApart, Waits, PTL DEF Spec
<1>3. ASSUME NEW c \in Thread, SoleMaintainer(c) PROVE Spec => []NeverPanics
  <2>1. /\ TypeInv /\ TypeInv' /\ SubmissionInv /\ SubmissionInv' /\ StagedInv /\ WaitInv
        /\ SoleInv(c) /\ NeverPanics /\ [Next]_vars
        => NeverPanics'
    BY PanicKeeps
  <2>2. Spec => []SoleInv(c)
    BY <1>3, Sole
  <2>3. QED
    BY <1>1, <2>1, <2>2, Types, Submissions, StagedApart, Waits, PTL DEF Spec
<1>4. QED
  BY <1>2, <1>3
===============================================================================
