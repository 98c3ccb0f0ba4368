---------------------------- MODULE MappingProofs ----------------------------
(***************************************************************************)
(* MappedNotInFlight and MapCallbackKept hold of DeviceQueue for a client  *)
(* that works on the mappings of its buffers from one thread and is        *)
(* patient, whatever the others poll, wait for and write, and whatever the *)
(* driver does.  The violation runs show what happens without.             *)
(* WorkDoneAfterMaps holds for one that polls from that thread too,        *)
(* patient or not.                                                         *)
(***************************************************************************)
EXTENDS CompletionProofs

(* The calls on a buffer's mapping, and what may not overlap with them.    *)
Touching == {"submit", "map", "unmap", "destroy", "drop"}

(* Only c makes such calls, and leaves a buffer's mapping alone while a    *)
(* request is unanswered; and what can be mapped is not written by the     *)
(* queue: a copy that was recorded and not submitted is no submission that *)
(* a mapping would wait for.                                               *)
SoleClient(c) ==
    /\ Patient
    /\ \A t \in Thread \ {c} : Calls[t] \cap Touching = {}
    /\ Mappable \cap (CopyDst \cup MappedAtCreation) = {}

-----------------------------------------------------------------------------
(* Where only c can be, and where a thread has a buffer it maps.           *)
ClientOnly ==
    {"submitFence", "submitPrepare", "submitTrack",
     "mapAsyncState", "mapAsyncLife", "unmap", "unmapInit"}
AtMapping == {"mapAsyncState", "mapAsyncLife", "mapSet", "mapRestore"}

(* What can be mapped is in no copy that is recorded, and the rest is not  *)
(* mapped but at its creation.                                             *)
ClientInv(c) ==
    /\ \A t \in Thread : pc[t] \in ClientOnly => t = c
    /\ dst \cap Mappable = {}
    /\ \A b \in Buffer : IF b \in Mappable THEN mapState[b].st # "Init"
                         ELSE mapState[b].st \in {"Init", "Idle"}
    /\ \A t \in Thread : /\ pc[t] = "unmapInit" => loc[t].buf \notin Mappable
                         /\ pc[t] \in AtMapping => loc[t].buf \in Mappable

(* A step that begins none of this. *)
LEMMA ElsewhereKeeps ==
  ASSUME NEW c, ClientInv(c), NEW t \in Thread, Others(t),
         pc'[t] \notin ClientOnly \cup AtMapping, UNCHANGED <<dst, mapState>>
  PROVE  ClientInv(c)'
BY DEF ClientInv, Others, ClientOnly

(* The calls of other threads begin nothing of it. *)
LEMMA CallSole ==
  ASSUME TypeInv, NEW c \in Thread, SoleClient(c), ClientInv(c), NEW t \in Thread, Call(t)
  PROVE  ClientInv(c)'
<1>1. ThreadInv
  BY DEF TypeInv
<1>2. MayCall(t, "submit") \/ MayCall(t, "map") \/ MayCall(t, "unmap")
        \/ MayCall(t, "destroy") \/ MayCall(t, "drop") => t = c
  BY DEF SoleClient, MayCall, Touching
<1>3. ASSUME UNCHANGED <<dst, mapState>>, NEW w, NEW l, Go(t, w, l),
             w \in ClientOnly => t = c,
             w # "unmapInit", w \in AtMapping => l.buf \in Mappable
      PROVE ClientInv(c)'
  BY <1>1, <1>3, GoAt DEF ClientInv, Others
<1>4. CASE UNCHANGED <<dst, mapState, pc, loc>>
  BY <1>4 DEF ClientInv
<1> USE DEF ClientOnly, AtMapping, pending, buffers
<1>5. CASE CallSubmit(t)
  BY <1>2, <1>3, <1>5 DEF CallSubmit
<1>6. CASE CallPoll(t) \/ CallWait(t) \/ CallWrite(t)
  BY <1>3, <1>6 DEF CallPoll, CallWait, CallWrite
<1>7. CASE CallMapAsync(t)
  <2>1. PICK b \in Buffer :
          IF b \in Mappable /\ valid /\ b \notin snatched
          THEN Go(t, "mapAsyncState", [Nothing EXCEPT !.buf = b, !.op = hist.maps + 1])
          ELSE Go(t, "fire", [Nothing EXCEPT !.maps = <<hist.maps + 1>>])
    BY <1>7 DEF CallMapAsync
  <2>2. [Nothing EXCEPT !.buf = b, !.op = hist.maps + 1].buf = b
    BY DEF Nothing
  <2>3. UNCHANGED <<dst, mapState>> /\ t = c
    BY <1>2, <1>7 DEF CallMapAsync
  <2>4. CASE b \in Mappable /\ valid /\ b \notin snatched
    BY <1>3, <2>1, <2>2, <2>3, <2>4
  <2>5. CASE ~(b \in Mappable /\ valid /\ b \notin snatched)
    BY <1>3, <2>1, <2>3, <2>5
  <2>6. QED
    BY <2>4, <2>5
<1>8. CASE CallUnmap(t) \/ CallDestroy(t) \/ CallDrop(t)
  BY <1>2, <1>3, <1>8 DEF CallUnmap, CallDestroy, CallDrop
<1>9. CASE CallWorkDone(t) \/ CallDestroyDevice(t)
  BY <1>4, <1>9 DEF CallWorkDone, CallDestroyDevice
<1>10. QED
  BY <1>5, <1>6, <1>7, <1>8, <1>9 DEF Call

(* Nor do the steps of a call, but those of the client's own calls.        *)
LEMMA SubmitSole ==
  ASSUME TypeInv, NEW c \in Thread, ClientInv(c), NEW t \in Thread, SubmitStep(t)
  PROVE  ClientInv(c)'
<1>1. ThreadInv
  BY DEF TypeInv
<1>2. ASSUME NEW w, NEW l, Go(t, w, l), w \notin AtMapping \cup {"unmapInit"},
             w \in ClientOnly => pc[t] \in ClientOnly,
             dst' \in {dst, {}}, UNCHANGED mapState
      PROVE ClientInv(c)'
  BY <1>1, <1>2, GoAt DEF ClientInv, Others
<1> USE DEF ClientOnly, AtMapping, pending, buffers
<1>3. CASE SubmitFence(t)
  BY <1>2, <1>3 DEF SubmitFence
<1>4. CASE SubmitPrepare(t)
  BY <1>2, <1>4 DEF SubmitPrepare
<1>5. CASE SubmitReject(t)
  BY <1>2, <1>5 DEF SubmitReject
<1>6. CASE SubmitHal(t)
  BY <1>2, <1>6 DEF SubmitHal, PreSubmit
<1>7. CASE SubmitHalFails(t)
  BY <1>2, <1>7 DEF SubmitHalFails, PreSubmit
<1>8. CASE SubmitTrack(t)
  BY <1>2, <1>8 DEF SubmitTrack
<1>9. QED
  BY <1>3, <1>4, <1>5, <1>6, <1>7, <1>8 DEF SubmitStep

LEMMA MaintainSole ==
  ASSUME TypeInv, NEW c \in Thread, ClientInv(c), NEW t \in Thread, MaintainStep(t)
  PROVE  ClientInv(c)'
<1>1. ThreadInv /\ loc[t] \in Locals /\ ready \in Seq(Buffer)
      /\ mapState \in [Buffer -> [st : MapStatus, op : 0..MaxMap]]
  BY LocType DEF TypeInv, LifeTypeOK, BufferInv, BufferTypeOK
<1>2. ASSUME NEW w, NEW l, Go(t, w, l), w \notin AtMapping \cup ClientOnly,
             UNCHANGED <<dst, mapState>>
      PROVE ClientInv(c)'
  BY <1>1, <1>2, GoAt, ElsewhereKeeps
<1>3. ASSUME NEW w, NEW l, Go(t, w, l), w \notin ClientOnly, NEW b \in Buffer, NEW s,
             mapState' = [mapState EXCEPT ![b] = s],
             s.st = "Idle" \/ (s.st = "Active" /\ b \in Mappable),
             w \in AtMapping => l.buf \in Mappable, UNCHANGED dst
      PROVE ClientInv(c)'
  <2>1. Others(t) /\ pc'[t] = w /\ loc'[t] = l
    BY <1>1, <1>3, GoAt
  <2>2. \A x \in Buffer : mapState'[x] = IF x = b THEN s ELSE mapState[x]
    BY <1>1, <1>3
  <2>3. QED
    BY <1>3, <2>1, <2>2 DEF ClientInv, Others, ClientOnly
<1> USE DEF pending, buffers
<1>4. CASE PollFence(t) \/ MaintainWait(t) \/ MaintainFence(t) \/ MaintainLock(t) \/ Triage(t)
  BY <1>2, <1>4 DEF PollFence, MaintainWait, MaintainFence, MaintainLock, Triage,
                    AtMapping, ClientOnly
<1>5. CASE MaintainBegin(t) \/ MaintainHalFails(t)
  BY <1>2, <1>5 DEF MaintainBegin, MaintainHalFails, LeaveMaintain, AtMapping, ClientOnly
<1>6. CASE MapReady(t)
  <2>. DEFINE b == Head(ready)
              l == [loc[t] EXCEPT !.buf = b, !.op = mapState[b].op]
  <2>1. b \in Buffer /\ l.buf = b
    BY <1>1, <1>6 DEF MapReady, Locals
  <2>2. \/ mapState[b].st \in {"Waiting", "Active"}
           /\ \E w \in {"mapSet", "mapRestore"} : Go(t, w, l)
        \/ \E w \in {"mapReady", "panicked"} : \E m : Go(t, w, m)
    BY <1>6 DEF MapReady
  <2>3. mapState[b].st \in {"Waiting", "Active"} => b \in Mappable
    BY <2>1 DEF ClientInv
  <2>4. mapState' = [mapState EXCEPT ![b] = Idle] /\ dst' = dst /\ Idle.st = "Idle"
    BY <1>6 DEF MapReady, Idle
  <2>. HIDE DEF b, l
  <2>5. QED
    BY <1>3, <2>1, <2>2, <2>3, <2>4 DEF AtMapping, ClientOnly
<1>7. CASE MapSet(t) \/ MapRestore(t)
  <2>. DEFINE s == [st |-> "Active", op |-> loc[t].op]
  <2>1. /\ mapState' = [mapState EXCEPT ![loc[t].buf] = s] /\ dst' = dst
        /\ \E l : Go(t, "mapReady", l)
    BY <1>7 DEF MapSet, MapRestore
  <2>2. loc[t].buf \in Buffer /\ loc[t].buf \in Mappable
    BY <1>1, <1>7, LocType DEF MapSet, MapRestore, Operands, AtBuffer, ClientInv, AtMapping
  <2>3. s.st = "Active"
    OBVIOUS
  <2>. HIDE DEF s
  <2>4. PICK l : Go(t, "mapReady", l)
    BY <2>1
  <2>5. "mapReady" \notin AtMapping \cup ClientOnly
    BY DEF AtMapping, ClientOnly
  <2>6. QED
    BY <1>3, <2>1, <2>2, <2>3, <2>4, <2>5
<1>8. CASE MapHalFails(t)
  BY <1>2, <1>8 DEF MapHalFails, AtMapping, ClientOnly
<1>9. CASE MaintainUnlock(t) \/ MaintainResult(t)
  BY <1>2, <1>9 DEF MaintainUnlock, MaintainResult, AtMapping, ClientOnly
<1>10. CASE ReleaseLock(t) \/ ReleaseNext(t) \/ ReleaseDone(t)
  BY <1>2, <1>10 DEF ReleaseLock, ReleaseNext, ReleaseDone, AtMapping, ClientOnly
<1>11. QED
  BY <1>4, <1>5, <1>6, <1>7, <1>8, <1>9, <1>10 DEF MaintainStep

LEMMA BufferSole ==
  ASSUME TypeInv, NEW c \in Thread, SoleClient(c), ClientInv(c), NEW t \in Thread,
         BufferStep(t) \/ FireStep(t)
  PROVE  ClientInv(c)'
<1>1. ThreadInv /\ loc[t] \in Locals /\ Operands(pc[t], loc[t])
      /\ mapState \in [Buffer -> [st : MapStatus, op : 0..MaxMap]]
  BY LocType DEF TypeInv, BufferInv, BufferTypeOK
<1>2. ASSUME NEW w, NEW l, Go(t, w, l), w \notin AtMapping \cup ClientOnly,
             dst' = dst \/ \E b : dst' = dst \cup {b} /\ b \notin Mappable, UNCHANGED mapState
      PROVE ClientInv(c)'
  <2>1. Others(t) /\ pc'[t] = w
    BY <1>1, <1>2, GoAt
  <2>2. dst' \cap Mappable = {}
    BY <1>2 DEF ClientInv
  <2>3. QED
    BY <1>2, <2>1, <2>2 DEF ClientInv, Others, ClientOnly
<1> USE DEF pending, buffers
<1>3. CASE FireStep(t)
  BY <1>2, <1>3 DEF FireStep, FireMapping, FireWorkDone, FireLost, Fired, AtMapping, ClientOnly
<1>4. CASE WritePending(t) \/ WriteTrack(t)
  BY <1>2, <1>4 DEF WritePending, WriteTrack, LeaveWrite, AtMapping, ClientOnly
<1>5. CASE WriteCheck(t)
  BY <1>2, <1>5 DEF WriteCheck, LeaveWrite, AtMapping, ClientOnly, SoleClient
<1>6. CASE MapAsyncState(t)
  <2>1. loc[t].buf \in Buffer /\ loc[t].buf \in Mappable /\ t = c
    BY <1>1, <1>6 DEF MapAsyncState, Operands, AtBuffer, ClientInv, AtMapping, ClientOnly
  <2>2. CASE mapState[loc[t].buf].st = "Idle"
    <3>1. Others(t) /\ pc'[t] = "mapAsyncLife" /\ loc'[t] = loc[t]
      BY <1>1, <1>6, <2>2, GoAt DEF MapAsyncState
    <3>2. \A x \in Buffer : mapState'[x] = IF x = loc[t].buf THEN [st |-> "Waiting", op |-> loc[t].op]
                                           ELSE mapState[x]
      BY <1>1, <1>6, <2>2 DEF MapAsyncState
    <3>3. dst' = dst
      BY <1>6 DEF MapAsyncState
    <3>4. QED
      BY <2>1, <3>1, <3>2, <3>3 DEF ClientInv, Others
  <2>3. CASE mapState[loc[t].buf].st # "Idle"
    BY <1>2, <1>6, <2>3 DEF MapAsyncState, AtMapping, ClientOnly
  <2>4. QED
    BY <2>2, <2>3
<1>7. CASE MapAsyncLife(t)
  BY <1>2, <1>7 DEF MapAsyncLife, AtMapping, ClientOnly
<1>8. CASE Unmap(t)
  <2>1. loc[t].buf \in Buffer /\ t = c
    BY <1>1, <1>8 DEF Unmap, Operands, AtBuffer, ClientInv, ClientOnly
  <2>2. CASE Go(t, "fire", loc[t]) /\ mapState' = mapState
    BY <1>2, <1>8, <2>2 DEF Unmap, AtMapping, ClientOnly
  <2>3. CASE mapState' = [mapState EXCEPT ![loc[t].buf] = Idle]
    <3>1. \A x \in Buffer : mapState'[x] = IF x = loc[t].buf THEN Idle ELSE mapState[x]
      BY <1>1, <2>3
    <3>2. \/ \E l : Go(t, "fire", l)
          \/ mapState[loc[t].buf].st = "Init" /\ Go(t, "unmapInit", loc[t])
      BY <1>8 DEF Unmap
    <3>3. Others(t) /\ \/ pc'[t] = "fire"
                       \/ /\ pc'[t] = "unmapInit" /\ loc'[t] = loc[t]
                          /\ loc[t].buf \notin Mappable
      BY <1>1, <2>1, <3>2, GoAt DEF ClientInv
    <3>4. dst' = dst /\ Idle.st = "Idle"
      BY <1>8 DEF Unmap, Idle
    <3>5. QED
      BY <2>1, <3>1, <3>3, <3>4 DEF ClientInv, Others, AtMapping, ClientOnly
  <2>4. QED
    BY <1>8, <2>2, <2>3 DEF Unmap
<1>9. CASE UnmapInit(t)
  <2>1. loc[t].buf \notin Mappable
    BY <1>9 DEF UnmapInit, ClientInv
  <2>2. QED
    BY <1>2, <1>9, <2>1 DEF UnmapInit, AtMapping, ClientOnly
<1>10. CASE DestroySnatch(t) \/ DestroyPending(t) \/ DestroyLife(t)
  BY <1>2, <1>10 DEF DestroySnatch, DestroyPending, DestroyLife, LeaveDestroy, AtMapping, ClientOnly
<1>11. QED
  BY <1>3, <1>4, <1>5, <1>6, <1>7, <1>8, <1>9, <1>10 DEF BufferStep

(***************************************************************************)
(* Nobody but the client maps, unmaps and submits, and nothing else than   *)
(* what it maps is ever waiting or mapped.                                 *)
(***************************************************************************)
THEOREM ClientAlone ==
  ASSUME NEW c \in Thread, SoleClient(c) PROVE Spec => []ClientInv(c)
<1>1. Init => ClientInv(c)
  BY DEF Init, ClientInv, SoleClient, ClientOnly, AtMapping, Idle
<1>2. TypeInv /\ ClientInv(c) /\ [Next]_vars => ClientInv(c)'
  <2>1. SUFFICES ASSUME TypeInv, ClientInv(c), [Next]_vars PROVE ClientInv(c)'
    OBVIOUS
  <2>2. CASE UNCHANGED vars \/ GpuComplete \/ LoseElsewhere
    <3>1. UNCHANGED <<dst, mapState, pc, loc>>
      BY <2>2 DEF vars, GpuComplete, LoseElsewhere, pending, buffers
    <3>2. QED
      BY <2>1, <3>1 DEF ClientInv
  <2>3. ASSUME NEW t \in Thread, Call(t) \/ Step(t) PROVE ClientInv(c)'
    BY <2>1, <2>3, CallSole, SubmitSole, MaintainSole, BufferSole DEF Step
  <2>4. QED
    BY <2>1, <2>2, <2>3 DEF Next
<1>3. QED
  BY <1>1, <1>2, Types, PTL DEF Spec

-----------------------------------------------------------------------------
(* Where a buffer that waits to be mapped is listed. *)
Mapped(i, b) == Within(active[i].mapped, b)
Queued(b) == Within(ready, b) \/ \E i \in DOMAIN active : Mapped(i, b)

(* Once, and it waits for its answer. *)
QueueInv ==
    /\ Once(ready)
    /\ \A i \in DOMAIN active : Once(active[i].mapped)
    /\ \A b \in Buffer, i \in DOMAIN active : Mapped(i, b) =>
          ~Within(ready, b) /\ \A j \in DOMAIN active : Mapped(j, b) => i = j
    /\ \A b \in Buffer : Queued(b) => mapState[b].st = "Waiting"

(* A thread maps b; and nobody is about to, nor asked to. *)
Maps(t, b) == pc[t] = "mapSet" /\ loc[t].buf = b
AtPeace(b) == mapState[b].st # "Waiting" /\ \A t \in Thread : ~Maps(t, b)

(* A call on b's mapping finds it at peace: its client is patient.  A      *)
(* request that is not listed yet is about to be.  A buffer is mapped by   *)
(* one thread at a time, which leaves it Idle meanwhile.                   *)
PeaceInv ==
    /\ \A t \in Thread :
          /\ pc[t] # "mapRestore"
          /\ pc[t] \in {"mapAsyncState", "unmap"} => AtPeace(loc[t].buf)
          /\ pc[t] = "mapAsyncLife" =>
                mapState[loc[t].buf].st = "Waiting" /\ ~Queued(loc[t].buf)
          /\ pc[t] = "mapSet" => mapState[loc[t].buf].st = "Idle"
    /\ \A t, u \in Thread, b \in Buffer : Maps(t, b) /\ Maps(u, b) => t = u

(* The places a map request can be, until it is answered. *)
Asked(b, o) == mapState[b].st = "Waiting" /\ mapState[b].op = o
Doing(t, o) == pc[t] \in {"mapAsyncState", "mapSet"} /\ loc[t].op = o
Answering(t, o) == Within(loc[t].maps, o)
Unanswered(o) ==
    \/ \E b \in Buffer : Asked(b, o)
    \/ \E t \in Thread : Doing(t, o) \/ Answering(t, o)

(* Where a thread may carry requests to answer. *)
Carriers ==
    {"mapReady", "mapSet", "mapRestore", "maintainResult", "panicked",
     "releaseLock", "releaseNext", "fire"}
CarriesWell ==
    \A t \in Thread :
      \/ loc[t].maps = <<>>
      \/ pc[t] \in Carriers
      \/ pc[t] \in Releasing /\ trackersL = t

(* A request is in one place, once, and about its buffer; and answered if  *)
(* it is in none.                                                          *)
OneAnswer ==
    /\ \A t \in Thread : Once(loc[t].maps)
    /\ \A b \in Buffer, o \in MapOp : Asked(b, o) =>
          hist.mapBuf[o] = b /\ \A t \in Thread : ~Doing(t, o) /\ ~Answering(t, o)
    /\ \A t \in Thread, o \in MapOp :
          /\ Doing(t, o) =>
                /\ hist.mapBuf[o] = loc[t].buf
                /\ \A u \in Thread : ~Answering(u, o) /\ (Doing(u, o) => t = u)
          /\ Answering(t, o) => \A u \in Thread : Answering(u, o) => t = u
AnsweredInv ==
    /\ hist.maps <= MaxMap
    /\ \A o \in MapOp :
          /\ hist.mapFired[o] = IF o <= hist.maps /\ ~Unanswered(o) THEN 1 ELSE 0
          /\ Unanswered(o) => o <= hist.maps

RequestInv == QueueInv /\ PeaceInv /\ CarriesWell /\ OneAnswer /\ AnsweredInv

-----------------------------------------------------------------------------
(* The same submissions, with the same buffers to map. *)
SameQueues(a, b) == SameSubmissions(a, b) /\ \A i \in DOMAIN a : b[i].mapped = a[i].mapped

(* What the history keeps of the map requests. *)
SameRequests ==
    hist'.maps = hist.maps /\ hist'.mapBuf = hist.mapBuf /\ hist'.mapFired = hist.mapFired

(* A step of t that leaves the requests where they are, and of the states  *)
(* of buffers makes some Idle at most that were not waiting.               *)
Aside(t) ==
    /\ Others(t)
    /\ loc'[t].maps = loc[t].maps
    /\ \/ loc'[t].maps = <<>>
       \/ pc'[t] \in Carriers
       \/ pc'[t] \in Releasing /\ trackersL' = t
    /\ \A u \in Thread : u # t /\ trackersL = u => trackersL' = u
    /\ pc[t] \notin AtMapping /\ pc'[t] \notin AtMapping
    /\ pc'[t] = "unmap" => AtPeace(loc'[t].buf)
    /\ \A b \in Buffer :
          mapState'[b] = mapState[b]
          \/ (mapState[b].st # "Waiting" /\ mapState'[b].st = "Idle")
    /\ ready' = ready /\ SameQueues(active, active')
    /\ SameRequests

LEMMA AsideKeeps ==
  ASSUME TypeInv, TypeInv', RequestInv, NEW t \in Thread, Aside(t) PROVE RequestInv'
<1>0. \A u \in Thread : /\ pc[u] \in AtBuffer => loc[u].buf \in Buffer
                        /\ pc'[u] \in AtBuffer => loc'[u].buf \in Buffer
  BY DEF TypeInv, ThreadInv, Operands
<1>1. /\ \A u \in Thread : loc'[u].maps = loc[u].maps
      /\ \A u \in Thread : u # t => pc'[u] = pc[u] /\ loc'[u] = loc[u]
      /\ DOMAIN active' = DOMAIN active /\ ready' = ready
      /\ \A i \in DOMAIN active : active'[i].mapped = active[i].mapped
      /\ SameRequests
  BY DEF Aside, Others, SameQueues, SameSubmissions
<1>2. ASSUME NEW b \in Buffer
      PROVE /\ mapState'[b].st = "Waiting" <=> mapState[b].st = "Waiting"
            /\ mapState'[b].st = "Waiting" => mapState'[b] = mapState[b]
            /\ mapState[b].st = "Idle" => mapState'[b].st = "Idle"
  BY DEF Aside
<1>3. ASSUME NEW b
      PROVE /\ \A i \in DOMAIN active : Mapped(i, b)' <=> Mapped(i, b)
            /\ Queued(b)' <=> Queued(b)
            /\ \A u \in Thread : Maps(u, b)' <=> Maps(u, b)
  BY <1>1 DEF Mapped, Queued, Maps, Aside, AtMapping
<1>4. ASSUME NEW o
      PROVE /\ \A b \in Buffer : Asked(b, o)' <=> Asked(b, o)
            /\ \A u \in Thread : Doing(u, o)' <=> Doing(u, o)
            /\ \A u \in Thread : Answering(u, o)' <=> Answering(u, o)
  BY <1>1, <1>2 DEF Asked, Doing, Answering, Aside, AtMapping
<1>5. \A o : Unanswered(o)' <=> Unanswered(o)
  BY <1>4 DEF Unanswered
<1>6. QueueInv'
  BY <1>1, <1>2, <1>3 DEF RequestInv, QueueInv
<1>7. \A b \in Buffer : AtPeace(b)' <=> AtPeace(b)
  BY <1>2, <1>3 DEF AtPeace
<1>8. PeaceInv'
  <2>1. ASSUME NEW u \in Thread
        PROVE (/\ pc[u] # "mapRestore"
               /\ pc[u] \in {"mapAsyncState", "unmap"} => AtPeace(loc[u].buf)
               /\ pc[u] = "mapAsyncLife" =>
                     mapState[loc[u].buf].st = "Waiting" /\ ~Queued(loc[u].buf)
               /\ pc[u] = "mapSet" => mapState[loc[u].buf].st = "Idle")'
    <3>1. CASE u = t
      <4>1. pc'[t] = "unmap" => loc'[t].buf \in Buffer
        BY <1>0 DEF AtBuffer
      <4>2. QED
        BY <1>7, <3>1, <4>1 DEF Aside, AtMapping
    <3>2. CASE u # t
      <4>1. pc'[u] = pc[u] /\ loc'[u] = loc[u]
        BY <1>1, <3>2
      <4>2. pc[u] \in {"mapAsyncState", "unmap", "mapAsyncLife", "mapSet"} => loc[u].buf \in Buffer
        BY <1>0 DEF AtBuffer
      <4>3. QED
        BY <1>2, <1>3, <1>7, <4>1, <4>2 DEF RequestInv, PeaceInv
    <3>3. QED
      BY <3>1, <3>2
  <2>2. \A v, u \in Thread, b \in Buffer : Maps(v, b)' /\ Maps(u, b)' => v = u
    BY <1>3 DEF RequestInv, PeaceInv
  <2>3. QED
    BY <2>1, <2>2 DEF PeaceInv
<1>9. CarriesWell'
  BY <1>1 DEF RequestInv, CarriesWell, Aside
<1>10. OneAnswer'
  <2>1. \A u \in Thread, o \in MapOp : Doing(u, o) => u # t
    BY DEF Doing, Aside, AtMapping
  <2>2. QED
    BY <1>1, <1>4, <2>1 DEF RequestInv, OneAnswer, SameRequests
<1>11. AnsweredInv'
  BY <1>1, <1>5 DEF RequestInv, AnsweredInv, SameRequests
<1>12. QED
  BY <1>6, <1>8, <1>9, <1>10, <1>11 DEF RequestInv

-----------------------------------------------------------------------------
(* What attaching a handle or a closure leaves alone. *)
LEMMA AttachedQueues ==
  ASSUME NEW W, NEW list \in Seq(Entries(W)), NEW b, NEW w
  PROVE  /\ SameQueues(list, list)
         /\ SameQueues(list, ScheduleResourceDestruction(list, b))
         /\ SameQueues(list, ClosureWithSubmission(list, w))
<1>1. SameQueues(list, list)
  BY DEF SameQueues, SameSubmissions
<1>2. \A i \in DOMAIN list : ScheduleResourceDestruction(list, b)[i].mapped = list[i].mapped
  BY DEF ScheduleResourceDestruction, Entries
<1>3. \A i \in DOMAIN list : ClosureWithSubmission(list, w)[i].mapped = list[i].mapped
  BY DEF ClosureWithSubmission, Entries
<1>4. QED
  BY <1>1, <1>2, <1>3, Attached DEF SameQueues

(* A thread that moves with the requests it has, to where it may. *)
LEMMA MoveAside ==
  ASSUME TypeInv, NEW t \in Thread, NEW w, NEW l, Go(t, w, l),
         l.maps = loc[t].maps,
         l.maps = <<>> \/ w \in Carriers \/ (w \in Releasing /\ trackersL' = t),
         trackersL' = trackersL \/ trackersL \in {NoThread, t},
         pc[t] \notin AtMapping, w \notin AtMapping, w = "unmap" => AtPeace(l.buf),
         mapState' = mapState, ready' = ready, SameQueues(active, active'), SameRequests
  PROVE  Aside(t)
<1>1. ThreadInv
  BY DEF TypeInv
<1>2. Others(t) /\ pc'[t] = w /\ loc'[t] = l
  BY <1>1, GoAt
<1>3. QED
  BY <1>2, ThreadAssumption DEF Aside

(* A patient client calls for buffers at peace. *)
LEMMA RestPeace ==
  ASSUME TypeInv, RequestInv, Patient, NEW b \in Buffer, MayTouch(b) PROVE AtPeace(b)
<1>1. /\ hist \in HistoryType /\ hist.maps \in Nat /\ MaxMap \in Nat
      /\ \A o \in 1..hist.maps : hist.mapBuf[o] = b => hist.mapFired[o] > 0
  BY BoundAssumption DEF TypeInv, HistoryType, MayTouch, AtRest
<1>2. ASSUME NEW o \in MapOp, Unanswered(o) PROVE hist.mapBuf[o] # b
  <2>1. o \in 1..hist.maps /\ hist.mapFired[o] = 0
    BY <1>1, <1>2 DEF RequestInv, AnsweredInv, MapOp
  <2>2. QED
    BY <1>1, <2>1
<1>3. mapState[b].st # "Waiting"
  <2>1. SUFFICES ASSUME mapState[b].st = "Waiting" PROVE FALSE
    OBVIOUS
  <2>2. mapState[b].op \in MapOp /\ Asked(b, mapState[b].op)
    BY <2>1 DEF TypeInv, BufferInv, Asked
  <2>3. QED
    BY <1>2, <2>2 DEF RequestInv, OneAnswer, Unanswered
<1>4. ASSUME NEW t \in Thread, Maps(t, b) PROVE FALSE
  <2>1. loc[t].op \in MapOp /\ Doing(t, loc[t].op) /\ loc[t].buf = b
    BY <1>4 DEF TypeInv, ThreadInv, Operands, Maps, Doing
  <2>2. QED
    BY <1>2, <2>1 DEF RequestInv, OneAnswer, Unanswered
<1>5. QED
  BY <1>3, <1>4 DEF AtPeace

LEMMA CallAside ==
  ASSUME TypeInv, RequestInv, Patient, NEW t \in Thread, Call(t), ~CallMapAsync(t)
  PROVE  Aside(t)
<1>1. /\ active \in Seq(Entries(WorkDone)) /\ hist \in HistoryType
      /\ SameQueues(active, active)
      /\ pc[t] = "idle" => loc[t].maps = <<>>
  BY AttachedQueues DEF TypeInv, LifeTypeOK, Submission, RequestInv, CarriesWell, Carriers, Releasing
<1>2. ASSUME NEW l, NEW w, Go(t, w, l), pc[t] = "idle", l.maps = <<>>,
             w \notin AtMapping, w = "unmap" => AtPeace(l.buf),
             UNCHANGED <<mapState, ready, active, trackersL, hist>>
      PROVE Aside(t)
  <2>1. SameQueues(active, active') /\ SameRequests /\ pc[t] \notin AtMapping
    BY <1>1, <1>2 DEF SameRequests, AtMapping
  <2>2. l.maps = loc[t].maps
    BY <1>1, <1>2
  <2>3. QED
    BY <1>2, <2>1, <2>2, MoveAside
<1>3. /\ Nothing.maps = <<>>
      /\ \A x : /\ [Nothing EXCEPT !.cmds = x].maps = <<>>
               /\ [Nothing EXCEPT !.buf = x].maps = <<>> /\ [Nothing EXCEPT !.buf = x].buf = x
  BY DEF Nothing
<1>4. ASSUME SameQueues(active, active'), SameRequests, pc[t] = "idle",
             UNCHANGED <<mapState, ready, trackersL, pc, loc>>
      PROVE Aside(t)
  BY <1>1, <1>4 DEF Aside, Others, AtMapping
<1> USE DEF MayCall, life, buffers, locks, AtMapping
<1>5. CASE CallSubmit(t)
  BY <1>2, <1>3, <1>5 DEF CallSubmit
<1>6. CASE CallPoll(t)
  BY <1>2, <1>3, <1>6 DEF CallPoll
<1>7. CASE CallWait(t)
  <2>1. PICK timed \in BOOLEAN :
          \/ \E i \in 1..MaxSubmit :
                Go(t, "pollFence", [Nothing EXCEPT !.wait = i, !.timed = timed])
          \/ Go(t, "pollFence", [Nothing EXCEPT !.latest = TRUE, !.timed = timed])
    BY <1>7 DEF CallWait
  <2>2. UNCHANGED <<mapState, ready, active, trackersL, hist>> /\ pc[t] = "idle"
    BY <1>7 DEF CallWait
  <2>3. /\ \A i : [Nothing EXCEPT !.wait = i, !.timed = timed].maps = <<>>
        /\ [Nothing EXCEPT !.latest = TRUE, !.timed = timed].maps = <<>>
    BY DEF Nothing
  <2>4. PICK l : Go(t, "pollFence", l) /\ l.maps = <<>>
    BY <2>1, <2>3
  <2>5. QED
    BY <1>2, <2>2, <2>4
<1>8. CASE CallWrite(t)
  BY <1>2, <1>3, <1>8 DEF CallWrite
<1>9. CASE CallUnmap(t)
  <2>1. PICK b \in Buffer : MayTouch(b) /\ Go(t, "unmap", [Nothing EXCEPT !.buf = b])
    BY <1>9 DEF CallUnmap
  <2>2. UNCHANGED <<mapState, ready, active, trackersL, hist>> /\ pc[t] = "idle"
    BY <1>9 DEF CallUnmap
  <2>3. QED
    BY <1>2, <1>3, <2>1, <2>2, RestPeace
<1>10. CASE CallDestroy(t)
  <2>1. PICK b \in Buffer : MayTouch(b)
            /\ Go(t, "unmap", [Nothing EXCEPT !.buf = b, !.after = "destroySnatch"])
    BY <1>10 DEF CallDestroy
  <2>2. UNCHANGED <<mapState, ready, active, trackersL, hist>> /\ pc[t] = "idle"
    BY <1>10 DEF CallDestroy
  <2>. DEFINE l == [Nothing EXCEPT !.buf = b, !.after = "destroySnatch"]
  <2>3. l.maps = <<>> /\ l.buf = b
    BY DEF Nothing
  <2>4. AtPeace(l.buf) /\ Go(t, "unmap", l)
    BY <2>1, <2>3, RestPeace
  <2>. HIDE DEF l
  <2>5. QED
    BY <1>2, <2>2, <2>3, <2>4
<1>11. CASE CallDrop(t)
  <2>1. PICK b \in Buffer : MayTouch(b) /\ Go(t, "unmap", [Nothing EXCEPT !.buf = b])
    BY <1>11 DEF CallDrop
  <2>2. UNCHANGED <<mapState, ready, active, trackersL, hist>> /\ pc[t] = "idle"
    BY <1>11 DEF CallDrop
  <2>3. QED
    BY <1>2, <1>3, <2>1, <2>2, RestPeace
<1>12. CASE CallWorkDone(t)
  <2>1. SameQueues(active, active')
    BY <1>1, <1>12, AttachedQueues DEF CallWorkDone
  <2>2. SameRequests
    <3>. DEFINE n == hist.works + 1
                f == [hist.workIndex EXCEPT ![n] = hist.tracked]
                g == [hist.workMaps EXCEPT ![n] = {o \in MapOp : hist.mapIndex[o] >= 0 /\ hist.mapFired[o] = 0}]
    <3>1. hist' = [hist EXCEPT !.works = n, !.workIndex = f, !.workMaps = g]
      BY <1>12 DEF CallWorkDone
    <3>. HIDE DEF n, f, g
    <3>2. QED
      BY <1>1, <3>1 DEF HistoryType, SameRequests
  <2>3. QED
    BY <1>4, <1>12, <2>1, <2>2 DEF CallWorkDone
<1>13. CASE CallDestroyDevice(t)
  BY <1>1, <1>4, <1>13 DEF CallDestroyDevice, SameRequests
<1>14. QED
  BY <1>5, <1>6, <1>7, <1>8, <1>9, <1>10, <1>11, <1>12, <1>13 DEF Call

(* Maintaining, but for what becomes of the buffers to map.                *)
LEMMA MaintainAside ==
  ASSUME TypeInv, RequestInv, ClosureInv, NEW t \in Thread, MaintainStep(t),
         ~(Triage(t) /\ HeadDone(active, loc[t].done)),
         ~MapReady(t), ~MapSet(t), ~MapHalFails(t)
  PROVE  Aside(t)
<1>1. /\ active \in Seq(Entries(WorkDone)) /\ hist \in HistoryType /\ loc[t] \in Locals
      /\ SameQueues(active, active)
      /\ \/ loc[t].maps = <<>>
         \/ pc[t] \in Carriers
         \/ pc[t] \in Releasing /\ trackersL = t
      /\ pc[t] = "releaseNext" => trackersL = t
  BY LocType, AttachedQueues DEF TypeInv, LifeTypeOK, Submission, ClosureInv, CarryInv,
                                 RequestInv, CarriesWell
<1>2. ASSUME NEW l, NEW w, Go(t, w, l), l.maps = loc[t].maps,
             l.maps = <<>> \/ w \in Carriers \/ (w \in Releasing /\ trackersL' = t),
             w \notin AtMapping, w # "unmap", pc[t] \notin AtMapping,
             trackersL' = trackersL \/ trackersL \in {NoThread, t},
             UNCHANGED <<active, ready, mapState>>, SameRequests
      PROVE Aside(t)
  <2>1. SameQueues(active, active')
    BY <1>1, <1>2
  <2>2. QED
    BY <1>2, <2>1, MoveAside
<1>3. ASSUME NEW x
      PROVE /\ [loc[t] EXCEPT !.wait = x].maps = loc[t].maps
            /\ [loc[t] EXCEPT !.done = x].maps = loc[t].maps
            /\ [loc[t] EXCEPT !.works = x].maps = loc[t].maps
            /\ [loc[t] EXCEPT !.empty = x].maps = loc[t].maps
            /\ [loc[t] EXCEPT !.lost = x].maps = loc[t].maps
            /\ [loc[t] EXCEPT !.todo = x].maps = loc[t].maps
            /\ \A y : [loc[t] EXCEPT !.todo = x, !.buf = y].maps = loc[t].maps
            /\ [loc[t] EXCEPT !.buf = x].maps = loc[t].maps
            /\ Nothing.maps = <<>>
  BY <1>1 DEF Locals, Nothing
<1>4. hist' = hist => SameRequests
  BY DEF SameRequests
<1>5. Lose => SameRequests
  <2>. DEFINE n == hist.lostFired + (IF lostClosure THEN 1 ELSE 0)
  <2>1. Lose => hist' = [hist EXCEPT !.halFailed = TRUE, !.lostFired = n]
    BY DEF Lose
  <2>. HIDE DEF n
  <2>2. QED
    BY <1>1, <2>1 DEF HistoryType, SameRequests
<1>6. ASSUME LeaveMaintain(t), pc[t] \in {"maintain", "maintainWait", "maintainFence"},
             UNCHANGED <<active, ready, mapState>>, SameRequests
      PROVE Aside(t)
  <2>1. loc[t].maps = <<>>
    BY <1>1, <1>6 DEF Carriers, Releasing
  <2>2. QED
    BY <1>2, <1>3, <1>6, <2>1 DEF LeaveMaintain, AtMapping
<1>7. ASSUME pc[t] \notin Carriers \cup Releasing PROVE loc[t].maps = <<>>
  BY <1>1, <1>7
<1> USE DEF life, buffers, locks, Carriers, Releasing, AtMapping
<1>8. CASE PollFence(t)
  BY <1>2, <1>4, <1>7, <1>8 DEF PollFence
<1>9. CASE MaintainBegin(t)
  <2>1. CASE LeaveMaintain(t)
    BY <1>4, <1>6, <1>9, <2>1 DEF MaintainBegin
  <2>2. CASE UNCHANGED locks /\ ~LeaveMaintain(t)
    <3>. DEFINE l == [loc[t] EXCEPT !.wait = WaitTarget(t)]
    <3>1. l.maps = loc[t].maps /\ l.maps = <<>>
      BY <1>3, <1>7, <1>9 DEF MaintainBegin
    <3>2. \E w \in {"maintainFence", "maintainWait"} : Go(t, w, l)
      BY <1>9, <2>2 DEF MaintainBegin
    <3>. HIDE DEF l
    <3>3. QED
      BY <1>2, <1>4, <1>9, <2>2, <3>1, <3>2 DEF MaintainBegin
  <2>3. QED
    BY <1>9, <2>1, <2>2 DEF MaintainBegin
<1>10. CASE MaintainWait(t)
  BY <1>2, <1>4, <1>7, <1>10 DEF MaintainWait
<1>11. CASE MaintainFence(t)
  <2>. DEFINE l == [loc[t] EXCEPT !.done = gpuDone]
  <2>1. l.maps = loc[t].maps /\ Go(t, "maintainLock", l)
    BY <1>3, <1>11 DEF MaintainFence
  <2>2. UNCHANGED <<active, ready, mapState, trackersL>> /\ SameRequests /\ pc[t] = "maintainFence"
    BY <1>4, <1>11 DEF MaintainFence
  <2>3. l.maps = <<>>
    BY <1>7, <2>1, <2>2
  <2>. HIDE DEF l
  <2>4. QED
    BY <1>2, <2>1, <2>2, <2>3
<1>12. CASE MaintainHalFails(t)
  BY <1>5, <1>6, <1>12 DEF MaintainHalFails
<1>13. CASE MaintainLock(t)
  <2>. DEFINE l == [loc[t] EXCEPT !.works = deferred]
  <2>1. l.maps = loc[t].maps /\ Go(t, "triage", l)
    BY <1>3, <1>13 DEF MaintainLock
  <2>2. UNCHANGED <<active, ready, mapState, trackersL>> /\ SameRequests /\ pc[t] = "maintainLock"
    BY <1>4, <1>13 DEF MaintainLock
  <2>3. l.maps = <<>>
    BY <1>7, <2>1, <2>2
  <2>. HIDE DEF l
  <2>4. QED
    BY <1>2, <2>1, <2>2, <2>3
<1>14. CASE Triage(t)
  BY <1>2, <1>4, <1>14 DEF Triage
<1>15. CASE MapRestore(t)
  BY <1>15 DEF MapRestore, RequestInv, PeaceInv
<1>16. CASE MaintainUnlock(t)
  <2>. DEFINE l == [loc[t] EXCEPT !.empty = (active = <<>>)]
  <2>1. l.maps = loc[t].maps /\ Go(t, "maintainResult", l)
    BY <1>3, <1>16 DEF MaintainUnlock
  <2>2. UNCHANGED <<active, ready, mapState, trackersL>> /\ SameRequests /\ pc[t] = "mapReady"
    BY <1>4, <1>16 DEF MaintainUnlock
  <2>. HIDE DEF l
  <2>3. QED
    BY <1>2, <2>1, <2>2
<1>17. CASE MaintainResult(t)
  <2>1. \E l : l.maps = loc[t].maps /\
          (Go(t, "panicked", l) \/ Go(t, "releaseLock", l) \/ Go(t, "fire", l))
    BY <1>3, <1>17 DEF MaintainResult, LosingClosures
  <2>2. QED
    BY <1>2, <1>4, <1>17, <2>1 DEF MaintainResult
<1>18. CASE ReleaseLock(t)
  <2>. DEFINE l == [loc[t] EXCEPT !.todo = {b \in Buffer : Referenced(b)}]
  <2>1. l.maps = loc[t].maps /\ Go(t, "releaseNext", l)
    BY <1>3, <1>18 DEF ReleaseLock
  <2>2. /\ UNCHANGED <<active, ready, mapState>> /\ SameRequests
        /\ trackersL' = t /\ trackersL = NoThread /\ pc[t] = "releaseLock"
    BY <1>4, <1>18 DEF ReleaseLock
  <2>. HIDE DEF l
  <2>3. QED
    BY <1>2, <2>1, <2>2
<1>19. CASE ReleaseNext(t)
  <2>1. \E l : l.maps = loc[t].maps /\ (Go(t, "destroySnatch", l) \/ Go(t, "releaseNext", l))
    <3>1. PICK x, y, w : /\ w \in {"destroySnatch", "releaseNext"}
                         /\ Go(t, w, [loc[t] EXCEPT !.todo = x, !.buf = y])
      BY <1>19 DEF ReleaseNext
    <3>. DEFINE l == [loc[t] EXCEPT !.todo = x, !.buf = y]
    <3>2. l.maps = loc[t].maps /\ Go(t, w, l)
      BY <1>3, <3>1
    <3>. HIDE DEF l
    <3>3. QED
      BY <3>1, <3>2
  <2>2. QED
    BY <1>1, <1>2, <1>4, <1>19, <2>1 DEF ReleaseNext
<1>20. CASE ReleaseDone(t)
  <2>. DEFINE l == [loc[t] EXCEPT !.buf = NoBuffer]
  <2>1. l.maps = loc[t].maps /\ Go(t, "fire", l)
    BY <1>3, <1>20 DEF ReleaseDone
  <2>2. /\ UNCHANGED <<active, ready, mapState>> /\ SameRequests
        /\ trackersL' = NoThread /\ trackersL = t /\ pc[t] = "releaseNext"
    BY <1>1, <1>4, <1>20 DEF ReleaseDone
  <2>. HIDE DEF l
  <2>3. QED
    BY <1>2, <2>1, <2>2
<1>21. QED
  BY <1>8, <1>9, <1>10, <1>11, <1>12, <1>13, <1>14, <1>15, <1>16, <1>17, <1>18,
     <1>19, <1>20 DEF MaintainStep

(* The steps of the other calls: to unmap a buffer at peace drops no       *)
(* request.                                                                *)
LEMMA BufferAside ==
  ASSUME TypeInv, RequestInv, NEW t \in Thread, BufferStep(t) \/ FireStep(t),
         ~MapAsyncState(t), ~MapAsyncLife(t), ~FireMapping(t)
  PROVE  Aside(t)
<1>1. /\ active \in Seq(Entries(WorkDone)) /\ hist \in HistoryType /\ loc[t] \in Locals
      /\ SameQueues(active, active)
      /\ \/ loc[t].maps = <<>>
         \/ pc[t] \in Carriers
         \/ pc[t] \in Releasing /\ trackersL = t
      /\ pc[t] = "unmap" => AtPeace(loc[t].buf)
  BY LocType, AttachedQueues DEF TypeInv, LifeTypeOK, Submission, RequestInv, CarriesWell, PeaceInv
<1>2. ASSUME NEW l, NEW w, Go(t, w, l), l.maps = loc[t].maps,
             l.maps = <<>> \/ w \in Carriers \/ (w \in Releasing /\ trackersL' = t),
             w \notin AtMapping, w # "unmap", pc[t] \notin AtMapping,
             SameQueues(active, active'), UNCHANGED <<trackersL, ready, mapState>>, SameRequests
      PROVE Aside(t)
  BY <1>2, MoveAside
<1>3. ASSUME NEW x
      PROVE /\ [loc[t] EXCEPT !.lost = x].maps = loc[t].maps
            /\ [loc[t] EXCEPT !.works = x].maps = loc[t].maps
            /\ [loc[t] EXCEPT !.after = x].maps = loc[t].maps
            /\ [loc[t] EXCEPT !.tmp = x].maps = loc[t].maps
            /\ [[loc[t] EXCEPT !.tmp = x] EXCEPT !.buf = NoBuffer].maps = loc[t].maps
            /\ [loc[t] EXCEPT !.buf = NoBuffer].maps = loc[t].maps
            /\ [loc[t] EXCEPT !.maps = x].maps = x
            /\ Nothing.maps = <<>>
  BY <1>1 DEF Locals, Nothing
<1>4. hist' = hist => SameRequests
  BY DEF SameRequests
<1>5. ASSUME NEW l, LeaveDestroy(t, l), l.maps = loc[t].maps,
             [l EXCEPT !.buf = NoBuffer].maps = loc[t].maps, pc[t] \in Releasing,
             SameQueues(active, active'), UNCHANGED <<trackersL, ready, mapState, hist>>
      PROVE Aside(t)
  <2>0. pc[t] \notin AtMapping
    BY <1>5 DEF Releasing, AtMapping
  <2>1. CASE trackersL = t
    BY <1>2, <1>4, <1>5, <2>0, <2>1 DEF LeaveDestroy, Carriers, AtMapping
  <2>2. CASE trackersL # t
    <3>1. loc[t].maps = <<>>
      BY <1>1, <1>5, <2>2 DEF Carriers, Releasing
    <3>2. QED
      BY <1>2, <1>3, <1>4, <1>5, <2>0, <2>2, <3>1 DEF LeaveDestroy, AtMapping
  <2>3. QED
    BY <2>1, <2>2
<1>6. ASSUME LeaveWrite(t), pc[t] \in {"writePending", "writeTrack", "writeCheck"},
             UNCHANGED <<active, ready, mapState, hist>>
      PROVE Aside(t)
  <2>1. loc[t].maps = <<>> /\ SameQueues(active, active')
    BY <1>1, <1>6 DEF Carriers, Releasing
  <2>2. QED
    BY <1>2, <1>3, <1>4, <1>6, <2>1 DEF LeaveWrite, AtMapping
<1>7. active' = active => SameQueues(active, active')
  BY <1>1
<1>8. ASSUME pc[t] \notin Carriers \cup Releasing PROVE loc[t].maps = <<>>
  BY <1>1, <1>8
<1> USE DEF life, driver, locks, buffers, AtMapping, Carriers, Releasing
<1>9. CASE FireWorkDone(t) \/ FireLost(t)
  <2>1. SameRequests
    <3>. DEFINE n == Head(loc[t].works)
                f == [hist.workFired EXCEPT ![n] = hist.workFired[n] + 1]
    <3>1. hist' = [hist EXCEPT !.workFired = f] \/ hist' = [hist EXCEPT !.lostFired = @ + 1]
      BY <1>9 DEF FireWorkDone, FireLost
    <3>. HIDE DEF n, f
    <3>2. QED
      BY <1>1, <3>1 DEF HistoryType, SameRequests
  <2>2. PICK l : l.maps = loc[t].maps /\ Go(t, "fire", l)
    BY <1>3, <1>9 DEF FireWorkDone, FireLost
  <2>3. UNCHANGED <<active, trackersL, ready, mapState>> /\ pc[t] = "fire"
    BY <1>9 DEF FireWorkDone, FireLost
  <2>4. QED
    BY <1>2, <1>7, <2>1, <2>2, <2>3
<1>10. CASE Fired(t)
  <2>1. UNCHANGED <<active, trackersL, ready, mapState>> /\ SameRequests
        /\ pc[t] = "fire" /\ loc[t].maps = <<>>
    BY <1>4, <1>10 DEF Fired
  <2>2. PICK l, w : l.maps = <<>> /\ w \in {"idle", "destroySnatch"} /\ Go(t, w, l)
    <3>1. [loc[t] EXCEPT !.after = "idle"].maps = <<>> /\ Nothing.maps = <<>>
      BY <1>3, <2>1
    <3>2. QED
      BY <1>10, <3>1 DEF Fired
  <2>3. QED
    BY <1>2, <1>7, <2>1, <2>2
<1>11. CASE WritePending(t)
  <2>1. CASE valid
    <3>1. loc[t].maps = <<>>
      BY <1>8, <1>11 DEF WritePending
    <3>2. QED
      BY <1>2, <1>4, <1>7, <1>11, <2>1, <3>1 DEF WritePending
  <2>2. CASE ~valid
    BY <1>6, <1>11, <2>2 DEF WritePending
  <2>3. QED
    BY <2>1, <2>2
<1>12. CASE WriteTrack(t)
  <2>1. CASE loc[t].buf \notin snatched
    <3>1. loc[t].maps = <<>>
      BY <1>8, <1>12 DEF WriteTrack
    <3>2. QED
      BY <1>2, <1>4, <1>7, <1>12, <2>1, <3>1 DEF WriteTrack
  <2>2. CASE loc[t].buf \in snatched
    BY <1>6, <1>12, <2>2 DEF WriteTrack
  <2>3. QED
    BY <2>1, <2>2
<1>13. CASE WriteCheck(t)
  BY <1>6, <1>13 DEF WriteCheck
<1>14. CASE Unmap(t)
  <2>. DEFINE b == loc[t].buf
              m == [loc[t] EXCEPT !.maps = IF mapState[b].st = "Waiting"
                                           THEN <<mapState[b].op>> ELSE @]
  <2>1. /\ pc[t] = "unmap" /\ b \in Buffer /\ loc[t].maps = <<>>
        /\ mapState[b].st # "Waiting"
        /\ mapState \in [Buffer -> [st : MapStatus, op : 0..MaxMap]]
    BY <1>1, <1>8, <1>14, LocType DEF Unmap, Operands, AtBuffer, AtPeace, TypeInv, BufferInv, BufferTypeOK
  <2>2. m.maps = <<>>
    BY <1>1, <2>1 DEF Locals
  <2>3. PICK l, w : l.maps = <<>> /\ w \in {"fire", "unmapInit"} /\ Go(t, w, l)
    <3>1. \/ \E w \in {"fire", "unmapInit"} : Go(t, w, loc[t])
          \/ Go(t, "fire", m)
      BY <1>14 DEF Unmap
    <3>. HIDE DEF m
    <3>2. QED
      BY <2>1, <2>2, <3>1
  <2>4. Others(t) /\ pc'[t] = w /\ loc'[t].maps = <<>>
    BY <2>3, GoAt DEF TypeInv
  <2>5. \A x \in Buffer : mapState'[x] = mapState[x]
                          \/ (mapState[x].st # "Waiting" /\ mapState'[x].st = "Idle")
    <3>1. mapState' = mapState \/ mapState' = [mapState EXCEPT ![b] = Idle]
      BY <1>14 DEF Unmap
    <3>. HIDE DEF b
    <3>2. QED
      BY <2>1, <3>1 DEF Idle
  <2>6. UNCHANGED <<active, ready, trackersL>> /\ SameRequests
    BY <1>4, <1>14 DEF Unmap
  <2>7. QED
    BY <1>7, <2>1, <2>3, <2>4, <2>5, <2>6 DEF Aside
<1>15. CASE UnmapInit(t)
  <2>1. loc[t].maps = <<>>
    BY <1>8, <1>15 DEF UnmapInit
  <2>2. QED
    BY <1>2, <1>4, <1>7, <1>15, <2>1 DEF UnmapInit
<1>16. CASE DestroySnatch(t)
  <2>1. CASE LeaveDestroy(t, loc[t])
    BY <1>3, <1>5, <1>7, <1>16, <2>1 DEF DestroySnatch
  <2>2. CASE Go(t, "destroyPending", [loc[t] EXCEPT !.tmp = {loc[t].buf}])
    <3>. DEFINE l == [loc[t] EXCEPT !.tmp = {loc[t].buf}]
    <3>1. l.maps = loc[t].maps /\ Go(t, "destroyPending", l)
      BY <1>3, <2>2
    <3>2. UNCHANGED <<active, trackersL, ready, mapState>> /\ SameRequests /\ pc[t] = "destroySnatch"
      BY <1>4, <1>16 DEF DestroySnatch
    <3>3. l.maps = <<>> \/ trackersL' = t
      BY <1>1, <3>1, <3>2
    <3>. HIDE DEF l
    <3>4. QED
      BY <1>2, <1>7, <3>1, <3>2, <3>3
  <2>3. QED
    BY <1>16, <2>1, <2>2 DEF DestroySnatch
<1>17. CASE DestroyPending(t)
  <2>1. CASE PendingContains(loc[t].buf)
    BY <1>3, <1>5, <1>7, <1>17, <2>1 DEF DestroyPending
  <2>2. CASE ~PendingContains(loc[t].buf)
    BY <1>1, <1>2, <1>4, <1>7, <1>17, <2>2 DEF DestroyPending
  <2>3. QED
    BY <2>1, <2>2
<1>18. CASE DestroyLife(t)
  <2>1. SameQueues(active, active')
    BY <1>1, <1>18, AttachedQueues DEF DestroyLife
  <2>2. QED
    BY <1>3, <1>5, <1>18, <2>1 DEF DestroyLife
<1>19. QED
  BY <1>9, <1>10, <1>11, <1>12, <1>13, <1>14, <1>15, <1>16, <1>17, <1>18 DEF BufferStep, FireStep

(* A submission, up to its registration. *)
LEMMA SubmitAside ==
  ASSUME TypeInv, RequestInv, NEW t \in Thread, SubmitStep(t), ~SubmitTrack(t)
  PROVE  Aside(t)
<1>1. /\ active \in Seq(Entries(WorkDone)) /\ hist \in HistoryType /\ loc[t] \in Locals
      /\ SameQueues(active, active)
  BY LocType, AttachedQueues DEF TypeInv, LifeTypeOK, Submission
<1>2. pc[t] \in {"submitFence", "submitPrepare"} /\ loc[t].maps = <<>>
  BY DEF SubmitStep, SubmitFence, SubmitPrepare, SubmitReject, SubmitHal, SubmitHalFails,
         RequestInv, CarriesWell, Carriers, Releasing
<1>3. ASSUME NEW w \in {"submitPrepare", "idle", "submitTrack"}, NEW l, Go(t, w, l), l.maps = <<>>
      PROVE Aside(t)
  <2>1. UNCHANGED <<active, ready, mapState, trackersL>>
    BY DEF SubmitStep, SubmitFence, SubmitPrepare, SubmitReject, SubmitHal, SubmitHalFails,
           life, buffers, locks
  <2>2. SameRequests
    <3>. DEFINE n == hist.lostFired + (IF lostClosure THEN 1 ELSE 0)
    <3>1. hist' = hist \/ hist' = [hist EXCEPT !.halFailed = TRUE, !.lostFired = n]
      BY DEF SubmitStep, SubmitFence, SubmitPrepare, SubmitReject, SubmitHal, SubmitHalFails, Lose
    <3>. HIDE DEF n
    <3>2. QED
      BY <1>1, <3>1 DEF HistoryType, SameRequests
  <2>3. SameQueues(active, active')
    BY <1>1, <2>1
  <2>4. QED
    BY <1>2, <1>3, <2>1, <2>2, <2>3, MoveAside DEF AtMapping
<1>4. ASSUME NEW x, NEW y
      PROVE /\ [loc[t] EXCEPT !.idx = x].maps = <<>>
            /\ [loc[t] EXCEPT !.cmds = x, !.used = y].maps = <<>>
            /\ [loc[t] EXCEPT !.used = x, !.tmp = y].maps = <<>>
            /\ Nothing.maps = <<>>
  BY <1>1, <1>2 DEF Locals, Nothing
<1>5. CASE SubmitFence(t)
  BY <1>3, <1>4, <1>5 DEF SubmitFence
<1>6. CASE SubmitPrepare(t)
  <2>. DEFINE l == [loc[t] EXCEPT !.cmds = Tail(@), !.used = @ \cup Head(loc[t].cmds)]
  <2>1. l.maps = <<>> /\ Go(t, "submitPrepare", l)
    BY <1>4, <1>6 DEF SubmitPrepare
  <2>. HIDE DEF l
  <2>2. QED
    BY <1>3, <2>1
<1>7. CASE SubmitReject(t) \/ SubmitHalFails(t)
  BY <1>3, <1>4, <1>7 DEF SubmitReject, SubmitHalFails
<1>8. CASE SubmitHal(t)
  <2>1. PICK x, y : Go(t, "submitTrack", [loc[t] EXCEPT !.used = x, !.tmp = y])
    BY <1>8 DEF SubmitHal
  <2>. DEFINE l == [loc[t] EXCEPT !.used = x, !.tmp = y]
  <2>2. l.maps = <<>> /\ Go(t, "submitTrack", l)
    BY <1>4, <2>1
  <2>. HIDE DEF l
  <2>3. QED
    BY <1>3, <2>2
<1>9. QED
  BY <1>5, <1>6, <1>7, <1>8 DEF SubmitStep

-----------------------------------------------------------------------------
(* The request o, about b, which t moves from one place to another: all    *)
(* other requests stay where they are.                                     *)
OthersStay(t, b, o) ==
    /\ Others(t) /\ SameRequests
    /\ \A x \in Buffer \ {b} : mapState'[x] = mapState[x]
    /\ \A p \in MapOp \ {o} : /\ Asked(b, p)' <=> Asked(b, p)
                              /\ Doing(t, p)' <=> Doing(t, p)
                              /\ Answering(t, p)' <=> Answering(t, p)

LEMMA MoveRequest ==
  ASSUME TypeInv, RequestInv, NEW t \in Thread, NEW b \in Buffer, NEW o \in MapOp,
         OthersStay(t, b, o),
         Asked(b, o) \/ (Doing(t, o) /\ loc[t].buf = b),
         \/ Asked(b, o)' /\ ~Doing(t, o)' /\ ~Answering(t, o)'
         \/ ~Asked(b, o)' /\ Doing(t, o)' /\ ~Answering(t, o)'
         \/ ~Asked(b, o)' /\ ~Doing(t, o)' /\ Answering(t, o)',
         Doing(t, o)' => loc'[t].buf = b,
         \A p \in MapOp \ {o} : ~Doing(t, p)',
         Once(loc'[t].maps)
  PROVE  OneAnswer' /\ AnsweredInv'
<1>1. /\ \A u \in Thread \ {t} : pc'[u] = pc[u] /\ loc'[u] = loc[u]
      /\ \A u \in Thread \ {t} : \A p : /\ Doing(u, p)' <=> Doing(u, p)
                                        /\ Answering(u, p)' <=> Answering(u, p)
      /\ \A x \in Buffer \ {b} : \A p : Asked(x, p)' <=> Asked(x, p)
      /\ hist'.maps = hist.maps /\ hist'.mapBuf = hist.mapBuf /\ hist'.mapFired = hist.mapFired
  BY DEF OthersStay, Others, SameRequests, Doing, Answering, Asked
<1>2. /\ hist.mapBuf[o] = b
      /\ \A u \in Thread : ~Answering(u, o) /\ (u # t => ~Doing(u, o))
      /\ \A x \in Buffer \ {b} : ~Asked(x, o)
  BY DEF RequestInv, OneAnswer
<1>3. OneAnswer'
  <2>1. \A u \in Thread : Once(loc'[u].maps)
    BY <1>1 DEF RequestInv, OneAnswer
  <2>2. ASSUME NEW x \in Buffer, NEW p \in MapOp, Asked(x, p)'
        PROVE hist'.mapBuf[p] = x /\ \A u \in Thread : ~Doing(u, p)' /\ ~Answering(u, p)'
    <3>1. CASE p = o
      <4>1. x = b /\ ~Doing(t, o)' /\ ~Answering(t, o)'
        BY <1>1, <1>2, <2>2, <3>1
      <4>2. QED
        BY <1>1, <1>2, <3>1, <4>1
    <3>2. CASE p # o
      <4>1. Asked(x, p)
        BY <1>1, <2>2, <3>2 DEF OthersStay
      <4>2. QED
        BY <1>1, <3>2, <4>1 DEF RequestInv, OneAnswer, OthersStay
    <3>3. QED
      BY <3>1, <3>2
  <2>3. ASSUME NEW u \in Thread, NEW p \in MapOp, Doing(u, p)'
        PROVE /\ hist'.mapBuf[p] = loc'[u].buf
              /\ \A v \in Thread : ~Answering(v, p)' /\ (Doing(v, p)' => u = v)
    <3>1. CASE p = o
      <4>1. u = t
        BY <1>1, <1>2, <2>3, <3>1
      <4>2. QED
        BY <1>1, <1>2, <2>3, <3>1, <4>1
    <3>2. CASE p # o
      <4>1. u # t
        BY <2>3, <3>2
      <4>2. Doing(u, p) /\ loc'[u] = loc[u]
        BY <1>1, <2>3, <4>1
      <4>3. \A v \in Thread : /\ Answering(v, p)' <=> Answering(v, p)
                              /\ Doing(v, p)' <=> Doing(v, p)
        BY <1>1, <3>2 DEF OthersStay
      <4>4. QED
        BY <1>1, <4>2, <4>3 DEF RequestInv, OneAnswer
    <3>3. QED
      BY <3>1, <3>2
  <2>4. ASSUME NEW u \in Thread, NEW v \in Thread, NEW p \in MapOp, Answering(u, p)', Answering(v, p)'
        PROVE u = v
    <3>1. CASE p = o
      BY <1>1, <1>2, <2>4, <3>1
    <3>2. CASE p # o
      BY <1>1, <2>4, <3>2 DEF RequestInv, OneAnswer, OthersStay
    <3>3. QED
      BY <3>1, <3>2
  <2>5. QED
    BY <2>1, <2>2, <2>3, <2>4 DEF OneAnswer
<1>4. ASSUME NEW p \in MapOp PROVE Unanswered(p)' <=> Unanswered(p)
  <2>1. CASE p = o
    BY <2>1 DEF Unanswered
  <2>2. CASE p # o
    <3>1. /\ \A u \in Thread : /\ Answering(u, p)' <=> Answering(u, p)
                               /\ Doing(u, p)' <=> Doing(u, p)
          /\ \A x \in Buffer : Asked(x, p)' <=> Asked(x, p)
      BY <1>1, <2>2 DEF OthersStay
    <3>2. QED
      BY <3>1 DEF Unanswered
  <2>3. QED
    BY <2>1, <2>2
<1>5. AnsweredInv'
  BY <1>1, <1>4 DEF RequestInv, AnsweredInv
<1>6. QED
  BY <1>3, <1>5

(* A request is made: about a buffer at peace, or it is refused at once.   *)
LEMMA AskKeeps ==
  ASSUME TypeInv, TypeInv', RequestInv, Patient, NEW t \in Thread, CallMapAsync(t)
  PROVE  RequestInv'
<1>1. /\ hist \in HistoryType /\ hist.maps \in Nat /\ MaxMap \in Nat /\ pc[t] = "idle"
      /\ ThreadInv
      /\ UNCHANGED <<active, ready, mapState, trackersL>>
  BY BoundAssumption DEF TypeInv, HistoryType, CallMapAsync, MayCall, life, buffers, locks
<1>2. loc[t].maps = <<>>
  BY <1>1 DEF RequestInv, CarriesWell, Carriers, Releasing
<1>3. PICK n \in MapOp : n = hist.maps + 1
  BY <1>1, <1>2 DEF CallMapAsync, MapOp
<1>4. PICK b \in Buffer :
        /\ MayTouch(b)
        /\ hist' = [hist EXCEPT !.maps = @ + 1, !.mapBuf[n] = b]
        /\ \/ Go(t, "mapAsyncState", [Nothing EXCEPT !.buf = b, !.op = n])
           \/ Go(t, "fire", [Nothing EXCEPT !.maps = <<n>>])
  BY <1>3 DEF CallMapAsync
<1>5. /\ hist'.maps = n /\ hist'.mapFired = hist.mapFired /\ hist'.mapBuf[n] = b
      /\ \A o \in MapOp \ {n} : hist'.mapBuf[o] = hist.mapBuf[o]
  <2>. DEFINE f == [hist.mapBuf EXCEPT ![n] = b]
  <2>1. hist' = [hist EXCEPT !.maps = n, !.mapBuf = f]
    BY <1>3, <1>4
  <2>2. f[n] = b /\ \A o \in MapOp \ {n} : f[o] = hist.mapBuf[o]
    BY <1>1, <1>2 DEF HistoryType
  <2>. HIDE DEF f
  <2>3. hist'.maps = n /\ hist'.mapFired = hist.mapFired /\ hist'.mapBuf = f
    BY <1>1, <1>2, <2>1 DEF HistoryType
  <2>4. QED
    BY <2>2, <2>3
<1>6. AtPeace(b)
  BY <1>4, RestPeace
<1>7. /\ Others(t)
      /\ \/ pc'[t] = "mapAsyncState" /\ loc'[t].buf = b /\ loc'[t].op = n /\ loc'[t].maps = <<>>
         \/ pc'[t] = "fire" /\ loc'[t].maps = <<n>>
  <2>1. CASE Go(t, "mapAsyncState", [Nothing EXCEPT !.buf = b, !.op = n])
    <3>1. Others(t) /\ pc'[t] = "mapAsyncState" /\ loc'[t] = [Nothing EXCEPT !.buf = b, !.op = n]
      BY <1>1, <1>2, <2>1, GoAt
    <3>2. QED
      BY <3>1 DEF Nothing
  <2>2. CASE Go(t, "fire", [Nothing EXCEPT !.maps = <<n>>])
    <3>1. Others(t) /\ pc'[t] = "fire" /\ loc'[t] = [Nothing EXCEPT !.maps = <<n>>]
      BY <1>1, <1>2, <2>2, GoAt
    <3>2. QED
      BY <3>1 DEF Nothing
  <2>3. QED
    BY <1>4, <2>1, <2>2
<1>8. ~Unanswered(n) /\ hist.mapFired[n] = 0 /\ n \in MapOp /\ n = hist.maps + 1
  BY <1>3, <1>1, <1>2 DEF RequestInv, AnsweredInv
<1>9. \A u \in Thread \ {t} : pc'[u] = pc[u] /\ loc'[u] = loc[u]
  BY <1>7 DEF Others
<1>10. /\ \A x, o : Asked(x, o)' <=> Asked(x, o)
       /\ \A x : (Queued(x)' <=> Queued(x)) /\ (\A i : Mapped(i, x)' <=> Mapped(i, x))
       /\ \A u \in Thread \ {t} : \A o : /\ Doing(u, o)' <=> Doing(u, o)
                                         /\ Answering(u, o)' <=> Answering(u, o)
       /\ \A o : ~Doing(t, o) /\ ~Answering(t, o)
       /\ \A u \in Thread : \A x : Maps(u, x)' <=> Maps(u, x)
  BY <1>1, <1>2, <1>7, <1>9 DEF Asked, Queued, Mapped, Within, Doing, Answering, Maps
<1>11. /\ \A o : o # n => ~Doing(t, o)' /\ ~Answering(t, o)'
       /\ (Doing(t, n)' /\ ~Answering(t, n)') \/ (~Doing(t, n)' /\ Answering(t, n)')
       /\ Doing(t, n)' => loc'[t].buf = b
       /\ Once(loc'[t].maps)
  <2>1. /\ \A o : Within(<<n>>, o) <=> o = n
        /\ \A o : ~Within(<<>>, o)
        /\ Once(<<n>>) /\ Once(<<>>)
    BY DEF Within, Once
  <2>2. CASE pc'[t] = "mapAsyncState" /\ loc'[t].buf = b /\ loc'[t].op = n /\ loc'[t].maps = <<>>
    BY <2>1, <2>2 DEF Doing, Answering
  <2>3. CASE pc'[t] = "fire" /\ loc'[t].maps = <<n>>
    BY <2>1, <2>3 DEF Doing, Answering
  <2>4. QED
    BY <1>7, <2>2, <2>3
<1>12. QueueInv'
  BY <1>1, <1>2, <1>10 DEF RequestInv, QueueInv
<1>13. PeaceInv'
  <2>1. \A x : AtPeace(x)' <=> AtPeace(x)
    BY <1>1, <1>2, <1>10 DEF AtPeace
  <2>2. QED
    BY <1>1, <1>2, <1>6, <1>7, <1>9, <1>10, <2>1 DEF RequestInv, PeaceInv
<1>14. CarriesWell'
  BY <1>1, <1>2, <1>7, <1>9 DEF RequestInv, CarriesWell, Carriers
<1>15. \A u \in Thread \ {t} : ~Doing(u, n)' /\ ~Answering(u, n)'
  BY <1>8, <1>10 DEF Unanswered
<1>16. \A x \in Buffer : ~Asked(x, n)'
  BY <1>8, <1>10 DEF Unanswered
<1>17. OneAnswer'
  <2>1. \A u \in Thread : Once(loc'[u].maps)
    BY <1>9, <1>11 DEF RequestInv, OneAnswer
  <2>2. ASSUME NEW x \in Buffer, NEW o \in MapOp, Asked(x, o)'
        PROVE hist'.mapBuf[o] = x /\ \A u \in Thread : ~Doing(u, o)' /\ ~Answering(u, o)'
    <3>1. o # n /\ Asked(x, o)
      BY <1>10, <1>16, <2>2
    <3>2. QED
      BY <1>5, <1>10, <1>11, <3>1 DEF RequestInv, OneAnswer
  <2>3. ASSUME NEW u \in Thread, NEW o \in MapOp, Doing(u, o)'
        PROVE /\ hist'.mapBuf[o] = loc'[u].buf
              /\ \A v \in Thread : ~Answering(v, o)' /\ (Doing(v, o)' => u = v)
    <3>1. CASE o = n
      BY <1>5, <1>11, <1>15, <2>3, <3>1
    <3>2. CASE o # n
      BY <1>5, <1>9, <1>10, <1>11, <2>3, <3>2 DEF RequestInv, OneAnswer
    <3>3. QED
      BY <3>1, <3>2
  <2>4. ASSUME NEW u \in Thread, NEW v \in Thread, NEW o \in MapOp, Answering(u, o)', Answering(v, o)'
        PROVE u = v
    BY <1>10, <1>11, <1>15, <2>4 DEF RequestInv, OneAnswer
  <2>5. QED
    BY <2>1, <2>2, <2>3, <2>4 DEF OneAnswer
<1>18. AnsweredInv'
  <2>1. ASSUME NEW o \in MapOp
        PROVE Unanswered(o)' <=> (Unanswered(o) \/ o = n)
    BY <1>10, <1>11 DEF Unanswered
  <2>2. hist'.maps <= MaxMap
    BY <1>5, <1>8 DEF MapOp
  <2>3. ASSUME NEW o \in MapOp
        PROVE /\ hist'.mapFired[o] = IF o <= n /\ ~Unanswered(o)' THEN 1 ELSE 0
              /\ Unanswered(o)' => o <= n
    <3>1. o <= n <=> (o <= hist.maps \/ o = n)
      BY <1>1, <1>2, <1>8 DEF MapOp
    <3>2. /\ hist.mapFired[o] = IF o <= hist.maps /\ ~Unanswered(o) THEN 1 ELSE 0
          /\ Unanswered(o) => o <= hist.maps
      BY DEF RequestInv, AnsweredInv
    <3>3. QED
      BY <1>5, <1>8, <2>1, <3>1, <3>2
  <2>4. QED
    BY <1>5, <2>2, <2>3 DEF AnsweredInv
<1>19. QED
  BY <1>12, <1>13, <1>14, <1>17, <1>18 DEF RequestInv

(* A list with one answer to give, and one with none. *)
LEMMA SingleList ==
  ASSUME NEW o PROVE Once(<<o>>) /\ \A p : Within(<<o>>, p) <=> p = o
BY DEF Within, Once

(* A client's other buffers are nobody's. *)
LEMMA ClientSole ==
  ASSUME NEW c, ClientInv(c), NEW t \in Thread, pc[t] \in ClientOnly
  PROVE  \A u \in Thread \ {t} : pc[u] \notin ClientOnly
BY DEF ClientInv

(* The buffer's state is set to Waiting, or the request is refused.        *)
LEMMA BeginKeeps ==
  ASSUME TypeInv, TypeInv', NEW c, ClientInv(c), RequestInv, NEW t \in Thread, MapAsyncState(t)
  PROVE  RequestInv'
<1>1. /\ pc[t] = "mapAsyncState" /\ loc[t].buf \in Buffer /\ loc[t].op \in MapOp /\ ThreadInv
      /\ loc[t] \in Locals
      /\ mapState \in [Buffer -> [st : MapStatus, op : 0..MaxMap]]
      /\ UNCHANGED <<active, ready, trackersL, hist>>
  BY LocType DEF MapAsyncState, Operands, AtBuffer, TypeInv, BufferInv, BufferTypeOK, life, locks
<1>2. loc[t].maps = <<>> /\ AtPeace(loc[t].buf)
  BY <1>1 DEF RequestInv, CarriesWell, PeaceInv, Carriers, Releasing
<1>3. PICK b \in Buffer : b = loc[t].buf
  BY <1>1
<1>4. PICK o \in MapOp : o = loc[t].op
  BY <1>1
<1>5. /\ Others(t)
      /\ \A x \in Buffer \ {b} : mapState'[x] = mapState[x]
      /\ \/ /\ mapState[b].st = "Idle"
            /\ mapState'[b].st = "Waiting" /\ mapState'[b].op = o
            /\ pc'[t] = "mapAsyncLife" /\ loc'[t] = loc[t]
         \/ mapState' = mapState /\ pc'[t] = "fire" /\ loc'[t].maps = <<o>>
  <2>1. CASE mapState[b].st = "Idle"
    <3>1. mapState' = [mapState EXCEPT ![b] = [st |-> "Waiting", op |-> o]]
          /\ Go(t, "mapAsyncLife", loc[t])
      BY <1>3, <1>4, <2>1 DEF MapAsyncState
    <3>2. QED
      BY <1>1, <2>1, <3>1, GoAt
  <2>2. CASE mapState[b].st # "Idle"
    <3>1. mapState' = mapState /\ Go(t, "fire", [Nothing EXCEPT !.maps = <<o>>])
      BY <1>3, <1>4, <2>2 DEF MapAsyncState
    <3>2. Others(t) /\ pc'[t] = "fire" /\ loc'[t] = [Nothing EXCEPT !.maps = <<o>>]
      BY <1>1, <3>1, GoAt
    <3>3. QED
      BY <3>1, <3>2 DEF Nothing
  <2>3. QED
    BY <2>1, <2>2
<1>6. \A u \in Thread \ {t} : pc'[u] = pc[u] /\ loc'[u] = loc[u]
  BY <1>5 DEF Others
<1>7. \A u \in Thread \ {t} : pc[u] \notin ClientOnly
  BY <1>1, ClientSole DEF ClientOnly
<1>8. ASSUME NEW x
      PROVE /\ Queued(x)' <=> Queued(x)
            /\ \A i : Mapped(i, x)' <=> Mapped(i, x)
            /\ \A u \in Thread : Maps(u, x)' <=> Maps(u, x)
  BY <1>1, <1>5, <1>6 DEF Queued, Mapped, Within, Maps
<1>9. mapState[b].st # "Waiting" /\ ~Queued(b)
  BY <1>2, <1>3 DEF AtPeace, RequestInv, QueueInv
<1>10. QueueInv'
  <2>1. \A x \in Buffer : Queued(x)' => mapState'[x].st = "Waiting"
    BY <1>5, <1>8, <1>9 DEF RequestInv, QueueInv
  <2>2. QED
    BY <1>1, <1>8, <2>1 DEF RequestInv, QueueInv
<1>11. PeaceInv'
  <2>1. ASSUME NEW u \in Thread
        PROVE (/\ pc[u] # "mapRestore"
               /\ pc[u] \in {"mapAsyncState", "unmap"} => AtPeace(loc[u].buf)
               /\ pc[u] = "mapAsyncLife" =>
                     mapState[loc[u].buf].st = "Waiting" /\ ~Queued(loc[u].buf)
               /\ pc[u] = "mapSet" => mapState[loc[u].buf].st = "Idle")'
    <3>1. CASE u = t
      BY <1>3, <1>5, <1>8, <1>9, <3>1
    <3>2. CASE u # t
      <4>1. pc'[u] = pc[u] /\ loc'[u] = loc[u] /\ pc[u] \notin ClientOnly
        BY <1>6, <1>7, <3>2
      <4>2. pc[u] = "mapSet" => loc[u].buf \in Buffer /\ loc[u].buf # b
        BY <1>2, <1>3 DEF AtPeace, Maps, TypeInv, ThreadInv, Operands, AtBuffer
      <4>3. pc[u] = "mapSet" => mapState'[loc[u].buf] = mapState[loc[u].buf]
        BY <1>5, <4>2
      <4>4. QED
        BY <4>1, <4>3 DEF RequestInv, PeaceInv, ClientOnly
    <3>3. QED
      BY <3>1, <3>2
  <2>2. \A u, v \in Thread, x \in Buffer : Maps(u, x)' /\ Maps(v, x)' => u = v
    BY <1>8 DEF RequestInv, PeaceInv
  <2>3. QED
    BY <2>1, <2>2 DEF PeaceInv
<1>12. CarriesWell'
  BY <1>1, <1>2, <1>5, <1>6 DEF RequestInv, CarriesWell, Carriers
<1>13. OneAnswer' /\ AnsweredInv'
  <2>1. Doing(t, o) /\ ~Asked(b, o) /\ (\A p : ~Answering(t, p)) /\ (\A p : p # o => ~Doing(t, p))
    BY <1>1, <1>2, <1>4, <1>9 DEF Doing, Asked, Answering, Within
  <2>2. Once(loc'[t].maps)
    BY <1>2, <1>5, SingleList, EmptyList
  <2>3. /\ ~Doing(t, o)' /\ \A p \in MapOp \ {o} : ~Doing(t, p)' /\ ~Answering(t, p)'
        /\ \/ Asked(b, o)' /\ ~Answering(t, o)'
           \/ ~Asked(b, o)' /\ Answering(t, o)'
    <3>1. CASE mapState'[b].st = "Waiting" /\ mapState'[b].op = o /\ pc'[t] = "mapAsyncLife"
               /\ loc'[t] = loc[t]
      BY <1>2, <3>1, EmptyList DEF Doing, Asked, Answering
    <3>2. CASE mapState' = mapState /\ pc'[t] = "fire" /\ loc'[t].maps = <<o>>
      BY <1>9, <3>2, SingleList DEF Doing, Asked, Answering
    <3>3. QED
      BY <1>5, <3>1, <3>2
  <2>4. \A p \in MapOp \ {o} : Asked(b, p)' <=> Asked(b, p)
    BY <1>5, <1>9 DEF Asked
  <2>5. OthersStay(t, b, o)
    BY <1>1, <1>5, <2>1, <2>3, <2>4 DEF OthersStay, SameRequests
  <2>6. QED
    BY <1>3, <2>1, <2>2, <2>3, <2>5, MoveRequest
<1>14. QED
  BY <1>10, <1>11, <1>12, <1>13 DEF RequestInv

(* The memory is mapped, or the driver fails to.                           *)
LEMMA MapKeeps ==
  ASSUME TypeInv, TypeInv', RequestInv, NEW t \in Thread, MapSet(t) \/ MapHalFails(t)
  PROVE  RequestInv'
<1>1. /\ pc[t] = "mapSet" /\ loc[t].buf \in Buffer /\ loc[t].op \in MapOp /\ ThreadInv
      /\ loc[t] \in Locals /\ hist \in HistoryType
      /\ mapState \in [Buffer -> [st : MapStatus, op : 0..MaxMap]]
      /\ UNCHANGED <<active, ready, trackersL>>
  BY LocType DEF MapSet, MapHalFails, Operands, AtBuffer, TypeInv, BufferInv, BufferTypeOK,
                 life, locks
<1>2. PICK b \in Buffer : b = loc[t].buf
  BY <1>1
<1>3. PICK o \in MapOp : o = loc[t].op
  BY <1>1
<1>4. /\ Maps(t, b) /\ mapState[b].st = "Idle" /\ ~Queued(b) /\ Doing(t, o)
      /\ \A u \in Thread \ {t} : ~Maps(u, b)
  BY <1>1, <1>2, <1>3 DEF RequestInv, QueueInv, PeaceInv, Maps, Doing
<1>5. SameRequests
  <2>. DEFINE n == hist.lostFired + (IF lostClosure THEN 1 ELSE 0)
  <2>1. hist' = hist \/ hist' = [hist EXCEPT !.halFailed = TRUE, !.lostFired = n]
    BY DEF MapSet, MapHalFails, Lose
  <2>. HIDE DEF n
  <2>2. QED
    BY <1>1, <2>1 DEF HistoryType, SameRequests
<1>6. Others(t) /\ pc'[t] = "mapReady" /\ loc'[t].maps = Append(loc[t].maps, o)
  <2>. DEFINE l == [loc[t] EXCEPT !.maps = Append(@, loc[t].op), !.buf = NoBuffer, !.op = 0]
  <2>1. l.maps = Append(loc[t].maps, o)
    BY <1>1, <1>3 DEF Locals
  <2>2. Go(t, "mapReady", l)
    BY DEF MapSet, MapHalFails
  <2>. HIDE DEF l
  <2>3. QED
    BY <1>1, <2>1, <2>2, GoAt
<1>7. /\ \A x \in Buffer \ {b} : mapState'[x] = mapState[x]
      /\ mapState'[b].st \in {"Idle", "Active"}
  <2>1. CASE MapSet(t)
    BY <1>1, <1>2, <2>1 DEF MapSet
  <2>2. CASE MapHalFails(t)
    BY <1>4, <2>2 DEF MapHalFails, buffers
  <2>3. QED
    BY <2>1, <2>2
<1>8. \A u \in Thread \ {t} : pc'[u] = pc[u] /\ loc'[u] = loc[u]
  BY <1>6 DEF Others
<1>9. ASSUME NEW x
      PROVE /\ Queued(x)' <=> Queued(x)
            /\ \A i : Mapped(i, x)' <=> Mapped(i, x)
            /\ \A u \in Thread \ {t} : Maps(u, x)' <=> Maps(u, x)
            /\ ~Maps(t, x)'
  BY <1>1, <1>6, <1>8 DEF Queued, Mapped, Within, Maps
<1>10. QueueInv'
  <2>1. \A x \in Buffer : Queued(x)' => mapState'[x].st = "Waiting"
    BY <1>4, <1>7, <1>9 DEF RequestInv, QueueInv
  <2>2. QED
    BY <1>1, <1>9, <2>1 DEF RequestInv, QueueInv
<1>11. PeaceInv'
  <2>1. ASSUME NEW u \in Thread
        PROVE (/\ pc[u] # "mapRestore"
               /\ pc[u] \in {"mapAsyncState", "unmap"} => AtPeace(loc[u].buf)
               /\ pc[u] = "mapAsyncLife" =>
                     mapState[loc[u].buf].st = "Waiting" /\ ~Queued(loc[u].buf)
               /\ pc[u] = "mapSet" => mapState[loc[u].buf].st = "Idle")'
    <3>1. CASE u = t
      BY <1>6, <3>1
    <3>2. CASE u # t
      <4>1. pc'[u] = pc[u] /\ loc'[u] = loc[u]
        BY <1>8, <3>2
      <4>2. pc[u] \in AtBuffer => loc[u].buf \in Buffer
        BY DEF TypeInv, ThreadInv, Operands
      <4>3. pc[u] \in {"mapAsyncLife", "mapSet", "mapAsyncState", "unmap"} =>
               loc[u].buf # b /\ mapState'[loc[u].buf] = mapState[loc[u].buf]
        BY <1>1, <1>2, <1>4, <1>7, <3>2, <4>2 DEF RequestInv, PeaceInv, AtPeace, Maps, AtBuffer
      <4>4. QED
        BY <1>9, <4>1, <4>3 DEF RequestInv, PeaceInv, AtPeace
    <3>3. QED
      BY <3>1, <3>2
  <2>2. \A u, v \in Thread, x \in Buffer : Maps(u, x)' /\ Maps(v, x)' => u = v
    BY <1>9 DEF RequestInv, PeaceInv
  <2>3. QED
    BY <2>1, <2>2 DEF PeaceInv
<1>12. CarriesWell'
  BY <1>1, <1>6, <1>8 DEF RequestInv, CarriesWell, Carriers
<1>13. OneAnswer' /\ AnsweredInv'
  <2>1. /\ Once(loc[t].maps) /\ ~Within(loc[t].maps, o) /\ loc[t].maps \in Seq(MapOp)
    BY <1>1, <1>4 DEF RequestInv, OneAnswer, Answering, Locals
  <2>2. Once(loc'[t].maps) /\ \A p \in MapOp : Within(loc'[t].maps, p) <=> Within(loc[t].maps, p) \/ p = o
    BY <1>6, <2>1, AppendList
  <2>3. /\ \A p : ~Doing(t, p)'
        /\ \A p \in MapOp \ {o} : ~Doing(t, p)
        /\ \A p \in MapOp : Answering(t, p)' <=> (Answering(t, p) \/ p = o)
    BY <1>1, <1>3, <1>6, <2>2 DEF Doing, Answering
  <2>4. /\ \A p \in MapOp \ {o} : Asked(b, p)' <=> Asked(b, p)
        /\ ~Asked(b, o)'
    BY <1>4, <1>7 DEF Asked
  <2>5. OthersStay(t, b, o)
    BY <1>5, <1>6, <1>7, <2>3, <2>4 DEF OthersStay
  <2>6. QED
    BY <1>2, <1>4, <2>2, <2>3, <2>4, <2>5, MoveRequest
<1>14. QED
  BY <1>10, <1>11, <1>12, <1>13 DEF RequestInv

(* The next buffer to map leaves the list, for the thread to map it or to  *)
(* refuse.                                                                 *)
LEMMA ReadyKeeps ==
  ASSUME TypeInv, TypeInv', RequestInv, NEW t \in Thread, MapReady(t)
  PROVE  RequestInv'
<1>1. /\ pc[t] = "mapReady" /\ ThreadInv /\ loc[t] \in Locals
      /\ ready \in Seq(Buffer) /\ ready # <<>> /\ ready' = Tail(ready)
      /\ mapState \in [Buffer -> [st : MapStatus, op : 0..MaxMap]]
      /\ UNCHANGED <<active, trackersL, hist>>
  BY LocType DEF MapReady, TypeInv, LifeTypeOK, BufferInv, BufferTypeOK, locks
<1>2. PICK b \in Buffer : b = Head(ready)
  BY <1>1
<1>3. /\ Within(ready, b) /\ Once(ready)
      /\ \A x : Within(ready, x) <=> x = b \/ Within(ready', x)
      /\ Once(ready') /\ ~Within(ready', b)
  BY <1>1, <1>2, TailList DEF RequestInv, QueueInv
<1>4. mapState[b].st = "Waiting" /\ mapState[b].op \in MapOp
  BY <1>3 DEF RequestInv, QueueInv, Queued, TypeInv, BufferInv
<1>5. PICK o \in MapOp : o = mapState[b].op
  BY <1>4
<1>6. mapState'[b].st = "Idle" /\ \A x \in Buffer \ {b} : mapState'[x] = mapState[x]
  <2>1. mapState' = [mapState EXCEPT ![b] = Idle]
    BY <1>2 DEF MapReady
  <2>2. QED
    BY <1>1, <2>1 DEF Idle
<1>7. /\ Others(t)
      /\ \/ /\ pc'[t] = "mapSet" /\ loc'[t].buf = b /\ loc'[t].op = o
            /\ loc'[t].maps = loc[t].maps
         \/ pc'[t] = "mapReady" /\ loc'[t].maps = Append(loc[t].maps, o)
  <2>. DEFINE l == [loc[t] EXCEPT !.buf = b, !.op = o]
              m == [loc[t] EXCEPT !.maps = Append(@, o)]
  <2>1. /\ l.buf = b /\ l.op = o /\ l.maps = loc[t].maps
        /\ m.maps = Append(loc[t].maps, o)
    BY <1>1 DEF Locals
  <2>2. Go(t, "mapSet", l) \/ Go(t, "mapReady", m)
    BY <1>2, <1>4, <1>5 DEF MapReady
  <2>. HIDE DEF l, m
  <2>3. QED
    BY <1>1, <2>1, <2>2, GoAt
<1>8. \A u \in Thread \ {t} : pc'[u] = pc[u] /\ loc'[u] = loc[u]
  BY <1>7 DEF Others
<1>9. /\ \A x : \A i : Mapped(i, x)' <=> Mapped(i, x)
      /\ \A x : Queued(x)' => Queued(x)
      /\ \A u \in Thread \ {t} : \A x : Maps(u, x)' <=> Maps(u, x)
      /\ \A x : Maps(t, x)' => x = b
  BY <1>1, <1>3, <1>7, <1>8 DEF Queued, Mapped, Maps
<1>10. ~Queued(b)' /\ Queued(b) /\ \A u \in Thread : ~Maps(u, b)
  <2>1. \A i \in DOMAIN active : ~Mapped(i, b)
    BY <1>3 DEF RequestInv, QueueInv
  <2>2. \A u \in Thread : ~Maps(u, b)
    BY <1>4 DEF RequestInv, PeaceInv, Maps
  <2>3. QED
    BY <1>1, <1>3, <1>9, <2>1, <2>2 DEF Queued
<1>11. QueueInv'
  <2>1. \A x \in Buffer : Queued(x)' => mapState'[x].st = "Waiting"
    BY <1>6, <1>9, <1>10 DEF RequestInv, QueueInv
  <2>2. QED
    BY <1>1, <1>3, <1>9, <2>1 DEF RequestInv, QueueInv
<1>12. PeaceInv'
  <2>1. ASSUME NEW u \in Thread
        PROVE (/\ pc[u] # "mapRestore"
               /\ pc[u] \in {"mapAsyncState", "unmap"} => AtPeace(loc[u].buf)
               /\ pc[u] = "mapAsyncLife" =>
                     mapState[loc[u].buf].st = "Waiting" /\ ~Queued(loc[u].buf)
               /\ pc[u] = "mapSet" => mapState[loc[u].buf].st = "Idle")'
    <3>1. CASE u = t
      BY <1>6, <1>7, <3>1
    <3>2. CASE u # t
      <4>1. pc'[u] = pc[u] /\ loc'[u] = loc[u]
        BY <1>8, <3>2
      <4>2. pc[u] \in AtBuffer => loc[u].buf \in Buffer
        BY DEF TypeInv, ThreadInv, Operands
      <4>3. pc[u] \in {"mapAsyncLife", "mapSet", "mapAsyncState", "unmap"} =>
               loc[u].buf # b /\ mapState'[loc[u].buf] = mapState[loc[u].buf]
        BY <1>4, <1>6, <1>10, <4>2 DEF RequestInv, PeaceInv, AtPeace, AtBuffer
      <4>4. QED
        BY <1>9, <4>1, <4>3 DEF RequestInv, PeaceInv, AtPeace
    <3>3. QED
      BY <3>1, <3>2
  <2>2. \A u, v \in Thread, x \in Buffer : Maps(u, x)' /\ Maps(v, x)' => u = v
    BY <1>9, <1>10 DEF RequestInv, PeaceInv
  <2>3. QED
    BY <2>1, <2>2 DEF PeaceInv
<1>13. CarriesWell'
  BY <1>1, <1>7, <1>8 DEF RequestInv, CarriesWell, Carriers
<1>14. OneAnswer' /\ AnsweredInv'
  <2>1. Asked(b, o) /\ (\A p : p # o => ~Asked(b, p)) /\ \A p : ~Doing(t, p)
    BY <1>1, <1>4, <1>5 DEF Asked, Doing
  <2>2. ~Answering(t, o) /\ Once(loc[t].maps) /\ loc[t].maps \in Seq(MapOp)
    BY <1>1, <2>1 DEF RequestInv, OneAnswer, Locals
  <2>3. \A p : ~Asked(b, p)'
    BY <1>6 DEF Asked
  <2>4. CASE pc'[t] = "mapSet" /\ loc'[t].buf = b /\ loc'[t].op = o /\ loc'[t].maps = loc[t].maps
    <3>1. /\ \A p : Answering(t, p)' <=> Answering(t, p)
          /\ \A p : Doing(t, p)' <=> p = o
      BY <2>4 DEF Answering, Doing
    <3>2. OthersStay(t, b, o)
      BY <1>1, <1>6, <1>7, <2>1, <2>3, <3>1 DEF OthersStay, SameRequests
    <3>3. QED
      BY <2>1, <2>2, <2>3, <2>4, <3>1, <3>2, MoveRequest
  <2>5. CASE pc'[t] = "mapReady" /\ loc'[t].maps = Append(loc[t].maps, o)
    <3>1. /\ \A p : Answering(t, p)' <=> Answering(t, p) \/ p = o
          /\ Once(loc'[t].maps)
      BY <2>2, <2>5, AppendList DEF Answering
    <3>2. \A p : ~Doing(t, p)'
      BY <2>5 DEF Doing
    <3>3. OthersStay(t, b, o)
      BY <1>1, <1>6, <1>7, <2>1, <2>3, <3>1, <3>2 DEF OthersStay, SameRequests
    <3>4. QED
      BY <2>1, <2>3, <3>1, <3>2, <3>3, MoveRequest
  <2>6. QED
    BY <1>7, <2>4, <2>5
<1>15. QED
  BY <1>11, <1>12, <1>13, <1>14 DEF RequestInv

(* A request is answered. *)
LEMMA AnswerKeeps ==
  ASSUME TypeInv, TypeInv', RequestInv, NEW t \in Thread, FireMapping(t)
  PROVE  RequestInv'
<1>1. /\ pc[t] = "fire" /\ ThreadInv /\ loc[t] \in Locals /\ hist \in HistoryType
      /\ loc[t].maps \in Seq(MapOp) /\ loc[t].maps # <<>>
      /\ UNCHANGED <<active, ready, mapState, trackersL>>
  BY LocType DEF FireMapping, TypeInv, Locals, life, buffers, locks
<1>2. PICK o \in MapOp : o = Head(loc[t].maps)
  BY <1>1
<1>3. Others(t) /\ pc'[t] = "fire" /\ loc'[t].maps = Tail(loc[t].maps)
  <2>. DEFINE l == [loc[t] EXCEPT !.maps = Tail(@)]
  <2>1. l.maps = Tail(loc[t].maps) /\ Go(t, "fire", l)
    BY <1>1 DEF FireMapping, Locals
  <2>. HIDE DEF l
  <2>2. QED
    BY <1>1, <2>1, GoAt
<1>4. /\ hist'.maps = hist.maps /\ hist'.mapBuf = hist.mapBuf
      /\ hist'.mapFired[o] = hist.mapFired[o] + 1
      /\ \A p \in MapOp \ {o} : hist'.mapFired[p] = hist.mapFired[p]
  <2>. DEFINE f == [hist.mapFired EXCEPT ![o] = hist.mapFired[o] + 1]
  <2>1. hist' = [hist EXCEPT !.mapFired = f]
    BY <1>2 DEF FireMapping
  <2>2. f[o] = hist.mapFired[o] + 1 /\ \A p \in MapOp \ {o} : f[p] = hist.mapFired[p]
    BY <1>1 DEF HistoryType
  <2>. HIDE DEF f
  <2>3. hist'.maps = hist.maps /\ hist'.mapBuf = hist.mapBuf /\ hist'.mapFired = f
    BY <1>1, <2>1 DEF HistoryType
  <2>4. QED
    BY <2>2, <2>3
<1>5. \A u \in Thread \ {t} : pc'[u] = pc[u] /\ loc'[u] = loc[u]
  BY <1>3 DEF Others
<1>6. /\ \A p : Answering(t, p) <=> p = o \/ Answering(t, p)'
      /\ Once(loc'[t].maps) /\ ~Answering(t, o)' /\ Answering(t, o)
  BY <1>1, <1>2, <1>3, TailList DEF Answering, RequestInv, OneAnswer
<1>7. /\ \A x : /\ \A i : Mapped(i, x)' <=> Mapped(i, x)
                /\ Queued(x)' <=> Queued(x)
                /\ \A u \in Thread : Maps(u, x)' <=> Maps(u, x)
                /\ \A p : Asked(x, p)' <=> Asked(x, p)
      /\ \A p : /\ \A u \in Thread : Doing(u, p)' <=> Doing(u, p)
                /\ \A u \in Thread \ {t} : Answering(u, p)' <=> Answering(u, p)
  BY <1>1, <1>3, <1>5 DEF Mapped, Queued, Within, Maps, Asked, Doing, Answering
<1>8. QueueInv'
  BY <1>1, <1>7 DEF RequestInv, QueueInv
<1>9. PeaceInv'
  <2>1. \A x : AtPeace(x)' <=> AtPeace(x)
    BY <1>1, <1>7 DEF AtPeace
  <2>2. QED
    BY <1>1, <1>3, <1>5, <1>7, <2>1 DEF RequestInv, PeaceInv
<1>10. CarriesWell'
  BY <1>1, <1>3, <1>5 DEF RequestInv, CarriesWell, Carriers
<1>11. OneAnswer'
  <2>1. \A u \in Thread : Once(loc'[u].maps)
    BY <1>5, <1>6 DEF RequestInv, OneAnswer
  <2>2. \A u \in Thread, p \in MapOp : Answering(u, p)' => Answering(u, p)
    BY <1>6, <1>7
  <2>3. ASSUME NEW x \in Buffer, NEW p \in MapOp, Asked(x, p)'
        PROVE hist'.mapBuf[p] = x /\ \A u \in Thread : ~Doing(u, p)' /\ ~Answering(u, p)'
    <3>1. Asked(x, p)
      BY <1>7, <2>3
    <3>2. hist.mapBuf[p] = x /\ \A u \in Thread : ~Doing(u, p) /\ ~Answering(u, p)
      BY <1>1, <3>1 DEF RequestInv, OneAnswer
    <3>3. QED
      BY <1>4, <1>7, <2>2, <3>2
  <2>4. ASSUME NEW u \in Thread, NEW p \in MapOp, Doing(u, p)'
        PROVE /\ hist'.mapBuf[p] = loc'[u].buf
              /\ \A v \in Thread : ~Answering(v, p)' /\ (Doing(v, p)' => u = v)
    <3>1. u # t /\ Doing(u, p) /\ loc'[u] = loc[u]
      BY <1>3, <1>5, <1>7, <2>4 DEF Doing
    <3>2. QED
      BY <1>4, <1>7, <2>2, <3>1 DEF RequestInv, OneAnswer
  <2>5. \A u, v \in Thread, p \in MapOp : Answering(u, p)' /\ Answering(v, p)' => u = v
    BY <2>2 DEF RequestInv, OneAnswer
  <2>6. QED
    BY <2>1, <2>3, <2>4, <2>5 DEF OneAnswer
<1>12. AnsweredInv'
  <2>1. Unanswered(o) /\ ~Unanswered(o)'
    <3>1. \A x \in Buffer : ~Asked(x, o)
      BY <1>6 DEF RequestInv, OneAnswer
    <3>2. \A u \in Thread : ~Doing(u, o) /\ (u # t => ~Answering(u, o))
      BY <1>6 DEF RequestInv, OneAnswer
    <3>3. QED
      BY <1>6, <1>7, <3>1, <3>2 DEF Unanswered
  <2>2. \A p \in MapOp \ {o} : Unanswered(p)' <=> Unanswered(p)
    BY <1>6, <1>7 DEF Unanswered
  <2>3. hist.mapFired[o] = 0 /\ o <= hist.maps
    BY <2>1 DEF RequestInv, AnsweredInv
  <2>4. QED
    BY <1>4, <2>1, <2>2, <2>3 DEF RequestInv, AnsweredInv
<1>13. QED
  BY <1>8, <1>9, <1>10, <1>11, <1>12 DEF RequestInv

-----------------------------------------------------------------------------
(* A step of t that moves buffers between the lists, and no request.       *)
Shuffle(t) ==
    /\ Others(t) /\ SameRequests /\ mapState' = mapState
    /\ loc[t].maps = <<>> /\ loc'[t].maps = <<>>
    /\ pc[t] \notin {"mapAsyncState", "mapSet"}
    /\ pc'[t] \notin AtMapping \cup {"unmap"}
    /\ \A u \in Thread : u # t /\ trackersL = u => trackersL' = u
    /\ \A u \in Thread \ {t} : pc[u] = "mapAsyncLife" => ~Queued(loc[u].buf)'

LEMMA ShuffleKeeps ==
  ASSUME TypeInv, RequestInv, NEW t \in Thread, Shuffle(t), QueueInv' PROVE RequestInv'
<1>1. /\ \A u \in Thread \ {t} : pc'[u] = pc[u] /\ loc'[u] = loc[u]
      /\ \A u \in Thread : loc'[u].maps = loc[u].maps
      /\ mapState' = mapState
      /\ hist'.maps = hist.maps /\ hist'.mapBuf = hist.mapBuf /\ hist'.mapFired = hist.mapFired
  BY DEF Shuffle, Others, SameRequests
<1>2. /\ \A u \in Thread : \A x : Maps(u, x)' <=> Maps(u, x)
      /\ \A x, o : Asked(x, o)' <=> Asked(x, o)
      /\ \A u \in Thread : \A o : /\ Doing(u, o)' <=> Doing(u, o)
                                  /\ Answering(u, o)' <=> Answering(u, o)
  BY <1>1 DEF Maps, Asked, Doing, Answering, Shuffle, AtMapping
<1>3. \A x : AtPeace(x)' <=> AtPeace(x)
  BY <1>1, <1>2 DEF AtPeace
<1>4. PeaceInv'
  BY <1>1, <1>2, <1>3 DEF RequestInv, PeaceInv, Shuffle, AtMapping
<1>5. CarriesWell'
  BY <1>1 DEF RequestInv, CarriesWell, Shuffle
<1>6. OneAnswer'
  <2>1. \A u \in Thread, o \in MapOp : Doing(u, o) => loc'[u].buf = loc[u].buf
    BY <1>1 DEF Doing, Shuffle
  <2>2. QED
    BY <1>1, <1>2, <2>1 DEF RequestInv, OneAnswer
<1>7. AnsweredInv'
  <2>1. \A o : Unanswered(o)' <=> Unanswered(o)
    BY <1>2 DEF Unanswered
  <2>2. QED
    BY <1>1, <2>1 DEF RequestInv, AnsweredInv
<1>8. QED
  BY <1>4, <1>5, <1>6, <1>7 DEF RequestInv

(* Where a map request for b goes. *)
LEMMA MapListed ==
  ASSUME NEW W, NEW list \in Seq(Entries(W)), NEW b \in Buffer, Uses(list, b) # {},
         NEW i, i = LatestUse(list, b)
  PROVE  /\ i \in DOMAIN list /\ DOMAIN MapWithSubmission(list, b) = DOMAIN list
         /\ list[i].mapped \in Seq(Buffer)
         /\ MapWithSubmission(list, b)[i].mapped = Append(list[i].mapped, b)
         /\ \A j \in DOMAIN list : j # i => MapWithSubmission(list, b)[j] = list[j]
<1>. DEFINE m == Append(list[i].mapped, b)
            e == [list[i] EXCEPT !.mapped = m]
<1>1. i \in DOMAIN list /\ list[i] \in Entries(W)
  BY LatestUseFound
<1>2. list[i].mapped \in Seq(Buffer) /\ e.mapped = m
  <2>. HIDE DEF m
  <2>. QED
    BY <1>1 DEF Entries
<1>3. MapWithSubmission(list, b) = [list EXCEPT ![i] = e]
  BY DEF MapWithSubmission
<1>. HIDE DEF e
<1>4. QED
  BY <1>1, <1>2, <1>3

(* The lifetime tracker learns of a request: the buffer is listed with the *)
(* youngest submission that uses it, or ready at once.                     *)
LEMMA ListKeeps ==
  ASSUME TypeInv, TypeInv', NEW c, ClientInv(c), RequestInv, NEW t \in Thread, MapAsyncLife(t)
  PROVE  RequestInv'
<1>1. /\ pc[t] = "mapAsyncLife" /\ loc[t].buf \in Buffer /\ ThreadInv /\ loc[t] \in Locals
      /\ hist \in HistoryType /\ ready \in Seq(Buffer) /\ active \in Seq(Entries(WorkDone))
      /\ UNCHANGED <<mapState, trackersL>>
      /\ Go(t, "idle", Nothing)
  BY LocType DEF MapAsyncLife, Operands, AtBuffer, TypeInv, LifeTypeOK, Submission, locks, buffers
<1>2. PICK b \in Buffer : b = loc[t].buf
  BY <1>1
<1>3. mapState[b].st = "Waiting" /\ ~Queued(b) /\ loc[t].maps = <<>>
  BY <1>1, <1>2 DEF RequestInv, PeaceInv, CarriesWell, Carriers, Releasing
<1>4. active' = MapWithSubmission(active, b) /\ ready' = MapAtOnce(active, ready, b)
  BY <1>2 DEF MapAsyncLife
<1>5. Others(t) /\ pc'[t] = "idle" /\ loc'[t].maps = <<>>
  BY <1>1, GoAt DEF Nothing
<1>6. SameRequests
  <2>. DEFINE f == [hist.mapIndex EXCEPT ![loc[t].op] = LatestSubmissionIndex(active, loc[t].buf)]
  <2>1. hist' = [hist EXCEPT !.mapIndex = f]
    BY DEF MapAsyncLife
  <2>. HIDE DEF f
  <2>2. QED
    BY <1>1, <2>1 DEF HistoryType, SameRequests
<1>7. QueueInv' /\ \A x : Queued(x)' => Queued(x) \/ x = b
  <2>1. CASE Uses(active, b) = {}
    <3>1. active' = active /\ ready' = Append(ready, b)
      BY <1>4, <2>1 DEF MapWithSubmission, MapAtOnce
    <3>2. /\ \A x : Within(ready', x) <=> Within(ready, x) \/ x = b
          /\ Once(ready')
      BY <1>1, <1>3, <3>1, AppendList DEF Queued, RequestInv, QueueInv
    <3>3. \A x : \A i : Mapped(i, x)' <=> Mapped(i, x)
      BY <3>1 DEF Mapped
    <3>4. \A x : Queued(x)' => Queued(x) \/ x = b
      BY <3>1, <3>2, <3>3 DEF Queued
    <3>5. \A i \in DOMAIN active : ~Mapped(i, b)
      BY <1>3 DEF Queued
    <3>6. QED
      BY <1>1, <1>3, <3>1, <3>2, <3>3, <3>4, <3>5 DEF RequestInv, QueueInv
  <2>2. CASE Uses(active, b) # {}
    <3>1. PICK i : i = LatestUse(active, b)
      OBVIOUS
    <3>2. /\ i \in DOMAIN active /\ DOMAIN active' = DOMAIN active /\ ready' = ready
          /\ active[i].mapped \in Seq(Buffer)
          /\ active'[i].mapped = Append(active[i].mapped, b)
          /\ \A j \in DOMAIN active : j # i => active'[j] = active[j]
      BY <1>1, <1>4, <2>2, <3>1, MapListed DEF MapAtOnce
    <3>3. /\ \A x : Mapped(i, x)' <=> Mapped(i, x) \/ x = b
          /\ Once(active'[i].mapped)
      <4>1. Once(active[i].mapped) /\ ~Within(active[i].mapped, b)
        BY <1>3, <3>2 DEF Queued, Mapped, RequestInv, QueueInv
      <4>2. QED
        BY <3>2, <4>1, AppendList DEF Mapped
    <3>4. \A j \in DOMAIN active : j # i => \A x : Mapped(j, x)' <=> Mapped(j, x)
      BY <3>2 DEF Mapped
    <3>5. \A x : Queued(x)' => Queued(x) \/ x = b
      BY <3>2, <3>3, <3>4 DEF Queued
    <3>6. \A x \in Buffer : Queued(x)' => mapState'[x].st = "Waiting"
      BY <1>1, <1>3, <3>5 DEF RequestInv, QueueInv
    <3>7. \A j \in DOMAIN active' : Once(active'[j].mapped)
      BY <3>2, <3>3 DEF RequestInv, QueueInv
    <3>8. ASSUME NEW x \in Buffer, NEW j \in DOMAIN active', Mapped(j, x)'
          PROVE ~Within(ready', x) /\ \A k \in DOMAIN active' : Mapped(k, x)' => j = k
      <4>1. CASE x = b
        <5>1. \A k \in DOMAIN active : ~Mapped(k, b)
          BY <1>3 DEF Queued
        <5>2. ~Within(ready, b)
          BY <1>3 DEF Queued
        <5>3. QED
          BY <3>2, <3>4, <3>8, <4>1, <5>1, <5>2
      <4>2. CASE x # b
        BY <3>2, <3>3, <3>4, <3>8, <4>2 DEF RequestInv, QueueInv
      <4>3. QED
        BY <4>1, <4>2
    <3>9. QED
      BY <3>2, <3>5, <3>6, <3>7, <3>8 DEF RequestInv, QueueInv
  <2>3. QED
    BY <2>1, <2>2
<1>8. \A u \in Thread \ {t} : pc[u] # "mapAsyncLife"
  BY <1>1, ClientSole DEF ClientOnly
<1>9. Shuffle(t)
  BY <1>1, <1>3, <1>5, <1>6, <1>8 DEF Shuffle, AtMapping
<1>10. QED
  BY <1>7, <1>9, ShuffleKeeps

(* Triage passes on the buffers of the head. *)
LEMMA DrainMaps ==
  ASSUME TypeInv, TypeInv', RequestInv, NEW t \in Thread, Triage(t), HeadDone(active, loc[t].done)
  PROVE  RequestInv'
<1>1. /\ ThreadInv /\ loc[t] \in Locals /\ ready \in Seq(Buffer)
      /\ active \in Seq(Entries(WorkDone)) /\ active # <<>> /\ pc[t] = "triage"
      /\ UNCHANGED <<mapState, trackersL, hist>> /\ active' = Tail(active)
  BY LocType DEF TypeInv, LifeTypeOK, Submission, HeadDone, Triage, buffers, locks
<1>2. active[1].mapped \in Seq(Buffer) /\ ready' = ready \o active[1].mapped
  <2>1. Head(active) = active[1] /\ active[1] \in Entries(WorkDone)
    BY <1>1
  <2>2. ready' = ready \o Head(active).mapped
    BY DEF Triage, ReadyAfterHead
  <2>3. QED
    BY <2>1, <2>2 DEF Entries
<1>3. loc[t].maps = <<>>
  BY <1>1 DEF RequestInv, CarriesWell, Carriers, Releasing
<1>4. Others(t) /\ pc'[t] = "triage" /\ loc'[t].maps = <<>>
  <2>1. PICK s : Go(t, "triage", [loc[t] EXCEPT !.works = s])
    BY DEF Triage
  <2>. DEFINE l == [loc[t] EXCEPT !.works = s]
  <2>2. l.maps = <<>> /\ Go(t, "triage", l)
    BY <1>1, <1>3, <2>1 DEF Locals
  <2>. HIDE DEF l
  <2>3. QED
    BY <1>1, <2>2, GoAt
<1>5. /\ 1 \in DOMAIN active
      /\ \A j \in DOMAIN active' :
            j \in Nat /\ j + 1 \in DOMAIN active /\ j + 1 # 1 /\ active'[j] = active[j + 1]
      /\ \A j \in DOMAIN active : j # 1 => j - 1 \in DOMAIN active' /\ active'[j - 1] = active[j]
      /\ \A i, j \in DOMAIN active' : i + 1 = j + 1 => i = j
  BY <1>1
<1>6. /\ \A x : Within(ready', x) <=> Within(ready, x) \/ Mapped(1, x)
      /\ Once(ready')
  <2>1. Once(ready) /\ Once(active[1].mapped)
        /\ \A x \in Buffer : ~(Within(ready, x) /\ Mapped(1, x))
    BY <1>5 DEF RequestInv, QueueInv
  <2>2. QED
    BY <1>1, <1>2, <2>1, JoinList DEF Mapped
<1>7. \A x : \A j \in DOMAIN active' : Mapped(j, x)' <=> Mapped(j + 1, x)
  BY <1>5 DEF Mapped
<1>8. \A x : Queued(x)' => Queued(x)
  BY <1>5, <1>6, <1>7 DEF Queued
<1>9. QueueInv'
  <2>1. \A j \in DOMAIN active' : Once(active'[j].mapped)
    BY <1>5 DEF RequestInv, QueueInv
  <2>2. \A x \in Buffer : Queued(x)' => mapState'[x].st = "Waiting"
    BY <1>1, <1>8 DEF RequestInv, QueueInv
  <2>3. ASSUME NEW x \in Buffer, NEW j \in DOMAIN active', Mapped(j, x)'
        PROVE ~Within(ready', x) /\ \A k \in DOMAIN active' : Mapped(k, x)' => j = k
    <3>1. j + 1 \in DOMAIN active /\ j + 1 # 1 /\ Mapped(j + 1, x)
      BY <1>5, <1>7, <2>3
    <3>2. /\ ~Within(ready, x) /\ ~Mapped(1, x)
          /\ \A k \in DOMAIN active : Mapped(k, x) => j + 1 = k
      BY <1>5, <3>1 DEF RequestInv, QueueInv
    <3>3. QED
      BY <1>5, <1>6, <1>7, <3>2
  <2>4. QED
    BY <1>6, <2>1, <2>2, <2>3 DEF QueueInv
<1>10. \A u \in Thread \ {t} : pc[u] = "mapAsyncLife" => ~Queued(loc[u].buf)'
  <2>1. ASSUME NEW u \in Thread \ {t}, pc[u] = "mapAsyncLife" PROVE ~Queued(loc[u].buf)'
    <3>1. ~Queued(loc[u].buf) /\ loc'[u] = loc[u]
      BY <1>4, <2>1 DEF RequestInv, PeaceInv, Others
    <3>2. QED
      BY <1>8, <3>1
  <2>2. QED
    BY <2>1
<1>11. Shuffle(t)
  BY <1>1, <1>3, <1>4, <1>10 DEF Shuffle, SameRequests, AtMapping
<1>12. QED
  BY <1>9, <1>11, ShuffleKeeps

(* A submission is registered, with nothing to map yet. *)
LEMMA RegisterMaps ==
  ASSUME TypeInv, TypeInv', RequestInv, NEW t \in Thread, SubmitTrack(t)
  PROVE  RequestInv'
<1>. DEFINE new == Entry(loc[t].idx, loc[t].used, loc[t].tmp)
<1>1. /\ ThreadInv /\ active \in Seq(Entries(WorkDone)) /\ hist \in HistoryType
      /\ pc[t] = "submitTrack" /\ UNCHANGED <<ready, mapState, trackersL>>
      /\ active' = Append(active, new) /\ Go(t, "maintain", Nothing)
  BY DEF TypeInv, LifeTypeOK, Submission, SubmitTrack, TrackSubmission, buffers, locks
<1>2. new.mapped = <<>>
  BY DEF Entry
<1>. HIDE DEF new
<1>3. /\ DOMAIN active' = DOMAIN active \cup {Len(active) + 1}
      /\ active'[Len(active) + 1] = new
      /\ \A i \in DOMAIN active : active'[i] = active[i] /\ i # Len(active) + 1
  BY <1>1
<1>4. loc[t].maps = <<>>
  BY <1>1 DEF RequestInv, CarriesWell, Carriers, Releasing
<1>5. Others(t) /\ pc'[t] = "maintain" /\ loc'[t].maps = <<>>
  BY <1>1, GoAt DEF Nothing
<1>6. SameRequests
  BY <1>1 DEF SubmitTrack, HistoryType, SameRequests
<1>7. /\ \A x : \A i \in DOMAIN active : Mapped(i, x)' <=> Mapped(i, x)
      /\ \A x : \A i \in DOMAIN active' : Mapped(i, x)' => i \in DOMAIN active /\ Mapped(i, x)
  <2>1. \A x : ~Within(active'[Len(active) + 1].mapped, x)
    BY <1>2, <1>3, EmptyList
  <2>2. QED
    BY <1>3, <2>1 DEF Mapped
<1>8. \A x : Queued(x)' <=> Queued(x)
  BY <1>1, <1>3, <1>7 DEF Queued
<1>9. QueueInv'
  <2>1. \A i \in DOMAIN active' : Once(active'[i].mapped)
    BY <1>2, <1>3, EmptyList DEF RequestInv, QueueInv
  <2>2. QED
    BY <1>1, <1>7, <1>8, <2>1 DEF RequestInv, QueueInv
<1>10. \A u \in Thread \ {t} : pc[u] = "mapAsyncLife" => ~Queued(loc[u].buf)'
  <2>1. ASSUME NEW u \in Thread \ {t}, pc[u] = "mapAsyncLife" PROVE ~Queued(loc[u].buf)'
    <3>1. ~Queued(loc[u].buf) /\ loc'[u] = loc[u]
      BY <1>5, <2>1 DEF RequestInv, PeaceInv, Others
    <3>2. QED
      BY <1>8, <3>1
  <2>2. QED
    BY <2>1
<1>11. Shuffle(t)
  BY <1>1, <1>4, <1>5, <1>6, <1>10 DEF Shuffle, AtMapping
<1>12. QED
  BY <1>9, <1>11, ShuffleKeeps

LEMMA InitRequests == Init => RequestInv
<1>1. SUFFICES ASSUME Init PROVE RequestInv
  OBVIOUS
<1>2. /\ active = <<>> /\ ready = <<>> /\ \A t \in Thread : pc[t] = "idle" /\ loc[t] = Nothing
      /\ \A b \in Buffer : mapState[b].st \in {"Init", "Idle"}
      /\ hist.maps = 0 /\ \A o \in MapOp : hist.mapFired[o] = 0
  BY <1>1 DEF Init, NoHistory, Idle
<1>3. Nothing.maps = <<>>
  BY DEF Nothing
<1>4. QueueInv
  BY <1>2, EmptyList DEF QueueInv, Queued
<1>5. PeaceInv
  BY <1>2 DEF PeaceInv, Maps
<1>6. CarriesWell
  BY <1>2, <1>3 DEF CarriesWell
<1>7. /\ \A b \in Buffer, o \in MapOp : ~Asked(b, o)
      /\ \A t \in Thread, o \in MapOp : ~Doing(t, o) /\ ~Answering(t, o)
  BY <1>2, <1>3, EmptyList DEF Asked, Doing, Answering
<1>8. OneAnswer
  BY <1>2, <1>3, <1>7, EmptyList DEF OneAnswer
<1>9. AnsweredInv
  <2>1. \A o \in MapOp : ~(o <= 0)
    BY DEF MapOp
  <2>2. QED
    BY <1>2, <1>7, <2>1, BoundAssumption DEF AnsweredInv, Unanswered
<1>10. QED
  BY <1>4, <1>5, <1>6, <1>8, <1>9 DEF RequestInv

LEMMA NextRequests ==
  ASSUME NEW c \in Thread, SoleClient(c)
  PROVE  /\ TypeInv /\ TypeInv' /\ ClosureInv /\ ClientInv(c) /\ RequestInv /\ [Next]_vars
         => RequestInv'
<1>1. SUFFICES ASSUME TypeInv, TypeInv', ClosureInv, ClientInv(c), RequestInv, [Next]_vars
               PROVE  RequestInv'
  OBVIOUS
<1>2. CASE UNCHANGED vars \/ GpuComplete \/ LoseElsewhere
  <2>1. UNCHANGED <<active, ready, mapState, trackersL, pc, loc>>
    BY <1>2 DEF vars, GpuComplete, LoseElsewhere, life, buffers, locks
  <2>2. SameRequests
    <3>. DEFINE n == hist.lostFired + (IF lostClosure THEN 1 ELSE 0)
    <3>1. hist' = hist \/ hist' = [hist EXCEPT !.halFailed = TRUE, !.lostFired = n]
      BY <1>2 DEF vars, GpuComplete, LoseElsewhere, Lose
    <3>2. hist \in HistoryType
      BY <1>1 DEF TypeInv
    <3>. HIDE DEF n
    <3>3. QED
      BY <3>1, <3>2 DEF HistoryType, SameRequests
  <2>3. /\ \A b, o : Asked(b, o)' <=> Asked(b, o)
        /\ \A t, o : (Doing(t, o)' <=> Doing(t, o)) /\ (Answering(t, o)' <=> Answering(t, o))
        /\ \A b : (Queued(b)' <=> Queued(b)) /\ \A i : Mapped(i, b)' <=> Mapped(i, b)
        /\ \A t, b : Maps(t, b)' <=> Maps(t, b)
    BY <2>1 DEF Asked, Doing, Answering, Queued, Mapped, Maps
  <2>4. \A o : Unanswered(o)' <=> Unanswered(o)
    BY <2>3 DEF Unanswered
  <2>5. \A b : AtPeace(b)' <=> AtPeace(b)
    BY <2>1, <2>3 DEF AtPeace
  <2>6. QueueInv'
    BY <1>1, <2>1, <2>3 DEF RequestInv, QueueInv
  <2>7. PeaceInv'
    BY <1>1, <2>1, <2>3, <2>5 DEF RequestInv, PeaceInv
  <2>8. CarriesWell'
    BY <1>1, <2>1 DEF RequestInv, CarriesWell
  <2>9. OneAnswer'
    BY <1>1, <2>1, <2>2, <2>3 DEF RequestInv, OneAnswer, SameRequests
  <2>10. AnsweredInv'
    BY <1>1, <2>2, <2>4 DEF RequestInv, AnsweredInv, SameRequests
  <2>11. QED
    BY <2>6, <2>7, <2>8, <2>9, <2>10 DEF RequestInv
<1>3. ASSUME NEW t \in Thread, Call(t) PROVE RequestInv'
  BY <1>1, <1>3, CallAside, AsideKeeps, AskKeeps DEF SoleClient
<1>4. ASSUME NEW t \in Thread, SubmitStep(t) PROVE RequestInv'
  BY <1>1, <1>4, SubmitAside, AsideKeeps, RegisterMaps
<1>5. ASSUME NEW t \in Thread, MaintainStep(t) PROVE RequestInv'
  BY <1>1, <1>5, MaintainAside, AsideKeeps, DrainMaps, ReadyKeeps, MapKeeps
<1>6. ASSUME NEW t \in Thread, BufferStep(t) \/ FireStep(t) PROVE RequestInv'
  BY <1>1, <1>6, BufferAside, AsideKeeps, BeginKeeps, ListKeeps, AnswerKeeps
<1>7. QED
  BY <1>1, <1>2, <1>3, <1>4, <1>5, <1>6 DEF Next, Step

(***************************************************************************)
(* A map request is in one place until it is answered, and every place it  *)
(* can be leads to its answer.                                             *)
(***************************************************************************)
THEOREM Requests ==
  ASSUME NEW c \in Thread, SoleClient(c) PROVE Spec => []RequestInv
<1>1. TypeInv /\ TypeInv' /\ ClosureInv /\ ClientInv(c) /\ RequestInv /\ [Next]_vars => RequestInv'
  BY NextRequests
<1>2. Spec => []ClientInv(c)
  BY ClientAlone
<1>3. QED
  BY <1>1, <1>2, InitRequests, Types, Closures, PTL DEF Spec

(***************************************************************************)
(* "`op.callback` is guaranteed to be called" (global.rs:2066), as far as  *)
(* safety goes.                                                            *)
(***************************************************************************)
THEOREM CallbacksKept ==
  ASSUME NEW c \in Thread, SoleClient(c) PROVE Spec => []MapCallbackKept
<1>1. TypeInv /\ RequestInv => MapCallbackKept
  <2>1. SUFFICES ASSUME TypeInv, RequestInv, NEW o \in 1..hist.maps
                 PROVE \/ hist.mapFired[o] = 1
                       \/ /\ hist.mapFired[o] = 0
                          /\ \/ \E b \in Buffer : mapState[b] = [st |-> "Waiting", op |-> o]
                             \/ \E t \in Thread :
                                   \/ loc[t].op = o /\ pc[t] \in {"mapAsyncState", "mapSet"}
                                   \/ \E i \in DOMAIN loc[t].maps : loc[t].maps[i] = o
    BY DEF MapCallbackKept
  <2>2. o \in MapOp /\ o <= hist.maps
    BY <2>1, BoundAssumption DEF RequestInv, AnsweredInv, TypeInv, HistoryType, MapOp
  <2>3. CASE Unanswered(o)
    <3>1. hist.mapFired[o] = 0
      BY <2>1, <2>2, <2>3 DEF RequestInv, AnsweredInv
    <3>2. \A b \in Buffer : Asked(b, o) => mapState[b] = [st |-> "Waiting", op |-> o]
      BY <2>1 DEF Asked, TypeInv, BufferInv, BufferTypeOK
    <3>3. QED
      BY <2>3, <3>1, <3>2 DEF Unanswered, Doing, Answering, Within
  <2>4. CASE ~Unanswered(o)
    BY <2>1, <2>2, <2>4 DEF RequestInv, AnsweredInv
  <2>5. QED
    BY <2>3, <2>4
<1>2. Spec => []RequestInv
  BY Requests
<1>3. QED
  BY <1>1, <1>2, Types, PTL

-----------------------------------------------------------------------------
(* A submission the lifetime tracker has uses b; t is making one that does. *)
Used(b) == \E i \in DOMAIN active : b \in active[i].bufs
Submits(t, b) == pc[t] \in Submitting /\ b \in loc[t].used

(* b is mapped, being mapped, or to be mapped next. *)
Free(b) == mapState[b].st = "Active" \/ Within(ready, b) \/ \E t \in Thread : Maps(t, b)

(* What can be mapped is in use by the queue or free of it, and what waits *)
(* to be mapped waits for the youngest submission that uses it.            *)
SeparateInv ==
    /\ \A t \in Thread : pc[t] = "submitFence" => loc[t].used = {}
    /\ \A b \in Buffer : Free(b) => ~Used(b)
    /\ \A b \in Buffer, i, j \in DOMAIN active : Mapped(i, b) /\ i < j => b \notin active[j].bufs
    /\ \A t \in Thread, b \in Mappable : Submits(t, b) => mapState[b].st = "Idle"

(* A step that lists no buffer elsewhere, and frees none but what was.     *)
LEMMA StillSeparate ==
  ASSUME SeparateInv, NEW t \in Thread, Others(t), SameQueues(active, active'),
         pc'[t] = "submitFence" => loc'[t].used = {},
         \A b \in Buffer : Free(b)' => Free(b),
         \A u \in Thread, b \in Mappable : Submits(u, b)' => mapState'[b].st = "Idle"
  PROVE  SeparateInv'
<1>1. /\ \A b : Used(b)' <=> Used(b)
      /\ \A b : \A i \in DOMAIN active : Mapped(i, b)' <=> Mapped(i, b)
      /\ DOMAIN active' = DOMAIN active
      /\ \A i \in DOMAIN active : active'[i].bufs = active[i].bufs
  BY DEF SameQueues, SameSubmissions, Used, Mapped
<1>2. \A u \in Thread : pc'[u] = "submitFence" => loc'[u].used = {}
  BY DEF SeparateInv, Others
<1>3. \A b \in Buffer : Free(b)' => ~Used(b)'
  BY <1>1 DEF SeparateInv
<1>4. \A b \in Buffer, i, j \in DOMAIN active' : Mapped(i, b)' /\ i < j => b \notin active'[j].bufs
  BY <1>1 DEF SeparateInv
<1>5. QED
  BY <1>2, <1>3, <1>4 DEF SeparateInv

(* What leaves the requests where they are. *)
LEMMA AsideSeparate ==
  ASSUME TypeInv, SeparateInv, NEW t \in Thread, Aside(t),
         pc'[t] = "submitFence" => loc'[t].used = {},
         \A b \in Mappable : Submits(t, b)' => mapState'[b].st = "Idle"
  PROVE  SeparateInv'
<1>1. Mappable \subseteq Buffer
  BY UsageAssumption
<1>2. \A b \in Buffer : Free(b)' => Free(b)
  BY DEF Free, Aside, Others, Maps, AtMapping
<1>3. \A u \in Thread, b \in Mappable : Submits(u, b)' => mapState'[b].st = "Idle"
  <2>1. \A u \in Thread \ {t}, b \in Mappable : Submits(u, b)' => Submits(u, b)
    BY DEF Submits, Aside, Others
  <2>2. QED
    BY <1>1, <2>1 DEF SeparateInv, Aside
<1>4. QED
  BY <1>2, <1>3, StillSeparate DEF Aside

(* Only submit goes where a submission is made. *)
LEMMA NotSubmitting ==
  ASSUME TypeInv, NEW t \in Thread, MaintainStep(t) \/ BufferStep(t) \/ FireStep(t)
  PROVE  pc'[t] \notin Submitting \cup {"submitFence"}
<1>1. ThreadInv
  BY DEF TypeInv
<1>2. ASSUME NEW w, NEW l, Go(t, w, l), w \notin Submitting \cup {"submitFence"}
      PROVE pc'[t] \notin Submitting \cup {"submitFence"}
  BY <1>1, <1>2, GoAt
<1> USE DEF Submitting
<1>3. CASE FireStep(t)
  BY <1>2, <1>3 DEF FireStep, FireMapping, FireWorkDone, FireLost, Fired
<1>4. CASE WritePending(t) \/ WriteTrack(t) \/ WriteCheck(t)
  BY <1>2, <1>4 DEF WritePending, WriteTrack, WriteCheck, LeaveWrite
<1>5. CASE MapAsyncState(t) \/ MapAsyncLife(t)
  BY <1>2, <1>5 DEF MapAsyncState, MapAsyncLife
<1>6. CASE Unmap(t) \/ UnmapInit(t)
  BY <1>2, <1>6 DEF Unmap, UnmapInit
<1>7. CASE DestroySnatch(t) \/ DestroyPending(t) \/ DestroyLife(t)
  BY <1>2, <1>7 DEF DestroySnatch, DestroyPending, DestroyLife, LeaveDestroy
<1>8. CASE PollFence(t) \/ MaintainBegin(t) \/ MaintainWait(t) \/ MaintainFence(t)
           \/ MaintainHalFails(t) \/ MaintainLock(t) \/ Triage(t)
  BY <1>2, <1>8 DEF PollFence, MaintainBegin, MaintainWait, MaintainFence, MaintainHalFails,
                    MaintainLock, Triage, LeaveMaintain
<1>9. CASE MapReady(t) \/ MapSet(t) \/ MapHalFails(t) \/ MapRestore(t)
  BY <1>2, <1>9 DEF MapReady, MapSet, MapHalFails, MapRestore
<1>10. CASE MaintainUnlock(t) \/ MaintainResult(t) \/ ReleaseLock(t) \/ ReleaseNext(t)
            \/ ReleaseDone(t)
  <2>1. \E w, l : /\ w \in {"maintainResult", "panicked", "releaseLock", "fire", "releaseNext",
                            "destroySnatch"}
                 /\ Go(t, w, l)
    <3>1. CASE MaintainUnlock(t) \/ MaintainResult(t)
      BY <3>1 DEF MaintainUnlock, MaintainResult
    <3>2. CASE ReleaseLock(t) \/ ReleaseDone(t)
      BY <3>2 DEF ReleaseLock, ReleaseDone
    <3>3. CASE ReleaseNext(t)
      <4>1. PICK b : \/ Go(t, "destroySnatch", [loc[t] EXCEPT !.todo = @ \ {b}, !.buf = b])
                     \/ Go(t, "releaseNext", [loc[t] EXCEPT !.todo = @ \ {b}, !.buf = NoBuffer])
        BY <3>3 DEF ReleaseNext
      <4>2. QED
        BY <4>1
    <3>4. QED
      BY <1>10, <3>1, <3>2, <3>3
  <2>2. QED
    BY <1>2, <2>1
<1>11. QED
  BY <1>3, <1>4, <1>5, <1>6, <1>7, <1>8, <1>9, <1>10 DEF BufferStep, MaintainStep

(* A call begins with no buffer in use. *)
LEMMA CallSeparate ==
  ASSUME TypeInv, NEW t \in Thread, Call(t)
  PROVE  /\ pc'[t] = "submitFence" => loc'[t].used = {}
         /\ \A b : ~Submits(t, b)'
<1>1. ThreadInv
  BY DEF TypeInv
<1>2. CASE CallSubmit(t)
  <2>1. PICK batch : Go(t, "submitFence", [Nothing EXCEPT !.cmds = batch])
    BY <1>2 DEF CallSubmit
  <2>2. pc'[t] = "submitFence" /\ loc'[t] = [Nothing EXCEPT !.cmds = batch]
    BY <1>1, <2>1, GoAt
  <2>3. loc'[t].used = {}
    BY <2>2 DEF Nothing
  <2>4. QED
    BY <2>2, <2>3 DEF Submits
<1>3. CASE ~CallSubmit(t)
  <2>1. pc'[t] \in {"idle", "pollFence", "writePending", "mapAsyncState", "fire", "unmap"}
    <3>1. ASSUME NEW w \in {"pollFence", "writePending", "mapAsyncState", "fire", "unmap"}, NEW l,
                 Go(t, w, l)
          PROVE pc'[t] = w
      BY <1>1, <3>1, GoAt
    <3>2. CASE CallPoll(t) \/ CallWait(t) \/ CallWrite(t)
      BY <3>1, <3>2 DEF CallPoll, CallWait, CallWrite
    <3>3. CASE CallMapAsync(t)
      BY <3>1, <3>3 DEF CallMapAsync
    <3>4. CASE CallUnmap(t) \/ CallDestroy(t) \/ CallDrop(t)
      BY <3>1, <3>4 DEF CallUnmap, CallDestroy, CallDrop
    <3>5. CASE CallWorkDone(t) \/ CallDestroyDevice(t)
      BY <3>5 DEF CallWorkDone, CallDestroyDevice, MayCall
    <3>6. QED
      BY <1>3, <3>2, <3>3, <3>4, <3>5 DEF Call
  <2>2. QED
    BY <2>1 DEF Submits, Submitting
<1>4. QED
  BY <1>2, <1>3

(* A submission takes buffers that are not mapped, and what was written,   *)
(* which cannot be.                                                        *)
LEMMA SubmitSeparate ==
  ASSUME TypeInv, NEW c, ClientInv(c), RequestInv, SeparateInv, NEW t \in Thread,
         SubmitStep(t), ~SubmitTrack(t)
  PROVE  SeparateInv'
<1>1. ThreadInv /\ loc[t] \in Locals /\ Aside(t)
  BY LocType, SubmitAside DEF TypeInv
<1>2. \A b \in Mappable : Submits(t, b) => mapState'[b].st = "Idle"
  BY <1>1, UsageAssumption DEF SeparateInv, Aside
<1>3. mapState' = mapState
  BY DEF SubmitStep, SubmitFence, SubmitPrepare, SubmitReject, SubmitHal, SubmitHalFails, buffers
<1>4. CASE SubmitFence(t)
  <2>1. loc[t].used = {}
    BY <1>4 DEF SubmitFence, SeparateInv
  <2>2. PICK w, l : Go(t, w, l) /\ l.used = {} /\ w \in {"submitPrepare", "idle"}
    <3>1. \A x : [loc[t] EXCEPT !.idx = x].used = {}
      BY <1>1, <2>1 DEF Locals
    <3>2. Nothing.used = {}
      BY DEF Nothing
    <3>3. QED
      BY <1>4, <3>1, <3>2 DEF SubmitFence
  <2>3. pc'[t] # "submitFence" /\ loc'[t].used = {}
    BY <1>1, <2>2, GoAt
  <2>4. QED
    BY <1>1, <2>3, AsideSeparate DEF Submits
<1>5. CASE SubmitPrepare(t)
  <2>. DEFINE l == [loc[t] EXCEPT !.cmds = Tail(@), !.used = @ \cup Head(loc[t].cmds)]
  <2>1. l.used = loc[t].used \cup Head(loc[t].cmds) /\ Go(t, "submitPrepare", l)
    BY <1>1, <1>5 DEF SubmitPrepare, Locals
  <2>. HIDE DEF l
  <2>2. pc[t] = "submitPrepare" /\ pc'[t] = "submitPrepare"
        /\ loc'[t].used = loc[t].used \cup Head(loc[t].cmds)
    BY <1>1, <1>5, <2>1, GoAt DEF SubmitPrepare
  <2>3. \A b \in Head(loc[t].cmds) : mapState[b].st = "Idle"
    BY <1>5 DEF SubmitPrepare, CommandBufferValid
  <2>4. \A b \in Mappable : Submits(t, b)' => mapState'[b].st = "Idle"
    BY <1>2, <1>3, <2>2, <2>3 DEF Submits, Submitting
  <2>5. QED
    BY <1>1, <2>2, <2>4, AsideSeparate
<1>6. CASE SubmitReject(t) \/ SubmitHalFails(t)
  <2>1. pc'[t] = "idle"
    BY <1>1, <1>6, GoAt DEF SubmitReject, SubmitHalFails
  <2>2. QED
    BY <1>1, <2>1, AsideSeparate DEF Submits, Submitting
<1>7. CASE SubmitHal(t)
  <2>. DEFINE all == loc[t].used \cup (IF recording THEN dst ELSE {})
              tmp == IF recording THEN temps ELSE {}
              l == [loc[t] EXCEPT !.used = all, !.tmp = tmp]
  <2>1. Go(t, "submitTrack", l) /\ pc[t] = "submitPrepare"
    BY <1>7 DEF SubmitHal
  <2>2. l.used = all
    <3>. HIDE DEF all, tmp
    <3>1. QED
      BY <1>1 DEF Locals
  <2>. HIDE DEF l
  <2>3. pc'[t] = "submitTrack" /\ loc'[t].used = all
    BY <1>1, <2>1, <2>2, GoAt
  <2>4. \A b \in Mappable : b \in all => b \in loc[t].used
    BY DEF ClientInv
  <2>. HIDE DEF all
  <2>5. \A b \in Mappable : Submits(t, b)' => mapState'[b].st = "Idle"
    BY <1>2, <2>1, <2>3, <2>4 DEF Submits, Submitting
  <2>6. QED
    BY <1>1, <2>3, <2>5, AsideSeparate
<1>8. QED
  BY <1>4, <1>5, <1>6, <1>7 DEF SubmitStep

(* A buffer that is mapped leaves one place where it is free for the next. *)
LEMMA MapSeparate ==
  ASSUME TypeInv, SubmissionInv, EndInv, NEW c, ClientInv(c), RequestInv, SeparateInv,
         NEW t \in Thread,
         MapReady(t) \/ MapSet(t) \/ MapHalFails(t) \/ MapAsyncState(t) \/ FireMapping(t)
  PROVE  SeparateInv'
<1>1. /\ ThreadInv /\ loc[t] \in Locals /\ active \in Seq(Entries(WorkDone)) /\ ready \in Seq(Buffer)
      /\ mapState \in [Buffer -> [st : MapStatus, op : 0..MaxMap]]
      /\ pc'[t] \notin Submitting \cup {"submitFence"}
      /\ pc[t] \in AtBuffer => loc[t].buf \in Buffer
      /\ Mappable \subseteq Buffer
  BY LocType, NotSubmitting, UsageAssumption
     DEF TypeInv, LifeTypeOK, Submission, BufferInv, BufferTypeOK, MaintainStep, BufferStep,
         FireStep, Operands
<1>2. active' = active /\ SameQueues(active, active')
  <2>1. active' = active
    BY DEF MapReady, MapSet, MapHalFails, MapAsyncState, FireMapping, life
  <2>2. QED
    BY <1>1, <2>1, AttachedQueues
<1>3. /\ Others(t)
      /\ pc[t] # "mapReady" => pc'[t] # "mapSet"
      /\ pc'[t] = "mapSet" => loc'[t].buf = Head(ready)
  <2>1. CASE MapReady(t)
    <3>. DEFINE l == [loc[t] EXCEPT !.buf = Head(ready), !.op = mapState[Head(ready)].op]
    <3>1. l.buf = Head(ready)
      BY <1>1 DEF Locals
    <3>2. \/ Go(t, "mapSet", l) \/ Go(t, "mapRestore", l)
          \/ \E w \in {"panicked", "mapReady"}, m \in {loc[t], [loc[t] EXCEPT
                  !.maps = Append(@, mapState[Head(ready)].op)]} : Go(t, w, m)
      BY <2>1 DEF MapReady
    <3>. HIDE DEF l
    <3>3. QED
      BY <1>1, <2>1, <3>1, <3>2, GoAt DEF MapReady
  <2>2. CASE MapSet(t) \/ MapHalFails(t)
    <3>1. PICK l : Go(t, "mapReady", l)
      BY <2>2 DEF MapSet, MapHalFails
    <3>2. QED
      BY <1>1, <3>1, GoAt
  <2>3. CASE MapAsyncState(t)
    BY <1>1, <2>3, GoAt DEF MapAsyncState
  <2>4. CASE FireMapping(t)
    BY <1>1, <2>4, GoAt DEF FireMapping
  <2>5. QED
    BY <2>1, <2>2, <2>3, <2>4
<1>4. \A u \in Thread \ {t} : \A b : /\ Submits(u, b)' <=> Submits(u, b)
                                     /\ Maps(u, b)' <=> Maps(u, b)
  BY <1>3 DEF Others, Submits, Maps
<1>5. \A b : ~Submits(t, b)'
  BY <1>1 DEF Submits
<1>6. CASE MapReady(t)
  <2>1. /\ Head(ready) \in Buffer /\ pc[t] = "mapReady"
        /\ \A x : Within(ready', x) => Within(ready, x)
        /\ Within(ready, Head(ready))
    BY <1>1, <1>6, TailList DEF MapReady
  <2>2. \A x \in Buffer : mapState'[x] = mapState[x] \/ mapState'[x].st = "Idle"
    <3>1. mapState' = [mapState EXCEPT ![Head(ready)] = Idle]
      BY <1>6 DEF MapReady
    <3>2. QED
      BY <1>1, <2>1, <3>1 DEF Idle
  <2>3. \A b \in Buffer : Maps(t, b)' => Within(ready, b)
    BY <1>3, <2>1 DEF Maps
  <2>4. \A b \in Buffer : Free(b)' => Free(b)
    BY <1>4, <2>1, <2>2, <2>3 DEF Free
  <2>5. \A u \in Thread, b \in Mappable : Submits(u, b)' => mapState'[b].st = "Idle"
    BY <1>1, <1>4, <1>5, <2>2 DEF SeparateInv
  <2>6. QED
    BY <1>1, <1>2, <1>3, <2>4, <2>5, StillSeparate
<1>7. CASE MapSet(t) \/ MapHalFails(t)
  <2>1. pc[t] = "mapSet" /\ loc[t].buf \in Buffer /\ ready' = ready /\ pc'[t] # "mapSet"
    BY <1>1, <1>3, <1>7 DEF MapSet, MapHalFails, AtBuffer, life
  <2>2. \A u \in Thread : \A b : ~Submits(u, b)'
    BY <1>4, <1>5, <2>1, NoneSubmits DEF FenceReaders, Submits
  <2>3. /\ \A x \in Buffer : x # loc[t].buf => mapState'[x] = mapState[x]
        /\ Maps(t, loc[t].buf)
    BY <1>1, <1>7, <2>1 DEF MapSet, MapHalFails, Maps, buffers
  <2>4. \A b \in Buffer : Free(b)' => Free(b)
    BY <1>4, <2>1, <2>3 DEF Free, Maps
  <2>5. QED
    BY <1>1, <1>2, <1>3, <2>2, <2>4, StillSeparate
<1>8. CASE MapAsyncState(t)
  <2>1. pc[t] = "mapAsyncState" /\ loc[t].buf \in Buffer /\ ready' = ready
    BY <1>1, <1>8 DEF MapAsyncState, AtBuffer, life
  <2>2. \A u \in Thread : \A b : ~Submits(u, b)'
    BY <1>4, <1>5, <2>1, ClientSole DEF ClientOnly, Submitting, Submits
  <2>3. \A x \in Buffer : mapState'[x] = mapState[x] \/ mapState'[x].st = "Waiting"
    BY <1>1, <1>8, <2>1 DEF MapAsyncState
  <2>4. \A b \in Buffer : ~Maps(t, b)'
    BY <1>3, <2>1 DEF Maps
  <2>5. \A b \in Buffer : Free(b)' => Free(b)
    BY <1>4, <2>1, <2>3, <2>4 DEF Free
  <2>6. QED
    BY <1>1, <1>2, <1>3, <2>2, <2>5, StillSeparate
<1>9. CASE FireMapping(t)
  <2>1. pc[t] = "fire" /\ ready' = ready /\ mapState' = mapState
    BY <1>9 DEF FireMapping, life, buffers
  <2>2. \A b \in Buffer : ~Maps(t, b)'
    BY <1>3, <2>1 DEF Maps
  <2>3. \A b \in Buffer : Free(b)' => Free(b)
    BY <1>4, <2>1, <2>2 DEF Free
  <2>4. \A u \in Thread, b \in Mappable : Submits(u, b)' => mapState'[b].st = "Idle"
    BY <1>4, <1>5, <2>1 DEF SeparateInv
  <2>5. QED
    BY <1>1, <1>2, <1>3, <2>3, <2>4, StillSeparate
<1>10. QED
  BY <1>6, <1>7, <1>8, <1>9

(* A buffer that is listed waits for the youngest submission that uses it. *)
LEMMA ListSeparate ==
  ASSUME TypeInv, NEW c, ClientInv(c), RequestInv, SeparateInv, NEW t \in Thread, MapAsyncLife(t)
  PROVE  SeparateInv'
<1>1. /\ ThreadInv /\ pc[t] = "mapAsyncLife" /\ loc[t].buf \in Buffer
      /\ ready \in Seq(Buffer) /\ active \in Seq(Entries(WorkDone))
      /\ mapState' = mapState /\ Go(t, "idle", Nothing)
  BY DEF MapAsyncLife, Operands, AtBuffer, TypeInv, ThreadInv, LifeTypeOK, Submission, buffers
<1>2. PICK b \in Buffer : b = loc[t].buf
  BY <1>1
<1>3. active' = MapWithSubmission(active, b) /\ ready' = MapAtOnce(active, ready, b)
  BY <1>2 DEF MapAsyncLife
<1>4. Others(t) /\ pc'[t] = "idle"
  BY <1>1, GoAt
<1>5. \A u \in Thread \ {t} : pc'[u] = pc[u] /\ loc'[u] = loc[u]
  BY <1>4 DEF Others
<1>6. SameSubmissions(active, active')
  BY <1>1, <1>3, Attached
<1>7. /\ \A x : Used(x)' <=> Used(x)
      /\ DOMAIN active' = DOMAIN active
      /\ \A i \in DOMAIN active : active'[i].bufs = active[i].bufs
  BY <1>6 DEF SameSubmissions, Used
<1>8. \A u \in Thread : \A x : /\ Maps(u, x)' => Maps(u, x)
                               /\ Submits(u, x)' => Submits(u, x)
  BY <1>4, <1>5 DEF Maps, Submits, Submitting
<1>9. \A u \in Thread : pc'[u] = "submitFence" => loc'[u].used = {}
  BY <1>4, <1>5 DEF SeparateInv
<1>10. \A u \in Thread, x \in Mappable : Submits(u, x)' => mapState'[x].st = "Idle"
  BY <1>1, <1>8 DEF SeparateInv
<1>11. /\ \A x \in Buffer : Free(x)' => ~Used(x)
       /\ \A x \in Buffer, i, j \in DOMAIN active : Mapped(i, x)' /\ i < j => x \notin active[j].bufs
  <2>1. CASE Uses(active, b) = {}
    <3>1. active' = active /\ ready' = Append(ready, b)
      BY <1>3, <2>1 DEF MapWithSubmission, MapAtOnce
    <3>2. \A x : Within(ready', x) <=> Within(ready, x) \/ x = b
      BY <1>1, <3>1, AppendList
    <3>3. ~Used(b)
      BY <2>1 DEF Uses, Used
    <3>4. \A x \in Buffer : Free(x)' => ~Used(x)
      BY <1>1, <1>8, <3>2, <3>3 DEF Free, SeparateInv
    <3>5. \A x : \A i : Mapped(i, x)' <=> Mapped(i, x)
      BY <3>1 DEF Mapped
    <3>6. QED
      BY <3>4, <3>5 DEF SeparateInv
  <2>2. CASE Uses(active, b) # {}
    <3>1. PICK k : k = LatestUse(active, b)
      OBVIOUS
    <3>2. /\ k \in DOMAIN active
          /\ active[k].mapped \in Seq(Buffer)
          /\ active'[k].mapped = Append(active[k].mapped, b)
          /\ \A j \in DOMAIN active : j # k => active'[j] = active[j]
          /\ ready' = ready
          /\ \A j \in DOMAIN active : b \in active[j].bufs => j <= k
      BY <1>1, <1>3, <2>2, <3>1, MapListed, LatestUseFound DEF MapAtOnce
    <3>3. \A x : Mapped(k, x)' <=> Mapped(k, x) \/ x = b
      BY <3>2, AppendList DEF Mapped
    <3>4. \A j \in DOMAIN active : j # k => \A x : Mapped(j, x)' <=> Mapped(j, x)
      BY <3>2 DEF Mapped
    <3>5. \A x \in Buffer : Free(x)' => ~Used(x)
      BY <1>1, <1>8, <3>2 DEF Free, SeparateInv
    <3>6. ASSUME NEW x \in Buffer, NEW i \in DOMAIN active, NEW j \in DOMAIN active,
                 Mapped(i, x)', i < j
          PROVE x \notin active[j].bufs
      <4>1. CASE Mapped(i, x)
        BY <3>6, <4>1 DEF SeparateInv
      <4>2. CASE ~Mapped(i, x)
        <5>1. i = k /\ x = b
          BY <3>3, <3>4, <3>6, <4>2
        <5>2. i \in Nat /\ j \in Nat
          BY <1>1
        <5>3. QED
          BY <3>2, <3>6, <5>1, <5>2
      <4>3. QED
        BY <4>1, <4>2
    <3>7. QED
      BY <3>5, <3>6
  <2>3. QED
    BY <2>1, <2>2
<1>12. QED
  BY <1>7, <1>9, <1>10, <1>11 DEF SeparateInv

(* What triage drains is used by no submission that is left. *)
LEMMA DrainSeparate ==
  ASSUME TypeInv, RequestInv, SeparateInv, NEW t \in Thread, Triage(t),
         HeadDone(active, loc[t].done)
  PROVE  SeparateInv'
<1>1. /\ ThreadInv /\ ready \in Seq(Buffer)
      /\ active \in Seq(Entries(WorkDone)) /\ active # <<>> /\ pc[t] = "triage"
      /\ mapState' = mapState /\ active' = Tail(active)
  BY DEF TypeInv, LifeTypeOK, Submission, HeadDone, Triage, buffers
<1>2. active[1].mapped \in Seq(Buffer) /\ ready' = ready \o active[1].mapped
  <2>1. Head(active) = active[1] /\ active[1] \in Entries(WorkDone)
    BY <1>1
  <2>2. ready' = ready \o Head(active).mapped
    BY DEF Triage, ReadyAfterHead
  <2>3. QED
    BY <2>1, <2>2 DEF Entries
<1>3. Others(t) /\ pc'[t] = "triage"
  <2>1. PICK l : Go(t, "triage", l)
    BY DEF Triage
  <2>2. QED
    BY <1>1, <2>1, GoAt
<1>4. /\ 1 \in DOMAIN active
      /\ \A j \in DOMAIN active' :
            j \in Nat /\ j + 1 \in DOMAIN active /\ 1 < j + 1 /\ active'[j] = active[j + 1]
  BY <1>1
<1>5. \A x : Within(ready', x) <=> Within(ready, x) \/ Mapped(1, x)
  BY <1>1, <1>2, JoinList DEF Mapped
<1>6. /\ \A x : \A j \in DOMAIN active' : Mapped(j, x)' <=> Mapped(j + 1, x)
      /\ \A x : Used(x)' => Used(x)
  BY <1>4 DEF Mapped, Used
<1>7. \A u \in Thread : \A x : /\ Maps(u, x)' => Maps(u, x)
                               /\ Submits(u, x)' => Submits(u, x)
  BY <1>3 DEF Maps, Submits, Submitting, Others
<1>8. \A x \in Buffer : Mapped(1, x) => ~Used(x)'
  BY <1>4 DEF SeparateInv, Used
<1>9. \A x \in Buffer : Free(x)' => ~Used(x)'
  BY <1>1, <1>5, <1>6, <1>7, <1>8 DEF SeparateInv, Free
<1>10. ASSUME NEW x \in Buffer, NEW i \in DOMAIN active', NEW j \in DOMAIN active', Mapped(i, x)', i < j
       PROVE x \notin active'[j].bufs
  <2>1. /\ i + 1 \in DOMAIN active /\ j + 1 \in DOMAIN active /\ i + 1 < j + 1
        /\ Mapped(i + 1, x) /\ active'[j] = active[j + 1]
    BY <1>4, <1>6, <1>10
  <2>2. QED
    BY <2>1 DEF SeparateInv
<1>11. \A u \in Thread : pc'[u] = "submitFence" => loc'[u].used = {}
  BY <1>3 DEF SeparateInv, Others
<1>12. \A u \in Thread, x \in Mappable : Submits(u, x)' => mapState'[x].st = "Idle"
  BY <1>1, <1>7 DEF SeparateInv
<1>13. QED
  BY <1>9, <1>10, <1>11, <1>12 DEF SeparateInv

(* A submission that is registered uses nothing that is free, or waits.    *)
LEMMA RegisterSeparate ==
  ASSUME TypeInv, SubmissionInv, EndInv, NEW c, ClientInv(c), RequestInv, SeparateInv,
         NEW t \in Thread, SubmitTrack(t)
  PROVE  SeparateInv'
<1>. DEFINE new == Entry(loc[t].idx, loc[t].used, loc[t].tmp)
<1>1. /\ ThreadInv /\ loc[t] \in Locals /\ active \in Seq(Entries(WorkDone))
      /\ pc[t] = "submitTrack" /\ UNCHANGED <<ready, mapState>>
      /\ active' = Append(active, new) /\ Go(t, "maintain", Nothing)
  BY LocType DEF TypeInv, LifeTypeOK, Submission, SubmitTrack, TrackSubmission, buffers
<1>2. new.mapped = <<>> /\ new.bufs = loc[t].used /\ loc[t].used \subseteq Buffer
  BY <1>1 DEF Entry, Locals
<1>. HIDE DEF new
<1>3. /\ DOMAIN active' = DOMAIN active \cup {Len(active) + 1}
      /\ active'[Len(active) + 1] = new
      /\ \A i \in DOMAIN active : active'[i] = active[i] /\ i # Len(active) + 1
  BY <1>1
<1>4. Others(t) /\ pc'[t] = "maintain"
  BY <1>1, GoAt
<1>5. \A u \in Thread : \A x : /\ Maps(u, x)' => Maps(u, x)
                               /\ Submits(u, x)' => Submits(u, x)
  BY <1>4 DEF Maps, Submits, Submitting, Others
<1>6. \A x \in loc[t].used : mapState[x].st \in {"Idle", "Init"}
  <2>1. \A x \in loc[t].used : Submits(t, x)
    BY <1>1 DEF Submits, Submitting
  <2>2. QED
    BY <1>2, <2>1 DEF SeparateInv, ClientInv
<1>7. \A u \in Thread : \A x : ~Maps(u, x)
  BY <1>1, SubmitterAlone DEF Maps, Submitting, FenceReaders
<1>8. \A x \in loc[t].used : ~Queued(x)
  BY <1>2, <1>6 DEF RequestInv, QueueInv
<1>9. \A x \in Buffer : Free(x)' => Free(x) /\ x \notin loc[t].used
  BY <1>1, <1>5, <1>6, <1>7, <1>8 DEF Free, Queued
<1>10. \A x : Used(x)' => Used(x) \/ x \in loc[t].used
  BY <1>2, <1>3 DEF Used
<1>11. \A x : \A i \in DOMAIN active' : Mapped(i, x)' => i \in DOMAIN active /\ Mapped(i, x)
  <2>1. \A x : ~Within(active'[Len(active) + 1].mapped, x)
    BY <1>2, <1>3, EmptyList
  <2>2. QED
    BY <1>3, <2>1 DEF Mapped
<1>12. ASSUME NEW x \in Buffer, NEW i \in DOMAIN active', NEW j \in DOMAIN active', Mapped(i, x)', i < j
       PROVE x \notin active'[j].bufs
  <2>1. i \in DOMAIN active /\ Mapped(i, x)
    BY <1>11, <1>12
  <2>2. CASE j \in DOMAIN active
    BY <1>3, <1>12, <2>1, <2>2 DEF SeparateInv
  <2>3. CASE j \notin DOMAIN active
    <3>1. active'[j].bufs = loc[t].used
      BY <1>2, <1>3, <2>3
    <3>2. QED
      BY <1>8, <2>1, <3>1 DEF Queued
  <2>4. QED
    BY <2>2, <2>3
<1>13. \A u \in Thread : pc'[u] = "submitFence" => loc'[u].used = {}
  BY <1>4 DEF SeparateInv, Others
<1>14. \A u \in Thread, x \in Mappable : Submits(u, x)' => mapState'[x].st = "Idle"
  BY <1>1, <1>5 DEF SeparateInv
<1>15. \A x \in Buffer : Free(x)' => ~Used(x)'
  BY <1>9, <1>10 DEF SeparateInv
<1>16. QED
  BY <1>12, <1>13, <1>14, <1>15 DEF SeparateInv

LEMMA NextSeparate ==
  ASSUME NEW c \in Thread, SoleClient(c)
  PROVE  /\ TypeInv /\ SubmissionInv /\ ClosureInv /\ EndInv /\ ClientInv(c) /\ RequestInv
         /\ SeparateInv /\ [Next]_vars
         => SeparateInv'
<1>1. SUFFICES ASSUME TypeInv, SubmissionInv, ClosureInv, EndInv, ClientInv(c), RequestInv,
                      SeparateInv, [Next]_vars
               PROVE  SeparateInv'
  OBVIOUS
<1>2. CASE UNCHANGED vars \/ GpuComplete \/ LoseElsewhere
  <2>1. UNCHANGED <<active, ready, mapState, pc, loc>>
    BY <1>2 DEF vars, GpuComplete, LoseElsewhere, life, buffers
  <2>2. /\ \A b : (Free(b)' <=> Free(b)) /\ (Used(b)' <=> Used(b))
        /\ \A b : \A i : Mapped(i, b)' <=> Mapped(i, b)
        /\ \A t : \A b : Submits(t, b)' <=> Submits(t, b)
    BY <2>1 DEF Free, Maps, Used, Mapped, Submits
  <2>3. QED
    BY <1>1, <2>1, <2>2 DEF SeparateInv
<1>3. ASSUME NEW t \in Thread, Aside(t), pc'[t] \notin Submitting \cup {"submitFence"}
      PROVE SeparateInv'
  BY <1>1, <1>3, AsideSeparate DEF Submits
<1>4. ASSUME NEW t \in Thread, Call(t) PROVE SeparateInv'
  <2>1. CASE CallMapAsync(t)
    <3>1. PICK w, l : Go(t, w, l) /\ w \in {"mapAsyncState", "fire"}
      BY <2>1 DEF CallMapAsync
    <3>2. Others(t) /\ pc'[t] \in {"mapAsyncState", "fire"}
      BY <1>1, <3>1, GoAt DEF TypeInv
    <3>3. UNCHANGED <<active, ready, mapState>>
      BY <2>1 DEF CallMapAsync, life, buffers
    <3>4. SameQueues(active, active')
      BY <1>1, <3>3, AttachedQueues DEF TypeInv, LifeTypeOK, Submission
    <3>5. \A u \in Thread : \A b : /\ Maps(u, b)' => Maps(u, b)
                                   /\ Submits(u, b)' => Submits(u, b)
      BY <3>2 DEF Maps, Submits, Submitting, Others
    <3>6. \A b \in Buffer : Free(b)' => Free(b)
      BY <3>3, <3>5 DEF Free
    <3>7. QED
      BY <1>1, <3>2, <3>3, <3>4, <3>5, <3>6, StillSeparate DEF SeparateInv
  <2>2. CASE ~CallMapAsync(t)
    BY <1>1, <1>4, <2>2, CallAside, CallSeparate, AsideSeparate DEF SoleClient
  <2>3. QED
    BY <2>1, <2>2
<1>5. ASSUME NEW t \in Thread, SubmitStep(t) PROVE SeparateInv'
  BY <1>1, <1>5, SubmitSeparate, RegisterSeparate
<1>6. ASSUME NEW t \in Thread, MaintainStep(t) PROVE SeparateInv'
  BY <1>1, <1>3, <1>6, NotSubmitting, MaintainAside, DrainSeparate, MapSeparate
<1>7. ASSUME NEW t \in Thread, BufferStep(t) \/ FireStep(t) PROVE SeparateInv'
  BY <1>1, <1>3, <1>7, NotSubmitting, BufferAside, ListSeparate, MapSeparate
<1>8. QED
  BY <1>1, <1>2, <1>4, <1>5, <1>6, <1>7 DEF Next, Step

(***************************************************************************)
(* What is mapped, being mapped or about to be is used by no submission    *)
(* the lifetime tracker has.                                               *)
(***************************************************************************)
THEOREM Separation ==
  ASSUME NEW c \in Thread, SoleClient(c) PROVE Spec => []SeparateInv
<1>1. Init => SeparateInv
  <2>1. Init => /\ active = <<>> /\ ready = <<>> /\ \A t \in Thread : pc[t] = "idle"
                /\ \A b \in Buffer : mapState[b].st # "Active"
    BY DEF Init, Idle
  <2>2. Init => \A b \in Buffer : ~Used(b) /\ ~Free(b)
    BY <2>1, EmptyList DEF Used, Free, Maps
  <2>3. QED
    BY <2>1, <2>2 DEF SeparateInv, Submits, Submitting
<1>2. /\ TypeInv /\ SubmissionInv /\ ClosureInv /\ EndInv /\ ClientInv(c) /\ RequestInv
      /\ SeparateInv /\ [Next]_vars
      => SeparateInv'
  BY NextSeparate
<1>3. Spec => []ClientInv(c) /\ []RequestInv
  BY ClientAlone, Requests, PTL
<1>4. QED
  BY <1>1, <1>2, <1>3, Types, Submissions, Closures, DeviceEnd, PTL DEF Spec

(***************************************************************************)
(* "A buffer cannot be mapped until all active queue submissions that use  *)
(* it have completed" (life.rs:153): the CPU and the GPU never have the    *)
(* same buffer.                                                            *)
(***************************************************************************)
THEOREM MappedApart ==
  ASSUME NEW c \in Thread, SoleClient(c) PROVE Spec => []MappedNotInFlight
<1>1. SubmissionInv /\ ClientInv(c) /\ SeparateInv => MappedNotInFlight
  <2>1. SUFFICES ASSUME SubmissionInv, ClientInv(c), SeparateInv,
                        NEW b \in Buffer, mapState[b].st = "Active",
                        NEW i \in DOMAIN gpu, b \in gpu[i].bufs
                 PROVE  FALSE
    BY DEF MappedNotInFlight
  <2>2. b \in Mappable /\ Free(b)
    BY <2>1 DEF ClientInv, Free
  <2>3. Tracked(gpu[i])
    BY <2>1 DEF SubmissionInv, TrackInv
  <2>4. CASE \E j \in DOMAIN active : gpu[i].bufs \subseteq active[j].bufs
    BY <2>1, <2>2, <2>4 DEF SeparateInv, Used
  <2>5. CASE \E t \in Thread : pc[t] = "submitTrack" /\ gpu[i].bufs \subseteq loc[t].used
    BY <2>1, <2>2, <2>5 DEF SeparateInv, Submits, Submitting
  <2>6. QED
    BY <2>3, <2>4, <2>5 DEF Tracked
<1>2. Spec => []ClientInv(c) /\ []SeparateInv
  BY ClientAlone, Separation, PTL
<1>3. QED
  BY <1>1, <1>2, Submissions, PTL

-----------------------------------------------------------------------------
(***************************************************************************)
(* The order of the callbacks.  fire answers the requests a thread took    *)
(* before it completes the closures it took, but two threads that poll may *)
(* take a request and a later closure and fire them in any order (the run  *)
(* work_done_order).  So one thread makes every call but those that write, *)
(* register closures and destroy the device.                               *)
(***************************************************************************)
SoleCaller(c) ==
    /\ c \in Thread
    /\ \A t \in Thread \ {c} : Calls[t] \subseteq {"write", "workDone", "destroyDevice"}

(* Where the others are, and what c is busy with. *)
Elsewhere == {"idle", "writePending", "writeTrack", "writeCheck"}
CallerInv(c) ==
    /\ \A t \in Thread \ {c} : pc[t] \in Elsewhere
    /\ \/ loc[c].maps = <<>>
       \/ pc[c] \in Carriers
       \/ pc[c] \in Releasing /\ trackersL = c
    /\ pc[c] \in {"mapSet", "mapRestore"} => mapState[loc[c].buf].st = "Idle"
    /\ pc[c] = "mapAsyncLife" => Asked(loc[c].buf, loc[c].op)

(* c has o, to answer it or to map its buffer first.                       *)
InHand(c, o) == Answering(c, o) \/ (pc[c] = "mapSet" /\ loc[c].op = o)

(* A submission or the list has b, and closure w comes later.              *)
Draining == {"triage", "mapReady", "mapSet", "mapRestore", "panicked"}
Behind(c, b, w) ==
    \/ Within(ready, b) /\ (Carried(c, w) => pc[c] \in Draining)
    \/ /\ ~Deferred(w) /\ ~Carried(c, w)
       /\ \E i \in DOMAIN active :
            Mapped(i, b) /\ \A j \in DOMAIN active : With(j, w) => i <= j

(* The requests closure w comes after; 0 is the closure that is next.      *)
Promised(w) == IF w = 0 THEN {o \in MapOp : hist.mapIndex[o] >= 0} ELSE hist.workMaps[w]
Over(w) == w # 0 /\ hist.workFired[w] > 0
OrderInv(c) ==
    \A w \in WorkDone \cup {0} : \A o \in Promised(w) :
      \/ hist.mapFired[o] > 0
      \/ /\ ~Over(w)
         /\ InHand(c, o) \/ \E b \in Buffer : Asked(b, o) /\ Behind(c, b, w)

-----------------------------------------------------------------------------
(* What the history keeps of requests and closures. *)
SamePromises ==
    /\ hist'.mapIndex = hist.mapIndex /\ hist'.mapFired = hist.mapFired
    /\ hist'.workMaps = hist.workMaps /\ hist'.workFired = hist.workFired

(* A step that answers what it takes from the lists, or leaves it there.   *)
Onward(c) ==
    /\ hist'.workMaps = hist.workMaps /\ hist'.workFired = hist.workFired
    /\ \A o \in MapOp :
         /\ hist'.mapIndex[o] >= 0 =>
               hist.mapIndex[o] >= 0 \/ \E b \in Buffer : Asked(b, o)' /\ Behind(c, b, 0)'
         /\ hist.mapFired[o] > 0 => hist'.mapFired[o] > 0
         /\ InHand(c, o) => InHand(c, o)' \/ hist'.mapFired[o] > 0
         /\ \A b \in Buffer, w \in WorkDone \cup {0} : Asked(b, o) /\ Behind(c, b, w) =>
               InHand(c, o)' \/ (Asked(b, o)' /\ Behind(c, b, w)')

LEMMA OnwardOrders ==
  ASSUME TypeInv, NEW c \in Thread, OrderInv(c), Onward(c) PROVE OrderInv(c)'
<1>1. \A w \in WorkDone \cup {0} : (Over(w)' <=> Over(w)) /\ Promised(w) \subseteq MapOp
  BY DEF Onward, Promised, Over, TypeInv, HistoryType
<1>2. ASSUME NEW w \in WorkDone \cup {0}, NEW o \in Promised(w)'
      PROVE (\/ hist.mapFired[o] > 0
             \/ /\ ~Over(w)
                /\ InHand(c, o) \/ \E b \in Buffer : Asked(b, o) /\ Behind(c, b, w))'
  <2>1. o \in MapOp
    BY <1>1, <1>2 DEF Promised, Onward
  <2>2. CASE o \notin Promised(w)
    <3>1. w = 0 /\ hist'.mapIndex[o] >= 0 /\ ~(hist.mapIndex[o] >= 0)
      BY <1>2, <2>1, <2>2 DEF Promised, Onward
    <3>2. PICK b \in Buffer : Asked(b, o)' /\ Behind(c, b, 0)'
      BY <2>1, <3>1 DEF Onward
    <3>3. QED
      BY <3>1, <3>2 DEF Over
  <2>3. CASE hist.mapFired[o] > 0
    BY <2>1, <2>3 DEF Onward
  <2>4. CASE ~Over(w) /\ InHand(c, o)
    BY <1>1, <2>1, <2>4 DEF Onward
  <2>5. ASSUME ~Over(w), NEW b \in Buffer, Asked(b, o), Behind(c, b, w)
        PROVE  (~Over(w) /\ (InHand(c, o) \/ \E x \in Buffer : Asked(x, o) /\ Behind(c, x, w)))'
    BY <1>1, <2>1, <2>5 DEF Onward
  <2>6. QED
    BY <2>2, <2>3, <2>4, <2>5 DEF OrderInv
<1>3. QED
  BY <1>2 DEF OrderInv

(* The same lists, and new submissions with empty ones. *)
SameLists(a, b) ==
    /\ DOMAIN a \subseteq DOMAIN b
    /\ \A i \in DOMAIN a : b[i].mapped = a[i].mapped /\ b[i].closures = a[i].closures
    /\ \A i \in DOMAIN b \ DOMAIN a : b[i].mapped = <<>> /\ b[i].closures = <<>>

(* c goes on with what it has in hand. *)
Plain(c) ==
    /\ Others(c)
    /\ loc[c].maps = <<>> \/ loc'[c].maps = loc[c].maps
    /\ \/ loc'[c].maps = <<>>
       \/ pc'[c] \in Carriers
       \/ pc'[c] \in Releasing /\ trackersL' = c
    /\ loc'[c].works \in {<<>>, loc[c].works}
    /\ pc[c] # "mapSet" /\ pc'[c] \notin {"mapSet", "mapRestore", "mapAsyncLife"}
    /\ pc[c] \in Draining => pc'[c] \in Draining \/ ready = <<>>
    /\ UNCHANGED <<mapState, ready, deferred>> /\ SameLists(active, active')
    /\ SamePromises

LEMMA PlainKeeps ==
  ASSUME TypeInv, NEW c \in Thread, CallerInv(c), OrderInv(c), Plain(c)
  PROVE  CallerInv(c)' /\ OrderInv(c)'
<1>1. CallerInv(c)'
  BY DEF CallerInv, Plain, Others
<1>2. \A o : InHand(c, o) => InHand(c, o)'
  BY EmptyList DEF InHand, Answering, Plain
<1>3. \A b, o : Asked(b, o) => Asked(b, o)'
  BY DEF Asked, Plain
<1>4. \A w : Carried(c, w)' => Carried(c, w)
  BY EmptyList DEF Carried, Plain
<1>5. ASSUME NEW b, NEW w, Behind(c, b, w) PROVE Behind(c, b, w)'
  <2>1. CASE Within(ready, b) /\ (Carried(c, w) => pc[c] \in Draining)
    BY <1>4, <2>1, EmptyList DEF Behind, Plain
  <2>2. CASE ~Deferred(w) /\ ~Carried(c, w) /\ \E i \in DOMAIN active :
               Mapped(i, b) /\ \A j \in DOMAIN active : With(j, w) => i <= j
    <3>1. PICK i \in DOMAIN active : Mapped(i, b) /\ \A j \in DOMAIN active : With(j, w) => i <= j
      BY <2>2
    <3>2. i \in DOMAIN active' /\ Mapped(i, b)'
      BY <3>1 DEF Mapped, Plain, SameLists
    <3>3. \A j \in DOMAIN active' : With(j, w)' => j \in DOMAIN active /\ With(j, w)
      BY EmptyList DEF With, Plain, SameLists
    <3>4. ~Deferred(w)' /\ ~Carried(c, w)'
      BY <1>4, <2>2 DEF Deferred, Plain
    <3>5. QED
      BY <3>1, <3>2, <3>3, <3>4 DEF Behind
  <2>3. QED
    BY <1>5, <2>1, <2>2 DEF Behind
<1>6. Onward(c)
  BY <1>2, <1>3, <1>5 DEF Onward, Plain, SamePromises
<1>7. QED
  BY <1>1, <1>6, OnwardOrders

(* The lists after what else is attached to submissions. *)
LEMMA ListsKept ==
  ASSUME NEW W, NEW list \in Seq(Entries(W)), NEW b, NEW n, NEW u, NEW m
  PROVE  /\ SameLists(list, list)
         /\ SameLists(list, ScheduleResourceDestruction(list, b))
         /\ SameLists(list, TrackSubmission(list, n, u, m))
<1>1. SameLists(list, list)
  BY DEF SameLists
<1>2. SameLists(list, ScheduleResourceDestruction(list, b))
  <2>1. \A i \in DOMAIN list : list[i] \in Entries(W)
    BY EntryUpdate
  <2>2. QED
    BY <1>1, <2>1 DEF SameLists, ScheduleResourceDestruction, Entries
<1>3. SameLists(list, TrackSubmission(list, n, u, m))
  <2>. DEFINE e == Entry(n, u, m)
  <2>1. e.mapped = <<>> /\ e.closures = <<>> /\ TrackSubmission(list, n, u, m) = Append(list, e)
    BY DEF Entry, TrackSubmission
  <2>. HIDE DEF e
  <2>2. QED
    BY <2>1 DEF SameLists
<1>4. QED
  BY <1>1, <1>2, <1>3

(* c goes somewhere, and keeps what it has in hand. *)
LEMMA GoPlain ==
  ASSUME TypeInv, NEW c \in Thread, CallerInv(c), OrderInv(c), NEW w, NEW l, Go(c, w, l),
         loc[c].maps = <<>> \/ l.maps = loc[c].maps,
         l.maps = <<>> \/ w \in Carriers \/ (w \in Releasing /\ trackersL' = c),
         l.works \in {<<>>, loc[c].works},
         pc[c] # "mapSet", w \notin {"mapSet", "mapRestore", "mapAsyncLife"},
         pc[c] \in Draining => w \in Draining \/ ready = <<>>,
         UNCHANGED <<mapState, ready, deferred>>, SameLists(active, active'), SamePromises
  PROVE  CallerInv(c)' /\ OrderInv(c)'
<1>1. Others(c) /\ pc'[c] = w /\ loc'[c] = l
  BY GoAt DEF TypeInv
<1>2. Plain(c)
  BY <1>1 DEF Plain
<1>3. QED
  BY <1>2, PlainKeeps

LEMMA LoseSame == ASSUME TypeInv, Lose \/ hist' = hist PROVE SamePromises
<1>1. hist \in HistoryType
  BY DEF TypeInv
<1>2. CASE Lose
  <2>. DEFINE n == hist.lostFired + (IF lostClosure THEN 1 ELSE 0)
  <2>1. hist' = [hist EXCEPT !.halFailed = TRUE, !.lostFired = n]
    BY <1>2 DEF Lose
  <2>. HIDE DEF n
  <2>2. QED
    BY <1>1, <2>1 DEF HistoryType, SamePromises
<1>3. QED
  BY <1>2 DEF SamePromises

(* What the others do, but for their closures. *)
LEMMA OtherOrders ==
  ASSUME TypeInv, NEW c, SoleCaller(c), CallerInv(c), OrderInv(c),
         NEW t \in Thread \ {c}, Call(t) \/ Step(t), ~CallWorkDone(t)
  PROVE  CallerInv(c)' /\ OrderInv(c)'
<1>1. ThreadInv /\ c \in Thread /\ active \in Seq(Entries(WorkDone))
  BY DEF TypeInv, SoleCaller, LifeTypeOK, Submission
<1>2. pc[t] \in Elsewhere /\ Calls[t] \subseteq {"write", "workDone", "destroyDevice"}
  BY DEF CallerInv, SoleCaller
<1>3. CallWrite(t) \/ CallDestroyDevice(t) \/ WritePending(t) \/ WriteTrack(t) \/ WriteCheck(t)
  <2>1. CASE Call(t)
    BY <1>2, <2>1 DEF Call, CallSubmit, CallPoll, CallWait, CallMapAsync, CallUnmap, CallDestroy,
                      CallDrop, MayCall
  <2>2. ~SubmitStep(t)
    BY <1>2 DEF SubmitStep, SubmitFence, SubmitPrepare, SubmitReject, SubmitHal, SubmitHalFails,
                SubmitTrack, Elsewhere
  <2>3. ~MaintainStep(t)
    BY <1>2 DEF MaintainStep, PollFence, MaintainBegin, MaintainWait, MaintainFence,
      MaintainHalFails, MaintainLock, Triage, MapReady, MapSet, MapHalFails, MapRestore,
      MaintainUnlock, MaintainResult, ReleaseLock, ReleaseNext, ReleaseDone, Elsewhere
  <2>4. ~FireStep(t) /\ ~(BufferStep(t) /\ ~(WritePending(t) \/ WriteTrack(t) \/ WriteCheck(t)))
    BY <1>2 DEF FireStep, FireMapping, FireWorkDone, FireLost, Fired, BufferStep, MapAsyncState,
      MapAsyncLife, Unmap, UnmapInit, DestroySnatch, DestroyPending, DestroyLife, Elsewhere
  <2>5. QED
    BY <2>1, <2>2, <2>3, <2>4 DEF Step
<1>4. /\ UNCHANGED <<mapState, active, ready, deferred, trackersL>> /\ SamePromises
      /\ \/ pc' = pc /\ loc' = loc
         \/ \E w \in Elsewhere : \E l : Go(t, w, l)
  BY <1>3 DEF CallWrite, CallDestroyDevice, WritePending, WriteTrack, WriteCheck, LeaveWrite,
              life, buffers, locks, SamePromises, Elsewhere
<1>5. Others(t) /\ pc'[t] \in Elsewhere
  BY <1>1, <1>2, <1>4, GoAt DEF Others
<1>6. pc'[c] = pc[c] /\ loc'[c] = loc[c]
  BY <1>1, <1>5 DEF Others
<1>7. CallerInv(c)'
  BY <1>4, <1>5, <1>6 DEF CallerInv, Others, Asked
<1>8. Onward(c)
  BY <1>4, <1>6
  DEF Onward, SamePromises, InHand, Answering, Asked, Behind, Carried, Deferred, With, Mapped
<1>9. QED
  BY <1>1, <1>7, <1>8, OnwardOrders

(* The calls of c, but for its closures. *)
LEMMA CallOrders ==
  ASSUME TypeInv, NEW c \in Thread, CallerInv(c), OrderInv(c), Call(c), ~CallWorkDone(c)
  PROVE  CallerInv(c)' /\ OrderInv(c)'
<1>1. /\ ThreadInv /\ ThreadTypeOK /\ active \in Seq(Entries(WorkDone)) /\ hist \in HistoryType
      /\ pc[c] = "idle" => loc[c].maps = <<>>
  BY DEF TypeInv, ThreadInv, LifeTypeOK, Submission, CallerInv, Carriers, Releasing
<1>2. SameLists(active, active) /\ (hist' = hist => SamePromises)
  BY <1>1, ListsKept DEF SamePromises
<1>3. ASSUME Others(c), pc[c] = "idle", loc'[c].works = <<>>,
             loc'[c].maps = <<>> \/ pc'[c] \in Carriers,
             pc'[c] \notin {"mapSet", "mapRestore", "mapAsyncLife"},
             UNCHANGED <<mapState, ready, active, deferred>>, SamePromises
      PROVE CallerInv(c)' /\ OrderInv(c)'
  BY <1>1, <1>2, <1>3, PlainKeeps DEF Plain, Draining
<1>4. Nothing.maps = <<>> /\ Nothing.works = <<>>
  BY DEF Nothing
<1> USE DEF MayCall, life, buffers
<1>5. CASE CallSubmit(c) \/ CallPoll(c) \/ CallWait(c) \/ CallWrite(c) \/ CallUnmap(c)
           \/ CallDestroy(c) \/ CallDrop(c)
  <2>1. /\ UNCHANGED <<mapState, ready, active, deferred, hist>> /\ pc[c] = "idle"
    BY <1>5 DEF CallSubmit, CallPoll, CallWait, CallWrite, CallUnmap, CallDestroy, CallDrop
  <2>2. \/ \E x : Go(c, "submitFence", [Nothing EXCEPT !.cmds = x])
        \/ Go(c, "pollFence", Nothing)
        \/ \E x, y : Go(c, "pollFence", [Nothing EXCEPT !.wait = x, !.timed = y])
        \/ \E y : Go(c, "pollFence", [Nothing EXCEPT !.latest = TRUE, !.timed = y])
        \/ \E x : Go(c, "writePending", [Nothing EXCEPT !.buf = x])
        \/ \E x : Go(c, "unmap", [Nothing EXCEPT !.buf = x])
        \/ \E x : Go(c, "unmap", [Nothing EXCEPT !.buf = x, !.after = "destroySnatch"])
    <3>1. CASE CallSubmit(c)
      BY <3>1, Zenon DEF CallSubmit
    <3>2. CASE CallPoll(c)
      BY <3>2, Zenon DEF CallPoll
    <3>3. CASE CallWait(c)
      BY <3>3, Zenon DEF CallWait
    <3>4. CASE CallWrite(c)
      BY <3>4, Zenon DEF CallWrite
    <3>5. CASE CallUnmap(c) \/ CallDrop(c)
      BY <3>5, Zenon DEF CallUnmap, CallDrop
    <3>6. CASE CallDestroy(c)
      BY <3>6, Zenon DEF CallDestroy
    <3>7. QED
      BY <1>5, <3>1, <3>2, <3>3, <3>4, <3>5, <3>6
  <2>3. ASSUME NEW w \in {"submitFence", "pollFence", "writePending", "unmap"}, NEW l, Go(c, w, l),
               l.maps = <<>>, l.works = <<>>
        PROVE CallerInv(c)' /\ OrderInv(c)'
    BY <1>1, <1>2, <1>3, <2>1, <2>3, GoAt
  <2>4. ASSUME NEW x, NEW y
        PROVE  /\ [Nothing EXCEPT !.cmds = x].maps = <<>> /\ [Nothing EXCEPT !.cmds = x].works = <<>>
               /\ [Nothing EXCEPT !.wait = x, !.timed = y].maps = <<>>
               /\ [Nothing EXCEPT !.wait = x, !.timed = y].works = <<>>
               /\ [Nothing EXCEPT !.latest = TRUE, !.timed = y].maps = <<>>
               /\ [Nothing EXCEPT !.latest = TRUE, !.timed = y].works = <<>>
               /\ [Nothing EXCEPT !.buf = x].maps = <<>> /\ [Nothing EXCEPT !.buf = x].works = <<>>
               /\ [Nothing EXCEPT !.buf = x, !.after = "destroySnatch"].maps = <<>>
               /\ [Nothing EXCEPT !.buf = x, !.after = "destroySnatch"].works = <<>>
    BY DEF Nothing
  <2>5. QED
    BY <1>4, <2>2, <2>3, <2>4, Zenon
<1>6. CASE CallMapAsync(c)
  <2>1. UNCHANGED <<mapState, ready, active, deferred>> /\ pc[c] = "idle"
    BY <1>6 DEF CallMapAsync
  <2>2. SamePromises
    <3>1. \E n, f : hist' = [hist EXCEPT !.maps = n, !.mapBuf = f]
      BY <1>6 DEF CallMapAsync
    <3>2. QED
      BY <1>1, <3>1 DEF HistoryType, SamePromises
  <2>3. \/ \E x, y : Go(c, "mapAsyncState", [Nothing EXCEPT !.buf = x, !.op = y])
        \/ \E x : Go(c, "fire", [Nothing EXCEPT !.maps = x])
    BY <1>6 DEF CallMapAsync
  <2>4. ASSUME NEW w \in {"mapAsyncState", "fire"}, NEW l, Go(c, w, l),
               l.maps = <<>> \/ w = "fire", l.works = <<>>
        PROVE  CallerInv(c)' /\ OrderInv(c)'
    BY <1>1, <1>3, <2>1, <2>2, <2>4, GoAt DEF Carriers
  <2>5. ASSUME NEW x, NEW y
        PROVE  /\ [Nothing EXCEPT !.buf = x, !.op = y].maps = <<>>
               /\ [Nothing EXCEPT !.buf = x, !.op = y].works = <<>>
               /\ [Nothing EXCEPT !.maps = x].works = <<>>
    BY DEF Nothing
  <2>6. QED
    BY <2>3, <2>4, <2>5, Zenon
<1>7. CASE CallDestroyDevice(c)
  <2>1. UNCHANGED <<mapState, active, ready, deferred, trackersL, pc, loc, hist>> /\ pc[c] = "idle"
    BY <1>7 DEF CallDestroyDevice, locks
  <2>2. Plain(c)
    BY <1>1, <1>2, <2>1 DEF Plain, Others, Draining
  <2>3. QED
    BY <2>2, PlainKeeps
<1>8. QED
  BY <1>5, <1>6, <1>7 DEF Call

LEMMA SubmitOrders ==
  ASSUME TypeInv, NEW c \in Thread, CallerInv(c), OrderInv(c), SubmitStep(c)
  PROVE  CallerInv(c)' /\ OrderInv(c)'
<1>1. ThreadInv /\ active \in Seq(Entries(WorkDone)) /\ loc[c] \in Locals
  BY LocType DEF TypeInv, LifeTypeOK, Submission
<1>2. pc[c] \in {"submitFence", "submitPrepare", "submitTrack"}
  BY DEF SubmitStep, SubmitFence, SubmitPrepare, SubmitReject, SubmitHal, SubmitHalFails, SubmitTrack
<1>3. loc[c].maps = <<>>
  BY <1>2 DEF CallerInv, Carriers, Releasing
<1>4. ASSUME NEW w \in {"idle", "submitPrepare", "submitTrack", "maintain"}, NEW l, Go(c, w, l),
             l.maps = <<>>, l.works \in {<<>>, loc[c].works},
             UNCHANGED <<mapState, ready, deferred>>, SameLists(active, active'), SamePromises
      PROVE CallerInv(c)' /\ OrderInv(c)'
  BY <1>2, <1>3, <1>4, GoPlain DEF Draining
<1>5. Nothing.maps = <<>> /\ Nothing.works = <<>>
  BY DEF Nothing
<1>6. SameLists(active, active) /\ (Lose \/ hist' = hist => SamePromises)
  BY <1>1, ListsKept, LoseSame
<1> USE DEF life, buffers
<1>7. CASE SubmitFence(c)
  <2>. DEFINE l == [loc[c] EXCEPT !.idx = activeIndex + 1]
  <2>1. /\ Go(c, "submitPrepare", l) \/ Go(c, "idle", Nothing)
        /\ UNCHANGED <<mapState, ready, deferred, active, hist>>
    BY <1>7 DEF SubmitFence
  <2>2. l.maps = <<>> /\ l.works = loc[c].works
    BY <1>1, <1>3 DEF Locals
  <2>. HIDE DEF l
  <2>3. QED
    BY <1>4, <1>5, <1>6, <2>1, <2>2
<1>8. CASE SubmitPrepare(c)
  <2>. DEFINE l == [loc[c] EXCEPT !.cmds = Tail(@), !.used = @ \cup Head(loc[c].cmds)]
  <2>1. Go(c, "submitPrepare", l) /\ UNCHANGED <<mapState, ready, deferred, active, hist>>
    BY <1>8 DEF SubmitPrepare
  <2>2. l.maps = <<>> /\ l.works = loc[c].works
    BY <1>1, <1>3 DEF Locals
  <2>. HIDE DEF l
  <2>3. QED
    BY <1>4, <1>6, <2>1, <2>2
<1>9. CASE SubmitHal(c)
  <2>. DEFINE all == loc[c].used \cup (IF recording THEN dst ELSE {})
              l == [loc[c] EXCEPT !.used = all, !.tmp = IF recording THEN temps ELSE {}]
  <2>1. Go(c, "submitTrack", l) /\ UNCHANGED <<mapState, ready, deferred, active, hist>>
    BY <1>9 DEF SubmitHal
  <2>2. l.maps = <<>> /\ l.works = loc[c].works
    BY <1>1, <1>3 DEF Locals
  <2>. HIDE DEF l
  <2>3. QED
    BY <1>4, <1>6, <2>1, <2>2
<1>10. CASE SubmitReject(c) \/ SubmitHalFails(c)
  <2>1. /\ Go(c, "idle", Nothing) /\ UNCHANGED <<mapState, ready, deferred, active>>
        /\ Lose \/ hist' = hist
    BY <1>10 DEF SubmitReject, SubmitHalFails
  <2>2. QED
    BY <1>4, <1>5, <1>6, <2>1
<1>11. CASE SubmitTrack(c)
  <2>1. /\ Go(c, "maintain", Nothing) /\ UNCHANGED <<mapState, ready, deferred>>
        /\ active' = TrackSubmission(active, loc[c].idx, loc[c].used, loc[c].tmp)
    BY <1>11 DEF SubmitTrack
  <2>2. SamePromises
    BY <1>11 DEF SubmitTrack, SamePromises, TypeInv, HistoryType
  <2>3. SameLists(active, active')
    BY <1>1, <2>1, ListsKept
  <2>4. QED
    BY <1>4, <1>5, <2>1, <2>2, <2>3
<1>12. QED
  BY <1>7, <1>8, <1>9, <1>10, <1>11 DEF SubmitStep

(* A step of maintain that takes nothing out of the lists. *)
LEMMA MaintainPlain ==
  ASSUME TypeInv, CarryInv, NEW c \in Thread, CallerInv(c), OrderInv(c),
         \/ PollFence(c) \/ MaintainBegin(c) \/ MaintainWait(c) \/ MaintainFence(c)
         \/ MaintainHalFails(c) \/ (Triage(c) /\ ~HeadDone(active, loc[c].done))
         \/ MaintainUnlock(c) \/ MaintainResult(c)
         \/ ReleaseLock(c) \/ ReleaseNext(c) \/ ReleaseDone(c)
  PROVE  CallerInv(c)' /\ OrderInv(c)'
<1>1. ThreadInv /\ active \in Seq(Entries(WorkDone)) /\ loc[c] \in Locals
  BY LocType DEF TypeInv, LifeTypeOK, Submission
<1>2. SameLists(active, active) /\ (Lose \/ hist' = hist => SamePromises)
  BY <1>1, ListsKept, LoseSame
<1>3. ASSUME NEW w, NEW l, Go(c, w, l), pc[c] # "mapSet", w \notin {"mapSet", "mapRestore", "mapAsyncLife"},
             pc[c] \in Draining => w \in Draining \/ ready = <<>>,
             \/ loc[c].maps = <<>>
             \/ w \in Carriers
             \/ w \in Releasing /\ trackersL' = c,
             \/ l = Nothing /\ loc[c].maps = <<>>
             \/ l.maps = loc[c].maps /\ l.works = loc[c].works,
             UNCHANGED <<mapState, ready, active, deferred>>, Lose \/ hist' = hist
      PROVE CallerInv(c)' /\ OrderInv(c)'
  <2>1. \/ l.maps = loc[c].maps /\ l.works = loc[c].works
        \/ l.maps = <<>> /\ l.works = <<>> /\ loc[c].maps = <<>>
    BY <1>3 DEF Nothing
  <2>2. QED
    BY <1>2, <1>3, <2>1, GoPlain
<1> USE DEF life, buffers
<1>4. CASE PollFence(c) \/ MaintainWait(c) \/ (Triage(c) /\ ~HeadDone(active, loc[c].done))
  <2>1. /\ \E w \in {"maintain", "maintainFence", "mapReady"} : Go(c, w, loc[c])
        /\ pc[c] \in {"pollFence", "maintainWait", "triage"}
        /\ pc[c] = "triage" => pc'[c] = "mapReady"
        /\ UNCHANGED <<mapState, ready, active, deferred, hist>>
    BY <1>1, <1>4, GoAt DEF PollFence, MaintainWait, Triage
  <2>2. loc[c].maps = <<>>
    BY <2>1 DEF CallerInv, Carriers, Releasing
  <2>3. QED
    BY <1>1, <1>3, <2>1, <2>2, GoAt DEF Draining
<1>5. CASE MaintainBegin(c)
  <2>. DEFINE l == [loc[c] EXCEPT !.wait = WaitTarget(c)]
  <2>1. /\ \E w \in {"maintainFence", "maintainWait"} : Go(c, w, l) \/ Go(c, "idle", Nothing)
        /\ pc[c] = "maintain" /\ UNCHANGED <<mapState, ready, active, deferred, hist>>
    BY <1>5 DEF MaintainBegin, LeaveMaintain
  <2>2. l.maps = loc[c].maps /\ l.works = loc[c].works
    BY <1>1 DEF Locals
  <2>. HIDE DEF l
  <2>3. loc[c].maps = <<>>
    BY <2>1 DEF CallerInv, Carriers, Releasing
  <2>4. QED
    BY <1>3, <2>1, <2>2, <2>3 DEF Draining
<1>6. CASE MaintainFence(c)
  <2>. DEFINE l == [loc[c] EXCEPT !.done = gpuDone]
  <2>1. /\ Go(c, "maintainLock", l)
        /\ pc[c] = "maintainFence" /\ UNCHANGED <<mapState, ready, active, deferred, hist>>
    BY <1>6 DEF MaintainFence
  <2>2. l.maps = loc[c].maps /\ l.works = loc[c].works
    BY <1>1 DEF Locals
  <2>. HIDE DEF l
  <2>3. loc[c].maps = <<>>
    BY <2>1 DEF CallerInv, Carriers, Releasing
  <2>4. QED
    BY <1>3, <2>1, <2>2, <2>3 DEF Draining
<1>7. CASE MaintainHalFails(c)
  <2>1. /\ Go(c, "idle", Nothing) /\ Lose /\ pc[c] \in {"maintainWait", "maintainFence"}
        /\ UNCHANGED <<mapState, ready, active, deferred>>
    BY <1>7 DEF MaintainHalFails, LeaveMaintain
  <2>2. loc[c].maps = <<>>
    BY <2>1 DEF CallerInv, Carriers, Releasing
  <2>3. QED
    BY <1>3, <2>1, <2>2 DEF Draining
<1>8. CASE MaintainUnlock(c)
  <2>. DEFINE l == [loc[c] EXCEPT !.empty = (active = <<>>)]
  <2>1. /\ Go(c, "maintainResult", l) /\ ready = <<>>
        /\ pc[c] = "mapReady" /\ UNCHANGED <<mapState, ready, active, deferred, hist>>
    BY <1>8 DEF MaintainUnlock
  <2>2. l.maps = loc[c].maps /\ l.works = loc[c].works
    BY <1>1 DEF Locals
  <2>. HIDE DEF l
  <2>3. QED
    BY <1>3, <2>1, <2>2 DEF Carriers
<1>9. CASE MaintainResult(c)
  <2>1. /\ \E w \in {"panicked", "releaseLock", "fire"} : Go(c, w, loc[c]) \/ Go(c, w, LosingClosures(c))
        /\ pc[c] = "maintainResult" /\ UNCHANGED <<mapState, ready, active, deferred, hist>>
    BY <1>9 DEF MaintainResult
  <2>2. LosingClosures(c).maps = loc[c].maps /\ LosingClosures(c).works = loc[c].works
    BY <1>1 DEF Locals, LosingClosures
  <2>3. QED
    BY <1>3, <2>1, <2>2 DEF Carriers, Draining
<1>10. CASE ReleaseLock(c)
  <2>. DEFINE l == [loc[c] EXCEPT !.todo = {b \in Buffer : Referenced(b)}]
  <2>1. /\ Go(c, "releaseNext", l)
        /\ pc[c] = "releaseLock" /\ UNCHANGED <<mapState, ready, active, deferred, hist>>
    BY <1>10 DEF ReleaseLock
  <2>2. l.maps = loc[c].maps /\ l.works = loc[c].works
    BY <1>1 DEF Locals
  <2>. HIDE DEF l
  <2>3. QED
    BY <1>3, <2>1, <2>2 DEF Carriers, Draining
<1>11. CASE ReleaseNext(c)
  <2>1. PICK b \in loc[c].todo :
          Go(c, IF Referenced(b) THEN "destroySnatch" ELSE "releaseNext",
             [loc[c] EXCEPT !.todo = @ \ {b}, !.buf = IF Referenced(b) THEN b ELSE NoBuffer])
    BY <1>11 DEF ReleaseNext
  <2>2. pc[c] = "releaseNext" /\ UNCHANGED <<mapState, ready, active, deferred, hist, trackersL>>
    BY <1>11 DEF ReleaseNext, locks
  <2>3. trackersL = c
    BY <2>2 DEF CarryInv
  <2>. DEFINE l == [loc[c] EXCEPT !.todo = @ \ {b}, !.buf = IF Referenced(b) THEN b ELSE NoBuffer]
  <2>4. /\ l.maps = loc[c].maps /\ l.works = loc[c].works
        /\ Go(c, "destroySnatch", l) \/ Go(c, "releaseNext", l)
    BY <1>1, <2>1 DEF Locals
  <2>. HIDE DEF l
  <2>5. QED
    BY <1>3, <2>2, <2>3, <2>4 DEF Carriers, Releasing, Draining
<1>12. CASE ReleaseDone(c)
  <2>. DEFINE l == [loc[c] EXCEPT !.buf = NoBuffer]
  <2>1. /\ Go(c, "fire", l)
        /\ pc[c] = "releaseNext" /\ UNCHANGED <<mapState, ready, active, deferred, hist>>
    BY <1>12 DEF ReleaseDone
  <2>2. l.maps = loc[c].maps /\ l.works = loc[c].works
    BY <1>1 DEF Locals
  <2>. HIDE DEF l
  <2>3. QED
    BY <1>3, <2>1, <2>2 DEF Carriers, Draining
<1>13. QED
  BY <1>4, <1>5, <1>6, <1>7, <1>8, <1>9, <1>10, <1>11, <1>12

(* Triage starts: the deferred closures come to c, which is draining now.  *)
LEMMA LockOrders ==
  ASSUME TypeInv, NEW c \in Thread, CallerInv(c), OrderInv(c), MaintainLock(c)
  PROVE  CallerInv(c)' /\ OrderInv(c)'
<1>1. /\ ThreadInv /\ loc[c] \in Locals /\ deferred' = <<>> /\ pc[c] = "maintainLock"
      /\ UNCHANGED <<mapState, ready, active, hist, trackersL>>
  BY LocType DEF TypeInv, MaintainLock, buffers
<1>2. Others(c) /\ pc'[c] = "triage" /\ loc'[c].works = deferred /\ loc'[c].maps = loc[c].maps
  <2>. DEFINE l == [loc[c] EXCEPT !.works = deferred]
  <2>1. Go(c, "triage", l)
    BY DEF MaintainLock
  <2>2. l.works = deferred /\ l.maps = loc[c].maps
    BY <1>1 DEF Locals
  <2>. HIDE DEF l
  <2>3. QED
    BY <1>1, <2>1, <2>2, GoAt
<1>3. loc[c].maps = <<>>
  BY <1>1 DEF CallerInv, Carriers, Releasing
<1>4. CallerInv(c)'
  BY <1>1, <1>2, <1>3 DEF CallerInv, Others
<1>5. ASSUME NEW b, NEW w, Behind(c, b, w) PROVE Behind(c, b, w)'
  BY <1>1, <1>2, <1>5, EmptyList DEF Behind, Carried, Deferred, With, Mapped, Draining
<1>6. Onward(c)
  BY <1>1, <1>2, <1>5 DEF Onward, InHand, Answering, Asked
<1>7. QED
  BY <1>4, <1>6, OnwardOrders

(* The head is drained: its buffers and its closures come to c together.   *)
LEMMA DrainOrders ==
  ASSUME TypeInv, NEW c \in Thread, CallerInv(c), OrderInv(c), Triage(c),
         HeadDone(active, loc[c].done)
  PROVE  CallerInv(c)' /\ OrderInv(c)'
<1>1. /\ ThreadInv /\ loc[c] \in Locals /\ loc[c].works \in Seq(WorkDone)
      /\ active \in Seq(Entries(WorkDone)) /\ active # <<>> /\ pc[c] = "triage"
      /\ ready \in Seq(Buffer) /\ active' = Tail(active)
      /\ UNCHANGED <<mapState, deferred, hist, trackersL>>
  BY LocType DEF TypeInv, LifeTypeOK, Submission, HeadDone, Triage, locks, buffers
<1>2. /\ active[1].mapped \in Seq(Buffer) /\ active[1].closures \in Seq(WorkDone)
      /\ Head(active) = active[1]
  <2>1. active[1] \in Entries(WorkDone) /\ Head(active) = active[1]
    BY <1>1
  <2>2. QED
    BY <2>1 DEF Entries
<1>3. /\ Others(c) /\ pc'[c] = "triage" /\ loc'[c].works = loc[c].works \o active[1].closures
      /\ loc'[c].maps = loc[c].maps
  <2>. DEFINE s == loc[c].works \o active[1].closures
              l == [loc[c] EXCEPT !.works = s]
  <2>1. Go(c, "triage", l)
    <3>1. Go(c, "triage", [loc[c] EXCEPT !.works = loc[c].works \o Head(active).closures])
      BY DEF Triage, ClosuresAfterHead
    <3>2. QED
      BY <1>2, <3>1
  <2>2. l.works = s /\ l.maps = loc[c].maps
    <3>. HIDE DEF s
    <3>1. QED
      BY <1>1 DEF Locals
  <2>. HIDE DEF l
  <2>3. QED
    BY <1>1, <2>1, <2>2, GoAt
<1>4. /\ \A x : Within(ready', x) <=> Within(ready, x) \/ Mapped(1, x)
      /\ \A x : Carried(c, x)' <=> Carried(c, x) \/ With(1, x)
  <2>1. ready' = ready \o active[1].mapped
    BY <1>2 DEF Triage, ReadyAfterHead
  <2>2. QED
    BY <1>1, <1>2, <1>3, <2>1, JoinList DEF Mapped, With, Carried
<1>5. /\ \A j \in DOMAIN active' :
            j \in Nat /\ j + 1 \in DOMAIN active /\ active'[j] = active[j + 1]
      /\ \A j \in DOMAIN active : j \in Nat /\ (j # 1 => j - 1 \in DOMAIN active' /\ active'[j - 1] = active[j])
      /\ 1 \in DOMAIN active
  BY <1>1
<1>6. CallerInv(c)'
  BY <1>1, <1>3 DEF CallerInv, Others, Carriers, Releasing
<1>7. ASSUME NEW b, NEW w, Behind(c, b, w) PROVE Behind(c, b, w)'
  <2>1. CASE Within(ready, b)
    BY <1>3, <1>4, <2>1 DEF Behind, Draining
  <2>2. CASE ~Within(ready, b)
    <3>1. /\ ~Deferred(w) /\ ~Carried(c, w)
          /\ \E i \in DOMAIN active :
               Mapped(i, b) /\ \A j \in DOMAIN active : With(j, w) => i <= j
      BY <1>7, <2>2 DEF Behind
    <3>2. PICK i \in DOMAIN active : Mapped(i, b) /\ \A j \in DOMAIN active : With(j, w) => i <= j
      BY <3>1
    <3>3. CASE i = 1
      BY <1>3, <1>4, <3>2, <3>3 DEF Behind, Draining
    <3>4. CASE i # 1
      <4>1. ~With(1, w)
        BY <1>5, <3>2, <3>4
      <4>2. i - 1 \in DOMAIN active' /\ Mapped(i - 1, b)'
        BY <1>5, <3>2, <3>4 DEF Mapped
      <4>3. \A j \in DOMAIN active' : With(j, w)' => i - 1 <= j
        BY <1>5, <3>2, <3>4 DEF With
      <4>4. ~Deferred(w)' /\ ~Carried(c, w)'
        BY <1>1, <1>4, <3>1, <4>1 DEF Deferred
      <4>5. QED
        BY <4>2, <4>3, <4>4 DEF Behind
    <3>5. QED
      BY <3>3, <3>4
  <2>3. QED
    BY <2>1, <2>2
<1>8. Onward(c)
  BY <1>1, <1>3, <1>7 DEF Onward, InHand, Answering, Asked
<1>9. QED
  BY <1>6, <1>8, OnwardOrders

(* c takes a ready buffer: a request it had comes to c's hand. *)
LEMMA ReadyOrders ==
  ASSUME TypeInv, NEW c \in Thread, CallerInv(c), OrderInv(c), MapReady(c)
  PROVE  CallerInv(c)' /\ OrderInv(c)'
<1>1. /\ ThreadInv /\ loc[c] \in Locals /\ pc[c] = "mapReady"
      /\ ready \in Seq(Buffer) /\ ready # <<>> /\ ready' = Tail(ready)
      /\ mapState \in [Buffer -> [st : MapStatus, op : 0..MaxMap]]
      /\ UNCHANGED <<active, deferred, trackersL, hist>>
  BY LocType DEF MapReady, TypeInv, LifeTypeOK, BufferInv, BufferTypeOK, locks
<1>2. PICK b \in Buffer : b = Head(ready)
  BY <1>1
<1>3. \A x : x # b /\ Within(ready, x) => Within(ready', x)
  BY <1>1, <1>2, TailList
<1>4. mapState'[b].st = "Idle" /\ \A x \in Buffer \ {b} : mapState'[x] = mapState[x]
  <2>1. mapState' = [mapState EXCEPT ![b] = Idle]
    BY <1>2 DEF MapReady
  <2>2. QED
    BY <1>1, <2>1 DEF Idle
<1>5. PICK q : q = mapState[b].op
  OBVIOUS
<1>6. /\ Others(c) /\ loc'[c].works = loc[c].works
      /\ \/ /\ mapState[b].st = "Waiting"
            /\ \/ pc'[c] = "mapSet" /\ loc'[c].buf = b /\ loc'[c].op = q /\ loc'[c].maps = loc[c].maps
               \/ pc'[c] = "mapReady" /\ loc'[c].maps = Append(loc[c].maps, q)
         \/ /\ mapState[b].st # "Waiting" /\ loc'[c].maps = loc[c].maps
            /\ \/ pc'[c] = "mapRestore" /\ loc'[c].buf = b
               \/ pc'[c] \in {"mapReady", "panicked"}
  <2>. DEFINE l == [loc[c] EXCEPT !.buf = b, !.op = q]
              m == [loc[c] EXCEPT !.maps = Append(@, q)]
  <2>1. /\ l.buf = b /\ l.op = q /\ l.maps = loc[c].maps /\ l.works = loc[c].works
        /\ m.maps = Append(loc[c].maps, q) /\ m.works = loc[c].works
    BY <1>1 DEF Locals
  <2>2. \/ mapState[b].st = "Waiting" /\ (Go(c, "mapSet", l) \/ Go(c, "mapReady", m))
        \/ /\ mapState[b].st # "Waiting"
           /\ Go(c, "mapRestore", l) \/ Go(c, "mapReady", loc[c]) \/ Go(c, "panicked", loc[c])
    BY <1>2, <1>5 DEF MapReady, RefuseMap
  <2>. HIDE DEF l, m
  <2>3. QED
    BY <1>1, <2>1, <2>2, GoAt
<1>7. /\ \A x : Answering(c, x) => Answering(c, x)'
      /\ mapState[b].st = "Waiting" => InHand(c, q)'
  <2>1. CASE mapState[b].st = "Waiting"
    <3>1. q \in MapOp /\ loc[c].maps \in Seq(MapOp)
      BY <1>1, <1>5, <2>1 DEF Locals, TypeInv, BufferInv
    <3>2. \A x : Within(Append(loc[c].maps, q), x) <=> Within(loc[c].maps, x) \/ x = q
      BY <3>1, AppendList
    <3>3. QED
      BY <1>6, <2>1, <3>2 DEF Answering, InHand
  <2>2. CASE mapState[b].st # "Waiting"
    BY <1>6, <2>2 DEF Answering
  <2>3. QED
    BY <2>1, <2>2
<1>8. CallerInv(c)'
  BY <1>1, <1>4, <1>6 DEF CallerInv, Others, Carriers
<1>9. ASSUME NEW x, x # b, NEW w, Behind(c, x, w) PROVE Behind(c, x, w)'
  BY <1>1, <1>3, <1>6, <1>9 DEF Behind, Carried, Deferred, With, Mapped, Draining
<1>10. Onward(c)
  <2>1. \A o : InHand(c, o) => InHand(c, o)'
    BY <1>1, <1>7 DEF InHand
  <2>2. ASSUME NEW x \in Buffer, NEW o, Asked(x, o), NEW w, Behind(c, x, w)
        PROVE  InHand(c, o)' \/ (Asked(x, o)' /\ Behind(c, x, w)')
    BY <1>4, <1>5, <1>7, <1>9, <2>2 DEF Asked
  <2>3. QED
    BY <1>1, <2>1, <2>2 DEF Onward
<1>11. QED
  BY <1>8, <1>10, OnwardOrders

(* What c took is mapped, or not, and joins what it answers; or the state  *)
(* is put back.                                                            *)
LEMMA SetOrders ==
  ASSUME TypeInv, NEW c \in Thread, CallerInv(c), OrderInv(c),
         MapSet(c) \/ MapHalFails(c) \/ MapRestore(c)
  PROVE  CallerInv(c)' /\ OrderInv(c)'
<1>1. /\ ThreadInv /\ loc[c] \in Locals /\ pc[c] \in {"mapSet", "mapRestore"} /\ loc[c].buf \in Buffer
      /\ mapState \in [Buffer -> [st : MapStatus, op : 0..MaxMap]]
      /\ UNCHANGED <<active, ready, deferred>>
  BY LocType DEF MapSet, MapHalFails, MapRestore, TypeInv, BufferInv, BufferTypeOK, life,
                 ThreadInv, Operands, AtBuffer
<1>2. PICK b \in Buffer : b = loc[c].buf
  BY <1>1
<1>3. SamePromises /\ \A x, o : Asked(x, o) /\ x \in Buffer => Asked(x, o)'
  <2>1. mapState[b].st = "Idle"
    BY <1>1, <1>2 DEF CallerInv
  <2>2. mapState' = mapState \/ \E v : mapState' = [mapState EXCEPT ![b] = v]
    BY <1>2 DEF MapSet, MapHalFails, MapRestore, buffers
  <2>3. SamePromises
    BY LoseSame DEF MapSet, MapHalFails, MapRestore
  <2>4. QED
    BY <1>1, <2>1, <2>2, <2>3 DEF Asked
<1>4. /\ Others(c) /\ pc'[c] = "mapReady" /\ loc'[c].works = loc[c].works
      /\ \/ pc[c] = "mapSet" /\ loc'[c].maps = Append(loc[c].maps, loc[c].op)
         \/ pc[c] # "mapSet" /\ loc'[c].maps = loc[c].maps
  <2>. DEFINE m == [loc[c] EXCEPT !.maps = Append(@, loc[c].op), !.buf = NoBuffer, !.op = 0]
              l == [loc[c] EXCEPT !.buf = NoBuffer, !.op = 0]
  <2>1. /\ m.maps = Append(loc[c].maps, loc[c].op) /\ m.works = loc[c].works
        /\ l.maps = loc[c].maps /\ l.works = loc[c].works
    BY <1>1 DEF Locals
  <2>2. \/ pc[c] = "mapSet" /\ Go(c, "mapReady", m)
        \/ pc[c] # "mapSet" /\ Go(c, "mapReady", l)
    BY DEF MapSet, MapHalFails, MapRestore
  <2>. HIDE DEF l, m
  <2>3. QED
    BY <1>1, <2>1, <2>2, GoAt
<1>5. \A o : InHand(c, o) => InHand(c, o)'
  <2>1. CASE pc[c] = "mapSet"
    <3>1. loc[c].op \in MapOp /\ loc[c].maps \in Seq(MapOp)
      BY <1>1, <2>1 DEF Locals, ThreadInv, Operands
    <3>2. \A x : Within(Append(loc[c].maps, loc[c].op), x) <=> Within(loc[c].maps, x) \/ x = loc[c].op
      BY <3>1, AppendList
    <3>3. loc'[c].maps = Append(loc[c].maps, loc[c].op) \/ pc[c] # "mapSet"
      BY <1>4
    <3>4. QED
      BY <2>1, <3>2, <3>3 DEF Answering, InHand
  <2>2. CASE pc[c] # "mapSet"
    BY <1>4, <2>2 DEF Answering, InHand
  <2>3. QED
    BY <2>1, <2>2
<1>6. CallerInv(c)'
  BY <1>1, <1>4 DEF CallerInv, Others, Carriers
<1>7. \A x, w : Behind(c, x, w) => Behind(c, x, w)'
  BY <1>1, <1>4 DEF Behind, Carried, Deferred, With, Mapped, Draining
<1>8. Onward(c)
  BY <1>3, <1>5, <1>7 DEF Onward, SamePromises
<1>9. QED
  BY <1>6, <1>8, OnwardOrders

LEMMA MaintainOrders ==
  ASSUME TypeInv, CarryInv, NEW c \in Thread, CallerInv(c), OrderInv(c), MaintainStep(c)
  PROVE  CallerInv(c)' /\ OrderInv(c)'
BY MaintainPlain, LockOrders, DrainOrders, ReadyOrders, SetOrders DEF MaintainStep

(* Buffer::map_async: the request waits, is listed, or is refused. *)
LEMMA AskOrders ==
  ASSUME TypeInv, NEW c \in Thread, CallerInv(c), OrderInv(c), MapAsyncState(c)
  PROVE  CallerInv(c)' /\ OrderInv(c)'
<1>1. /\ ThreadInv /\ loc[c] \in Locals /\ pc[c] = "mapAsyncState" /\ loc[c].buf \in Buffer
      /\ mapState \in [Buffer -> [st : MapStatus, op : 0..MaxMap]]
      /\ active \in Seq(Entries(WorkDone)) /\ UNCHANGED <<active, ready, deferred, hist>>
  BY LocType DEF MapAsyncState, TypeInv, BufferInv, BufferTypeOK, life, ThreadInv, Operands,
                 AtBuffer, LifeTypeOK, Submission
<1>2. PICK b \in Buffer, o \in 0..MaxMap : b = loc[c].buf /\ o = loc[c].op
  BY <1>1 DEF Locals
<1>3. loc[c].maps = <<>>
  BY <1>1 DEF CallerInv, Carriers, Releasing
<1>4. CASE mapState[b].st = "Idle"
  <2>1. Others(c) /\ pc'[c] = "mapAsyncLife" /\ loc'[c] = loc[c]
    BY <1>1, <1>2, <1>4, GoAt DEF MapAsyncState
  <2>2. mapState' = [mapState EXCEPT ![b] = [st |-> "Waiting", op |-> o]]
    BY <1>2, <1>4 DEF MapAsyncState
  <2>3. Asked(b, o)' /\ \A x \in Buffer : \A y : Asked(x, y) => Asked(x, y)'
    BY <1>1, <1>4, <2>2 DEF Asked
  <2>4. CallerInv(c)'
    BY <1>2, <1>3, <2>1, <2>3 DEF CallerInv, Others
  <2>5. Onward(c)
    BY <1>1, <2>1, <2>3 DEF Onward, InHand, Answering, Behind, Carried, Deferred, With, Mapped, Draining
  <2>6. QED
    BY <2>4, <2>5, OnwardOrders
<1>5. CASE mapState[b].st # "Idle"
  <2>. DEFINE l == [Nothing EXCEPT !.maps = <<o>>]
  <2>1. Go(c, "fire", l) /\ UNCHANGED <<mapState, active, ready, deferred, hist>>
    BY <1>1, <1>2, <1>5 DEF MapAsyncState
  <2>2. l.works = <<>>
    BY DEF Nothing
  <2>. HIDE DEF l
  <2>3. SameLists(active, active) /\ SamePromises
    BY <1>1, <2>1, ListsKept DEF SamePromises
  <2>4. QED
    BY <1>1, <1>3, <2>1, <2>2, <2>3, GoPlain DEF Carriers, Draining
<1>6. QED
  BY <1>4, <1>5

LEMMA ListOrders ==
  ASSUME TypeInv, NEW c \in Thread, CallerInv(c), OrderInv(c), MapAsyncLife(c)
  PROVE  CallerInv(c)' /\ OrderInv(c)'
<1>1. /\ ThreadInv /\ pc[c] = "mapAsyncLife" /\ loc[c].buf \in Buffer /\ loc[c].op \in MapOp
      /\ ready \in Seq(Buffer) /\ active \in Seq(Entries(WorkDone)) /\ deferred \in Seq(WorkDone)
      /\ hist \in HistoryType /\ UNCHANGED <<mapState, deferred, trackersL>>
  BY DEF MapAsyncLife, TypeInv, LifeTypeOK, ThreadInv, Operands, AtBuffer, Submission, buffers, locks
<1>2. PICK b \in Buffer, o \in MapOp : b = loc[c].buf /\ o = loc[c].op
  BY <1>1
<1>3. Others(c) /\ pc'[c] = "idle" /\ loc'[c].maps = <<>> /\ loc'[c].works = <<>>
  BY <1>1, GoAt DEF MapAsyncLife, Nothing
<1>4. loc[c].maps = <<>> /\ Asked(b, o)
  BY <1>1, <1>2 DEF CallerInv, Carriers, Releasing
<1>5. /\ hist'.mapFired = hist.mapFired /\ hist'.workMaps = hist.workMaps
      /\ hist'.workFired = hist.workFired
      /\ \A x \in MapOp : x # o => hist'.mapIndex[x] = hist.mapIndex[x]
  <2>. DEFINE n == LatestSubmissionIndex(active, b)
              f == [hist.mapIndex EXCEPT ![o] = n]
  <2>1. hist' = [hist EXCEPT !.mapIndex = f]
    BY <1>2 DEF MapAsyncLife
  <2>2. \A x \in MapOp : x # o => f[x] = hist.mapIndex[x]
    BY <1>1 DEF HistoryType
  <2>. HIDE DEF f
  <2>3. QED
    BY <1>1, <2>1, <2>2 DEF HistoryType
<1>6. /\ active' = MapWithSubmission(active, b) /\ ready' = MapAtOnce(active, ready, b)
  BY <1>2 DEF MapAsyncLife
<1>7. /\ \A x : Within(ready, x) => Within(ready', x)
      /\ DOMAIN active' = DOMAIN active
      /\ \A i \in DOMAIN active : \A x : Mapped(i, x) => Mapped(i, x)'
      /\ \A i \in DOMAIN active : active'[i].closures = active[i].closures
      /\ Within(ready', b) \/ \E i \in DOMAIN active' : Mapped(i, b)'
  <2>1. CASE Uses(active, b) = {}
    <3>1. active' = active /\ ready' = Append(ready, b)
      BY <1>6, <2>1 DEF MapWithSubmission, MapAtOnce
    <3>2. QED
      BY <1>1, <3>1, AppendList DEF Mapped
  <2>2. CASE Uses(active, b) # {}
    <3>1. PICK i : i = LatestUse(active, b)
      OBVIOUS
    <3>2. /\ i \in DOMAIN active /\ DOMAIN active' = DOMAIN active
          /\ active[i].mapped \in Seq(Buffer)
          /\ active'[i].mapped = Append(active[i].mapped, b)
          /\ \A j \in DOMAIN active : j # i => active'[j] = active[j]
      BY <1>1, <1>6, <2>2, <3>1, MapListed
    <3>3. active'[i].closures = active[i].closures
      <4>. DEFINE m == Append(active[i].mapped, b)
      <4>1. active' = [active EXCEPT ![i].mapped = m]
        BY <1>6, <2>2, <3>1 DEF MapWithSubmission
      <4>2. active[i] \in Entries(WorkDone)
        BY <1>1, <3>2
      <4>. HIDE DEF m
      <4>3. QED
        BY <1>1, <3>2, <4>1, <4>2 DEF Entries
    <3>4. ready' = ready
      BY <1>6, <2>2 DEF MapAtOnce
    <3>5. \A x : Within(active'[i].mapped, x) <=> Within(active[i].mapped, x) \/ x = b
      BY <3>2, AppendList
    <3>6. QED
      BY <3>2, <3>3, <3>4, <3>5 DEF Mapped
  <2>3. QED
    BY <2>1, <2>2
<1>8. \A w : ~Carried(c, w)' /\ (Deferred(w)' <=> Deferred(w))
             /\ \A j \in DOMAIN active : With(j, w)' <=> With(j, w)
  BY <1>1, <1>3, <1>7, EmptyList DEF Carried, Deferred, With
<1>9. \A x, w : Behind(c, x, w) => Behind(c, x, w)'
  BY <1>7, <1>8 DEF Behind
<1>10. Behind(c, b, 0)'
  <2>1. ~Deferred(0) /\ \A j \in DOMAIN active : ~With(j, 0)
    <3>1. \A s \in Seq(WorkDone) : ~Within(s, 0)
      <4>1. 0 \notin WorkDone
        BY BoundAssumption DEF WorkDone
      <4>2. \A s \in Seq(WorkDone) : \A k \in DOMAIN s : s[k] \in WorkDone
        OBVIOUS
      <4>3. QED
        BY <4>1, <4>2 DEF Within
    <3>2. \A j \in DOMAIN active : active[j].closures \in Seq(WorkDone)
      <4>1. \A j \in DOMAIN active : active[j] \in Entries(WorkDone)
        BY <1>1
      <4>2. QED
        BY <4>1 DEF Entries
    <3>3. QED
      BY <1>1, <3>1, <3>2 DEF Deferred, With
  <2>2. QED
    BY <1>7, <1>8, <2>1 DEF Behind
<1>11. CallerInv(c)'
  BY <1>1, <1>3 DEF CallerInv, Others
<1>12. Onward(c)
  <2>1. \A x, y : Asked(x, y) => Asked(x, y)'
    BY <1>1 DEF Asked
  <2>2. \A y : InHand(c, y) => InHand(c, y)'
    BY <1>1, <1>4, EmptyList DEF InHand, Answering
  <2>3. QED
    BY <1>4, <1>5, <1>9, <1>10, <2>1, <2>2 DEF Onward
<1>13. QED
  BY <1>11, <1>12, OnwardOrders

(* Buffer::unmap: the request it aborts comes to c's hand. *)
LEMMA UnmapOrders ==
  ASSUME TypeInv, NEW c \in Thread, CallerInv(c), OrderInv(c), Unmap(c)
  PROVE  CallerInv(c)' /\ OrderInv(c)'
<1>1. /\ ThreadInv /\ loc[c] \in Locals /\ pc[c] = "unmap" /\ loc[c].buf \in Buffer
      /\ mapState \in [Buffer -> [st : MapStatus, op : 0..MaxMap]]
      /\ active \in Seq(Entries(WorkDone)) /\ UNCHANGED <<active, ready, deferred, hist, trackersL>>
  BY LocType DEF Unmap, TypeInv, BufferInv, BufferTypeOK, life, ThreadInv, Operands,
                 AtBuffer, LifeTypeOK, Submission
<1>2. PICK b \in Buffer, q \in 0..MaxMap : b = loc[c].buf /\ q = mapState[b].op
  BY <1>1
<1>3. loc[c].maps = <<>>
  BY <1>1 DEF CallerInv, Carriers, Releasing
<1>4. /\ Others(c) /\ pc'[c] \in {"fire", "unmapInit"} /\ loc'[c].works = loc[c].works
      /\ \/ mapState' = mapState /\ loc'[c].maps = <<>>
         \/ /\ mapState' = [mapState EXCEPT ![b] = Idle]
            /\ \/ mapState[b].st # "Waiting" /\ loc'[c].maps = <<>>
               \/ pc'[c] = "fire" /\ loc'[c].maps = <<q>>
  <2>. DEFINE l == [loc[c] EXCEPT !.maps = <<q>>]
              m == [loc[c] EXCEPT !.maps = @]
  <2>1. l.maps = <<q>> /\ l.works = loc[c].works /\ m.maps = <<>> /\ m.works = loc[c].works
    BY <1>1, <1>3 DEF Locals
  <2>2. \/ mapState' = mapState /\ Go(c, "fire", loc[c])
        \/ /\ mapState' = [mapState EXCEPT ![b] = Idle]
           /\ \/ mapState[b].st # "Waiting" /\ (Go(c, "unmapInit", loc[c]) \/ Go(c, "fire", m))
              \/ Go(c, "fire", l)
    BY <1>2 DEF Unmap
  <2>. HIDE DEF l, m
  <2>3. QED
    BY <1>1, <1>3, <2>1, <2>2, GoAt
<1>5. CallerInv(c)'
  BY <1>1, <1>4 DEF CallerInv, Others, Carriers
<1>6. ASSUME NEW x \in Buffer, NEW o, Asked(x, o) PROVE Asked(x, o)' \/ InHand(c, o)'
  <2>1. CASE x = b /\ mapState' # mapState
    <3>1. loc'[c].maps = <<o>>
      BY <1>2, <1>4, <1>6, <2>1 DEF Asked
    <3>2. QED
      BY <3>1, SingleList DEF InHand, Answering
  <2>2. CASE ~(x = b /\ mapState' # mapState)
    BY <1>1, <1>4, <1>6, <2>2 DEF Asked
  <2>3. QED
    BY <2>1, <2>2
<1>7. \A x, w : Behind(c, x, w) => Behind(c, x, w)'
  BY <1>1, <1>4 DEF Behind, Carried, Deferred, With, Mapped, Draining
<1>8. Onward(c)
  BY <1>1, <1>3, <1>6, <1>7, EmptyList DEF Onward, InHand, Answering
<1>9. QED
  BY <1>5, <1>8, OnwardOrders

(* The other steps on a buffer, and the end of a call. *)
LEMMA BufferPlain ==
  ASSUME TypeInv, NEW c \in Thread, CallerInv(c), OrderInv(c),
         \/ WritePending(c) \/ WriteTrack(c) \/ WriteCheck(c) \/ UnmapInit(c)
         \/ DestroySnatch(c) \/ DestroyPending(c) \/ DestroyLife(c)
         \/ FireLost(c) \/ Fired(c)
  PROVE  CallerInv(c)' /\ OrderInv(c)'
<1>1. ThreadInv /\ active \in Seq(Entries(WorkDone)) /\ loc[c] \in Locals /\ hist \in HistoryType
  BY LocType DEF TypeInv, LifeTypeOK, Submission
<1>2. SameLists(active, active) /\ (hist' = hist => SamePromises)
  BY <1>1, ListsKept DEF SamePromises
<1>3. ASSUME NEW w, NEW l, Go(c, w, l), pc[c] \notin Draining,
             w \notin {"mapSet", "mapRestore", "mapAsyncLife"},
             \/ loc[c].maps = <<>>
             \/ w \in Carriers
             \/ w \in Releasing /\ trackersL' = c,
             \/ l = Nothing /\ loc[c].maps = <<>>
             \/ l.maps = loc[c].maps /\ l.works = loc[c].works,
             UNCHANGED <<mapState, ready, deferred>>, SameLists(active, active'), SamePromises
      PROVE CallerInv(c)' /\ OrderInv(c)'
  <2>1. \/ l.maps = loc[c].maps /\ l.works = loc[c].works
        \/ l.maps = <<>> /\ l.works = <<>> /\ loc[c].maps = <<>>
    BY <1>3 DEF Nothing
  <2>2. pc[c] # "mapSet"
    BY <1>3 DEF Draining
  <2>3. QED
    BY <1>3, <2>1, <2>2, GoPlain
<1> USE DEF life, buffers
<1>4. CASE WritePending(c) \/ WriteTrack(c) \/ WriteCheck(c) \/ UnmapInit(c)
  <2>1. /\ pc[c] \in {"writePending", "writeTrack", "writeCheck", "unmapInit"}
        /\ \/ \E w \in {"writeTrack", "writeCheck", "fire"} : Go(c, w, loc[c])
           \/ Go(c, "idle", Nothing)
        /\ UNCHANGED <<mapState, ready, active, deferred, hist>>
    BY <1>4 DEF WritePending, WriteTrack, WriteCheck, LeaveWrite, UnmapInit
  <2>2. loc[c].maps = <<>>
    BY <2>1 DEF CallerInv, Carriers, Releasing
  <2>3. QED
    BY <1>2, <1>3, <2>1, <2>2 DEF Draining
<1>5. ASSUME NEW l, LeaveDestroy(c, l), pc[c] \in Releasing, l \in Locals, trackersL' = trackersL,
             l.maps = loc[c].maps, l.works = loc[c].works,
             UNCHANGED <<mapState, ready, deferred, hist>>, SameLists(active, active')
      PROVE CallerInv(c)' /\ OrderInv(c)'
  <2>1. pc[c] \notin Draining /\ pc[c] \notin Carriers
    BY <1>5 DEF Releasing, Draining, Carriers
  <2>2. CASE trackersL = c
    <3>. DEFINE m == [l EXCEPT !.buf = NoBuffer]
    <3>1. Go(c, "releaseNext", m)
      BY <1>5, <2>2 DEF LeaveDestroy
    <3>2. m.maps = loc[c].maps /\ m.works = loc[c].works
      BY <1>5 DEF Locals
    <3>. HIDE DEF m
    <3>3. QED
      BY <1>2, <1>3, <1>5, <2>1, <3>1, <3>2 DEF Carriers
  <2>3. CASE trackersL # c
    <3>1. Go(c, "idle", Nothing)
      BY <1>5, <2>3 DEF LeaveDestroy
    <3>2. loc[c].maps = <<>>
      BY <2>1, <2>3 DEF CallerInv
    <3>3. QED
      BY <1>2, <1>3, <1>5, <2>1, <3>1, <3>2
  <2>4. QED
    BY <2>2, <2>3
<1>6. /\ [loc[c] EXCEPT !.tmp = {}] \in Locals
      /\ [loc[c] EXCEPT !.tmp = {}].maps = loc[c].maps
      /\ [loc[c] EXCEPT !.tmp = {}].works = loc[c].works
  BY <1>1 DEF Locals
<1>7. ASSUME NEW w \in Releasing, NEW l, Go(c, w, l), pc[c] \in Releasing, trackersL' = trackersL,
             l.maps = loc[c].maps, l.works = loc[c].works,
             UNCHANGED <<mapState, ready, active, deferred, hist>>
      PROVE CallerInv(c)' /\ OrderInv(c)'
  <2>1. loc[c].maps = <<>> \/ trackersL = c
    BY <1>7 DEF CallerInv, Releasing, Carriers
  <2>2. pc[c] \notin Draining
    BY <1>7 DEF Releasing, Draining
  <2>3. QED
    BY <1>2, <1>3, <1>7, <2>1, <2>2 DEF Releasing
<1>8. CASE DestroySnatch(c)
  <2>1. pc[c] \in Releasing /\ UNCHANGED <<mapState, ready, active, deferred, hist, trackersL>>
    BY <1>8 DEF DestroySnatch, locks, Releasing
  <2>2. PICK b : b = loc[c].buf
    OBVIOUS
  <2>. DEFINE l == [loc[c] EXCEPT !.tmp = {b}]
  <2>3. Go(c, "destroyPending", l) \/ LeaveDestroy(c, loc[c])
    BY <1>8, <2>2 DEF DestroySnatch
  <2>4. l.maps = loc[c].maps /\ l.works = loc[c].works
    BY <1>1 DEF Locals
  <2>. HIDE DEF l
  <2>5. QED
    BY <1>1, <1>2, <1>5, <1>7, <2>1, <2>3, <2>4 DEF Releasing
<1>9. CASE DestroyPending(c)
  <2>1. pc[c] \in Releasing /\ UNCHANGED <<mapState, ready, active, deferred, hist, trackersL>>
    BY <1>9 DEF DestroyPending, Releasing
  <2>2. Go(c, "destroyLife", loc[c]) \/ LeaveDestroy(c, [loc[c] EXCEPT !.tmp = {}])
    BY <1>9 DEF DestroyPending
  <2>3. QED
    BY <1>2, <1>5, <1>6, <1>7, <2>1, <2>2 DEF Releasing
<1>10. CASE DestroyLife(c)
  <2>1. /\ pc[c] \in Releasing /\ UNCHANGED <<mapState, ready, deferred, hist, trackersL>>
        /\ active' = ScheduleResourceDestruction(active, loc[c].buf)
        /\ LeaveDestroy(c, [loc[c] EXCEPT !.tmp = {}])
    BY <1>10 DEF DestroyLife, Releasing
  <2>2. SameLists(active, active')
    BY <1>1, <2>1, ListsKept
  <2>3. QED
    BY <1>5, <1>6, <2>1, <2>2
<1>11. CASE FireLost(c)
  <2>. DEFINE l == [loc[c] EXCEPT !.lost = FALSE]
              n == hist.lostFired + 1
  <2>1. /\ pc[c] = "fire" /\ Go(c, "fire", l) /\ hist' = [hist EXCEPT !.lostFired = n]
        /\ UNCHANGED <<mapState, ready, active, deferred>>
    BY <1>11 DEF FireLost
  <2>2. l.maps = loc[c].maps /\ l.works = loc[c].works
    BY <1>1 DEF Locals
  <2>. HIDE DEF l, n
  <2>3. SamePromises
    BY <1>1, <2>1 DEF HistoryType, SamePromises
  <2>4. QED
    BY <1>2, <1>3, <2>1, <2>2, <2>3 DEF Carriers, Draining
<1>12. CASE Fired(c)
  <2>. DEFINE l == [loc[c] EXCEPT !.after = "idle"]
  <2>1. /\ pc[c] = "fire" /\ (Go(c, "idle", Nothing) \/ Go(c, "destroySnatch", l))
        /\ UNCHANGED <<mapState, ready, active, deferred, hist>> /\ loc[c].maps = <<>>
    BY <1>12 DEF Fired
  <2>2. l.maps = loc[c].maps /\ l.works = loc[c].works
    BY <1>1 DEF Locals
  <2>. HIDE DEF l
  <2>3. QED
    BY <1>2, <1>3, <2>1, <2>2 DEF Draining
<1>13. QED
  BY <1>4, <1>8, <1>9, <1>10, <1>11, <1>12

(* UserClosures::fire answers the requests in hand first. *)
LEMMA AnswerOrders ==
  ASSUME TypeInv, NEW c \in Thread, CallerInv(c), OrderInv(c), FireMapping(c)
  PROVE  CallerInv(c)' /\ OrderInv(c)'
<1>1. /\ ThreadInv /\ loc[c] \in Locals /\ loc[c].maps \in Seq(MapOp) /\ loc[c].maps # <<>>
      /\ pc[c] = "fire" /\ hist \in HistoryType
      /\ UNCHANGED <<mapState, active, ready, deferred, trackersL>>
  BY LocType DEF FireMapping, TypeInv, life, buffers, locks
<1>2. PICK o \in MapOp : o = Head(loc[c].maps)
  BY <1>1, TailList
<1>3. Others(c) /\ pc'[c] = "fire" /\ loc'[c].maps = Tail(loc[c].maps) /\ loc'[c].works = loc[c].works
  <2>. DEFINE l == [loc[c] EXCEPT !.maps = Tail(@)]
  <2>1. Go(c, "fire", l)
    BY DEF FireMapping
  <2>2. l.maps = Tail(loc[c].maps) /\ l.works = loc[c].works
    BY <1>1 DEF Locals
  <2>. HIDE DEF l
  <2>3. QED
    BY <1>1, <2>1, <2>2, GoAt
<1>4. /\ hist'.mapIndex = hist.mapIndex /\ hist'.workMaps = hist.workMaps
      /\ hist'.workFired = hist.workFired /\ hist'.mapFired[o] > 0
      /\ \A x \in MapOp : x # o => hist'.mapFired[x] = hist.mapFired[x]
  <2>. DEFINE f == [hist.mapFired EXCEPT ![o] = @ + 1]
  <2>1. hist' = [hist EXCEPT !.mapFired = f]
    BY <1>2 DEF FireMapping
  <2>2. f[o] = hist.mapFired[o] + 1 /\ hist.mapFired[o] \in Nat
        /\ \A x \in MapOp : x # o => f[x] = hist.mapFired[x]
    BY <1>1 DEF HistoryType
  <2>. HIDE DEF f
  <2>3. QED
    BY <1>1, <2>1, <2>2 DEF HistoryType
<1>5. \A x : Answering(c, x) => x = o \/ Answering(c, x)'
  BY <1>1, <1>2, <1>3, TailList DEF Answering
<1>6. CallerInv(c)'
  BY <1>1, <1>3 DEF CallerInv, Others, Carriers
<1>7. \A x, w : Behind(c, x, w) => Behind(c, x, w)'
  BY <1>1, <1>3 DEF Behind, Carried, Deferred, With, Mapped, Draining
<1>8. Onward(c)
  BY <1>1, <1>4, <1>5, <1>7 DEF Onward, InHand, Asked
<1>9. QED
  BY <1>6, <1>8, OnwardOrders

(* A closure is fired when c has no request in hand, so when each that it  *)
(* comes after is answered.                                                *)
LEMMA CompleteOrders ==
  ASSUME TypeInv, NEW c \in Thread, CallerInv(c), OrderInv(c), FireWorkDone(c)
  PROVE  CallerInv(c)' /\ OrderInv(c)'
<1>1. /\ ThreadInv /\ loc[c] \in Locals /\ loc[c].works \in Seq(WorkDone) /\ loc[c].works # <<>>
      /\ pc[c] = "fire" /\ loc[c].maps = <<>> /\ hist \in HistoryType
      /\ UNCHANGED <<mapState, active, ready, deferred, trackersL>>
  BY LocType DEF FireWorkDone, TypeInv, life, buffers, locks
<1>2. PICK w \in WorkDone : w = Head(loc[c].works)
  BY <1>1, TailList
<1>3. Others(c) /\ pc'[c] = "fire" /\ loc'[c].maps = <<>> /\ loc'[c].works = Tail(loc[c].works)
  <2>. DEFINE l == [loc[c] EXCEPT !.works = Tail(@)]
  <2>1. Go(c, "fire", l)
    BY DEF FireWorkDone
  <2>2. l.maps = <<>> /\ l.works = Tail(loc[c].works)
    BY <1>1 DEF Locals
  <2>. HIDE DEF l
  <2>3. QED
    BY <1>1, <2>1, <2>2, GoAt
<1>4. /\ hist'.mapIndex = hist.mapIndex /\ hist'.workMaps = hist.workMaps
      /\ hist'.mapFired = hist.mapFired
      /\ \A x \in WorkDone : x # w => hist'.workFired[x] = hist.workFired[x]
  <2>. DEFINE f == [hist.workFired EXCEPT ![w] = @ + 1]
  <2>1. hist' = [hist EXCEPT !.workFired = f]
    BY <1>2 DEF FireWorkDone
  <2>2. \A x \in WorkDone : x # w => f[x] = hist.workFired[x]
    BY <1>1 DEF HistoryType
  <2>. HIDE DEF f
  <2>3. QED
    BY <1>1, <2>1, <2>2 DEF HistoryType
<1>5. Carried(c, w) /\ \A x : Carried(c, x)' => Carried(c, x)
  BY <1>1, <1>2, <1>3, TailList DEF Carried
<1>6. \A o : ~InHand(c, o)
  BY <1>1, EmptyList DEF InHand, Answering
<1>7. \A b, x : /\ Behind(c, b, x) => Behind(c, b, x)'
                /\ ~Behind(c, b, w)
  BY <1>1, <1>3, <1>5 DEF Behind, Deferred, With, Mapped, Draining
<1>8. ASSUME NEW x \in WorkDone \cup {0}, NEW o \in Promised(x)'
      PROVE  (\/ hist.mapFired[o] > 0
              \/ /\ ~Over(x)
                 /\ InHand(c, o) \/ \E b \in Buffer : Asked(b, o) /\ Behind(c, b, x))'
  <2>1. o \in Promised(x)
    BY <1>4, <1>8 DEF Promised
  <2>2. \/ hist.mapFired[o] > 0
        \/ ~Over(x) /\ \E b \in Buffer : Asked(b, o) /\ Behind(c, b, x)
    BY <1>6, <2>1 DEF OrderInv
  <2>3. CASE hist.mapFired[o] > 0
    BY <1>4, <2>3
  <2>4. ASSUME ~Over(x), NEW b \in Buffer, Asked(b, o), Behind(c, b, x)
        PROVE  (~Over(x) /\ \E y \in Buffer : Asked(y, o) /\ Behind(c, y, x))'
    <3>1. x # w
      BY <1>7, <2>4
    <3>2. ~Over(x)' /\ Asked(b, o)' /\ Behind(c, b, x)'
      BY <1>1, <1>4, <1>7, <2>4, <3>1 DEF Over, Asked
    <3>3. QED
      BY <3>2
  <2>5. QED
    BY <2>2, <2>3, <2>4
<1>9. CallerInv(c)'
  BY <1>1, <1>3 DEF CallerInv, Others
<1>10. QED
  BY <1>8, <1>9 DEF OrderInv

LEMMA BufferOrders ==
  ASSUME TypeInv, NEW c \in Thread, CallerInv(c), OrderInv(c), FireStep(c) \/ BufferStep(c)
  PROVE  CallerInv(c)' /\ OrderInv(c)'
BY BufferPlain, AskOrders, ListOrders, UnmapOrders, AnswerOrders, CompleteOrders
DEF FireStep, BufferStep

(* A closure registered comes after the requests that are unanswered, and  *)
(* goes where the next one would.                                          *)
LEMMA RegisterOrders ==
  ASSUME TypeInv, FiredInv, NEW c \in Thread, CallerInv(c), OrderInv(c),
         NEW t \in Thread, CallWorkDone(t)
  PROVE  CallerInv(c)' /\ OrderInv(c)'
<1>1. /\ hist \in HistoryType /\ active \in Seq(Entries(WorkDone)) /\ deferred \in Seq(WorkDone)
      /\ UNCHANGED <<mapState, ready, trackersL, pc, loc>>
  BY DEF TypeInv, LifeTypeOK, Submission, CallWorkDone, buffers, locks
<1>2. PICK v \in WorkDone : v = hist.works + 1
  BY <1>1, BoundAssumption DEF CallWorkDone, HistoryType, WorkDone
<1>3. v # 0 /\ ~Held(v) /\ hist.workFired[v] = 0
  <2>1. hist.works \in Nat
    BY <1>1 DEF HistoryType
  <2>2. v > hist.works /\ v # 0
    BY <1>2, <2>1
  <2>3. QED
    BY <2>1, <2>2 DEF FiredInv, WorkDone
<1>4. /\ hist'.mapIndex = hist.mapIndex /\ hist'.mapFired = hist.mapFired
      /\ hist'.workFired = hist.workFired
      /\ \A x \in WorkDone : x # v => hist'.workMaps[x] = hist.workMaps[x]
      /\ hist'.workMaps[v] = {o \in MapOp : hist.mapIndex[o] >= 0 /\ hist.mapFired[o] = 0}
  <2>. DEFINE S == {o \in MapOp : hist.mapIndex[o] >= 0 /\ hist.mapFired[o] = 0}
              f == [hist.workMaps EXCEPT ![v] = S]
              g == [hist.workIndex EXCEPT ![v] = hist.tracked]
  <2>1. hist' = [hist EXCEPT !.works = v, !.workIndex = g, !.workMaps = f]
    BY <1>2 DEF CallWorkDone
  <2>. HIDE DEF S
  <2>2. f[v] = S /\ \A x \in WorkDone : x # v => f[x] = hist.workMaps[x]
    BY <1>1 DEF HistoryType
  <2>. HIDE DEF f, g
  <2>3. hist'.workMaps = f
    BY <1>1, <2>1 DEF HistoryType
  <2>4. QED
    BY <1>1, <2>1, <2>2, <2>3 DEF HistoryType, S
<1>5. /\ DOMAIN active' = DOMAIN active /\ \A i \in DOMAIN active : active'[i].mapped = active[i].mapped
      /\ \A x : x # v => /\ Deferred(x)' <=> Deferred(x)
                         /\ \A i \in DOMAIN active : With(i, x)' <=> With(i, x)
      /\ \A i \in DOMAIN active : With(i, v)' => i = Len(active)
      /\ active # <<>> => ~Deferred(v)'
  <2>1. ~Deferred(v) /\ \A i \in DOMAIN active : ~With(i, v)
    BY <1>3 DEF Held
  <2>2. CASE active = <<>>
    <3>1. active' = <<>> /\ deferred' = Append(deferred, v)
      BY <1>2, <2>2 DEF CallWorkDone, ClosureWithSubmission, ClosureDeferred
    <3>2. QED
      BY <1>1, <2>2, <3>1, AppendList DEF Deferred
  <2>3. CASE active # <<>>
    <3>1. PICK n : n = Len(active)
      OBVIOUS
    <3>. DEFINE s == Append(active[n].closures, v)
    <3>2. active' = [active EXCEPT ![n].closures = s] /\ deferred' = deferred
      BY <1>2, <2>3, <3>1 DEF CallWorkDone, ClosureWithSubmission, ClosureDeferred
    <3>3. n \in DOMAIN active /\ active[n] \in Entries(WorkDone)
      BY <1>1, <2>3, <3>1
    <3>4. active[n].closures \in Seq(WorkDone)
      BY <3>3 DEF Entries
    <3>5. \A x : Within(s, x) <=> Within(active[n].closures, x) \/ x = v
      BY <3>4, AppendList
    <3>. HIDE DEF s
    <3>6. /\ DOMAIN active' = DOMAIN active
          /\ active'[n].mapped = active[n].mapped /\ active'[n].closures = s
          /\ \A i \in DOMAIN active : i # n => active'[i] = active[i]
      BY <1>1, <3>2, <3>3 DEF Entries
    <3>7. \A i \in DOMAIN active : active'[i].mapped = active[i].mapped
      BY <3>6
    <3>8. \A x : x # v => \A i \in DOMAIN active : With(i, x)' <=> With(i, x)
      BY <3>5, <3>6 DEF With
    <3>9. \A i \in DOMAIN active : With(i, v)' => i = n
      BY <2>1, <3>6 DEF With
    <3>10. \A x : Deferred(x)' <=> Deferred(x)
      BY <3>2 DEF Deferred
    <3>11. QED
      BY <2>1, <3>1, <3>6, <3>7, <3>8, <3>9, <3>10
  <2>4. QED
    BY <2>2, <2>3
<1>6. \A x : Carried(c, x)' <=> Carried(c, x)
  BY <1>1 DEF Carried
<1>7. ASSUME NEW b, NEW x, x # v, Behind(c, b, x) PROVE Behind(c, b, x)'
  BY <1>1, <1>5, <1>6, <1>7 DEF Behind, Mapped
<1>8. ASSUME NEW b, Behind(c, b, 0) PROVE Behind(c, b, v)'
  <2>1. ~Carried(c, v)'
    BY <1>3, <1>6 DEF Held
  <2>2. CASE Within(ready, b)
    BY <1>1, <2>1, <2>2 DEF Behind
  <2>3. CASE ~Within(ready, b)
    <3>1. PICK i \in DOMAIN active : Mapped(i, b)
      BY <1>8, <2>3 DEF Behind
    <3>2. ~Deferred(v)' /\ \A j \in DOMAIN active' : With(j, v)' => i <= j
      BY <1>1, <1>5, <3>1
    <3>3. i \in DOMAIN active' /\ Mapped(i, b)'
      BY <1>5, <3>1 DEF Mapped
    <3>4. QED
      BY <2>1, <3>2, <3>3 DEF Behind
  <2>4. QED
    BY <2>2, <2>3
<1>9. ASSUME NEW x \in WorkDone \cup {0}, NEW o \in Promised(x)'
      PROVE  (\/ hist.mapFired[o] > 0
              \/ /\ ~Over(x)
                 /\ InHand(c, o) \/ \E b \in Buffer : Asked(b, o) /\ Behind(c, b, x))'
  <2>1. \A b, y : (Asked(b, y)' <=> Asked(b, y)) /\ (InHand(c, y)' <=> InHand(c, y))
    BY <1>1 DEF Asked, InHand, Answering
  <2>2. CASE x # v
    <3>1. o \in Promised(x) /\ (Over(x)' <=> Over(x))
      BY <1>4, <1>9, <2>2 DEF Promised, Over
    <3>2. \/ hist.mapFired[o] > 0
          \/ /\ ~Over(x)
             /\ InHand(c, o) \/ \E b \in Buffer : Asked(b, o) /\ Behind(c, b, x)
      BY <3>1 DEF OrderInv
    <3>3. QED
      BY <1>4, <1>7, <2>1, <2>2, <3>1, <3>2
  <2>3. CASE x = v
    <3>1. o \in Promised(0) /\ ~(hist.mapFired[o] > 0)
      BY <1>3, <1>4, <1>9, <2>3 DEF Promised
    <3>2. InHand(c, o) \/ \E b \in Buffer : Asked(b, o) /\ Behind(c, b, 0)
      BY <3>1 DEF OrderInv
    <3>3. ~Over(v)'
      BY <1>3, <1>4 DEF Over
    <3>4. QED
      BY <1>8, <2>1, <2>3, <3>2, <3>3
  <2>4. QED
    BY <2>2, <2>3
<1>10. CallerInv(c)'
  BY <1>1 DEF CallerInv, Asked
<1>11. QED
  BY <1>9, <1>10 DEF OrderInv

LEMMA NextOrders ==
  ASSUME NEW c, SoleCaller(c)
  PROVE  TypeInv /\ ClosureInv /\ CallerInv(c) /\ OrderInv(c) /\ [Next]_vars
           => CallerInv(c)' /\ OrderInv(c)'
<1> SUFFICES ASSUME TypeInv, ClosureInv, CallerInv(c), OrderInv(c), [Next]_vars
             PROVE  CallerInv(c)' /\ OrderInv(c)'
  OBVIOUS
<1>1. c \in Thread /\ CarryInv /\ FiredInv
  BY DEF SoleCaller, ClosureInv
<1>2. CASE GpuComplete \/ LoseElsewhere \/ UNCHANGED vars
  <2>1. UNCHANGED <<mapState, active, ready, deferred, trackersL, pc, loc>>
    BY <1>2 DEF GpuComplete, LoseElsewhere, vars, life, buffers, locks
  <2>2. SamePromises
    BY <1>2, LoseSame DEF GpuComplete, LoseElsewhere, vars
  <2>3. CallerInv(c)'
    BY <2>1 DEF CallerInv, Asked
  <2>4. Onward(c)
    BY <2>1, <2>2
    DEF Onward, SamePromises, InHand, Answering, Asked, Behind, Carried, Deferred, With, Mapped
  <2>5. QED
    BY <1>1, <2>3, <2>4, OnwardOrders
<1>3. ASSUME NEW t \in Thread, Call(t) \/ Step(t), ~CallWorkDone(t) PROVE CallerInv(c)' /\ OrderInv(c)'
  <2>1. CASE t # c
    BY <1>3, <2>1, OtherOrders
  <2>2. CASE t = c
    BY <1>1, <1>3, <2>2, CallOrders, SubmitOrders, MaintainOrders, BufferOrders DEF Step
  <2>3. QED
    BY <2>1, <2>2
<1>4. ASSUME NEW t \in Thread, CallWorkDone(t) PROVE CallerInv(c)' /\ OrderInv(c)'
  BY <1>1, <1>4, RegisterOrders
<1>5. QED
  BY <1>2, <1>3, <1>4 DEF Next

LEMMA InitOrders == ASSUME NEW c, SoleCaller(c), Init PROVE CallerInv(c) /\ OrderInv(c)
<1>1. c \in Thread /\ \A t \in Thread : pc[t] = "idle" /\ loc[t] = Nothing
  BY DEF SoleCaller, Init
<1>2. CallerInv(c)
  BY <1>1 DEF CallerInv, Elsewhere, Nothing
<1>3. /\ \A o \in MapOp : hist.mapIndex[o] = -1
      /\ \A w \in WorkDone : hist.workMaps[w] = {}
  BY DEF Init, NoHistory
<1>4. \A w \in WorkDone \cup {0} : Promised(w) = {}
  BY <1>3 DEF Promised
<1>5. QED
  BY <1>2, <1>4 DEF OrderInv

(***************************************************************************)
(* "the spec requires all mapping callbacks that are registered before a   *)
(* on_submitted_work_done callback to be fired before the                  *)
(* on_submitted_work_done callback" (device/mod.rs, in fire): whatever the *)
(* driver fails at, when one thread submits, maps, unmaps, destroys,       *)
(* drops and polls, while the others write, register closures and destroy  *)
(* the device.  A request it made is in a list no later than the closure,  *)
(* triage drains both in that order, and fire answers before it completes. *)
(***************************************************************************)
THEOREM ClosuresAfterMaps == ASSUME NEW c, SoleCaller(c) PROVE Spec => []WorkDoneAfterMaps
<1>1. Init => CallerInv(c) /\ OrderInv(c)
  BY InitOrders
<1>2. TypeInv /\ ClosureInv /\ CallerInv(c) /\ OrderInv(c) /\ [Next]_vars
        => CallerInv(c)' /\ OrderInv(c)'
  BY NextOrders
<1>3. OrderInv(c) => WorkDoneAfterMaps
  <2>1. 0 \notin WorkDone
    BY BoundAssumption DEF WorkDone
  <2>2. QED
    BY <2>1 DEF OrderInv, WorkDoneAfterMaps, Promised, Over
<1>4. QED
  BY <1>1, <1>2, <1>3, Types, Closures, PTL DEF Spec
===============================================================================
