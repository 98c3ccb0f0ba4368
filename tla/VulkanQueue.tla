------------------------------- MODULE VulkanQueue -------------------------------
(***************************************************************************)
(* The Vulkan backend between wgpu-core and the driver: the relay of       *)
(* semaphores that puts submissions in a row, the fence that says how far  *)
(* the GPU has come, as a timeline semaphore or as a pool of Vulkan        *)
(* fences, and the semaphores of the swapchain's images.  wgpu-core calls  *)
(* it under the fence lock, one call at a time; a fence read while the GPU *)
(* signals has the answer of one moment of the reading, since the GPU      *)
(* signals in the order of submission.  The GPU, the presentation engine   *)
(* and the rules for semaphores are those of the Vulkan specification.     *)
(***************************************************************************)
EXTENDS Integers, Sequences, FiniteSets

CONSTANTS
    Images,         \* number of swapchain images
    MaxSubmissions, \* bound on the submissions
    MaxFrames       \* bound on the images acquired

ASSUME VulkanAssumption == Images \in Nat \ {0} /\ MaxSubmissions \in Nat /\ MaxFrames \in Nat

VARIABLES
    relay,        \* RelaySemaphores: [wait, signal]
    timeline,     \* Fence is a TimelineSemaphore, not a FencePool
    counter,      \* the timeline semaphore's value
    lastCompleted, active, free,   \* FencePool
    acquireSem,   \* SwapchainAcquireSemaphore of each slot: [wait, used]
    nextAcquire,  \* next_acquire_index
    presentSem,   \* SwapchainPresentSemaphores of each image: [made, index]
    frame,        \* the SurfaceTexture that wgpu-core holds: [image, slot]
    submitted,    \* the fence value of the last submission
    frames,       \* images acquired so far
    queue,        \* external: what the queue has not finished
    finished,     \* external: the last submission that ended on the GPU
    signaled,     \* external: the semaphores and Vulkan fences that are signaled
    engine,       \* external: the images the presentation engine can give
    mishap,       \* what the backend does not handle: see CarefulFrame, ...
    clash         \* a signaled or pending semaphore was given to be signaled

relayVars == <<relay, submitted>>
fenceVars == <<timeline, lastCompleted, active, free>>
chainVars == <<acquireSem, nextAcquire, presentSem, frame, frames, mishap, clash>>
gpuVars == <<counter, queue, finished, signaled, engine>>
vulkanVars == <<relayVars, fenceVars, chainVars, gpuVars>>

None == [image |-> 0, slot |-> 0]
Relay(i) == <<"relay", i, 0>>
Acquire(slot) == <<"acquire", slot, 0>>
PresentSem(image, i) == <<"present", image, i>>
VkFence(i) == <<"fence", i, 0>>

VulkanInit ==
    /\ relay = [wait |-> {}, signal |-> Relay(1)]
    /\ timeline \in BOOLEAN
    /\ counter = 0 /\ lastCompleted = 0 /\ active = <<>> /\ free = <<>>
    /\ acquireSem = [s \in 1..Images |-> [wait |-> TRUE, used |-> 0]]
    /\ nextAcquire = 1
    /\ presentSem = [i \in 1..Images |-> [made |-> 0, index |-> 0]]
    /\ frame = None
    /\ submitted = 0 /\ frames = 0
    /\ queue = <<>> /\ finished = 0 /\ signaled = {} /\ engine = 1..Images
    /\ mishap = FALSE /\ clash = FALSE

(* RelaySemaphores::advance: what the next submission will use.            *)
Advanced(r) ==
    IF r.wait = {} THEN [wait |-> {r.signal}, signal |-> Relay(2)]
    ELSE [wait |-> {r.signal}, signal |-> CHOOSE s \in r.wait : TRUE]

(* Fence::get_latest and check_active.                                     *)
Highest(S) == CHOOSE n \in S : \A m \in S : n >= m
GetLatest ==
    IF timeline THEN counter
    ELSE Highest({lastCompleted} \cup
            {active[i].value : i \in {j \in DOMAIN active : active[j].raw \in signaled}})

(* Fence::maintain: one pass over the active fences frees those at or below *)
(* the latest value, another retains the rest; what it freed is reset.     *)
Recycled ==
    LET latest == GetLatest
        pushed[n \in 0..Len(active)] ==
            IF n = 0 THEN free
            ELSE IF active[n].value <= latest THEN Append(pushed[n - 1], active[n].raw)
            ELSE pushed[n - 1]
    IN  pushed[Len(active)]
Remaining ==
    LET latest == GetLatest
        retained[n \in 0..Len(active)] ==
            IF n = 0 THEN <<>>
            ELSE IF active[n].value > latest THEN Append(retained[n - 1], active[n])
            ELSE retained[n - 1]
    IN  retained[Len(active)]
Reset_Never == {}                                  \* wrong: still signaled
Reset == {active[i].raw : i \in {j \in DOMAIN active : active[j].value <= GetLatest}}

(* The fence a submission signals: the last one freed, or a new one.       *)
NextFence ==
    IF Recycled # <<>> THEN Recycled[Len(Recycled)]
    ELSE VkFence(Len(active) + Len(free) + 1)

MaintainAndPush(value) ==
    IF timeline THEN UNCHANGED <<lastCompleted, active, free>>
    ELSE /\ lastCompleted' = GetLatest
         /\ active' = Append(Remaining, [value |-> value, raw |-> NextFence])
         /\ free' = IF Recycled # <<>> THEN SubSeq(Recycled, 1, Len(Recycled) - 1) ELSE <<>>

(* A semaphore that is signaled, or will be before any wait in the queue.  *)
Pending(s) ==
    \/ s \in signaled
    \/ \E i \in DOMAIN queue : s \in queue[i].waits \cup queue[i].signals

(* Queue::submit, given whether its commands draw to the frame: the first  *)
(* that does waits for the image, and each signals a semaphore that the    *)
(* presentation will wait for.                                             *)
Submit(draws) ==
    LET value == submitted + 1
        slot == frame.slot
        image == frame.image
        p == presentSem[image]
        waits == relay.wait \cup
                 (IF draws /\ acquireSem[slot].wait THEN {Acquire(slot)} ELSE {})
        signals == {relay.signal} \cup
                   (IF draws THEN {PresentSem(image, p.index + 1)} ELSE {})
        raw == IF timeline THEN {} ELSE {NextFence}
    IN  /\ submitted < MaxSubmissions
        /\ draws => frame # None
        /\ acquireSem' = IF draws
             THEN [acquireSem EXCEPT ![slot] = [wait |-> FALSE, used |-> value]]
             ELSE acquireSem
        /\ presentSem' = IF draws
             THEN [presentSem EXCEPT ![image] =
                     [made |-> Highest({p.made, p.index + 1}), index |-> p.index + 1]]
             ELSE presentSem
        /\ relay' = Advanced(relay)
        /\ submitted' = value
        /\ MaintainAndPush(value)
        /\ signaled' = IF timeline THEN signaled ELSE signaled \ Reset
        /\ queue' = Append(queue, [op |-> "submit", value |-> value,
                                   image |-> IF draws THEN image ELSE 0,
                                   waits |-> waits, signals |-> signals, raises |-> raw,
                                   started |-> FALSE])
        /\ UNCHANGED <<timeline, nextAcquire, frame, frames, mishap, clash,
                       counter, finished, engine>>

(* wait_for_fence has returned: the value is reached, or the time is up.   *)
FenceFor(value) == {i \in DOMAIN active : active[i].value >= value}
Reached(value) ==
    IF timeline THEN counter >= value
    ELSE \/ value <= lastCompleted
         \/ \E i \in FenceFor(value) :
               /\ \A j \in FenceFor(value) : i <= j
               /\ active[i].raw \in signaled

(* NativeSwapchain::acquire waits for the submissions that last used the   *)
(* semaphore, but does not look whether it waited long enough; then for    *)
(* the image.                                                              *)
AcquireImage(image) ==
    LET slot == nextAcquire IN
    /\ frame = None /\ frames < MaxFrames /\ image \in engine
    /\ mishap' = (mishap \/ ~Reached(acquireSem[slot].used))
    /\ clash' = (clash \/ Pending(Acquire(slot)))
    /\ signaled' = signaled \cup {Acquire(slot)}
    /\ engine' = engine \ {image}
    /\ nextAcquire' = (nextAcquire % Images) + 1
    /\ frame' = [image |-> image, slot |-> slot]
    /\ frames' = frames + 1
    /\ UNCHANGED <<relayVars, fenceVars, acquireSem, presentSem, counter, queue, finished>>

(* NativeSwapchain::present: waits for every submission that drew to the   *)
(* image.  One that nothing drew to leaves its acquire semaphore signaled. *)
EndUsage_Forgets(p) == p           \* wrong: waits again for what was waited for
EndUsage(p) == [p EXCEPT !.index = 0]

PresentImage ==
    /\ frame # None
    /\ mishap' = (mishap \/ acquireSem[frame.slot].wait)
    /\ acquireSem' = [acquireSem EXCEPT ![frame.slot].wait = TRUE]
    /\ presentSem' = [presentSem EXCEPT ![frame.image] = EndUsage(@)]
    /\ queue' = Append(queue,
          [op |-> "present", value |-> 0, image |-> frame.image,
           waits |-> {PresentSem(frame.image, i) : i \in 1..presentSem[frame.image].index},
           signals |-> {}, raises |-> {}, started |-> FALSE])
    /\ frame' = None
    /\ UNCHANGED <<relayVars, fenceVars, nextAcquire, frames, clash,
                   counter, finished, signaled, engine>>

(* NativeSwapchain::discard_texture does nothing: the image is not given   *)
(* back and its semaphores are left as they are.                           *)
DiscardImage ==
    /\ frame # None
    /\ frame' = None
    /\ mishap' = TRUE
    /\ UNCHANGED <<relayVars, fenceVars, acquireSem, nextAcquire, presentSem, frames,
                   clash, gpuVars>>

(* The GPU: batches start in order once what they wait for is signaled,    *)
(* may overlap, and signal in order.  A presentation gives the image back. *)
GpuStart(i) ==
    /\ ~queue[i].started /\ \A j \in 1..(i - 1) : queue[j].started
    /\ queue[i].waits \subseteq signaled
    /\ signaled' = signaled \ queue[i].waits
    /\ queue' = [queue EXCEPT ![i].started = TRUE]
    /\ UNCHANGED <<relayVars, fenceVars, chainVars, counter, finished, engine>>

GpuFinish ==
    /\ queue # <<>> /\ queue[1].started
    /\ LET q == queue[1] IN
         /\ signaled' = signaled \cup q.signals \cup q.raises
         /\ clash' = (clash \/ q.signals \cap signaled # {})
         /\ finished' = IF q.op = "submit" THEN q.value ELSE finished
         /\ counter' = IF q.op = "submit" /\ timeline THEN q.value ELSE counter
         /\ engine' = IF q.op = "present" THEN engine \cup {q.image} ELSE engine
    /\ queue' = Tail(queue)
    /\ UNCHANGED <<relayVars, fenceVars, acquireSem, nextAcquire, presentSem, frame,
                   frames, mishap>>

VulkanNext ==
    \/ \E draws \in BOOLEAN : Submit(draws)
    \/ \E image \in 1..Images : AcquireImage(image)
    \/ PresentImage \/ DiscardImage
    \/ \E i \in DOMAIN queue : GpuStart(i)
    \/ GpuFinish

VulkanSpec == VulkanInit /\ [][VulkanNext]_vulkanVars

--------------------------------------------------------------------------------

(* The fence tells the truth, however it is implemented, however often its *)
(* Vulkan fences were recycled: the value it reports is that of a          *)
(* submission that ended, and of the last one that did; waiting for any    *)
(* submission finds what to wait for, and does not return before its end.  *)
FenceSound ==
    /\ GetLatest = finished
    /\ \A v \in 1..submitted :
          /\ Reached(v) => v <= finished
          /\ ~timeline /\ v > lastCompleted => FenceFor(v) # {}

(* Unless an image was discarded or presented without being drawn to, or   *)
(* the GPU took longer than an acquisition waits: submissions do not       *)
(* overlap; each semaphore has at any time at most one signal that nobody  *)
(* has waited for, and each wait has its signal, so that nothing the queue *)
(* holds waits for ever; and an image is shown only once the submissions   *)
(* that drew to it have ended.                                             *)
Signals(s) == Cardinality({i \in DOMAIN queue : s \in queue[i].signals})
              + (IF s \in signaled THEN 1 ELSE 0)
Waits(s) == Cardinality({i \in DOMAIN queue : ~queue[i].started /\ s \in queue[i].waits})
Used == signaled \cup UNION {queue[i].waits \cup queue[i].signals : i \in DOMAIN queue}
SemaphoresRight ==
    mishap \/
    /\ ~clash
    /\ \A i, j \in DOMAIN queue :
          queue[i].op = "submit" /\ queue[j].op = "submit" /\ queue[i].started
              /\ queue[j].started => i = j
    /\ \A s \in Used : s[1] # "fence" => Signals(s) - Waits(s) \in {0, 1}
    /\ \A i, j \in DOMAIN queue :
          queue[j].op = "present" /\ queue[j].started /\ i < j => queue[i].image # queue[j].image
    /\ queue # <<>> => queue[1].started \/ queue[1].waits \subseteq signaled
================================================================================
