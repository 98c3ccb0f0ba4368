# wgpu in TLA+

TLA+ models of the parts of wgpu where concurrency, ownership and the GPU meet:
`src/wgpu-core`, which tracks submissions, keeps resources alive while the GPU
uses them, maps and unmaps buffers, turns recorded commands into barriers and
lazy clears, calls the application back, and survives the loss of the device;
with the Vulkan queue below it, the staging belt above it, and two algorithms of
naga, the shader translator. The modules are translated from the source; `PROJECT.json`
says, for every definition, which lines it stands for.

Paths below are relative to `src/wgpu-core/src/` unless they start with `src/`.

## 1. Inventory

### The system

An application holds ids (or `Arc`s) of resources and calls a `Device` and its
`Queue` from any thread. A queue takes command buffers, inserts the barriers
they need, hands them to the driver (wgpu-hal) with the value a fence is to
reach, and records the submission in the *lifetime tracker*. `Device::maintain`
(from `poll` and at the end of every `submit`) reads the fence, retires finished
submissions, maps the buffers that waited for them, and collects callbacks,
which are fired after every lock is released.

| Component | State | Operations | Talks to |
|---|---|---|---|
| LifetimeTracker (`device/life.rs`) | `active` submissions, `ready_to_map`, `work_done_closures` | track, map, schedule destruction, triage, handle mappings, add closures | called under the queue's `life_tracker` lock by Queue, Buffer, Device |
| Queue and PendingWrites (`device/queue.rs`) | submission indices, `pending_writes` (encoder, `dst_buffers`, `temp_resources`) | submit, write_buffer, write_texture, on_submitted_work_done, drop | driver, fence, lifetime tracker |
| Device (`device/resource.rs`, `device/mod.rs`, `device/global.rs`) | `valid`, device-lost closure, trackers, fence | poll, maintain, lose, destroy, release_gpu_resources, fire | all of the above; application callbacks |
| Buffer (`resource.rs`) | raw handle behind the snatch lock, `map_state` | map_async, map, unmap, destroy, drop | pending writes, lifetime tracker |
| Locks (`snatch.rs`, `lock/`) | snatch lock, fence lock, trackers, pending writes, life tracker, map_state, ranks | acquire, release, rank check | every operation |
| ResourcePool (`pool.rs`, `binding_model.rs`) | key to `Arc<OnceCell<Weak<_>>>` | get_or_init, remove (from Drop) | creation and Drop of bind group layouts |
| Identity, registry, storage, hub | free ids with epochs, id to value | prepare, assign, get, remove | every entry point of `global.rs` |
| Usage trackers (`track/`) | per-resource uses of a scope, an encoder, the device | merge, set, transitions | encoders, submit |
| Init tracking (`init_tracker/`) | uninitialized ranges | check, drain, discard | encoders, submit |
| Command encoder (`command/`) | status machine, pool of hal encoders | begin pass, finish, submit | passes, Queue |
| Presentation (`present.rs`) | the one acquired texture of a surface | acquire, present, discard, configure | Queue, surface |
| Ray tracing (`device/ray_tracing.rs`) | BLAS compaction state, build indices | prepare, handle, compact | lifetime tracker |
| wgpu-hal Vulkan | fences, fence pool, relay semaphores | submit, wait, get_fence_value | driver |
| wgpu utilities (`src/wgpu/src/util/belt.rs`) | staging chunks: active, closed, free | write, finish, recall | map_async callbacks |
| naga (`src/naga/src`): declaration order, continue forwarding | stacks of a depth-first search, of loops and switches | solve, dfs; enter, exit, continue | front and back ends |
| other backends, tools, tests, examples | | | |

### What is hard, and what makes each component correct

`PROJECT.json` lists the hazards, each at its line. They fall into families:

* **Lifetimes.** No explicit free exists: an `Arc` or a snatched raw handle is
  moved from owner to owner (application, pending writes, submitting thread,
  active submission) under different locks. Correct: the raw handle outlives
  every use by the GPU.
* **Mapping.** `map_async`, `unmap`, `destroy`, `submit` and `maintain` race over
  `map_state`, `ready_to_map` and each submission's `mapped` list. Correct: CPU
  and GPU never hold the same buffer, and every request is answered once.
* **Ordering.** Indices are allocated, submitted, tracked and retired in separate
  steps. Correct: `active` is sorted and agrees with the driver's queue.
* **Callbacks.** Collected under locks, fired outside them. Correct: each runs
  exactly once, after what it waits for, in the order WebGPU asks for.
* **Loss.** A driver error, or `destroy`, invalidates the device between any two
  steps. Correct: reported once, at the right time, and nothing is left behind.
* **Locks.** Six locks, taken in orders that `lock/rank.rs` declares in part.
  Correct: no cycle of waiting threads.
* **Sharing.** Pool entries, ids and tracker indices are reused while somebody
  may still hold an old one. Correct: the old and the new are never confused.
* **Tables that run ahead.** The device's usage tracker and the record of what is
  uninitialized are updated while commands are recorded and baked, the GPU later,
  and each command buffer was encoded against an older view of both. Correct: at
  every step, what the tables say is what the GPU will find when it gets there.
* **Ranges and machines.** Init ranges, encoder states, surface states, the
  translator's stacks. Correct: equal to a simple reference (a set of indices,
  the specification's machine, the meaning of the program).

## 2. Modules

| Module | Models | Role |
|---|---|---|
| `LifetimeTracker` | `device/life.rs` | the tracker's methods as operators on `active` |
| `DeviceQueue` | `device/queue.rs`, `device/resource.rs`, `device/mod.rs`, `device/global.rs`, `resource.rs` | threads, locks, GPU, callbacks; extends `LifetimeTracker` |
| `MCDeviceQueue` | | instances of `DeviceQueue` for TLC |
| `ResourcePool`, `MCResourcePool` | `pool.rs`, `binding_model.rs` | the pool and its instance |
| `UsageTracker` | `track/` | states, barriers, merging of scopes, as operators |
| `CommandEncoding` | `command/` (encoding), `command/memory_init.rs` | what finish and submit make of commands; extends `UsageTracker` |
| `CommandStream` | `device/queue.rs`, `command/mod.rs` | encoders, queue writes, submit, GPU; extends `CommandEncoding` |
| `QueueMemory` | | the abstract specification of `CommandStream`: a memory |
| `MCCommandStream` | | instances of `CommandStream` |
| `EncoderStatus` | `command/mod.rs`, `command/compute.rs`, `command/render.rs` | an encoder's status machine |
| `Registry` | `identity.rs`, `registry.rs`, `storage.rs` | ids and the table they index |
| `InitRanges` | `init_tracker/` | the lists of uninitialized ranges |
| `LockRank` | `lock/` | the lock rank checker, over mutexes and RwLocks |
| `Presentation` | `present.rs`, `device/resource.rs`, `src/wgpu/src/api/surface_texture.rs` | a surface and its frames |
| `AccelStructures` | `command/ray_tracing.rs`, `resource.rs`, `device/life.rs`, `device/queue.rs` | builds, uses, compaction |
| `VulkanQueue` | `src/wgpu-hal/src/vulkan/` | relay, fences, swapchain semaphores |
| `StagingBelt` | `src/wgpu/src/util/belt.rs` | the belt's chunks |
| `GlobalIndex` | `src/naga/src/front/wgsl/index.rs` | the depth-first sort of declarations |
| `ContinueForward` | `src/naga/src/back/continue_forward.rs`, the HLSL and GLSL writers | continue out of switches |
| `MCComponents` | | one instance of each of the ten modules above |
| `DeviceQueueProofs`, `CompletionProofs`, `MappingProofs`, `ProgressProofs`, `StreamProofs`, `ComponentProofs`, `ResourceProofs`, `ForwardProofs` | | theorems |

`DeviceQueue` and `CommandStream` look at the same `submit` from two sides.
`DeviceQueue` has its locks, threads and failures and knows of a command buffer
only which buffers it uses; `CommandStream` has one submit at a time, which
`DeviceQueue`'s fence shows to be so, and knows what the commands do. Neither
needs the other's state: barriers do not decide what is freed, and when the GPU
finishes does not decide which barriers it was given.

### LifetimeTracker and DeviceQueue

`LifetimeTracker` gives each method as a function of the list `active`. An entry
keeps the submission's index, the buffers its encoders use, the destroyed
handles among its `temp_resources`, the buffers to map when it completes and its
work-done closures.

`DeviceQueue` runs the methods. A thread's `pc` says between which two lock
operations it stands, `loc` holds its locals, and an action is everything the
code does from one lock operation to the next. Between any two actions another
thread, or the GPU, may step.

| Code | Actions |
|---|---|
| `Queue::submit` | CallSubmit, SubmitFence, SubmitPrepare / SubmitReject, SubmitHal / SubmitHalFails, SubmitTrack, then maintain |
| `Device::poll`, `maintain` | CallPoll, CallWait, PollFence, MaintainBegin, MaintainWait, MaintainFence, MaintainHalFails |
| `Queue::maintain`, `triage_submissions`, `handle_mapping`, `Buffer::map` | MaintainLock, Triage, MapReady, MapSet, MapHalFails, MapRestore, MaintainUnlock, MaintainResult |
| `release_gpu_resources` | ReleaseLock, ReleaseNext, ReleaseDone, with the Destroy actions between |
| `UserClosures::fire` | FireMapping, FireWorkDone, FireLost, Fired |
| `Queue::write_buffer` | CallWrite, WritePending, WriteTrack, WriteCheck |
| `Buffer::map_async` | CallMapAsync, MapAsyncState, MapAsyncLife |
| `unmap`, `destroy`, drop | CallUnmap, CallDestroy, CallDrop, Unmap, UnmapInit, DestroySnatch, DestroyPending, DestroyLife |
| `on_submitted_work_done`, `Device::destroy` | CallWorkDone, CallDestroyDevice |
| driver | GpuComplete, LoseElsewhere, and the `HalFails` actions |

State: `valid`, `lostClosure`; `activeIndex`, `lastSuccessful`; `gpu`, `gpuDone`
(the driver's queue and the fence); `active`, `ready`, `deferred` (the tracker);
`recording`, `dst`, `temps` (the pending writes); `snatched`, `mapState`,
`handle` (the buffers); one variable per lock; and `hist`, which only records
what was asked and answered.

Ownership is derived, not stored: `Referenced(b)` says some `Arc` of the buffer
is left, `RawAlive(b)` that its raw handle is. A step that drops the last owner
therefore frees the handle in the model exactly when Rust would.

What the model decides about the code:

* The snatch lock's write side is taken and released inside one action
  (`snatchable.snatch` and its guard's end), so only its readers have a variable.
  Every read acquisition happens with none of the other locks held, so that
  preferring readers over a waiting writer hides no cycle between locks.
* `command_indices` is only locked inside the fence's write side and needs no
  variable. The trackers are held over several actions only by
  `release_gpu_resources`; elsewhere they are held within one action, whose guard
  still waits for them.
* The fence's value grows in submission order: `GpuComplete` is the driver, and
  stands for code outside the component.
* `write_buffer` releases its two guards in one action: nothing happens between.
* A client submits only buffers it still holds, which bounds the data; the
  command buffer then keeps them.
* `Patient` separates two kinds of client. A patient one leaves a buffer's
  mapping alone until the callback of its last request has run. The other races
  unmap, destroy and map against its own pending request.
* `HalMayFail` allows driver errors where `handle_hal_error` is called: preparing
  or handing over a submission, waiting, reading the fence, mapping; and, in
  `LoseElsewhere`, `lose_if_oom` (`device/resource.rs:695`) and driver calls of
  operations that are not modelled.

### ResourcePool

One action per place where the pool's lock, the slot's `OnceCell` or a reference
count decides: Get, LookupOccupied, LookupVacant, Construct, Constructed,
ConstructFails, Upgrade, Race, Release, Remove. A slot stands for one `OnceCell`
allocation and may be used again only once nobody refers to it.

### CommandStream and QueueMemory

`UsageTracker` abstracts the trackers' arrays to functions on *keys* (a buffer,
or one subresource of a texture) whose values are sets of usages; `Advance` is
`insert_or_barrier_update`, with the start state that `texture.rs` fills in for
a subresource it did not know. `CommandEncoding` folds a list of commands into
an encoder: `Transferred`, `Computed` and `Rendered` are a transfer, a compute
pass and a render pass, each with its barriers, its initialization actions and
the discarded attachments it must clear first; `PassEnded` is `close_and_swap`;
`Baked` is what submit does with a finished command buffer. In `CommandStream`
`Finish`, `QueueWrite`, `QueueWriteRejected`, `SubmitStart`, `SubmitBake`,
`SubmitSkip`, `SubmitFlush` and `SubmitFail` interleave; `Execute` is the GPU, by
the contract of wgpu-hal: a barrier must start from the state a resource is in, a
use must be covered by that state, and memory is garbage until written.

`QueueMemory` has none of this: a memory that starts as zeros, writes that take
effect at once, submissions that run as one step or not at all. `KeepsPromise`
says that `CommandStream` implements it, with the memory as the GPU's will be
once the pending writes have run and with garbage that nobody may see read as
zero.

### The components of MCComponents

They share no state, so `MCComponents` runs one of them in each behaviour
(`subject`); each keeps its own variables and its own next-state relation.

* `EncoderStatus`: one action per call (`PushCommand`, `BeginPass`, `EndPass`,
  `FinishEncoder`, `SubmitBuffer`), since each holds the encoder's mutex.
  `calls` records what was asked, and `FinishedWellNested` judges the status by
  that history and WebGPU's rules for the encoder's state.
* `Registry`: `Prepare`, `Assign`, `BeginRemove`, `RemoveEntry`, `ReleaseId`, one
  per lock taken. `Abandon` is the id that `surface_get_current_texture` prepares
  and never assigns.
* `InitRanges`: `Check`, `Drained` and `Discarded` are the searches and splits of
  the range lists; every query is asked of every state. `disordered` marks the
  states after a discard that breaks the order of a list.
* `LockRank`: `AskLock` and `AskWrongLock` are `acquire`, which a rank permits or
  panics over; `GrantLock` is parking_lot; `DropGuard`, `DropWrongGuard` and
  `DowngradeGuard` end or weaken a guard.
* `Presentation`: `configure_surface` and `get_current_texture` in the steps
  their locks leave open, `AcquireFail` where the driver fails once it has given
  out the image; `PresentFrame`, `DropFrame`, `CloneFrame`, `DestroyFrame` for the
  application's objects; `LoseDevice` at any time, `ReleaseFrame` for
  `release_gpu_resources`, and `LastReference` where a texture goes with its
  image. `idleImages` are those the swapchain can give out; `discarded` those
  given to Vulkan's `discard_texture`, which does nothing
  (`vulkan/swapchain/native.rs:521`), so that they are not given out again.
* `AccelStructures`: `SubmitValidate` and `SubmitTrack` with a gap between them
  where `PrepareCompact`, `CompactRead`, `CompactRecord` and `AsPoll` may come.
* `VulkanQueue`: `Submit`, `AcquireImage`, `PresentImage`, `DiscardImage`, and the
  GPU's `GpuStart` and `GpuFinish`, for both kinds of fence. `clash` tells that a
  semaphore was signaled twice, `mishap` that the caller left the careful path.
* `StagingBelt`: `AllocateActive`, `AllocateFree`, `AllocateNew`, `FinishBelt`,
  `Recall`, the application's `SubmitBelt`, and the queue that makes the copies
  and maps the chunks again in any order. Offsets count 4-byte units.
* `GlobalIndex`: one action per turn of `dfs`'s loop, the recursion as a stack,
  every sequence of distinct references (`dependencies` is an ordered set of names)
  that three declarations can make to three names as an initial state.
* `ContinueForward`: a walk over every small program of loops, switches and
  continues; `code` is what the writer puts out, and `ForwardedRight` reads it as
  the target language does.

## 3. Runs

Six runs pass; each of their properties has a mutant of the code that breaks it.
Six runs show, each with one property, where the code and a statement in the
repository part ways.

| Run | Instance | Checks |
|---|---|---|
| `lifetime` | two uncoordinated threads, one mappable, copyable buffer mapped at creation, 2 submissions, 1 map, driver failures; about 3 million states | `TypeOK`, `NoUseAfterFree`, `ActiveSorted`, `InFlightTracked` |
| `mapping` | a patient client and a poller, one mappable buffer and one mapped at creation, batches of one or two command buffers, 2 submissions, 2 maps, 1 closure; about 4.5 million states | `MappedNotInFlight`, `MapCallbackKept`, `WorkDoneKept`, `WorkDoneAfterGpu`, `LostWhenIdle`, `NoDeadlock` |
| `delivery` | one thread that makes every call, with fairness, 1 submission, 2 maps, 1 closure | `WorkDoneAfterMaps`, `NeverPanics`, `MapAnswered`, `WorkDoneAnswered`, `LostAnswered` |
| `resource_pool` | three threads, two keys, four slots, four calls, with fairness | `AtMostOneAlive`, `EntryWhileAlive`, `RemovesItsOwn`, `Returns` |
| `recording` | three interchangeable encoders, one buffer in two ranges and one texture of two subresources, eight lists of commands, submissions of one or two command buffers, one queue write; about 136 000 states | `TypeOK`, `BarriersRight`, `DeviceTrackerAhead`, `GarbageTracked`, `KeepsPromise` |
| `components` | one encoder with two passes and five calls; two threads and five ids; two levels of five layers; three threads and four locks of three ranks; two swapchain images, four submissions, three frames; two presenting threads; two BLASes and a TLAS, four submissions; chunks of four units and four writes; three declarations and three names; programs of six statements; about 1.85 million states | the properties below |

What the `components` run checks:

| Property | Says |
|---|---|
| `FinishedWellNested` | an encoder finishes well exactly when its passes were opened one at a time, ended before anything else, and every command encodes; it then holds all of them, in order |
| `RunsOnce` | no two executed command buffers come from the same encoder |
| `IdsSound` | no id is issued twice; ids in use, abandoned or in transit never share an index; the count is that of the ids not freed; a free index is vacant in the table; no epoch check fails |
| `RangesExact`, `AnswersRight` | the lists are sorted and cover exactly what was not written; check, drain and check_action answer as the set would |
| `AlwaysProgress` | threads that take locks by rank never wait for each other in a circle |
| `FenceSound` | the value reported is that of the last submission that ended; a wait does not return before its submission ended, and always finds a fence to wait on |
| `SemaphoresRight` | outside a discarded or undrawn frame and an acquisition that timed out: submissions do not overlap, each binary semaphore has one signal for each wait, an image is shown only after the submissions that drew to it, and the head of the queue can start |
| `HandedBackOnce` | no image is in two places among the idle ones, the discarded ones, the calls under way and the textures, whatever the application does and whenever the device is lost |
| `ImagesAccounted` | for a careful application with a valid device nothing panics, every image is idle, acquired, being acquired or discarded, so only a dropped frame is lost, and exactly the acquired texture has its image |
| `CompactSizeRight` | outside the gaps, a structure that is ready, and each compacting copy, has the size of the last build |
| `TlasCurrent` | outside the gaps, the GPU uses a top-level structure only once it was built, from bottom-level ones built before it and not since |
| `PrepareAnswered` | outside the gaps, a preparation is listed exactly once as long as it waits, its size is that of the last build, and the read back never panics |
| `BeltIntact` | a write keeps its bytes, aligned and inside its chunk, until it was copied; a chunk is mapped while written and unmapped once submitted; only mapped chunks wait for reuse |
| `OrderSound` | every declaration comes once and after those it uses; an accepted program has no cycle, and a reported cycle is one |
| `ForwardedRight` | a forwarded continue reaches its loop through all switches, and no check fires for a stale variable |

Why the bounds are enough. Two threads: every race in the hazards is between two
calls, and the GPU is an actor of its own. One or two buffers: the operations on
a buffer only share the locks and the submissions with those on another, so a
second buffer is there for batches, for submissions that leave the mappable one
alone, and for being mapped beside an unmapped one.
Two submissions: the youngest use differs from the oldest, a prefix from the
whole, and one may be on the GPU while the other is being made. Two map
requests: a stale entry meets a newer request. One closure against two
submissions and two requests: it has something before it and something after.
In the pool three threads let one construct, one wait and one drop; four slots
with two keys leave a fresh slot while an old one is still referred to.
In `recording`, two command buffers finished in one order and submitted in the
other, or together, and a third that was finished before either; one texture has
a subresource that a command buffer knows and one it does not, and a buffer's
ranges share its state; the eight lists have every pair of kinds of use that
needs a barrier, and each way of loading, storing and discarding. One write comes
before, between or after. In `components`, each bound is the least at which what
may go wrong has room: an index reused twice, a range split in its middle and
drained across two, two locks of one rank beside the ranks around them, a fence
recycled while a younger one is waited for, an image that comes round again, a
build between two preparations, a chunk reused out of order, a cycle reached from
outside itself, a switch between two others inside two loops.
Deadlock checking is off because the bounds end the behaviours; the circular
waiting that matters is `NoDeadlock`, an invariant.

`lifetime` is the run of the clients that agree on nothing. `mapping` and
`delivery` state what a client can rely on if it follows the discipline named in
their constants; what goes wrong without it is in the next table. The patient
client of `mapping` leaves no stale entry in a list, and it writes nothing: a write
that is flushed once its buffer was mapped (`device/queue.rs:1424`) breaks
`MappedNotInFlight`, and one beside the release of a lost device, or beside the
unmapping of a buffer mapped at creation, breaks `NoDeadlock` (section 4). Writes
are in `lifetime`, `delivery` and `release_deadlock`.

| Run | Statement | What the code does |
|---|---|---|
| `early_map` | `device/life.rs:153`, "A buffer cannot be mapped until all active queue submissions that use it have completed" | `unmap` aborts a request that waits in the `mapped` list of submission 1 and leaves its entry there. Submit the buffer again and map again: when submission 1 is done, the old entry goes to `ready_to_map`, and the new request is answered while submission 2 uses the buffer. |
| `lost_callback` | `device/global.rs:2066`, "`op.callback` is guaranteed to be called" | While one thread maps, `map_state` reads Idle. A second client's request stored there is overwritten, its callback dropped. |
| `wait_assertion` | `device/resource.rs:940`, "this should never be hit" | A wait that timed out holds an old fence value; another poll drains the tracker first, and the assertion fails. |
| `release_deadlock` | `lock/ranked.rs:47`, "free of deadlocks" | `release_gpu_resources` takes trackers, then snatch (write); `write_buffer` takes snatch (read), then trackers. |
| `late_discard` | `init_tracker/mod.rs:16`, actions are "resolved at queue submit by merging them with the current state" | Actions are dropped at finish for what is initialized then. A command buffer that discards the texture, submitted in between, leaves garbage that is read. |
| `work_done_order` | `device/mod.rs:181`, mappings before the work-done callbacks registered after them | True within one `UserClosures`; a second polling thread overtakes the first, which has collected its closures and not fired them. |

Two comments are merely out of date: `device/life.rs:155` speaks of
`ResourceInfo::submission_index`, which no longer exists, and `device/life.rs:170`
says that only `handle_mapping` drops the extra `Arc` of a waiting buffer, which
`unmap` does as well.

### Fairness

`delivery` assumes weak fairness of `GpuComplete` (the driver finishes what it
was given), strong fairness of each thread's `Step` (the locks are parking_lot's,
which hand over eventually even when another thread keeps coming back; a thread
inside a call is scheduled) and strong fairness of `CallPoll` for a thread that
may poll (the application polls, as `on_submitted_work_done` and `map_async` tell
it to). Nothing obliges anyone to make any other call. `resource_pool` assumes
weak fairness of a thread inside `get_or_init` or inside a Drop, no more.
`recording` and `components` check safety and assume no fairness.

## 4. Proofs

Proved for any threads, buffers, calls and bounds that satisfy the named
`ASSUME`s of the modules (the placeholders `NoThread`, `NoBuffer`, `NoSlot` are
no thread, buffer or slot; calls and batches are of the right kind; bounds are
naturals; there is a key, a client and a swapchain image; the belt's sizes are
positive and its alignments 1 or even, as `allocate`'s assertion that they are
powers of two gives).

* `DeviceQueueProofs` begins with what the operators of `LifetimeTracker` return.
  `LatestUseFound`: if a submission uses the buffer, the search from the back
  finds one that does and no younger one does. `Attached` and the type lemmas:
  attaching a buffer, a handle or a closure changes no index and no set of
  buffers. Then `Types` and `TypeCorrect`, `Spec => []TypeOK`. `TypeOK` is
  not inductive, because a thread's next step may need a buffer its locals do not
  have. `TypeInv` adds `Operands`, which says what every `pc` can count on, and
  that a Waiting state names a request. One lemma per call, one step per action.
  Then `Sorted`, `Spec => []ActiveSorted`, and `Tracking`,
  `Spec => []InFlightTracked`, from the inductive `SubmissionInv`:
  * `LockInv`: a thread inside submit has the fence's write side; between handing
    over and tracking it has the pending writes too.
  * `IndexInv`: fence value, the driver's indices and the allocated one are in
    order.
  * `LocalInv`: a fence value a thread has read is at most the present one; the
    index a submit has allocated is the last one and above all submitted.
  * `ActiveSorted`, and `TrackInv`: each submission the GPU has is in `active`
    with its buffers, or is the one a thread is about to track.

  The argument: appending keeps the list sorted because only the fence's holder
  appends, and its index is new; triage drops only what the fence has passed, so
  never what the GPU still has; everything else leaves indices and buffers alone
  (`SameSubmissions`).
  Its last part is `NothingFreedInUse`, `Spec => []NoUseAfterFree`, from the
  inductive `OwnershipInv`. `NoUseAfterFree` names the owners that have a handle
  when it is needed; it does not say who is about to need one, nor who is about to
  entrust one.
  * `GuardInv`: the buffers of a submit or a write have their handles as long as
    the thread read-locks the snatch lock; a destroying thread holds the handle it
    snatched until it has looked in the pending writes and in the tracker, and
    before it looks in the second no recorded copy uses the buffer.
  * `RecordInv`: copies are recorded only in an open encoder.
  * `HandleInv`, up to the first driver error: a snatched handle that a recorded
    copy, a submitting thread or an active submission needs has a keeper: the
    pending writes, a submission no older, the submitting thread, or the
    destroying one that has yet to ask.

  The argument: a destroy asks the pending writes and the tracker one after the
  other, under their locks; what moves a use from the first to the second, a
  submit, moves the handles entrusted to the first along with it, and holds the
  snatch lock and the pending writes from handing over to tracking. A
  submission's handles go when it completes; they are with the youngest that
  needs them, and submissions complete in order.
* `CompletionProofs`: `ClosuresKept` (`WorkDoneKept`) and `ClosuresInTime`
  (`WorkDoneAfterGpu`) from `ClosureInv`: which threads may carry closures
  (`CarryInv`); a closure is in one place, once (`ApartInv`); it was fired once
  if it was registered and is in none (`FiredInv`); the submissions it waits for
  are no younger than the entry it is in, and done once it has left the tracker
  (`AgeInv`). Then `LostOnceIdle` (`LostWhenIdle`) from `EndInv`: the fence has
  readers or a writer (`FenceInv`), so what maintain found empty still is when it
  takes the device-lost closure (`EmptyInv`), and one thread at most has that
  closure, at the device's end (`LostInv`).
* `MappingProofs`: `CallbacksKept` (`MapCallbackKept`) and `MappedApart`
  (`MappedNotInFlight`), for a sole patient client. `SoleClient(c)` says what that
  is: `Patient`; no thread but c submits, maps, unmaps, destroys or drops, while
  any may poll, wait, write and register closures; and what can be mapped is
  neither written by the queue nor mapped at its creation. The instance of
  `mapping` is one; `early_map` and `lost_callback` are what happens to others.
  * `ClientInv` draws the consequences: only c is inside a submit or a call on a
    mapping, and no recorded copy uses what can be mapped.
  * `RequestInv`: what waits to be mapped is listed once (`QueueInv`); a call on a
    buffer's mapping finds no request of it under way, and a poller never finds a
    state it must restore (`PeaceInv`); a request is in one place, a Waiting
    buffer, a thread that sets or answers it, and was answered once if it is in
    none (`OneAnswer`, `AnsweredInv`).
  * `SeparateInv`: a buffer that is mapped, being mapped or in `ready_to_map` is
    used by no tracked submission; one listed with a submission, by none younger;
    and what a submission under way uses stays Idle.

  The argument: a request goes to the youngest submission that uses its buffer,
  and validation refuses to submit a buffer that is not Idle, so that when that
  submission completes no other use is left; triage hands over a prefix of
  the list, and only what no later entry uses.
  `ClosuresAfterMaps` (`WorkDoneAfterMaps`) is for another client: one thread,
  patient or not, makes every call but `write_buffer`, `on_submitted_work_done`
  and destroying the device, which any thread may (`SoleCaller`). The instance of
  `delivery` is such a client; two threads that poll are enough to lose the order,
  as `work_done_order` shows.
  * `OrderInv`: a request listed when a closure was registered is answered, or in
    the hand of the thread that polls, or in a list where triage gets to it no
    later than to the closure (`Behind`), which has not run. It says the same of
    the closure that is next, of which only what its registration will find is
    known, so that a registration need only rename it.
  * `CallerInv`: the others are in none of the places where a list changes hands,
    and a request on its way to the lists is still the one its buffer waits for.
* `ProgressProofs`: `DeadlockFree`, `Spec => []NoDeadlock`, where no thread calls
  `write_buffer` (`NoWrites`: whatever else is mapped, destroyed, dropped or lost),
  or where the device is never lost nor destroyed and no buffer is mapped at
  creation through a staging buffer (`NoLoss`). Neither can go: a release that
  meets a write is the circle of `release_deadlock`, and unmapping a buffer mapped
  at creation, which holds its `map_state` while it asks for the pending writes,
  meets a write that asks in the other order (section 5; TLC finds that circle too).
  * `HeldInv`: who has a lock is at a place in its call where it should.
  * `ReleaseInv`: who has the trackers' lock releases, or records a write.
  * `StagedInv`: what is in `ready_to_map`, or being mapped from it, has nobody at
    its `map_state`, so that maintain, which takes it holding almost everything,
    never waits for it.
  * `QuietInv` and `IntactInv`: the consequences of `NoWrites` and of `NoLoss`.

  The argument (`Unblocked`): take a set of threads each of which waits for one
  of it. No thread of it is triaging, so none has the life tracker; then none
  waits for the life tracker alone, so none has the pending writes; and so on
  over `map_state`, the fence, the snatch lock and the trackers, each lock's
  holders being at places that were excluded before. The set is empty.

  `PanicFree`, `Spec => []NeverPanics`, where no wait has a timeout (`NoTimeouts`),
  or where one thread alone submits, polls and waits (`SoleMaintainer`); the
  instance of `delivery` is of the second kind, `wait_assertion` of neither.
  * `WaitInv`: what a thread waits for was submitted, and but for a timeout the
    fence value it triages with has reached it. That alone is the first case.
  * `LastInv`: the youngest submission is about to be tracked, tracked, or done.
  * `SoleInv`: so a thread that maintains alone finds the list empty only if its own
    fence value, timed out or not, has reached the youngest submission, hence what
    it waits for.
  * `StagedInv` again, for the buffer mapped at creation in `ready_to_map`.
* `StreamProofs`: `BarriersAlwaysRight`, `DeviceAlwaysAhead` and `StreamTypes` from
  the inductive `Kept` (`StreamKept`), and `GarbageAlwaysTracked` from `Watched`, for
  any resources, cells, commands, writes and batches, discards coming late or not,
  outside the gaps of section 5 (`Scoped`: the three constants FALSE, no compute pass
  that uses a subresource in two ways, no command buffer twice in a submit; the
  instance of `recording` is one). None of the three properties is inductive: a
  command buffer is encoded long before it is baked, knowing neither the device's
  tracker nor what will run before it.
  * What it promises is therefore said of every GPU. `Brings(first, ops, last)`: the
    raw commands find nothing wrong on a GPU that is where `first` says, and take it
    to where `last` says. `Tracks` says so of an encoder's tracker and commands, and
    every command keeps it (`EncodeTracked`: transfers, compute passes with their
    intermediate tracker, render passes with their scope, and what `close_and_swap`
    puts before a pass). `Knows` is the same for the one GPU and the device's tracker;
    `Joined` is what both rest on: barriers between two lists make them one.
  * `Sound` is what a command buffer promises about memory: what is garbage after it
    was garbage before, in a cell that it does not overwrite first (`Overwritten`), or
    is what it discarded. `After` says what a list leaves without garbage: clears do.
  * `Kept`: types; the device knows the GPU's state after the pending writes and what
    was baked (`Known`); a submit that fails does so before it has baked anything
    (`InOrder`). `Watched`: every encoder is `Sound`, and garbage ahead is in `uninit`.

  The argument: a bake puts before the command buffer the clears of what it needs and
  finds uninitialized, then the barriers from the device's tracker to its start;
  that makes the GPU one of those the promise speaks of, and the trackers merged are
  where it ends (`BakedTracks`, `BakedSound`). A write does the same with one command.
  The folds over commands, dispatches, barriers, cells and actions are treated alike,
  as sequences of accumulators (`FoldExists`, `FoldFollows`), by least counterexample.
* `ComponentProofs`: seven components, each with its inductive invariant.
  * `OnlyWellNested` (`FinishedWellNested`) and `RunOnce` (`RunsOnce`) from
    `EncoderInv`: the status says what the history of calls was, also with a pass
    open; a command buffer that can run is its encoder's only one.
  * `OnePlace` (`HandedBackOnce`) and `LostOnlyIfDropped` (`ImagesAccounted`) from
    `SurfaceInv` (`SurfaceKept`): an image is idle, discarded, about to be stored by
    one thread, or in one texture; for a careful application, as long as the device
    is valid, one thread at most is busy with the surface and none while a frame is
    out, so nobody finds the presentation gone. A step that loses an image is then
    one that loses the device, or has lost it already (`FailAccounts`,
    `LossAccounts`).
  * `FreshIds` (`IdsSound`) from `RegistryInv`: what a thread in the middle of a
    call may rely on (`TaskInv`), that an index is in one place (`PlaceInv`), what
    the table has there (`TableInv`), that the epoch in place is the last issued
    (`IssuedInv`), and the count.
  * `BytesKept` (`BeltIntact`) from `BeltInv`: the state of a chunk's buffer tells
    which list has the chunk, and a mapped one is active or waits once; a recorded
    write is below its chunk's offset, and a submitted one's chunk is not mapped,
    so that no later write reaches its bytes.
  * `RankedLocksProgress`, `LocksSpec => []AlwaysProgress`: the argument that
    `lock/ranked.rs` makes in its comments, for any threads, locks and ranks whose
    graph has no cycle. `LockPaths` is the inductive invariant: a thread's guards
    lie on a path of the graph, its lock state names the last of them, and what it
    waits for may follow it. If every thread that waits waited for another that
    waits, take the ranks that are waited for: one of them is followed by none of
    the others (`RankAssumption`), but whoever holds it waits for one that follows.
  * `RangesTrue` (`RangesExact`) and `QueriesAnswered` (`AnswersRight`) from
    `RangesInv`. That the ranges are in order is not inductive: two that touched
    would be one too many for `discard`, which would extend the first over the
    second; the invariant says that no two touch. Where a search by
    `partition_point` ends follows from the order (`Prefix`), and what a drain or a
    discard does to a list is one splice of it (`Spliced`).
  * `OrderIsSound` (`OrderSound`) from `IndexInv`: the marked declarations are those
    of the calls in progress, each the reference its caller is at, all whose
    earlier references are visited; the visited ones are those that came out.
    That no declaration reaches itself is by induction on the length of the
    way (`WithinIs`, `ReachesEarlier`).
* `ResourceProofs`: acceleration structures, the pool, and a Vulkan queue.
  * `CompactSizeAlwaysRight`, `TlasAlwaysCurrent` and
    `PrepareAlwaysAnswered` from the inductive `AccelInv` (`AccelAlwaysSound`). None of
    the three is inductive: they look at what the GPU was given, and validation at
    indices. `RecordInv` relates the two: the acts submitted, with those validated
    behind them, were built in the order of their indices, and `built_index` and
    `dependencies` are those of each structure's last build there. A use that
    validation lets pass is then behind every build it depends on, and stays so when
    the pending writes' copies go in between (`SpreadRecorded`: a list with copies put
    in has recorded the same). `WaitingInv` and `ListInv` say that a waiting structure
    is on exactly one list, with a submission that is not older than its build;
    `FlightInv`, that each submission in flight uses what it builds, so that
    `prepare_compact`'s search for the last use cannot miss the build; `ReadyInv` and
    `CopyInv`, that a size read, copied or recorded is that of a build that was not
    followed by another. What validation and a poll compute in a loop is proved by
    least counterexample (`LoopExists`, `LoopKeeps`).
  * Of the pool: `Uniqueness`, `EntryKept` and `SafeRemoval` from `IndInv`.
    The key is `UnsetIsMapped`: a slot nobody has initialised is still its key's
    entry, so a thread that initialises it cannot make a second live resource; and
    a Drop that has not removed its entry yet still owns it, so `remove` by key
    hits no younger one's.
  * `FenceTrue` (`FenceSound`) from `FenceInv`: the active fences of the pool are
    those of the submissions after `last_completed`, in order and without a gap;
    each Vulkan fence is in one place; those signaled are those of submissions that
    ended; and the queue has the rest, in order. So what `maintain` frees is a
    prefix, and the fence that a submission reuses was reset and is nobody's.
  * `SemaphoresAlwaysRight` (`SemaphoresRight`) from `SemaphoreInv` beside `FenceInv`.
    The relay semaphores are no history: which one a submission signals is the parity
    of how many were queued before it (`RelayOf`), so that a submission waits for the
    one before it also after a mishap (`RelayInv`). Outside of one, `SwapInv` follows
    the semaphores of images: each named by what is queued belongs to one image
    (`SwapNamed`), is signaled and waited for in turn (`SwapOnce`, `SwapAnswered`), at
    the place in the queue where it should be (`SwapPlaced`). That there are as many
    signals as waits is a bijection between them.
* `ForwardProofs`: `ForwardRight` (`ForwardedRight`) from `ForwardInv` (`ForwardKept`),
  for programs of every size. The property looks at finished programs only; the
  invariant says what is true of a program half written. `NestInv`: the statements
  being written are the blocks that are open at the end of the code. `Places`: the
  entries of `ContinueCtx` are at some of them, all those the writer tracks.
  `SwitchInv`: an entry's variable is that of the switch around it, or declared
  before the outermost one, in the loop. `JumpInv`: where the block that a jump
  leaves is open, its entry has been told (`Entered`); where it is closed, exactly
  one check follows it, in the same loops (`Answered`). That check is a jump out of
  the next block, so `exit_switch` must tell the outer switch when it writes an
  `if-break`, and may stop when it writes an `if-continue`: what is around it is
  then the loop. What is written later disturbs none of it (`CodeStays`,
  `CheckedStays`). Where a jump leads (`Continued`) is defined from the later
  positions; that there is such a function, and that it leads every jump to its
  loop, is by greatest counterexample (`ContinuedExists`, `JumpsLead`).

TLC finds each of these invariants to hold on the instances of the runs. What is
only model-checked, and why:

* `KeepsPromise`: its step is a whole submission, whose effect on memory it compares
  with that of the commands one after the other. The theorems of `StreamProofs` are
  the half of it that concerns states and garbage.
* Every liveness property: `MapAnswered`, `WorkDoneAnswered`, `LostAnswered` and
  `Returns` rest on fairness, hence on ENABLED, which is out of reach.

The library's induction theorems take an operator for a parameter and cannot be
instantiated; where a proof needs induction on numbers, or a recursive function is
shown to exist, it takes a least or a greatest counterexample instead (`HasLeast`).

## 5. Known gaps

Places where the code does not do what the properties say, met while modelling.
The six violation runs show the ones that contradict a statement of the
repository; for the rest, the modules name the condition under which the
properties hold, and this is what happens without it.

`CommandStream` (constants that are FALSE in `recording`; with any of them TRUE
TLC finds `DeviceTrackerAhead` violated):

* `FailAfterBake`: a command buffer that turns out invalid after an earlier one
  of the batch was baked drops the barriers and clears of the earlier
  (`device/queue.rs:1374`), while the device's tracker and init ranges keep them.
* `RejectedWrites`: `write_staging_buffer_impl` sets the buffer's state before it
  validates the write, and drops the barrier when that fails (`device/queue.rs:690`).
* `ConcurrentWrites`: a `write_buffer` between the last bake and the lock on the
  pending writes (`device/queue.rs:1380`) is sent ahead of the command buffers,
  though its barriers were computed to follow them.
* `LateDiscards`: see `late_discard`.
* A texture's subresource that a command buffer comes to know after another one
  of the same texture gets its *last* state as its start state
  (`track/texture.rs:1415`, as `Advance` says). A compute pass that uses such a
  subresource in two ways (`SplitTexture` in `MCCommandStream`) then starts from
  the wrong one.
* `render.rs:978`: a discarded view of several layers marks only its first.

`InitRanges`: `discard` puts a range it cannot attach to a neighbour at the end
of the list (`init_tracker/mod.rs:251`), whose searches expect it sorted; the
properties speak of states where that has not happened (`disordered`).

`Presentation` (`careless`): acquiring while a frame is out loses the second
image; `configure` with a frame out takes the presentation away before it reports
the error, and the frame's drop then panics; acquiring beside a `configure` finds
no presentation and panics; a cloned SurfaceTexture, or one whose texture was
destroyed, panics when dropped; present and discard take whatever texture is
acquired, whichever object they are called on.

`Presentation` (`discarded`, `valid`): a frame that is dropped without being
presented is not given out again before the next `configure`, as Vulkan's
`discard_texture` does nothing, though it is there "so that it can be reused by
future acquisitions" (`src/wgpu-hal/src/lib.rs:714`). If making the view of an
acquired image fails, the image is dropped with the error (`present.rs:219`) and
the device lost. On a lost device `present` returns its error before it takes the
frame (`present.rs:287`), and so does discard (`present.rs:339`), which
`SurfaceTexture`'s Drop makes fatal (`src/wgpu/src/backend/wgpu_core.rs:3983`).
`ImagesAccounted` says nothing of a lost device; `HandedBackOnce` holds there too.

`Registry` (`abandoned`): `surface_get_current_texture` prepares an id before
calls that may fail, and an error leaves it allocated for ever (`present.rs:387`).

`VulkanQueue` (`mishap`): discarding an image does not give it back; presenting
one that nothing was drawn to leaves its acquire semaphore signaled;
`acquire` does not look at whether its wait for the fence timed out.

`AccelStructures` (`gap`): a structure prepared, rebuilt and prepared again before
a poll is listed twice and hits `unreachable!` (`resource.rs:2339`); a refused
submission keeps what its earlier actions changed; a preparation or compaction
between validation and tracking of a build reads the older size.
`prepare_compact_async` locks the tracker with `compacted_state` held, `maintain`
the other way round (`resource.rs:2318`); the model's actions hold both.

`ContinueForward` (`Untracked`): in GLSL a switch that is not written as do-while
does not enter the stack (`src/naga/src/back/glsl/writer.rs:1729`); inside one
that is, the `break` of a forwarded continue leaves the inner switch only.

`GlobalIndex`: the path of a reported cycle holds all that led to it as well.

`StagingBelt`: a failed `map_async` sends the chunk back like a successful one;
the model's device is not lost.

`LockRank`: the code also takes locks that the table does not allow after one
another (the fence in `submit`, the snatch lock under the surface's presentation
in `present`), and outside `wgpu_validate_locks` nothing checks it; the theorem
is about code that keeps the ranks, `NoDeadlock` about the code as it is.

## 6. Not modelled, and why

* Textures, texture views and bind groups in the lifetime tracker and in
  `temp_resources`: they are owned and released the way buffers are, without a
  mapping. `deferred_resource_destruction` goes with them.
* `Queue::drop`, a device whose queue is gone, and what is left of the promises
  after a driver error.
* Callbacks that call back into wgpu: a closure in the model only runs.
* A failure to begin the pending writes' encoder, which unwraps.
* Surface textures inside submit, bundles, queries, indirect validation, the
  trace, and the API's validation of descriptors against limits and formats.
* Creation of resources and pipelines: sequential checks on data.
* Of naga, everything but the two algorithms above: parsing, lowering,
  validation and the writers are sequential passes over data types too large to
  enumerate, whose results snapshot tests compare. They are most of the
  repository's lines.
* The other backends of wgpu-hal, which call into drivers, the WebGPU backend of
  wgpu, and the tools.

## 7. Plan

What is left, in order of weight:

1. Proofs. That `CommandStream` implements `QueueMemory`, from `Watched` and its
   converse: what is held to be uninitialized holds nothing yet.
2. A loss of the device that `Queue::drop` outlives, with callbacks outstanding.
3. `SubmissionTimeline`: what a queue promises about time, with no locks and no
   tracker, and `DeviceQueue` as its implementation.
4. Bundles and indirect validation in `CommandEncoding`; surface textures in
   `CommandStream`, which would join it to `Presentation` and `VulkanQueue`.
