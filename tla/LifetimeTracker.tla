---------------------------- MODULE LifetimeTracker ----------------------------
(***************************************************************************)
(* wgpu-core/src/device/life.rs: the bookkeeping of the submissions the    *)
(* GPU has not finished.                                                   *)
(*                                                                         *)
(* The operators below are the methods of LifetimeTracker, as functions of *)
(* the tracker's `active` list; DeviceQueue holds the list as a variable   *)
(* and applies them under the life_tracker lock.  An entry of the list     *)
(* keeps, of an ActiveSubmission, what the rest of the model can tell      *)
(* apart: the submission's index, the buffers its encoders use (their      *)
(* trackers and their pending_buffers alike: contains_buffer asks both),   *)
(* the destroyed buffers among the encoders' temp_resources, the buffers   *)
(* to map when it completes and the work-done closures to run then.        *)
(***************************************************************************)
EXTENDS Integers, Sequences, FiniteSets

CONSTANT
    Buffer          \* the buffers of the device

(***************************************************************************)
(* The ActiveSubmissions there can be, with closures from W, and one as    *)
(* track_submission makes it.                                              *)
(***************************************************************************)
Entries(W) ==
    [index : Nat, bufs : SUBSET Buffer, temps : SUBSET Buffer,
     mapped : Seq(Buffer), closures : Seq(W)]

Entry(index, bufs, temps) ==
    [index |-> index, bufs |-> bufs, temps |-> temps,
     mapped |-> <<>>, closures |-> <<>>]

TrackSubmission(active, index, bufs, temps) ==
    Append(active, Entry(index, bufs, temps))

(***************************************************************************)
(* The positions of the submissions that use buffer b, and the youngest.   *)
(***************************************************************************)
Uses(active, b) == {i \in DOMAIN active : b \in active[i].bufs}

LatestUse_Oldest(active, b) ==              \* wrong: .iter() for .iter().rev()
    CHOOSE i \in Uses(active, b) : \A j \in Uses(active, b) : i <= j

LatestUse(active, b) ==
    CHOOSE i \in Uses(active, b) : \A j \in Uses(active, b) : j <= i

(***************************************************************************)
(* The index map_async hands back to its caller: the youngest submission   *)
(* the request waits for, 0 when there is none.                            *)
(***************************************************************************)
LatestSubmissionIndex(active, b) ==
    IF Uses(active, b) = {} THEN 0 ELSE active[LatestUse(active, b)].index

(***************************************************************************)
(* A map request for b waits with the youngest submission that uses b, or  *)
(* is ready at once.                                                       *)
(***************************************************************************)
MapWithSubmission(active, b) ==
    IF Uses(active, b) = {} THEN active
    ELSE [active EXCEPT ![LatestUse(active, b)].mapped = Append(@, b)]

MapAtOnce(active, ready, b) ==
    IF Uses(active, b) = {} THEN Append(ready, b) ELSE ready

(***************************************************************************)
(* A destroyed buffer's raw handle moves to the youngest submission that   *)
(* uses the buffer; with no such submission the handle is dropped, which   *)
(* frees it.                                                               *)
(***************************************************************************)
ScheduleResourceDestruction(active, b) ==
    IF Uses(active, b) = {} THEN active
    ELSE [active EXCEPT ![LatestUse(active, b)].temps = @ \cup {b}]

(***************************************************************************)
(* A work-done closure joins the youngest submission; with no submission   *)
(* in flight it is deferred to the next triage.                            *)
(***************************************************************************)
ClosureWithSubmission_First(active, w) ==   \* wrong: first_mut() for last_mut()
    IF active = <<>> THEN active
    ELSE [active EXCEPT ![1].closures = Append(@, w)]

ClosureWithSubmission(active, w) ==
    IF active = <<>> THEN active
    ELSE [active EXCEPT ![Len(active)].closures = Append(@, w)]

ClosureDeferred_Forgotten(active, deferred, w) == deferred     \* wrong: no `None` arm

ClosureDeferred(active, deferred, w) ==
    IF active = <<>> THEN Append(deferred, w) ELSE deferred

(***************************************************************************)
(* triage_submissions drains the longest prefix of `active` whose indices  *)
(* are at most lastDone.  The model drains it one submission at a time:    *)
(* this is the condition under which the head goes.                        *)
(***************************************************************************)
HeadDone_Early(active, lastDone) ==         \* wrong: one submission too many
    active # <<>> /\ Head(active).index <= lastDone + 1

HeadDone(active, lastDone) ==
    active # <<>> /\ Head(active).index <= lastDone

(* The head leaves its buffers to map to ready_to_map and its work-done    *)
(* closures to the caller.                                                 *)
ReadyAfterHead_Dropped(active, ready) == ready          \* wrong: `mapped` dropped
ReadyAfterHead(active, ready) == ready \o Head(active).mapped

ClosuresAfterHead_Dropped(active, works) == works       \* wrong: closures dropped
ClosuresAfterHead(active, works) == works \o Head(active).closures
================================================================================
