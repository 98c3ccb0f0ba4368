----------------------------- MODULE UsageTracker -----------------------------
(***************************************************************************)
(* wgpu-core's usage trackers: what state each buffer and each texture     *)
(* subresource is in, and which barriers bring it to the next one.         *)
(*                                                                         *)
(* A tracked unit is a key: a whole buffer, or one subresource of a        *)
(* texture.  A state is a set of usages; {} stands for a key the tracker   *)
(* knows nothing about (TextureUses::UNKNOWN, or a buffer it does not      *)
(* own).  A command buffer's tracker keeps two states of each key: the one *)
(* its commands expect to start from and the one they end in.              *)
(***************************************************************************)
EXTENDS Integers, Sequences, FiniteSets, SequencesExt

CONSTANTS
    Key,          \* buffers, and subresources of textures
    ResourceOf,   \* the resource each key belongs to
    Usage,        \* the usages
    Exclusive,    \* usages that must be a key's only one
    Ordered       \* usages the hardware orders without a barrier

Uninitialized == {"UNINITIALIZED"}   \* the state of a resource just created
State == SUBSET (Usage \cup Uninitialized)

ASSUME ResourceAssumption == IsFiniteSet(Key) /\ DOMAIN ResourceOf = Key
ASSUME OrderAssumption ==
    IsFiniteSet(Usage) /\ Exclusive \subseteq Usage /\ Ordered \subseteq Usage

Unused == [k \in Key |-> {}]
EmptyTracker == [start |-> Unused, end |-> Unused]

InvalidResourceState(s) == s \cap Exclusive # {} /\ Cardinality(s) # 1
SkipBarrier(old, new) == old = new /\ old \subseteq Ordered

Barrier(k, from, to) == [op |-> "barrier", key |-> k, from |-> from, to |-> to]

(* The barriers from the states `current` to the states `new`, for the     *)
(* keys both know.  They are one call's argument: their order is free.     *)
Barriers(current, new) ==
    SetToSeq({Barrier(k, current[k], new[k]) :
                k \in {j \in Key : /\ current[j] # {}
                                   /\ new[j] # {}
                                   /\ ~SkipBarrier(current[j], new[j])}})

Updated_Forgets(current, new) == new             \* wrong: what it knew is lost
Updated(current, new) ==
    [k \in Key |-> IF new[k] = {} THEN current[k] ELSE new[k]]

Owns(tracker, r) == \E k \in Key : ResourceOf[k] = r /\ tracker.end[k] # {}

(***************************************************************************)
(* insert_or_barrier_update: the tracker goes through the states `first`   *)
(* and is left in the states `last`.  A resource it does not own is        *)
(* inserted with both.  Of one it owns, a subresource it knew nothing      *)
(* about gets its start state from the update, which is made with `last`.  *)
(***************************************************************************)
Advance(tracker, first, last) ==
    [start |-> [k \in Key |-> IF tracker.end[k] # {} THEN tracker.start[k]
                              ELSE IF Owns(tracker, ResourceOf[k]) THEN last[k]
                              ELSE first[k]],
     end |-> Updated(tracker.end, last)]

(* One state for a set of keys: what set_single and a usage scope bring.   *)
Only(keys, s) == [k \in Key |-> IF k \in keys THEN s ELSE {}]

(* A usage scope: the union of what its members need of each key.          *)
Merged(uses) == [k \in Key |-> UNION {uses[i][k] : i \in DOMAIN uses}]
Conflict(uses) == \E k \in Key : InvalidResourceState(Merged(uses)[k])
===============================================================================
