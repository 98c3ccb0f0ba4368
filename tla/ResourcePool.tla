----------------------------- MODULE ResourcePool -----------------------------
(***************************************************************************)
(* wgpu-core/src/pool.rs: the pool that makes equal bind group layouts one *)
(* object.                                                                 *)
(*                                                                         *)
(* The pool maps a key to a slot, Arc<OnceCell<Weak<V>>>.  A thread that   *)
(* wants the resource of a key looks its slot up under the pool's lock and *)
(* goes on without the lock: it initialises the slot, waits for the thread *)
(* that does, or upgrades the Weak it finds there; if the resource is      *)
(* already dead it starts again.  The last owner to drop the resource      *)
(* removes the key, in the resource's Drop and so some time after the      *)
(* resource died.                                                          *)
(*                                                                         *)
(* A slot is initialised once, so it also names its resource.  A slot that *)
(* nobody refers to any more is memory that may be allocated again.        *)
(***************************************************************************)
EXTENDS Integers, FiniteSets

CONSTANTS
    Thread,        \* threads that create and drop resources
    Key,           \* entry maps
    Slot,          \* OnceCell allocations
    NoSlot,        \* "the pool has no entry"
    MaxGets        \* bound on the calls of get_or_init

ASSUME NoSlotAssumption == NoSlot \notin Slot
ASSUME KeyAssumption == Key # {}
ASSUME MaxGetsAssumption == MaxGets \in Nat

VARIABLES
    map,           \* ResourcePool::inner
    key,           \* the key each slot was made for
    cell,          \* the state of each slot's OnceCell
    owners,        \* the threads that own an Arc of each slot's resource
    pc,            \* where each thread is
    want,          \* the key a thread in get_or_init asks for
    slot,          \* the slot it found, or whose resource it is dropping
    gets           \* calls of get_or_init so far

vars == <<map, key, cell, owners, pc, want, slot, gets>>

(* Somebody owns the resource of slot s: Weak::upgrade succeeds. *)
Alive(s) == owners[s] # {}

(* Nobody refers to the slot: neither the pool, nor a thread, nor the Drop *)
(* of its resource.                                                        *)
Fresh(s) ==
    /\ ~Alive(s)
    /\ \A k \in Key : map[k] # s
    /\ \A t \in Thread : slot[t] # s

(* The key of an unused slot, or of a thread that asks for none. *)
AnyKey == CHOOSE k \in Key : TRUE

Init ==
    /\ map = [k \in Key |-> NoSlot]
    /\ key = [s \in Slot |-> AnyKey]
    /\ cell = [s \in Slot |-> "unused"]
    /\ owners = [s \in Slot |-> {}]
    /\ pc = [t \in Thread |-> "idle"]
    /\ want = [t \in Thread |-> AnyKey]
    /\ slot = [t \in Thread |-> NoSlot]
    /\ gets = 0

Leave(t) ==
    /\ pc' = [pc EXCEPT ![t] = "idle"]
    /\ slot' = [slot EXCEPT ![t] = NoSlot]

(* A thread asks for the resource of a key. *)
Get(t) ==
    /\ pc[t] = "idle" /\ gets < MaxGets
    /\ gets' = gets + 1
    /\ \E k \in Key : want' = [want EXCEPT ![t] = k]
    /\ pc' = [pc EXCEPT ![t] = "lookup"]
    /\ UNCHANGED <<map, key, cell, owners, slot>>

(* No entry for key k. *)
Vacant_Dead(k) ==            \* wrong: a dead resource's entry is replaced
    map[k] # NoSlot => cell[map[k]] = "set" /\ ~Alive(map[k])
Vacant(k) == map[k] = NoSlot

(* Under the pool's lock: take the entry's slot, or enter an empty one. *)
LookupOccupied(t) ==
    /\ pc[t] = "lookup" /\ ~Vacant(want[t])
    /\ slot' = [slot EXCEPT ![t] = map[want[t]]]
    /\ pc' = [pc EXCEPT ![t] = "slot"]
    /\ UNCHANGED <<map, key, cell, owners, want, gets>>

LookupVacant(t) ==
    /\ pc[t] = "lookup" /\ Vacant(want[t])
    /\ \E s \in Slot :
          /\ Fresh(s)
          /\ map' = [map EXCEPT ![want[t]] = s]
          /\ key' = [key EXCEPT ![s] = want[t]]
          /\ cell' = [cell EXCEPT ![s] = "empty"]
          /\ slot' = [slot EXCEPT ![t] = s]
    /\ pc' = [pc EXCEPT ![t] = "slot"]
    /\ UNCHANGED <<owners, want, gets>>

(* get_or_try_init: one thread runs the constructor, the others wait. *)
Construct(t) ==
    /\ pc[t] = "slot" /\ cell[slot[t]] = "empty"
    /\ cell' = [cell EXCEPT ![slot[t]] = "busy"]
    /\ pc' = [pc EXCEPT ![t] = "construct"]
    /\ UNCHANGED <<map, key, owners, want, slot, gets>>

(* The constructor makes the resource, and its thread returns with it. *)
Constructed(t) ==
    /\ pc[t] = "construct"
    /\ cell' = [cell EXCEPT ![slot[t]] = "set"]
    /\ owners' = [owners EXCEPT ![slot[t]] = @ \cup {t}]
    /\ Leave(t)
    /\ UNCHANGED <<map, key, want, gets>>

(* The constructor fails: the slot is empty again and stays in the pool. *)
AfterFailure_Busy(s) == [cell EXCEPT ![s] = "busy"]     \* wrong: waiters wait on
AfterFailure(s) == [cell EXCEPT ![s] = "empty"]

ConstructFails(t) ==
    /\ pc[t] = "construct"
    /\ cell' = AfterFailure(slot[t])
    /\ Leave(t)
    /\ UNCHANGED <<map, key, owners, want, gets>>

(* Weak::upgrade. *)
Upgrades_Always(s) == TRUE                              \* wrong: revives the dead
Upgrades(s) == Alive(s)

Upgrade(t) ==
    /\ pc[t] = "slot" /\ cell[slot[t]] = "set" /\ Upgrades(slot[t])
    /\ owners' = [owners EXCEPT ![slot[t]] = @ \cup {t}]
    /\ Leave(t)
    /\ UNCHANGED <<map, key, cell, want, gets>>

(* The resource is being dropped: around again. *)
Race(t) ==
    /\ pc[t] = "slot" /\ cell[slot[t]] = "set" /\ ~Upgrades(slot[t])
    /\ pc' = [pc EXCEPT ![t] = "lookup"]
    /\ slot' = [slot EXCEPT ![t] = NoSlot]
    /\ UNCHANGED <<map, key, cell, owners, want, gets>>

(* An owner drops its Arc; if it was the last, the resource is dead and    *)
(* its Drop runs in this thread.                                           *)
Release(t) ==
    /\ pc[t] = "idle"
    /\ \E s \in Slot :
          /\ t \in owners[s]
          /\ owners' = [owners EXCEPT ![s] = @ \ {t}]
          /\ IF owners[s] = {t}
             THEN /\ pc' = [pc EXCEPT ![t] = "remove"]
                  /\ slot' = [slot EXCEPT ![t] = s]
             ELSE UNCHANGED <<pc, slot>>
    /\ UNCHANGED <<map, key, cell, want, gets>>

(* ResourcePool::remove, under the pool's lock: whatever the key's entry is. *)
Remove(t) ==
    /\ pc[t] = "remove"
    /\ map' = [map EXCEPT ![key[slot[t]]] = NoSlot]
    /\ Leave(t)
    /\ UNCHANGED <<key, cell, owners, want, gets>>

Step(t) ==
    \/ LookupOccupied(t) \/ LookupVacant(t)
    \/ Construct(t) \/ Constructed(t) \/ ConstructFails(t)
    \/ Upgrade(t) \/ Race(t) \/ Remove(t)

Next == \E t \in Thread : Get(t) \/ Release(t) \/ Step(t)

Spec == Init /\ [][Next]_vars

(* A thread inside get_or_init, or inside a Drop, gets on with it.         *)
FairSpec == Spec /\ \A t \in Thread : WF_vars(Step(t))

-----------------------------------------------------------------------------
(* The type invariant. *)
TypeOK ==
    /\ map \in [Key -> Slot \cup {NoSlot}]
    /\ key \in [Slot -> Key]
    /\ cell \in [Slot -> {"unused", "empty", "busy", "set"}]
    /\ owners \in [Slot -> SUBSET Thread]
    /\ pc \in [Thread -> {"idle", "lookup", "slot", "construct", "remove"}]
    /\ want \in [Thread -> Key]
    /\ slot \in [Thread -> Slot \cup {NoSlot}]
    /\ gets \in Nat

(***************************************************************************)
(* "only one resource will be created for each unique entry map at any one *)
(* time" (pool.rs:27): two resources alive are of different keys.          *)
(***************************************************************************)
AtMostOneAlive ==
    \A r, s \in Slot : Alive(r) /\ Alive(s) /\ key[r] = key[s] => r = s

(***************************************************************************)
(* "The entry will never be empty while the BGL is still alive"            *)
(* (pool.rs:48): whoever asks for a resource that is alive finds it, never *)
(* an entry some late Drop has removed.                                    *)
(***************************************************************************)
EntryWhileAlive == \A s \in Slot : Alive(s) => map[key[s]] = s

(***************************************************************************)
(* "It is safe to remove the entry from the map" (pool.rs:101): a resource *)
(* whose Drop has not come to remove yet is dead, belongs to that one      *)
(* thread, and still has the entry of its key, so that remove never hits a *)
(* younger resource's.                                                     *)
(***************************************************************************)
RemovesItsOwn ==
    \A t \in Thread : pc[t] = "remove" =>
        /\ slot[t] \in Slot /\ ~Alive(slot[t])
        /\ cell[slot[t]] = "set" /\ map[key[slot[t]]] = slot[t]
        /\ \A u \in Thread \ {t} : pc[u] = "remove" => slot[u] # slot[t]

(***************************************************************************)
(* A thread that spins on a dead resource's entry does not spin for ever,  *)
(* nor does one wait for ever on another's constructor: get_or_init        *)
(* returns.                                                                *)
(***************************************************************************)
Returns ==
    \A t \in Thread : pc[t] \in {"lookup", "slot"} ~> pc[t] = "idle"

-----------------------------------------------------------------------------
(***************************************************************************)
(* Why it is so: beside the above, a resource that is alive is in a slot   *)
(* that is set, and a slot that is not set yet is in the pool, so that     *)
(* nobody initialises a slot the pool has forgotten.                       *)
(***************************************************************************)
AliveIsMapped ==
    \A s \in Slot : Alive(s) => cell[s] = "set" /\ map[key[s]] = s

OneConstructor ==
    \A t \in Thread : pc[t] = "construct" =>
        /\ slot[t] \in Slot /\ cell[slot[t]] = "busy"
        /\ \A u \in Thread \ {t} : pc[u] = "construct" => slot[u] # slot[t]

UnsetIsMapped ==
    \A s \in Slot : cell[s] \in {"empty", "busy"} => map[key[s]] = s

SlotFound ==
    \A t \in Thread : pc[t] = "slot" => slot[t] \in Slot /\ cell[slot[t]] # "unused"

EntriesMatch ==
    \A k \in Key : map[k] # NoSlot => key[map[k]] = k /\ cell[map[k]] # "unused"

IndInv ==
    /\ TypeOK /\ AliveIsMapped /\ RemovesItsOwn /\ OneConstructor
    /\ UnsetIsMapped /\ SlotFound /\ EntriesMatch
===============================================================================
