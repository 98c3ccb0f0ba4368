-------------------------------- MODULE Registry --------------------------------
(***************************************************************************)
(* The registry of one kind of resource: the ids the application holds and *)
(* the table they index.  The table and the allocator of ids have a lock   *)
(* each, taken one after the other, so that an id is prepared, assigned,   *)
(* removed and freed in separate steps of the calling thread.              *)
(***************************************************************************)
EXTENDS Integers, Sequences, FiniteSets

CONSTANTS
    Client,     \* the threads
    MaxIssued   \* bound on the ids handed out

ASSUME RegistryAssumption == MaxIssued \in Nat /\ Client # {}

VARIABLES
    freeIds,    \* IdentityValues::free, a stack
    nextIndex,  \* IdentityValues::next_index
    idCount,    \* IdentityValues::count
    table,      \* Storage::map: the epoch of each occupied entry, 0 where vacant
    task,       \* what each thread is in the middle of
    usable,     \* the ids the application was given and has not dropped
    abandoned,  \* the ids that were prepared and never assigned
    issued,     \* every id that alloc returned, in order
    registryPanic

registryVars ==
    <<freeIds, nextIndex, idCount, table, task, usable, abandoned, issued, registryPanic>>

Id == [index : Nat, epoch : Nat]
Idle == [op |-> "idle", id |-> [index |-> 0, epoch |-> 0], step |-> 0]
Vacant == 0

RegistryInit ==
    /\ freeIds = <<>> /\ nextIndex = 0 /\ idCount = 0
    /\ table = [i \in {} |-> Vacant]
    /\ task = [c \in Client |-> Idle]
    /\ usable = {} /\ abandoned = {} /\ issued = <<>>
    /\ registryPanic = FALSE

(* IdentityValues::alloc: the index freed last, one epoch later, or else a *)
(* new one.                                                                *)
Reused(id) == [id EXCEPT !.epoch = @ + 1]
Allocated ==
    IF freeIds # <<>> THEN Reused(freeIds[Len(freeIds)])
    ELSE [index |-> nextIndex, epoch |-> 1]

Prepare(c) ==
    /\ task[c] = Idle
    /\ Len(issued) < MaxIssued
    /\ freeIds' = IF freeIds # <<>> THEN SubSeq(freeIds, 1, Len(freeIds) - 1) ELSE <<>>
    /\ nextIndex' = IF freeIds # <<>> THEN nextIndex ELSE nextIndex + 1
    /\ idCount' = idCount + 1
    /\ issued' = Append(issued, Allocated)
    /\ task' = [task EXCEPT ![c] = [op |-> "assign", id |-> Allocated, step |-> 1]]
    /\ UNCHANGED <<table, usable, abandoned, registryPanic>>

EpochAt(id) == IF id.index \in DOMAIN table THEN table[id.index] ELSE Vacant

(* FutureId::assign, through Storage::insert: the id is the application's. *)
Assign(c) ==
    /\ task[c].op = "assign"
    /\ LET id == task[c].id IN
         /\ registryPanic' = (registryPanic \/ EpochAt(id) = id.epoch)
         /\ table' = [i \in DOMAIN table \cup 0..id.index |->
                        IF i = id.index THEN id.epoch
                        ELSE IF i \in DOMAIN table THEN table[i] ELSE Vacant]
         /\ usable' = usable \cup {id}
    /\ task' = [task EXCEPT ![c] = Idle]
    /\ UNCHANGED <<freeIds, nextIndex, idCount, abandoned, issued>>

(* surface_get_current_texture returns early with an id it has prepared:   *)
(* nothing frees it.                                                       *)
Abandon(c) ==
    /\ task[c].op = "assign"
    /\ abandoned' = abandoned \cup {task[c].id}
    /\ task' = [task EXCEPT ![c] = Idle]
    /\ UNCHANGED <<freeIds, nextIndex, idCount, table, usable, issued, registryPanic>>

(* Storage::get                                                            *)
Get(c, id) ==
    /\ task[c] = Idle /\ id \in usable
    /\ registryPanic' = (registryPanic \/ EpochAt(id) # id.epoch)
    /\ UNCHANGED <<freeIds, nextIndex, idCount, table, task, usable, abandoned, issued>>

(* Registry::remove: the entry leaves the table, then the id is released.  *)
RemoveOrder_FreeFirst == <<"identity", "storage">>   \* wrong: another may get it
RemoveOrder == <<"storage", "identity">>

BeginRemove(c, id) ==
    /\ task[c] = Idle /\ id \in usable
    /\ usable' = usable \ {id}
    /\ task' = [task EXCEPT ![c] = [op |-> "remove", id |-> id, step |-> 1]]
    /\ UNCHANGED <<freeIds, nextIndex, idCount, table, abandoned, issued, registryPanic>>

Stepped(c) == IF task[c].step = Len(RemoveOrder) THEN Idle
              ELSE [task[c] EXCEPT !.step = @ + 1]

RemoveEntry(c) ==
    /\ task[c].op = "remove" /\ RemoveOrder[task[c].step] = "storage"
    /\ LET id == task[c].id IN
         /\ registryPanic' = (registryPanic \/ EpochAt(id) # id.epoch)
         /\ table' = [table EXCEPT ![id.index] = Vacant]
    /\ task' = [task EXCEPT ![c] = Stepped(c)]
    /\ UNCHANGED <<freeIds, nextIndex, idCount, usable, abandoned, issued>>

ReleaseId(c) ==
    /\ task[c].op = "remove" /\ RemoveOrder[task[c].step] = "identity"
    /\ freeIds' = Append(freeIds, task[c].id)
    /\ idCount' = idCount - 1
    /\ task' = [task EXCEPT ![c] = Stepped(c)]
    /\ UNCHANGED <<nextIndex, table, usable, abandoned, issued, registryPanic>>

RegistryNext ==
    \E c \in Client :
        \/ Prepare(c) \/ Assign(c) \/ Abandon(c)
        \/ RemoveEntry(c) \/ ReleaseId(c)
        \/ \E id \in usable : Get(c, id) \/ BeginRemove(c, id)

RegistrySpec == RegistryInit /\ [][RegistryNext]_registryVars

--------------------------------------------------------------------------------

(* What "calling alloc returns a fresh, never-before-seen id" and "every   *)
(* live id has a distinct index value" promise, for ids that are removed   *)
(* and allocated by several threads at once; the count is that of the ids  *)
(* not freed; and no check on the epoch of a table entry ever fails for an *)
(* application that uses the ids it holds: the entry of a removed id is    *)
(* vacant before its index can be given to another thread ("must only      *)
(* contain an id which has either never been used or has been released     *)
(* from storage").                                                         *)
Live == usable \cup abandoned \cup {task[c].id : c \in {d \in Client : task[d] # Idle}}
Freed == {freeIds[i] : i \in DOMAIN freeIds}
IdsSound ==
    /\ \A i, j \in DOMAIN issued : i # j => issued[i] # issued[j]
    /\ \A a, b \in Live : a.index = b.index => a = b
    /\ idCount = Cardinality(Live \ Freed)
    /\ \A i \in DOMAIN freeIds : EpochAt(freeIds[i]) = Vacant
    /\ ~registryPanic
================================================================================
