-------------------------------- MODULE LockRank --------------------------------
(***************************************************************************)
(* The locks of wgpu-core under wgpu_validate_locks: each has a rank, each *)
(* rank names the ranks that may be locked next while it is the last one   *)
(* held, and guards are dropped in the order opposite to the locking.      *)
(* Underneath are the mutexes and the readers-writer locks of parking_lot, *)
(* where a writer that waits keeps new readers out.                        *)
(***************************************************************************)
EXTENDS Integers, Sequences

CONSTANTS
    Thread,
    Lock,        \* the locks: several may have one rank
    Mutex,       \* those that are mutexes: the others are RwLocks
    Rank,
    RankOf,      \* LockRank::bit of each lock
    Followers    \* LockRank::followers of each rank

(* rustc rejects a cycle among the constants of define_lock_ranks: every   *)
(* set of ranks has one that none of the others may follow.                *)
ASSUME RankAssumption ==
    /\ Mutex \subseteq Lock /\ "none" \notin Lock \cup Rank
    /\ RankOf \in [Lock -> Rank]
    /\ Followers \in [Rank -> SUBSET Rank]
    /\ \A T \in SUBSET Rank : T # {} => \E r \in T : Followers[r] \cap T = {}

VARIABLES
    lockState,   \* LOCK_STATE of each thread
    guards,      \* the guards each thread has, oldest first
    wants,       \* the guard each thread is waiting for
    panicked,    \* the threads that an assertion has stopped
    aborted      \* a panic within a panic has ended the process

lockVars == <<lockState, guards, wants, panicked, aborted>>

(* define_lock_ranks!: the ranks that have followers, or follow one.       *)
RankTable ==
    [COMMAND_BUFFER_DATA |->
        {"DEVICE_SNATCHABLE_LOCK", "DEVICE_USAGE_SCOPES",
         "SHARED_TRACKER_INDEX_ALLOCATOR_INNER", "BUFFER_MAP_STATE"},
     DEVICE_SNATCHABLE_LOCK |->
        {"SHARED_TRACKER_INDEX_ALLOCATOR_INNER", "DEVICE_TRACE", "BUFFER_MAP_STATE"},
     BUFFER_MAP_STATE |->
        {"QUEUE_PENDING_WRITES", "SHARED_TRACKER_INDEX_ALLOCATOR_INNER", "DEVICE_TRACE"},
     QUEUE_PENDING_WRITES |->
        {"COMMAND_ALLOCATOR_FREE_ENCODERS", "SHARED_TRACKER_INDEX_ALLOCATOR_INNER",
         "QUEUE_LIFE_TRACKER"},
     QUEUE_LIFE_TRACKER |-> {"COMMAND_ALLOCATOR_FREE_ENCODERS", "DEVICE_TRACE"},
     COMMAND_ALLOCATOR_FREE_ENCODERS |-> {"SHARED_TRACKER_INDEX_ALLOCATOR_INNER"},
     DEVICE_USAGE_SCOPES |-> {}, DEVICE_TRACE |-> {},
     SHARED_TRACKER_INDEX_ALLOCATOR_INNER |-> {}]

Initial == [last |-> "none", depth |-> 0]
NotWaiting == [lock |-> "none", mode |-> "none", saved |-> Initial]
Modes(l) == IF l \in Mutex THEN {"write"} ELSE {"read", "write"}

LocksInit ==
    /\ lockState = [t \in Thread |-> Initial]
    /\ guards = [t \in Thread |-> <<>>]
    /\ wants = [t \in Thread |-> NotWaiting]
    /\ panicked = {}
    /\ aborted = FALSE

Running(t) == ~aborted /\ t \notin panicked /\ wants[t] = NotWaiting

(* acquire: the ranks that may be locked next, by the lock taken last.     *)
Permitted_SameRank(state) ==         \* wrong: two locks of one rank, either first
    IF state.last = "none" THEN Rank ELSE Followers[state.last] \cup {state.last}
Permitted(state) == IF state.last = "none" THEN Rank ELSE Followers[state.last]

(* lock, read or write: the state is updated before the thread waits.      *)
AskLock(t, l, m) ==
    /\ Running(t) /\ m \in Modes(l)
    /\ RankOf[l] \in Permitted(lockState[t])
    /\ lockState' = [lockState EXCEPT
           ![t] = [last |-> RankOf[l], depth |-> lockState[t].depth + 1]]
    /\ wants' = [wants EXCEPT ![t] = [lock |-> l, mode |-> m, saved |-> lockState[t]]]
    /\ UNCHANGED <<guards, panicked, aborted>>

(* The assertion fails, and unwinding drops the thread's guards in order.  *)
AskWrongLock(t, l) ==
    /\ Running(t)
    /\ RankOf[l] \notin Permitted(lockState[t])
    /\ panicked' = panicked \cup {t}
    /\ lockState' = [lockState EXCEPT ![t] = Initial]
    /\ guards' = [guards EXCEPT ![t] = <<>>]
    /\ UNCHANGED <<wants, aborted>>

(* Who keeps t waiting, itself perhaps: who holds the lock, unless both    *)
(* read it, and if t is to read it, who waits to write it.                 *)
HoldsAgainst(u, w) ==
    \E i \in DOMAIN guards[u] :
        /\ guards[u][i].lock = w.lock
        /\ "write" \in {w.mode, guards[u][i].mode}
QueuedAgainst(u, w) ==
    w.mode = "read" /\ wants[u].lock = w.lock /\ wants[u].mode = "write"
WaitsFor(t) ==
    {u \in Thread : /\ wants[t] # NotWaiting
                    /\ HoldsAgainst(u, wants[t]) \/ QueuedAgainst(u, wants[t])}

GrantLock(t) ==
    /\ ~aborted /\ wants[t] # NotWaiting /\ WaitsFor(t) = {}
    /\ guards' = [guards EXCEPT ![t] = Append(@, wants[t])]
    /\ wants' = [wants EXCEPT ![t] = NotWaiting]
    /\ UNCHANGED <<lockState, panicked, aborted>>

(* Dropping the thread's newest guard: release restores what it saved.     *)
DropGuard(t) ==
    /\ Running(t) /\ guards[t] # <<>>
    /\ LET n == Len(guards[t]) IN
         /\ lockState[t].depth = guards[t][n].saved.depth + 1
         /\ lockState' = [lockState EXCEPT ![t] = guards[t][n].saved]
         /\ guards' = [guards EXCEPT ![t] = SubSeq(@, 1, n - 1)]
    /\ UNCHANGED <<wants, panicked, aborted>>

(* Dropping another one: release panics, and again while the guards that   *)
(* are left are dropped, which ends the process.                           *)
DropWrongGuard(t, i) ==
    /\ Running(t) /\ i \in DOMAIN guards[t]
    /\ lockState[t].depth # guards[t][i].saved.depth + 1
    /\ aborted' = TRUE
    /\ UNCHANGED <<lockState, guards, wants, panicked>>

(* RwLockWriteGuard::downgrade                                             *)
DowngradeGuard(t, i) ==
    /\ Running(t) /\ i \in DOMAIN guards[t]
    /\ guards[t][i].lock \notin Mutex /\ guards[t][i].mode = "write"
    /\ guards' = [guards EXCEPT ![t][i].mode = "read"]
    /\ UNCHANGED <<lockState, wants, panicked, aborted>>

LocksNext ==
    \E t \in Thread :
        \/ GrantLock(t) \/ DropGuard(t)
        \/ \E l \in Lock : AskWrongLock(t, l)
        \/ \E l \in Lock, m \in {"read", "write"} : AskLock(t, l, m)
        \/ \E i \in DOMAIN guards[t] : DropWrongGuard(t, i) \/ DowngradeGuard(t, i)

LocksSpec == LocksInit /\ [][LocksNext]_lockVars

--------------------------------------------------------------------------------

(* No threads ever wait for each other in a circle, nor one for itself:    *)
(* among any of them there is one that waits for nobody among them.  This  *)
(* is what checking only the lock taken last has to guarantee, for locks   *)
(* taken in any order that the checks let pass.                            *)
AlwaysProgress ==
    \A D \in SUBSET Thread :
        D # {} => \E t \in D : WaitsFor(t) \cap D = {}
================================================================================
