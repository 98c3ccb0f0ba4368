---------------------------- MODULE StagingBelt ----------------------------
(***************************************************************************)
(* wgpu's StagingBelt (wgpu/src/util/belt.rs): writes are placed in chunks *)
(* of mapped memory, the chunks are unmapped, the copies out of them are   *)
(* submitted, and the chunks come back through a channel when the queue    *)
(* has mapped them again.  A size and an offset count COPY_BUFFER_ALIGNMENT*)
(* units of 4 bytes.  The application finishes the belt before it submits  *)
(* and recalls it after, as the belt's documentation requires; the device  *)
(* is not lost.                                                            *)
(***************************************************************************)
EXTENDS Naturals, Sequences, FiniteSets, SequencesExt

CONSTANTS
    ChunkSize,   \* StagingBelt::chunk_size
    BeltSizes,   \* the sizes asked for
    Alignments,  \* the alignments asked for
    MaxWrites    \* bound on the writes

ASSUME StagingBeltAssumption ==
    /\ ChunkSize \in Nat \ {0}
    /\ BeltSizes \subseteq Nat \ {0} /\ Alignments \subseteq Nat \ {0}
    /\ \A a \in Alignments : a = 1 \/ a % 2 = 0   \* allocate asserts powers of two
    /\ MaxWrites \in Nat

VARIABLES
    chunks,     \* the chunks made: [size, offset, state], state that of the
                \* buffer, "mapped", "unmapped" or "pending"
    content,    \* the write that each unit of each chunk holds, 0 for none
    activeChunks, closedChunks, freeChunks,  \* the belt's lists
    channel,    \* the chunks sent and not received
    writes      \* the writes: [chunk, start, size, stage]

beltVars == <<chunks, content, activeChunks, closedChunks, freeChunks, channel, writes>>

BeltInit ==
    /\ chunks = <<>> /\ content = <<>> /\ channel = <<>> /\ writes = <<>>
    /\ activeChunks = <<>> /\ closedChunks = <<>> /\ freeChunks = <<>>

MapAlignment == 2   \* MAP_ALIGNMENT, 8 bytes

Larger(a, b) == IF a >= b THEN a ELSE b
AlignTo(value, alignment) == ((value + alignment - 1) \div alignment) * alignment

(* Chunk::can_allocate and Chunk::allocate *)
CanAllocate(chunk, size, alignment) == AlignTo(chunk.offset, alignment) + size <= chunk.size
OffsetAfter(chunk, size, alignment) == AlignTo(chunk.offset, alignment) + size
NewChunk(size) == [size |-> Larger(ChunkSize, size), offset |-> 0, state |-> "mapped"]

(* receive_chunks: all that was sent, empty again *)
Received == freeChunks \o channel
Emptied(made) == [c \in DOMAIN made |-> IF Contains(channel, c) THEN [made[c] EXCEPT !.offset = 0] ELSE made[c]]

(* Iterator::position and Vec::swap_remove *)
Fitting(list, made, size, alignment) ==
    {i \in DOMAIN list : CanAllocate(made[list[i]], size, alignment)}
FirstOf(indices) == CHOOSE i \in indices : \A j \in indices : i <= j
SwapRemove(list, i) == Front([list EXCEPT ![i] = Last(list)])

Units(start, size) == (start + 1) .. (start + size)

(* The last step of allocate, and the caller's write through the view *)
Place(c, made, size, alignment) ==
    LET start == AlignTo(made[c].offset, alignment)
        old == IF c \in DOMAIN content THEN content[c] ELSE [u \in 1 .. made[c].size |-> 0]
        new == [u \in DOMAIN old |-> IF u \in Units(start, size) THEN Len(writes) + 1 ELSE old[u]]
    IN /\ chunks' = [made EXCEPT ![c].offset = OffsetAfter(made[c], size, alignment)]
       /\ content' = IF c \in DOMAIN content THEN [content EXCEPT ![c] = new] ELSE Append(content, new)
       /\ writes' = Append(writes, [chunk |-> c, start |-> start, size |-> size, stage |-> "recorded"])

AllocateActive(size, alignment) ==
    LET fit == Fitting(activeChunks, chunks, size, alignment)
        i == FirstOf(fit)
    IN /\ fit # {}
       /\ Place(activeChunks[i], chunks, size, alignment)
       /\ activeChunks' = Append(SwapRemove(activeChunks, i), activeChunks[i])
       /\ UNCHANGED <<closedChunks, freeChunks, channel>>

AllocateFree(size, alignment) ==
    LET made == Emptied(chunks)
        fit == Fitting(Received, made, size, alignment)
        i == FirstOf(fit)
    IN /\ Fitting(activeChunks, chunks, size, alignment) = {} /\ fit # {}
       /\ Place(Received[i], made, size, alignment)
       /\ activeChunks' = Append(activeChunks, Received[i])
       /\ freeChunks' = SwapRemove(Received, i)
       /\ channel' = <<>>
       /\ UNCHANGED closedChunks

AllocateNew(size, alignment) ==
    LET made == Append(Emptied(chunks), NewChunk(size))
    IN /\ Fitting(activeChunks, chunks, size, alignment) = {}
       /\ Fitting(Received, Emptied(chunks), size, alignment) = {}
       /\ Place(Len(made), made, size, alignment)
       /\ activeChunks' = Append(activeChunks, Len(made))
       /\ freeChunks' = Received
       /\ channel' = <<>>
       /\ UNCHANGED closedChunks

(* write_buffer and allocate: an alignment is at least that of a mapping *)
WriteBelt ==
    /\ Len(writes) < MaxWrites
    /\ \E size \in BeltSizes, asked \in Alignments :
          LET alignment == Larger(asked, MapAlignment)
          IN \/ AllocateActive(size, alignment)
             \/ AllocateFree(size, alignment)
             \/ AllocateNew(size, alignment)

ToState(list, state) ==
    [c \in DOMAIN chunks |-> IF Contains(list, c) THEN [chunks[c] EXCEPT !.state = state] ELSE chunks[c]]

FinishBelt ==
    /\ chunks' = ToState(activeChunks, "unmapped")
    /\ closedChunks' = closedChunks \o activeChunks
    /\ activeChunks' = <<>>
    /\ UNCHANGED <<content, freeChunks, channel, writes>>

(* The application submits the encoders of the writes before the last finish. *)
Finished(k) == writes[k].stage = "recorded" /\ Contains(closedChunks, writes[k].chunk)
SubmitBelt ==
    /\ \E k \in DOMAIN writes : Finished(k)
    /\ writes' = [k \in DOMAIN writes |-> IF Finished(k) THEN [writes[k] EXCEPT !.stage = "submitted"] ELSE writes[k]]
    /\ UNCHANGED <<chunks, content, activeChunks, closedChunks, freeChunks, channel>>

(* recall: every closed chunk is to be mapped again *)
Recalled_Early(list) == Received \o list   \* wrong: before they are mapped
Recalled(list) == Received
Recall ==
    /\ ~\E k \in DOMAIN writes : Finished(k)
    /\ chunks' = [c \in DOMAIN chunks |-> [ToState(closedChunks, "pending")[c] EXCEPT !.offset = Emptied(chunks)[c].offset]]
    /\ freeChunks' = Recalled(closedChunks)
    /\ closedChunks' = <<>> /\ channel' = <<>>
    /\ UNCHANGED <<content, activeChunks, writes>>

(* External: the GPU performs the copies in order, and the queue maps a
   buffer, and calls its callback, when no submission uses it. *)
InQueue(k) == writes[k].stage = "submitted"
CopyOut ==
    /\ \E k \in DOMAIN writes :
          /\ InQueue(k) /\ \A j \in 1 .. (k - 1) : ~InQueue(j)
          /\ writes' = [writes EXCEPT ![k].stage = "done"]
    /\ UNCHANGED <<chunks, content, activeChunks, closedChunks, freeChunks, channel>>

MapChunk(c) ==
    /\ chunks[c].state = "pending"
    /\ ~\E k \in DOMAIN writes : InQueue(k) /\ writes[k].chunk = c
    /\ chunks' = [chunks EXCEPT ![c].state = "mapped"]
    /\ channel' = Append(channel, c)
    /\ UNCHANGED <<content, activeChunks, closedChunks, freeChunks, writes>>

BeltNext ==
    \/ WriteBelt
    \/ FinishBelt
    \/ SubmitBelt
    \/ Recall
    \/ CopyOut
    \/ \E c \in DOMAIN chunks : MapChunk(c)

BeltSpec == BeltInit /\ [][BeltNext]_beltVars

-----------------------------------------------------------------------------
(* Whatever the order of writes, finishes, submissions and recalls, and
   however late the GPU is, a write that has not been copied out still has
   its bytes, all of them inside its chunk and aligned for a mapping; the
   chunk is mapped while it is written and unmapped once it is submitted,
   and only a mapped chunk waits to be written again. *)
BeltIntact ==
    /\ \A k \in DOMAIN writes :
          LET w == writes[k]
          IN w.stage # "done" =>
                /\ w.start % MapAlignment = 0 /\ w.start + w.size <= chunks[w.chunk].size
                /\ \A u \in Units(w.start, w.size) : content[w.chunk][u] = k
                /\ w.stage = "recorded" /\ Contains(activeChunks, w.chunk) => chunks[w.chunk].state = "mapped"
                /\ w.stage = "submitted" => chunks[w.chunk].state # "mapped"
    /\ \A i \in DOMAIN Received : chunks[Received[i]].state = "mapped"
=============================================================================
