----------------------------- MODULE CommandStream -----------------------------
(***************************************************************************)
(* The commands of a Device on their way to the GPU: encoders are finished *)
(* on any thread, the queue is written to, and one submit at a time bakes  *)
(* the command buffers it carries and sends them off behind the writes     *)
(* that were pending.  Three tables must agree, though they are updated at *)
(* different times: the device's usage tracker, what memory is             *)
(* uninitialized, and what the GPU will find when it gets there.           *)
(*                                                                         *)
(* Recording is not an action: a command is only appended to the encoder's *)
(* own list, and nothing else is read or changed until finish encodes it.  *)
(* The GPU runs a submission when it gets it: nothing here depends on when *)
(* (what does is in DeviceQueue).                                          *)
(***************************************************************************)
EXTENDS CommandEncoding

CONSTANTS
    Encoder,           \* the command encoders
    Script,            \* the sequences of commands an encoder may record
    Batch,             \* the sequences of command buffers one submit may carry
    Write,             \* the writes the queue may get: cells, key, and whether
                       \* they are covered entirely
    MaxWrites,         \* bound on those writes
    LateDiscards,      \* TRUE: a command buffer may be finished while another
                       \* that is ready discards what it uses, or uses what it
                       \* discards
    FailAfterBake,     \* TRUE: a submission may fail at a command buffer after
                       \* its first
    RejectedWrites,    \* TRUE: write_buffer may fail its validation whatever
                       \* state the buffer is in
    ConcurrentWrites   \* TRUE: the queue may be written to while a submit has
                       \* baked command buffers it has not sent off

ASSUME StreamAssumption ==
    /\ Script \subseteq Seq(Commands) /\ Batch \subseteq Seq(Encoder) \ {<<>>}
    /\ Write \subseteq [key : Key, cells : SUBSET Cell, whole : BOOLEAN]
    /\ MaxWrites \in Nat
    /\ {LateDiscards, FailAfterBake, RejectedWrites, ConcurrentWrites} \subseteq BOOLEAN

VARIABLES
    stage,      \* CommandEncoderStatus: "recording", and the command buffer's
                \* "ready" (Finished), "invalid" (Error) and "spent" (Submitted)
    commands,   \* the commands of each command buffer that is ready
    encoded,    \* CommandBufferMutable, once encoded
    device,     \* Device::trackers
    uninit,     \* the cells the resources' initialization_status holds
    pending,    \* the raw commands of PendingWrites::command_encoder
    writes,     \* how many writes there have been
    batch,      \* the locals of the submit in progress
    gpu         \* the driver and the GPU: see Execute

svars == <<stage, commands, encoded, device, uninit, pending, writes, batch, gpu>>

(* The submit in progress: the command buffers it has yet to take, the     *)
(* ones it took with what their stage was, the raw commands baked so far,  *)
(* and whether there was an error.                                         *)
NoBatch == [open |-> FALSE, todo |-> <<>>, taken |-> <<>>, baked |-> <<>>,
            failed |-> FALSE]
Taken == {batch.taken[i][1] : i \in DOMAIN batch.taken}

-----------------------------------------------------------------------------
(***************************************************************************)
(* The GPU, by the contract of wgpu-hal: the state each key is in, the     *)
(* keys used since their last barrier, the contents of each cell, what the *)
(* last submission read, and whether a barrier or a use was ever wrong.    *)
(***************************************************************************)
Transitioned(g, b) ==
    [g EXCEPT !.wrong = @ \/ g.state[b.key] # b.from,
              !.state[b.key] = b.to,
              !.touched = @ \ {b.key}]

(* A use must be within the state its key is in, and needs a barrier       *)
(* before it when an earlier use is not ordered with it.                   *)
Misused(g, use) ==
    \E k \in Key : /\ use[k] # {}
                   /\ \/ ~(use[k] \subseteq g.state[k])
                      \/ k \in g.touched /\ ~(g.state[k] \subseteq Ordered)

Worked(g, w) ==
    [g EXCEPT
        !.wrong = @ \/ Misused(g, w.use),
        !.touched = @ \cup {k \in Key : w.use[k] # {}},
        !.seen = @ \cup {<<c, g.mem[c]>> : c \in w.reads},
        !.mem = [c \in Cell |->
                    IF c \in w.drops THEN "garbage"
                    ELSE IF c \in w.writes THEN w.value
                    ELSE IF c \in w.partial /\ g.mem[c] # "garbage" THEN w.value
                    ELSE g.mem[c]]]

Execute(g, ops) ==
    FoldLeft(LAMBDA s, o : IF o.op = "barrier" THEN Transitioned(s, o) ELSE Worked(s, o),
             g, ops)

(* What the GPU will have come to when all that was baked has run.         *)
Ahead == Execute(gpu, pending \o batch.baked)

-----------------------------------------------------------------------------
Init ==
    /\ stage = [e \in Encoder |-> "recording"]
    /\ commands = [e \in Encoder |-> <<>>]
    /\ encoded = [e \in Encoder |-> Fresh]
    /\ device = [start |-> Unused, end |-> [k \in Key |-> Uninitialized]]
    /\ uninit = Cell
    /\ pending = <<>>
    /\ writes = 0
    /\ batch = NoBatch
    /\ gpu = [state |-> [k \in Key |-> Uninitialized], touched |-> {},
              mem |-> [c \in Cell |-> "garbage"], seen |-> {}, wrong |-> FALSE]

CellsUsed(cmds) ==
    UNION {cmds[i].target \cup Over(cmds[i], LAMBDA s : Needs(s) \cup s.writes) :
             i \in DOMAIN cmds}

(* Whether one of two command buffers discards what the other uses.        *)
Discards(e, cmds, drops) ==
    \/ encoded[e].drops \cap CellsUsed(cmds) # {}
    \/ drops \cap CellsUsed(commands[e]) # {}

(* CommandEncoder::finish                                                  *)
Finish(e, cmds) ==
    LET enc == EncodeCommands(cmds, uninit)
    IN  /\ stage[e] = "recording"
        /\ ~LateDiscards =>
             \A f \in Encoder : stage[f] = "ready" => ~Discards(f, cmds, enc.drops)
        /\ stage' = [stage EXCEPT ![e] = IF enc.ok THEN "ready" ELSE "invalid"]
        /\ encoded' = [encoded EXCEPT ![e] = IF enc.ok THEN enc ELSE Fresh]
        /\ commands' = [commands EXCEPT ![e] = IF enc.ok THEN cmds ELSE <<>>]
        /\ UNCHANGED <<device, uninit, pending, writes, batch, gpu>>

(* write_staging_buffer_impl and write_texture.  A subresource that is     *)
(* uninitialized and not covered entirely is cleared first.                *)
QueueWrite(w) ==
    LET clear == IF w.whole THEN {} ELSE w.cells \cap uninit
        use == Only({w.key}, {"COPY_DST"})
        out == Moved(TexturesCleared([tracker |-> device, ops |-> pending], clear), use)
        copy == Work(use, {}, IF w.whole THEN w.cells ELSE {},
                     IF w.whole THEN {} ELSE w.cells, {}, "queued")
    IN  /\ writes < MaxWrites
        /\ ConcurrentWrites \/ batch.taken = <<>>
        /\ device' = out.tracker
        /\ pending' = Append(out.ops, copy)
        /\ uninit' = uninit \ w.cells
        /\ writes' = writes + 1
        /\ UNCHANGED <<stage, commands, encoded, batch, gpu>>

(* write_staging_buffer_impl sets the buffer's state before it validates   *)
(* the write; when that fails, the barrier it was given is dropped.        *)
QueueWriteRejected(k) ==
    /\ k \in BufferKey
    /\ RejectedWrites \/ device.end[k] = {"COPY_DST"}
    /\ device' = Advance(device, Only({k}, {"COPY_DST"}), Only({k}, {"COPY_DST"}))
    /\ UNCHANGED <<stage, commands, encoded, uninit, pending, writes, batch, gpu>>

(* Queue::submit: from here it holds the fence and the command indices, so *)
(* that there is one at a time.                                            *)
SubmitStart(b) ==
    /\ ~batch.open
    /\ \A i \in DOMAIN b : stage[b[i]] # "recording"
    /\ FailAfterBake \/ stage[b[1]] # "ready" \/ \A i \in DOMAIN b : stage[b[i]] = "ready"
    /\ batch' = [NoBatch EXCEPT !.open = TRUE, !.todo = b]
    /\ UNCHANGED <<stage, commands, encoded, device, uninit, pending, writes, gpu>>

(* The next command buffer is taken, whatever comes of it ...              *)
Take(e) ==
    /\ batch.todo # <<>>
    /\ e = Head(batch.todo)
    /\ stage' = [stage EXCEPT ![e] = "spent"]
    /\ encoded' = [encoded EXCEPT ![e] = Fresh]
    /\ UNCHANGED <<commands, pending, writes, gpu>>

(* ... and baked, when it is ready and so were all before it.              *)
SubmitBake(e) ==
    LET out == Baked(encoded[e], device, uninit)
    IN  /\ Take(e)
        /\ stage[e] = "ready" /\ ~batch.failed
        /\ device' = out.tracker
        /\ uninit' = out.uninit
        /\ batch' = [batch EXCEPT !.todo = Tail(@), !.taken = Append(@, <<e, stage[e]>>),
                                  !.baked = @ \o out.ops]

SubmitSkip(e) ==
    /\ Take(e)
    /\ stage[e] # "ready" \/ batch.failed
    /\ batch' = [batch EXCEPT !.todo = Tail(@), !.taken = Append(@, <<e, stage[e]>>),
                              !.failed = TRUE]
    /\ UNCHANGED <<device, uninit>>

(* The pending writes go ahead of the command buffers; or, when one of     *)
(* them was invalid, nothing goes.                                         *)
SubmitFlush ==
    /\ batch.open /\ batch.todo = <<>> /\ ~batch.failed
    /\ gpu' = Execute([gpu EXCEPT !.seen = {}], pending \o batch.baked)
    /\ pending' = <<>>
    /\ commands' = [e \in Encoder |-> IF e \in Taken THEN <<>> ELSE commands[e]]
    /\ batch' = NoBatch
    /\ UNCHANGED <<stage, encoded, device, uninit, writes>>

SubmitFail ==
    /\ batch.open /\ batch.todo = <<>> /\ batch.failed
    /\ commands' = [e \in Encoder |-> IF e \in Taken THEN <<>> ELSE commands[e]]
    /\ batch' = NoBatch
    /\ UNCHANGED <<stage, encoded, device, uninit, pending, writes, gpu>>

Next ==
    \/ \E e \in Encoder, cmds \in Script : Finish(e, cmds)
    \/ \E w \in Write : QueueWrite(w)
    \/ \E k \in BufferKey : QueueWriteRejected(k)
    \/ \E b \in Batch : SubmitStart(b)
    \/ \E e \in Encoder : SubmitBake(e) \/ SubmitSkip(e)
    \/ SubmitFlush
    \/ SubmitFail

Spec == Init /\ [][Next]_svars

-----------------------------------------------------------------------------
TypeOK ==
    /\ stage \in [Encoder -> {"recording", "ready", "invalid", "spent"}]
    /\ \A e \in Encoder : commands[e] # <<>> => commands[e] \in Script
    /\ device.end \in [Key -> State \ {{}}]
    /\ uninit \subseteq Cell
    /\ writes \in 0..MaxWrites
    /\ gpu.mem \in [Cell -> {"garbage", "zero", "queued", "computed"}]

(* Every barrier the GPU is given starts from the state the resource is    *)
(* in, and every use finds its resource in a state that allows it, after a *)
(* barrier when it must wait for an earlier use: across commands, passes,  *)
(* command buffers encoded long before, and the queue's own writes.        *)
BarriersRight == ~gpu.wrong

(* The device's tracker runs ahead of the GPU, and never astray: it says   *)
(* what state each resource will be in when all that was baked has run.    *)
DeviceTrackerAhead ==
    ~batch.failed => \A k \in Key : device.end[k] = Ahead.state[k]

(* Memory that will hold garbage when all that was baked has run is known  *)
(* to be uninitialized: no lazy clear is ever missed.                      *)
GarbageTracked ==
    ~batch.failed => \A c \in Cell : Ahead.mem[c] = "garbage" => c \in uninit

(* "The WebGPU specification requires all texture & buffer memory to be    *)
(* zero initialized on first read": the lazy clears, "resolved at queue    *)
(* submit by merging them with the current state", leave no garbage to be  *)
(* read (init_tracker/mod.rs).                                             *)
ReadsInitialized == \A r \in gpu.seen : r[2] # "garbage"

(***************************************************************************)
(* What QueueMemory promises is kept.  Its memory is what the GPU's will   *)
(* be after the pending writes, with zeros where no one has looked yet;    *)
(* the command buffers a submit has taken are not spent until it is done.  *)
(***************************************************************************)
StageBefore(e) ==
    IF e \in Taken
      THEN (CHOOSE i \in DOMAIN batch.taken : batch.taken[i][1] = e
                /\ \A j \in 1..(i - 1) : batch.taken[j][1] # e)
      ELSE 0

Promise == INSTANCE QueueMemory WITH
    store <- [c \in Cell |->
                LET v == Execute(gpu, pending).mem[c]
                IN  IF v = "garbage" THEN "zero" ELSE v],
    seen <- gpu.seen,
    stage <- [e \in Encoder |->
                IF e \in Taken THEN batch.taken[StageBefore(e)][2] ELSE stage[e]]

(* A command reads what the commands and writes before it left, zeros if   *)
(* nothing did, and never what a driver left in fresh memory; a submission *)
(* runs as a whole, after the writes made before it, or not at all.        *)
KeepsPromise == Promise!QSpec
================================================================================
