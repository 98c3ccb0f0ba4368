----------------------------- MODULE QueueMemory -----------------------------
(***************************************************************************)
(* What a Queue promises to those who use it, with no trackers, barriers   *)
(* or lazy clears: memory starts out as zeros, a write to the queue takes  *)
(* effect at once, a submission runs its command buffers one after the     *)
(* other as one step, a discarded attachment reads as zeros, and a command *)
(* buffer runs once or, when it or its submission is invalid, never.       *)
(***************************************************************************)
EXTENDS Integers, Sequences, FiniteSets, SequencesExt

CONSTANTS
    Key, Exclusive,  \* as in UsageTracker
    Cell, CellKey,   \* as in CommandEncoding
    Encoder,         \* the command encoders
    Script,          \* the sequences of commands an encoder may record
    Batch            \* the sequences of command buffers one submit may carry

VARIABLES
    store,     \* the value of each cell
    seen,      \* what the commands of the last submission read
    stage,     \* what has become of each encoder
    commands   \* the commands of each command buffer that is ready

qvars == <<store, seen, stage, commands>>

(* Reads happen before the writes of the same step.                        *)
Put(s, reads, written, value, lost) ==
    [store |-> [c \in Cell |-> IF c \in lost THEN "zero"
                               ELSE IF c \in written THEN value
                               ELSE s.store[c]],
     seen |-> s.seen \cup {<<c, s.store[c]>> : c \in reads}]

StepDone(s, step) ==
    Put(s, step.reads, step.writes \cup step.partial, "computed", {})

(* A render pass reads what it loads, and its attachment holds what it     *)
(* drew unless that is discarded.                                          *)
PassDone(s, cmd) ==
    LET steps == {cmd.steps[i] : i \in DOMAIN cmd.steps}
    IN  Put(s, (UNION {x.reads : x \in steps}) \cup (IF cmd.load THEN cmd.target ELSE {}),
            (UNION {x.partial : x \in steps}) \cup cmd.target, "computed",
            IF cmd.store THEN {} ELSE cmd.target)

CommandDone(s, cmd) ==
    IF cmd.type = "render" THEN PassDone(s, cmd)
    ELSE FoldLeft(StepDone, s, cmd.steps)

Done(s, cmds) == FoldLeft(CommandDone, s, cmds)

(* No usage scope -- a dispatch, or a whole render pass -- may use a key   *)
(* exclusively and in another way as well.                                 *)
Scopes(cmd) ==
    IF cmd.type = "render" THEN {DOMAIN cmd.steps} ELSE {{i} : i \in DOMAIN cmd.steps}

ScopeOK(cmd, scope) ==
    \A k \in Key :
        LET uses == UNION {cmd.steps[i].use[k] : i \in scope}
                    \cup {"COLOR_TARGET" : c \in {x \in cmd.target : CellKey[x] = k}}
        IN  \A u \in uses \cap Exclusive : uses = {u}

ValidCommands(cmds) ==
    \A n \in DOMAIN cmds :
        cmds[n].type = "transfer" \/ \A scope \in Scopes(cmds[n]) : ScopeOK(cmds[n], scope)

-----------------------------------------------------------------------------
QInit ==
    /\ store = [c \in Cell |-> "zero"]
    /\ seen = {}
    /\ stage = [e \in Encoder |-> "recording"]
    /\ commands = [e \in Encoder |-> <<>>]

QFinish(e, cmds) ==
    /\ stage[e] = "recording"
    /\ stage' = [stage EXCEPT ![e] = IF ValidCommands(cmds) THEN "ready" ELSE "invalid"]
    /\ commands' = [commands EXCEPT ![e] = IF ValidCommands(cmds) THEN cmds ELSE <<>>]
    /\ UNCHANGED <<store, seen>>

QWrite(cells) ==
    /\ store' = [c \in Cell |-> IF c \in cells THEN "queued" ELSE store[c]]
    /\ UNCHANGED <<seen, stage, commands>>

Spent(batch) ==
    /\ \A i \in DOMAIN batch : stage[batch[i]] # "recording"
    /\ stage' = [e \in Encoder |-> IF e \in ToSet(batch) THEN "spent" ELSE stage[e]]
    /\ commands' = [e \in Encoder |-> IF e \in ToSet(batch) THEN <<>> ELSE commands[e]]

QSubmit(batch) ==
    /\ \A i \in DOMAIN batch : stage[batch[i]] = "ready"
    /\ Spent(batch)
    /\ LET done == FoldLeft(Done, [store |-> store, seen |-> {}],
                            [i \in DOMAIN batch |-> commands[batch[i]]])
       IN  store' = done.store /\ seen' = done.seen

QReject(batch) ==
    /\ \E i \in DOMAIN batch : stage[batch[i]] # "ready"
    /\ Spent(batch)
    /\ UNCHANGED <<store, seen>>

QNext ==
    \/ \E e \in Encoder, cmds \in Script : QFinish(e, cmds)
    \/ \E cells \in SUBSET Cell : QWrite(cells)
    \/ \E batch \in Batch : QSubmit(batch) \/ QReject(batch)

QSpec == QInit /\ [][QNext]_qvars
==============================================================================
