---------------------------- MODULE CommandEncoding ----------------------------
(***************************************************************************)
(* What finishing a command encoder makes of the commands recorded in it:  *)
(* raw commands for the driver with the barriers they need between them,   *)
(* and what has to hold before they may run -- the state each resource     *)
(* must be in, and the memory that must not be read before it was cleared. *)
(*                                                                         *)
(* A cell is what the initialization trackers tell apart: one subresource  *)
(* of a texture, or a range of a buffer.  A command is a record            *)
(*   type    "transfer", "compute" or "render";                            *)
(*   steps   the transfer itself, the dispatches, or the draws: the usage  *)
(*           each makes of the keys, and the cells it reads, overwrites    *)
(*           entirely, or may overwrite in part;                           *)
(*   target  a render pass's attachment, with its load and store operation.*)
(***************************************************************************)
EXTENDS UsageTracker

CONSTANTS
    Cell,         \* what memory initialization is tracked by
    CellKey,      \* the key each cell is part of
    BufferKey,    \* the keys that are buffers
    ClearUsage    \* the usage in which a key is cleared

ASSUME CellAssumption ==
    IsFiniteSet(Cell) /\ CellKey \in [Cell -> Key] /\ BufferKey \subseteq Key
ASSUME ClearAssumption ==
    /\ ClearUsage \in [Key -> SUBSET Usage]
    /\ "COPY_DST" \in Usage /\ "COLOR_TARGET" \in Exclusive

Steps == [use : [Key -> SUBSET Usage],
          reads : SUBSET Cell, writes : SUBSET Cell, partial : SUBSET Cell]
(* What a draw reads or may write is bound as something else than a target. *)
Draws == {s \in Steps : \A c \in s.reads \cup s.partial :
                           s.use[CellKey[c]] # {} /\ "COLOR_TARGET" \notin s.use[CellKey[c]]}
Commands == {c \in [type : {"transfer", "compute", "render"}, steps : Seq(Steps),
                    target : SUBSET Cell, load : BOOLEAN, store : BOOLEAN] :
               /\ c.type = "transfer" => c.steps # <<>>
               /\ c.type = "render" => \A i \in DOMAIN c.steps : c.steps[i] \in Draws}

KeysOf(cells) == {CellKey[c] : c \in cells}

Work(use, reads, writes, partial, drops, value) ==
    [op |-> "work", use |-> use, reads |-> reads, writes |-> writes,
     partial |-> partial, drops |-> drops, value |-> value]

(***************************************************************************)
(* Trackers and raw commands grow together: `out` has both.                *)
(***************************************************************************)
Moved(out, use) ==
    [out EXCEPT !.tracker = Advance(@, use, use),
                !.ops = @ \o Barriers(out.tracker.end, use)]

Cleared(out, k, cells) ==
    LET use == Only({k}, ClearUsage[k])
    IN  [Moved(out, use) EXCEPT
            !.ops = Append(@, Work(use, {}, cells, {}, {}, "zero"))]

(* clear_texture, for each of the subresources `cells`.                    *)
TexturesCleared(out, cells) ==
    FoldLeft(LAMBDA acc, c : Cleared(acc, CellKey[c], {c}), out, SetToSeq(cells))

(***************************************************************************)
(* An encoder's state: its tracker, its raw commands, the initialization   *)
(* actions to resolve when it is submitted, and the texture subresources   *)
(* its render passes discarded and nothing has initialized since.          *)
(***************************************************************************)
Fresh == [tracker |-> EmptyTracker, ops |-> <<>>, acts |-> <<>>, drops |-> {},
          ok |-> TRUE]

(* register_init_action: an action is kept for the cells that are          *)
(* uninitialized now.  The discarded cells that `kind` needs are the       *)
(* caller's to clear, now: see Discarded.                                  *)
Register(enc, cells, kind, uninit) ==
    LET stale == cells \cap uninit
        again == IF kind = "needs" THEN cells \cap enc.drops ELSE {}
        Act(c, k) == IF c = {} THEN <<>> ELSE <<[cells |-> c, kind |-> k]>>
    IN  [enc EXCEPT !.acts = @ \o Act(stale, kind) \o Act(again, "implicit"),
                    !.drops = @ \ cells]
Discarded(enc, cells) == cells \cap enc.drops

Needs(step) == step.reads \cup step.partial

(* wrong: what was discarded is used as it is                              *)
Transferred_NoFixup(enc, cmd, uninit) ==
    LET s == cmd.steps[1]
        known == Register(Register(enc, Needs(s), "needs", uninit),
                          s.writes, "implicit", uninit)
    IN  [Moved(known, s.use) EXCEPT
            !.ops = Append(@, Work(s.use, s.reads, s.writes, s.partial, {},
                                   "computed"))]

(* A transfer command: a copy, or a clear of a buffer or texture.  Textures *)
(* an earlier pass discarded are cleared on the spot, before the barriers. *)
Transferred(enc, cmd, uninit) ==
    LET s == cmd.steps[1]
        cleared == TexturesCleared(enc, Discarded(enc, Needs(s)))
        known == Register(Register(cleared, Needs(s), "needs", uninit),
                          s.writes, "implicit", uninit)
    IN  [Moved(known, s.use) EXCEPT
            !.ops = Append(@, Work(s.use, s.reads, s.writes, s.partial, {},
                                   "computed"))]

(* wrong: the barriers come after the pass                                 *)
PassEnded_NoSwap(enc, pass, first, last, fixups) ==
    LET transit == TexturesCleared([enc EXCEPT !.ops = <<>>], fixups)
    IN  [transit EXCEPT
            !.tracker = Advance(@, first, last),
            !.ops = enc.ops \o pass \o @ \o Barriers(transit.tracker.end, first)]

(* The end of a pass.  Its raw commands are already written: what must     *)
(* come first -- clearing what it needs and the barriers to the states it  *)
(* starts in -- goes into a list of its own, which is swapped with it.     *)
PassEnded(enc, pass, first, last, fixups) ==
    LET transit == TexturesCleared([enc EXCEPT !.ops = <<>>], fixups)
    IN  [transit EXCEPT
            !.tracker = Advance(@, first, last),
            !.ops = enc.ops \o @ \o Barriers(transit.tracker.end, first) \o pass]

(* A compute pass: each dispatch is a usage scope of its own, with its     *)
(* barriers inside the pass, from a tracker of the pass's own.             *)
Dispatched(pass, s, uninit) ==
    LET inner == Moved([tracker |-> pass.tracker, ops |-> pass.ops], s.use)
    IN  [tracker |-> inner.tracker,
         ops |-> Append(inner.ops, Work(s.use, s.reads, s.writes, s.partial, {}, "computed")),
         fixups |-> pass.fixups \cup Discarded(pass.enc, Needs(s)),
         enc |-> Register(pass.enc, Needs(s), "needs", uninit)]

Computed(enc, cmd, uninit) ==
    LET pass == FoldLeft(LAMBDA acc, s : Dispatched(acc, s, uninit),
                         [tracker |-> EmptyTracker, ops |-> <<>>, fixups |-> {},
                          enc |-> enc],
                         cmd.steps)
    IN  IF \E i \in DOMAIN cmd.steps : Conflict(<<cmd.steps[i].use>>)
          THEN [enc EXCEPT !.ok = FALSE]
          ELSE PassEnded(pass.enc, pass.ops, pass.tracker.start,
                         pass.tracker.end, pass.fixups)

TargetUse(cmd) == Only(KeysOf(cmd.target), {"COLOR_TARGET"})
ScopeUses(cmd) == Append([i \in DOMAIN cmd.steps |-> cmd.steps[i].use], TargetUse(cmd))
Over(cmd, F(_)) == UNION {F(cmd.steps[i]) : i \in DOMAIN cmd.steps}

(* A render pass: one usage scope, for its attachment and all its draws.   *)
(* What it loads must be initialized, what it clears and stores is from    *)
(* then on, and what it discards is not.                                   *)
Rendered(enc, cmd, uninit) ==
    LET reads == Over(cmd, LAMBDA s : s.reads)
        partial == Over(cmd, LAMBDA s : s.partial)
        loaded == IF cmd.load THEN cmd.target ELSE {}
        attached ==
            IF cmd.load THEN Register(enc, cmd.target, "needs", uninit)
            ELSE IF cmd.store THEN Register(enc, cmd.target, "implicit", uninit)
            ELSE enc
        stored == IF cmd.store THEN attached
                  ELSE [attached EXCEPT !.drops = @ \cup cmd.target]
        drawn == Register(stored, reads \cup partial, "needs", uninit)
        scope == Merged(ScopeUses(cmd))
        pass == Work(scope, reads \cup loaded,
                     IF cmd.load THEN {} ELSE cmd.target,
                     partial \cup loaded,
                     IF cmd.store THEN {} ELSE cmd.target,
                     "computed")
    IN  IF Conflict(ScopeUses(cmd))
          THEN [enc EXCEPT !.ok = FALSE]
          ELSE PassEnded(drawn, <<pass>>, scope, scope,
                         Discarded(enc, loaded)
                         \cup Discarded(stored, reads \cup partial))

EncodeCommand(enc, cmd, uninit) ==
    CASE ~enc.ok -> enc
      [] enc.ok /\ cmd.type = "transfer" -> Transferred(enc, cmd, uninit)
      [] enc.ok /\ cmd.type = "compute" -> Computed(enc, cmd, uninit)
      [] enc.ok /\ cmd.type = "render" -> Rendered(enc, cmd, uninit)

(* encode_commands: the commands in the order they were recorded; the      *)
(* first that is invalid makes the whole command buffer so.                *)
EncodeCommands(cmds, uninit) ==
    FoldLeft(LAMBDA enc, cmd : EncodeCommand(enc, cmd, uninit), Fresh, cmds)

(***************************************************************************)
(* Baking: what submit does, under the trackers lock, to a finished        *)
(* command buffer.  `out` has the device's tracker and no raw commands,    *)
(* and gets the ones that run before the command buffer's.                 *)
(***************************************************************************)
BufferCells == {c \in Cell : CellKey[c] \in BufferKey}

(* The actions in order: each drains its cells from what is uninitialized. *)
Drained(acc, a) ==
    [clear |-> IF a.kind = "needs" THEN acc.clear \cup (a.cells \cap acc.uninit)
               ELSE acc.clear,
     uninit |-> acc.uninit \ a.cells]
Resolved(acts, uninit) == FoldLeft(Drained, [clear |-> {}, uninit |-> uninit], acts)

StillUninit_Kept(enc, uninit) == uninit          \* wrong: discards are forgotten
StillUninit(enc, uninit) == uninit \cup enc.drops

(* Every buffer with an action that needs memory is made ready for a clear, *)
(* whether anything is left to clear or not.                               *)
NeedyBuffers(acts) ==
    KeysOf(BufferCells \cap
           UNION {acts[i].cells : i \in {j \in DOMAIN acts : acts[j].kind = "needs"}})

BuffersInitialized(out, acts, clear) ==
    FoldLeft(LAMBDA acc, k :
                Cleared(acc, k, {c \in clear : CellKey[c] = k}),
             out, SetToSeq(NeedyBuffers(acts)))

FromDevice_Starts(out, tracker) ==         \* wrong: end states are not kept
    [out EXCEPT !.tracker = Advance(@, tracker.start, tracker.start),
                !.ops = @ \o Barriers(out.tracker.end, tracker.start)]

(* insert_barriers_from_device_tracker                                     *)
FromDevice(out, tracker) ==
    [out EXCEPT !.tracker = Advance(@, tracker.start, tracker.end),
                !.ops = @ \o Barriers(out.tracker.end, tracker.start)]

Baked(enc, device, uninit) ==
    LET res == Resolved(enc.acts, uninit)
        buffers == BuffersInitialized([tracker |-> device, ops |-> <<>>],
                                      enc.acts, res.clear)
        textures == TexturesCleared(buffers, res.clear \ BufferCells)
        out == FromDevice(textures, enc.tracker)
    IN  [tracker |-> out.tracker, ops |-> out.ops \o enc.ops,
         uninit |-> StillUninit(enc, res.uninit)]
===============================================================================
