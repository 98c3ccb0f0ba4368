---------------------------- MODULE MCCommandStream ----------------------------
(***************************************************************************)
(* Small instances of CommandStream: a buffer in two ranges and a texture  *)
(* with two subresources, and commands that use them in every way that     *)
(* matters to their barriers and to the memory behind them.                *)
(***************************************************************************)
EXTENDS CommandStream, TLC

Buffer == "b"
MCKey == {"b", "t1", "t2"}
MCResourceOf == [k \in MCKey |-> IF k = "b" THEN "b" ELSE "t"]
MCCell == {"bx", "by", "t1", "t2"}
MCCellKey == [c \in MCCell |-> IF c \in {"bx", "by"} THEN "b" ELSE c]
MCUsage == {"COPY_SRC", "COPY_DST", "UNIFORM", "RESOURCE", "STORAGE_RW", "COLOR_TARGET"}
MCExclusive == {"COPY_DST", "STORAGE_RW", "COLOR_TARGET"}
MCOrdered == {"COPY_SRC", "UNIFORM", "RESOURCE", "COLOR_TARGET"}
MCClearUsage ==
    [k \in MCKey |-> IF k = "t1" THEN {"COLOR_TARGET"} ELSE {"COPY_DST"}]

Uses(f) == [k \in MCKey |-> IF k \in DOMAIN f THEN f[k] ELSE {}]
Step(use, reads, wrote, partial) ==
    [use |-> use, reads |-> reads, writes |-> wrote, partial |-> partial]
Command(type, steps, target, load, keep) ==
    [type |-> type, steps |-> steps, target |-> target, load |-> load, store |-> keep]

Copy(from, reads, to, wrote, partial) ==
    Command("transfer",
            <<Step(Uses([k \in {from, to} |-> IF k = from THEN {"COPY_SRC"}
                                              ELSE {"COPY_DST"}]),
                   reads, wrote, partial)>>,
            {}, FALSE, FALSE)
Dispatch(use, reads, partial) == Step(Uses(use), reads, {}, partial)
Compute(steps) == Command("compute", steps, {}, FALSE, FALSE)
Render(steps, target, load, keep) == Command("render", steps, target, load, keep)

Fill == Copy("b", {"bx", "by"}, "t1", {"t1"}, {})
FillPart == Copy("b", {"bx"}, "t2", {}, {"t2"})
PatchPart == Copy("b", {"bx"}, "t1", {}, {"t1"})
ReadBack == Copy("t1", {"t1"}, "b", {"bx"}, {})
Sample == [t1 |-> {"RESOURCE"}, b |-> {"UNIFORM"}]
Scatter == Dispatch([b |-> {"STORAGE_RW"}], {"bx"}, {"by"})
SampleThenScatter ==
    Compute(<<Dispatch(Sample, {"t1", "by"}, {}), Scatter, Scatter>>)
Paint(load, keep) ==
    Render(<<Step(Uses([t2 |-> {"RESOURCE"}]), {"t2"}, {}, {})>>, {"t1"}, load, keep)
Feedback ==
    Render(<<Step(Uses([t1 |-> {"RESOURCE"}]), {"t1"}, {}, {})>>, {"t1"}, TRUE, TRUE)
Contradiction ==
    Compute(<<Dispatch([b |-> {"STORAGE_RW", "UNIFORM"}], {"bx"}, {"bx"})>>)

MCScript ==
    {<<Fill, SampleThenScatter>>,
     <<FillPart, Paint(FALSE, TRUE)>>,
     <<Paint(TRUE, FALSE), PatchPart>>,
     <<Paint(FALSE, FALSE)>>,
     <<Paint(TRUE, TRUE), ReadBack>>,
     <<SampleThenScatter, Fill>>,
     <<ReadBack, Feedback>>,
     <<Contradiction>>}

(* A compute pass that uses the second subresource in two ways, after a    *)
(* command that used the first: see "Known gaps" in the README.            *)
SampleThenStore ==
    Compute(<<Dispatch([t2 |-> {"RESOURCE"}], {"t2"}, {}),
              Dispatch([t2 |-> {"STORAGE_RW"}], {"t2"}, {})>>)
SplitTexture == {<<ReadBack, SampleThenStore>>}

(* One command buffer or two.  Encoders are interchangeable.               *)
MCBatch ==
    {<<e>> : e \in Encoder} \cup
    {<<p[1], p[2]>> : p \in {q \in Encoder \X Encoder : q[1] # q[2]}}
Interchangeable == Permutations(Encoder)

MCWrite ==
    {[key |-> "b", cells |-> {"bx"}, whole |-> TRUE],
     [key |-> "t1", cells |-> {"t1"}, whole |-> TRUE],
     [key |-> "t2", cells |-> {"t2"}, whole |-> FALSE]}
================================================================================
