----------------------------- MODULE EncoderStatus -----------------------------
(***************************************************************************)
(* The status of a command encoder: which calls it accepts while a pass is *)
(* open on it, after it was finished or has gone wrong, and what becomes   *)
(* of what was recorded.  Each call holds the encoder's data mutex, so it  *)
(* is one action whatever thread makes it.  Passes are objects of their    *)
(* own: they may be opened where they should not be, ended late, or twice. *)
(***************************************************************************)
EXTENDS Integers, Sequences, FiniteSets

CONSTANTS
    StatusEncoder,   \* the encoders
    Pass,            \* the pass objects the application may create
    MaxCalls         \* bound on the calls made to each encoder

ASSUME EncoderStatusAssumption ==
    MaxCalls \in Nat /\ "none" \notin Pass

VARIABLES
    status,    \* CommandEncoderStatus of each encoder: "Recording", "Locked",
               \* "Consumed" or "Error"
    recorded,  \* CommandBufferMutable::commands, each known by the call
               \* that recorded it
    passOf,    \* ComputePass::parent and ::base of each pass
    buffers,   \* the command buffers that finish returned, in order
    ran,       \* what submissions executed: command buffers, by number
    calls      \* what was asked of each encoder, in order

encoderVars == <<status, recorded, passOf, buffers, ran, calls>>

(* A command recorded directly: valid, invalid already when it is recorded, *)
(* or found to be invalid when finish encodes it.                          *)
Command == {"good", "bad", "late"}

(* What a pass holds: its commands, or why it cannot be run.  A pass with  *)
(* `parent` gone has been ended.                                           *)
PassBase == {"good", "bad", "late", "Locked", "Ended", "Invalid"}
NoPass == [st |-> "none", parent |-> "none", base |-> "good"]

EncoderInit ==
    /\ status = [e \in StatusEncoder |-> "Recording"]
    /\ recorded = [e \in StatusEncoder |-> <<>>]
    /\ passOf = [p \in Pass |-> NoPass]
    /\ buffers = <<>>
    /\ ran = <<>>
    /\ calls = [e \in StatusEncoder |-> <<>>]

Called(e, name, pass, kind) ==
    /\ Len(calls[e]) < MaxCalls
    /\ calls' = [calls EXCEPT ![e] = Append(@, [op |-> name, pass |-> pass, kind |-> kind])]

(* CommandEncoderStatus::push_with, given what the closure would record:   *)
(* the status it leaves, and what it has recorded.                         *)
Pushed(st, cmd) ==
    CASE st = "Recording" -> IF cmd = "bad" THEN "Error" ELSE "Recording"
      [] st = "Locked" -> "Error"
      [] OTHER -> st
Extended(e, st, cmd) ==
    IF st = "Recording" /\ cmd # "bad"
      THEN Append(recorded[e], [kind |-> cmd, call |-> Len(calls[e]) + 1])
      ELSE recorded[e]

PushCommand(e, cmd) ==
    /\ Called(e, "push", "none", cmd)
    /\ status' = [status EXCEPT ![e] = Pushed(@, cmd)]
    /\ recorded' = [recorded EXCEPT ![e] = Extended(e, status[e], cmd)]
    /\ UNCHANGED <<passOf, buffers, ran>>

(* lock_encoder, as beginning a pass calls it: only a recording encoder is *)
(* locked; opening a second pass while one is open invalidates it.         *)
Locked_Ignored(st) == IF st = "Recording" THEN "Locked" ELSE st   \* wrong: no error
Locked(st) ==
    CASE st = "Recording" -> "Locked" [] st = "Locked" -> "Error" [] OTHER -> st

(* The pass exists in any case, and remembers what was wrong with it.  The *)
(* commands it will hold are chosen here.                                  *)
BeginPass(e, p, kind) ==
    /\ passOf[p].st = "none"
    /\ Called(e, "begin", p, kind)
    /\ status' = [status EXCEPT ![e] = Locked(@)]
    /\ passOf' = [passOf EXCEPT ![p] =
                    [st |-> "open", parent |-> e,
                     base |-> CASE status[e] = "Recording" -> kind
                                [] status[e] = "Locked" -> "Locked"
                                [] status[e] = "Consumed" -> "Ended"
                                [] status[e] = "Error" -> "Invalid"]]
    /\ UNCHANGED <<recorded, buffers, ran>>

(* unlock_encoder, as ending a pass calls it: the status, or with an error *)
(* returned at once when the encoder is finished or was not locked.        *)
Unlocked(st) ==
    CASE st = "Locked" -> "Recording" [] st = "Recording" -> "Error" [] OTHER -> st
UnlockFails(st) == st \in {"Recording", "Consumed"}

(* The pass's commands are recorded as one, unless the pass was opened     *)
(* within another or on a finished encoder.                                *)
EndPass(p) ==
    LET e == passOf[p].parent
        base == passOf[p].base
        after == Unlocked(status[e])
        returns == UnlockFails(status[e]) \/ base \in {"Locked", "Ended"}
        cmd == IF base \in {"good", "late"} THEN base ELSE "bad"
    IN  /\ passOf[p].st = "open"
        /\ Called(e, "end", p, "good")
        /\ passOf' = [passOf EXCEPT ![p].st = "ended"]
        /\ status' = [status EXCEPT ![e] = IF returns THEN after ELSE Pushed(after, cmd)]
        /\ recorded' = [recorded EXCEPT ![e] =
                            IF returns THEN @ ELSE Extended(e, after, cmd)]
        /\ UNCHANGED <<buffers, ran>>

(* A pass that was ended has no parent to end it on.                       *)
EndPassAgain(p) ==
    /\ passOf[p].st = "ended"
    /\ Called(passOf[p].parent, "endAgain", p, "good")
    /\ UNCHANGED <<status, recorded, passOf, buffers, ran>>

(* CommandEncoder::finish: the encoder is consumed, whatever it held, and  *)
(* a command buffer is made of it, in error unless it was recording and    *)
(* its commands encode.                                                    *)
Encodes(e) == \A i \in DOMAIN recorded[e] : recorded[e][i].kind # "late"
FinishedAs(e) == IF status[e] = "Recording" /\ Encodes(e) THEN "Finished" ELSE "Error"

FinishEncoder(e) ==
    /\ Called(e, "finish", "none", "good")
    /\ buffers' = Append(buffers, [enc |-> e, st |-> FinishedAs(e),
                                   cmds |-> IF FinishedAs(e) = "Finished"
                                              THEN recorded[e] ELSE <<>>,
                                   at |-> Len(calls[e]) + 1])
    /\ status' = [status EXCEPT ![e] = "Consumed"]
    /\ recorded' = [recorded EXCEPT ![e] = <<>>]
    /\ UNCHANGED <<passOf, ran>>

(* take_finished, as submit calls it: the command buffer is spent.         *)
TakenAs_Kept(st) == st                 \* wrong: it can be submitted again
TakenAs(st) == "Submitted"

SubmitBuffer(b) ==
    /\ b \in DOMAIN buffers
    /\ buffers[b].st # "Submitted"
    /\ ran' = IF buffers[b].st = "Finished" THEN Append(ran, b) ELSE ran
    /\ buffers' = [buffers EXCEPT ![b].st = TakenAs(@)]
    /\ UNCHANGED <<status, recorded, passOf, calls>>

EncoderNext ==
    \/ \E e \in StatusEncoder, cmd \in Command : PushCommand(e, cmd)
    \/ \E e \in StatusEncoder, p \in Pass, kind \in Command : BeginPass(e, p, kind)
    \/ \E p \in Pass : EndPass(p) \/ EndPassAgain(p)
    \/ \E e \in StatusEncoder : FinishEncoder(e)
    \/ \E b \in 1..Len(buffers) : SubmitBuffer(b)

EncoderSpec == EncoderInit /\ [][EncoderNext]_encoderVars

-------------------------------------------------------------------------------

(* The pass that is open on e before its nth call, by the rules of WebGPU: *)
(* begun and not ended.                                                    *)
OpenBefore(e, n) ==
    {p \in Pass : \E i \in 1..(n - 1) :
        /\ calls[e][i].op = "begin" /\ calls[e][i].pass = p
        /\ \A j \in (i + 1)..(n - 1) : ~(calls[e][j].op = "end" /\ calls[e][j].pass = p)}

(* The calls before the nth are those of a valid encoder: it is used while *)
(* no pass is open, by valid commands and passes only, and not again after *)
(* it was finished.                                                        *)
WellNested(e, n) ==
    /\ OpenBefore(e, n) = {}
    /\ \A i \in 1..(n - 1) :
          /\ calls[e][i].op # "finish"
          /\ calls[e][i].op \in {"push", "begin"} =>
                OpenBefore(e, i) = {} /\ calls[e][i].kind = "good"

(* A command buffer can be executed if and only if the calls made to its   *)
(* encoder, on any thread and in any order, were those of a valid encoder, *)
(* and it then holds every command recorded and every pass ended, in order:*)
(* what the status machine of command/mod.rs is there to decide.           *)
FinishedWellNested ==
    \A b \in DOMAIN buffers :
        LET e == buffers[b].enc
            n == buffers[b].at
            Runs == buffers[b].st = "Finished" \/ \E i \in DOMAIN ran : ran[i] = b
        IN  /\ Runs <=> WellNested(e, n)
            /\ Runs => {buffers[b].cmds[i].call : i \in DOMAIN buffers[b].cmds} =
                           {i \in 1..(n - 1) : calls[e][i].op \in {"push", "end"}}
            /\ \A i, j \in DOMAIN buffers[b].cmds :
                  i < j => buffers[b].cmds[i].call < buffers[b].cmds[j].call

(* What an encoder recorded is executed once at most, however often it is  *)
(* finished and its command buffers submitted: take_finished empties the   *)
(* command buffer and finish the encoder.                                  *)
RunsOnce ==
    \A i, j \in DOMAIN ran :
        i # j => buffers[ran[i]].enc # buffers[ran[j]].enc
===============================================================================
