-------------------------- MODULE ContinueForward --------------------------
(***************************************************************************)
(* How the HLSL and GLSL writers of naga forward `continue` out of         *)
(* switches (naga/src/back/continue_forward.rs and its callers in the two  *)
(* writers).  A writer walks the statements of a function once; the        *)
(* actions are the walk, over every program of at most MaxStatements       *)
(* loops, switches and continues, and `code` is what is written: the       *)
(* blocks opened and closed and the jumps, each block or jump a token.     *)
(* Selectors, conditions and all other statements are left out, and so are *)
(* the bodies that HLSL writes again for a case that falls through.        *)
(***************************************************************************)
EXTENDS Naturals, Sequences, FiniteSetsExt

CONSTANT MaxStatements   \* bound on the statements of a program

ASSUME ContinueForwardAssumption == MaxStatements \in Nat

VARIABLES
    backend,     \* the writer: "hlsl" or "glsl"
    nest,        \* the statements being written, innermost last: [kind, at],
                 \* at the position in code of the block opened for each
    continueCtx, \* ContinueCtx::stack
    code,        \* the tokens written: [op, variable, of]
    named,       \* number of variables introduced
    statements   \* number of statements walked

forwardVars == <<backend, nest, continueCtx, code, named, statements>>

ForwardInit ==
    /\ backend \in {"hlsl", "glsl"}
    /\ nest = <<>> /\ continueCtx = <<>> /\ code = <<>>
    /\ named = 0 /\ statements = 0

Token(op, variable, of) == [op |-> op, variable |-> variable, of |-> of]
InLoop == [kind |-> "Loop", variable |-> 0, encountered |-> FALSE]
InSwitch(variable) == [kind |-> "Switch", variable |-> variable, encountered |-> FALSE]

Innermost(stack) == stack[Len(stack)]
Outer(stack) == SubSeq(stack, 1, Len(stack) - 1)
Encountered(stack) == [stack EXCEPT ![Len(stack)].encountered = TRUE]
OnSwitch(stack) == stack # <<>> /\ Innermost(stack).kind = "Switch"

Loops == {i \in DOMAIN nest : nest[i].kind = "loop"}
SourceLoop == nest[Max(Loops)].at

(* The nesting that is recorded: GLSL leaves out the switches that it
   writes as switches. *)
Tracked(kind) == backend = "hlsl" \/ kind = "do"

OpenBlock(kind, declared) ==
    /\ code' = code \o declared \o <<Token(kind, 0, 0)>>
    /\ nest' = Append(nest, [kind |-> IF kind = "while" THEN "loop" ELSE kind,
                             at |-> Len(code) + Len(declared) + 1])

NextStatement == statements < MaxStatements /\ statements' = statements + 1

(* Statement::Loop, up to its body *)
OpenLoop ==
    /\ NextStatement
    /\ OpenBlock("while", <<>>)
    /\ continueCtx' = Append(continueCtx, InLoop)
    /\ UNCHANGED <<backend, named>>

(* Statement::Switch, up to its body, and ContinueCtx::enter_switch: a
   switch with one body is written as do {} while(false) *)
OpenSwitch(kind) ==
    /\ NextStatement
    /\ \/ /\ ~Tracked(kind) \/ continueCtx = <<>>
          /\ OpenBlock(kind, <<>>)
          /\ UNCHANGED <<continueCtx, named>>
       \/ /\ Tracked(kind) /\ continueCtx # <<>> /\ ~OnSwitch(continueCtx)
          /\ named' = named + 1
          /\ OpenBlock(kind, <<Token("declare", named + 1, 0)>>)
          /\ continueCtx' = Append(continueCtx, InSwitch(named + 1))
       \/ /\ Tracked(kind) /\ OnSwitch(continueCtx)
          /\ OpenBlock(kind, <<>>)
          /\ continueCtx' = Append(continueCtx, InSwitch(Innermost(continueCtx).variable))
          /\ UNCHANGED named
    /\ UNCHANGED backend

(* Statement::Continue and ContinueCtx::continue_encountered: the variable
   is set and the innermost block left, or the loop continued *)
WriteContinue ==
    /\ NextStatement
    /\ Loops # {}
    /\ \/ /\ OnSwitch(continueCtx)
          /\ code' = Append(code, Token("forward", Innermost(continueCtx).variable, SourceLoop))
          /\ continueCtx' = Encountered(continueCtx)
       \/ /\ ~OnSwitch(continueCtx)
          /\ code' = Append(code, Token("continue", 0, SourceLoop))
          /\ UNCHANGED continueCtx
    /\ UNCHANGED <<backend, nest, named>>

CloseLoop ==
    /\ nest # <<>> /\ Innermost(nest).kind = "loop"
    /\ code' = Append(code, Token("close", 0, Innermost(nest).at))
    /\ nest' = Outer(nest)
    /\ continueCtx' = Outer(continueCtx)
    /\ UNCHANGED <<backend, named, statements>>

(* ContinueCtx::exit_switch, the stack it leaves and the check it asks for *)
AfterSwitch_Forgets(stack) == Outer(stack)   \* wrong: the outer switch is not told
AfterSwitch(stack) ==
    IF Innermost(stack).encountered /\ OnSwitch(Outer(stack))
    THEN Encountered(Outer(stack))
    ELSE Outer(stack)
CheckAfter(stack) ==
    IF ~Innermost(stack).encountered THEN <<>>
    ELSE IF OnSwitch(Outer(stack)) THEN <<Token("if-break", Innermost(stack).variable, 0)>>
    ELSE <<Token("if-continue", Innermost(stack).variable, 0)>>

CloseSwitch ==
    /\ nest # <<>> /\ Innermost(nest).kind # "loop"
    /\ nest' = Outer(nest)
    /\ \/ /\ Tracked(Innermost(nest).kind) /\ continueCtx # <<>>
          /\ code' = Append(code, Token("close", 0, Innermost(nest).at)) \o CheckAfter(continueCtx)
          /\ continueCtx' = AfterSwitch(continueCtx)
       \/ /\ ~Tracked(Innermost(nest).kind) \/ continueCtx = <<>>
          /\ code' = Append(code, Token("close", 0, Innermost(nest).at))
          /\ UNCHANGED continueCtx
    /\ UNCHANGED <<backend, named, statements>>

ForwardNext ==
    \/ OpenLoop
    \/ \E kind \in {"switch", "do"} : OpenSwitch(kind)
    \/ WriteContinue
    \/ CloseLoop
    \/ CloseSwitch

ForwardSpec == ForwardInit /\ [][ForwardNext]_forwardVars

-----------------------------------------------------------------------------
(* What the written code does: the blocks open at p, the token that follows
   the block, and the block whose next iteration a jump at p starts, 0 when
   the jump goes astray.  FXC refuses a continue within a switch. *)
Openers == {"while", "do", "switch"}
BlocksAt(p) ==
    {o \in 1 .. (p - 1) :
        /\ code[o].op \in Openers
        /\ ~\E q \in (o + 1) .. (p - 1) : code[q].op = "close" /\ code[q].of = o}
IterationAt(p) ==
    LET looping == {o \in BlocksAt(p) : code[o].op # "switch"}
        o == Max(looping)
    IN IF looping # {} /\ (backend = "hlsl" => o = Max(BlocksAt(p))) THEN o ELSE 0
CheckedAfter(o, variable) ==
    {q \in DOMAIN code :
        /\ code[q].op \in {"if-break", "if-continue"} /\ code[q].variable = variable
        /\ code[q - 1].op = "close" /\ code[q - 1].of = o}
Continued[p \in DOMAIN code] ==
    IF code[p].op \in {"continue", "if-continue"} THEN IterationAt(p)
    ELSE LET o == Max(BlocksAt(p))
             checks == CheckedAfter(o, code[p].variable)
         IN IF code[o].op = "while" \/ checks = {} THEN 0 ELSE Continued[Min(checks)]

(* The variable is declared in the loop, by a block the jump is still in, so
   every iteration starts with it false. *)
ResetEachIteration(p) ==
    \E d \in code[p].of .. p :
        /\ code[d].op = "declare" /\ code[d].variable = code[p].variable
        /\ code[p].of \in BlocksAt(d) /\ BlocksAt(d) \subseteq BlocksAt(p)

(* GLSL does not know of a switch that it writes as a switch inside one that
   it writes as a loop: the forwarded continue leaves the inner one only. *)
Untracked(p) ==
    /\ backend = "glsl"
    /\ \E d, s \in BlocksAt(p) : code[p].of < d /\ d < s /\ code[d].op = "do" /\ code[s].op = "switch"

(* Each `continue` of a program starts the next iteration of the loop it is
   in, whatever switches it crosses and however they are written: no
   do-while captures it, no break ends where nothing looks at its variable,
   no outer or inner loop's variable is used for it. *)
ForwardedRight ==
    nest = <<>> =>
        \A p \in DOMAIN code :
            code[p].op \in {"continue", "forward"} /\ ~Untracked(p) =>
                /\ Continued[p] = code[p].of
                /\ code[p].op = "forward" => ResetEachIteration(p)
=============================================================================
