----------------------------- MODULE ForwardProofs -----------------------------
(***************************************************************************)
(* What is proved of ContinueForward: wherever the writer finishes, every  *)
(* continue leads to the next iteration of its loop, for programs of every *)
(* size.                                                                   *)
(*                                                                         *)
(* The code that is written is read by its positions: BlocksAt(p) is what  *)
(* is open at p.  The statements being written are the blocks that are     *)
(* open at the end; each entry of ContinueCtx::stack is at one of them,    *)
(* and where is a function f, since GLSL has no entries for the switches   *)
(* it writes as switches.  A jump that leaves a block which is still open  *)
(* is promised a check: the entry at that block is encountered (Entered).  *)
(* A block that is closed has one check, at once, in the same loops        *)
(* (Answered).  The check is a jump itself, so the same is said of it, and *)
(* when nothing is open any more all of them lead on to a continue of the  *)
(* loop: by induction from the last jump backwards, as the absence of a    *)
(* greatest counterexample.                                                *)
(***************************************************************************)
EXTENDS ContinueForward, FiniteSetTheorems, SequenceTheorems, WellFoundedInduction, TLAPS

-----------------------------------------------------------------------------
(* The invariant.  The statements being written are the blocks that are    *)
(* open in the code (NestInv), the stack of ContinueCtx has an entry for   *)
(* some of them (Places), and what is written so far leads each jump to    *)
(* its loop or has an entry that promises the check it needs (JumpInv).    *)

(* The tokens that are written, the entries of ContinueCtx::stack and the  *)
(* statements being written.                                               *)
TokenOps == {"while", "do", "switch", "close", "declare", "continue", "forward",
             "if-break", "if-continue"}
Tokens == [op : TokenOps, variable : Nat, of : Nat]
Contexts == [kind : {"Loop", "Switch"}, variable : Nat, encountered : BOOLEAN]
Nested == [kind : {"loop", "do", "switch"}, at : Nat]

(* The types of the variables. *)
ForwardType ==
    /\ backend \in {"hlsl", "glsl"}
    /\ nest \in Seq(Nested) /\ continueCtx \in Seq(Contexts) /\ code \in Seq(Tokens)
    /\ named \in Nat

(* The position that is written next, the blocks of the n outermost        *)
(* statements, and the token that opens a statement of a kind.             *)
Here == Len(code) + 1
Ats(n) == {nest[i].at : i \in 1..n}
WordOf(kind) == IF kind = "loop" THEN "while" ELSE kind

(* The statements being written are those whose blocks are open. *)
NestInv ==
    /\ \A i \in DOMAIN nest :
          nest[i].at \in DOMAIN code /\ code[nest[i].at].op = WordOf(nest[i].kind)
    /\ \A i \in DOMAIN nest : BlocksAt(nest[i].at) = Ats(i - 1)
    /\ \A i, j \in DOMAIN nest : i < j => nest[i].at < nest[j].at
    /\ BlocksAt(Here) = Ats(Len(nest))

(* The statements that the context has an entry for: loops, and within one *)
(* the switches that the writer tracks.                                    *)
Recorded(i) ==
    \/ nest[i].kind = "loop"
    \/ Tracked(nest[i].kind) /\ \E l \in 1..(i - 1) : nest[l].kind = "loop"

(* f says at which statement each entry of the context is. *)
Places(f) ==
    /\ f \in [DOMAIN continueCtx -> DOMAIN nest]
    /\ \A j, k \in DOMAIN continueCtx : j < k => f[j] < f[k]
    /\ \A i \in DOMAIN nest : Recorded(i) <=> \E j \in DOMAIN continueCtx : f[j] = i
    /\ \A j \in DOMAIN continueCtx :
          continueCtx[j].kind = "Loop" <=> nest[f[j]].kind = "loop"

(* The variable v is declared at d, within every loop that statement i is  *)
(* in.                                                                     *)
DeclaredAt(d, i, v) ==
    /\ d \in DOMAIN code /\ d < nest[i].at
    /\ code[d].op = "declare" /\ code[d].variable = v
    /\ BlocksAt(d) \subseteq Ats(i - 1)
    /\ \A l \in 1..(i - 1) : nest[l].kind = "loop" => nest[l].at \in BlocksAt(d)

(* The entry of a switch has a variable; it is the one of the switch       *)
(* around it, if the entry below is one, and it is declared in the loop.   *)
SwitchInv(f) ==
    \A j \in DOMAIN continueCtx : continueCtx[j].kind = "Switch" =>
        /\ continueCtx[j].variable # 0
        /\ j > 1
        /\ continueCtx[j - 1].kind = "Switch" =>
              continueCtx[j - 1].variable = continueCtx[j].variable
        /\ \E v \in Nat, d \in DOMAIN code :
              v = continueCtx[j].variable /\ DeclaredAt(d, f[j], v)

(* The loops and the block around p, and the innermost of them. *)
WhileAt(p) == {o \in BlocksAt(p) : code[o].op = "while"}
LoopAt(p) == Max(WhileAt(p))
BlockAt(p) == Max(BlocksAt(p))

(* The gap of GLSL: a switch that is written as such inside one that is    *)
(* written as a loop, both in the innermost loop.                          *)
SplitAt(p) ==
    /\ backend = "glsl"
    /\ \E d, s \in BlocksAt(p) :
          LoopAt(p) < d /\ d < s /\ code[d].op = "do" /\ code[s].op = "switch"

(* The tokens that are about a continue, and those written after a switch. *)
Jumps == {"continue", "forward", "if-break", "if-continue"}
Checks == {"if-break", "if-continue"}

(* What is true of the token at p from when it is written. *)
CodeAt(p) ==
        /\ code[p].op = "close" => code[p].of < p
        /\ \A o \in BlocksAt(p) : BlocksAt(o) \subseteq BlocksAt(p)
        /\ code[p].variable # 0 => BlocksAt(p) # {}
        /\ code[p].op \in {"if-break", "if-continue"} =>
              p > 1 /\ code[p].variable # 0
        /\ code[p].op \in Jumps => WhileAt(p) # {}
        /\ code[p].op \in {"continue", "if-continue"} => IterationAt(p) = LoopAt(p)
        /\ code[p].op \in {"continue", "forward"} => code[p].of = LoopAt(p)
        /\ code[p].op = "forward" => ResetEachIteration(p)
CodeInv == \A p \in DOMAIN code : CodeAt(p)

(* The switch whose block is o has an entry for v that has been told of a  *)
(* continue: one that ends here is still to be answered.                   *)
Entered(f, o, v) ==
    \E j \in DOMAIN continueCtx :
        /\ nest[f[j]].at = o /\ continueCtx[j].kind = "Switch"
        /\ continueCtx[j].variable = v /\ continueCtx[j].encountered

(* One check of v follows the block o, in the loops that p is in. *)
Answered(p, o, v) ==
    \E r \in DOMAIN code :
        /\ r > p /\ CheckedAfter(o, v) = {r}
        /\ WhileAt(r) = WhileAt(p) /\ ~SplitAt(r)

(* A jump out of a block is promised a check while the block is open, and  *)
(* has one when the block is closed.                                       *)
JumpAt(f, p) ==
    code[p].op \in {"forward", "if-break"} /\ ~SplitAt(p) =>
        /\ code[BlockAt(p)].op # "while"
        /\ IF BlockAt(p) \in BlocksAt(Here) THEN Entered(f, BlockAt(p), code[p].variable)
           ELSE Answered(p, BlockAt(p), code[p].variable)
JumpInv(f) == \A p \in DOMAIN code : JumpAt(f, p)

(* The inductive invariant. *)
ForwardInv ==
    /\ ForwardType /\ NestInv /\ CodeInv
    /\ \E f \in [DOMAIN continueCtx -> DOMAIN nest] : Places(f) /\ SwitchInv(f) /\ JumpInv(f)

-----------------------------------------------------------------------------
(* Numbers and their sets. *)

Smaller == {p \in Nat \X Nat : p[1] < p[2]}

(* Every nonempty set of numbers has a least one: induction, as the        *)
(* absence of a least counterexample.                                      *)
LEMMA HasLeast ==
  ASSUME NEW S, S \subseteq Nat, S # {}
  PROVE  \E m \in S : \A k \in S : m <= k
<1>1. Smaller = OpToRel(<, Nat)
  BY DEF Smaller, OpToRel
<1>2. IsWellFoundedOn(Smaller, Nat)
  BY <1>1, NatLessThanWellFounded
<1>3. PICK m \in S : \A k \in S : ~(<<k, m>> \in Smaller)
  BY <1>2, WFMin
<1>4. \A k \in S : ~(k < m) /\ k \in Nat /\ m \in Nat
  BY <1>3 DEF Smaller
<1>5. QED
  BY <1>4

(* A bounded one has a greatest. *)
LEMMA HasGreatest ==
  ASSUME NEW S, S \subseteq Nat, S # {}, NEW n \in Nat, \A k \in S : k <= n
  PROVE  \E m \in S : \A k \in S : k <= m
<1>1. DEFINE U == {u \in Nat : \A k \in S : k <= u}
<1>2. PICK m \in U : \A u \in U : m <= u
  BY HasLeast
<1>3. CASE m \in S
  BY <1>2, <1>3
<1>4. CASE m \notin S
  <2>1. \A k \in S : k < m /\ k \in Nat
    BY <1>2, <1>4
  <2>2. m # 0 /\ m \in Nat
    <3>1. PICK k \in S : TRUE
      OBVIOUS
    <3>2. QED
      BY <2>1, <3>1, <1>2
  <2>3. m - 1 \in U
    BY <2>1, <2>2
  <2>4. QED
    BY <2>3, <1>2, <2>2
<1>5. QED
  BY <1>3, <1>4

(* Max of the community modules is that one. *)
LEMMA MaxIs ==
  ASSUME NEW S, NEW n \in Nat, S \subseteq 0..n, S # {}
  PROVE  Max(S) \in S /\ \A k \in S : k <= Max(S)
<1>1. \E m \in S : \A k \in S : m >= k
  <2>1. S \subseteq Nat /\ \A k \in S : k <= n
    OBVIOUS
  <2>2. \E m \in S : \A k \in S : k <= m
    BY <2>1, HasGreatest
  <2>3. QED
    BY <2>1, <2>2
<1>2. Max(S) \in S /\ \A k \in S : Max(S) >= k
  BY <1>1 DEF Max
<1>3. QED
  BY <1>2

(* No other number is. *)
LEMMA MaxOnly ==
  ASSUME NEW S, NEW n \in Nat, S \subseteq 0..n, NEW m \in S, \A k \in S : k <= m
  PROVE  Max(S) = m
<1>1. DEFINE x == Max(S)
<1>2. x \in S /\ \A k \in S : k <= x
  BY MaxIs
<1>3. HIDE DEF x
<1>4. x \in Nat /\ m \in Nat /\ m <= x /\ x <= m
  BY <1>2
<1>5. x = m
  BY <1>4
<1>6. QED
  BY <1>5 DEF x

(* The least of one number. *)
LEMMA MinSingle == \A r \in Nat : Min({r}) = r
  BY DEF Min

(* The blocks open at p were opened before it. *)
LEMMA BlocksIn ==
  \A p \in Nat : BlocksAt(p) \subseteq 1..(p - 1) /\ BlocksAt(p) \subseteq 0..p
<1> SUFFICES ASSUME NEW p \in Nat
             PROVE  BlocksAt(p) \subseteq 1..(p - 1) /\ BlocksAt(p) \subseteq 0..p
  OBVIOUS
<1>1. BlocksAt(p) \subseteq 1..(p - 1)
  BY DEF BlocksAt
<1>2. 1..(p - 1) \subseteq 0..p
  OBVIOUS
<1>3. QED
  BY <1>1, <1>2

-----------------------------------------------------------------------------
(* What is written stays. *)

(* A step writes at the end of the code and leaves the rest. *)
Grows ==
    /\ backend' = backend /\ code \in Seq(Tokens) /\ code' \in Seq(Tokens)
    /\ Len(code) <= Len(code') /\ \A p \in DOMAIN code : code'[p] = code[p]

(* What is open at a place that was written, or is next, depends on what   *)
(* is before it only.                                                      *)
LEMMA BlocksStay ==
  ASSUME Grows, NEW p \in 1..Here
  PROVE  BlocksAt(p)' = BlocksAt(p)
<1>1. /\ p \in Nat /\ Len(code) \in Nat /\ DOMAIN code = 1..Len(code)
      /\ \A o \in 1..(p - 1) : code'[o] = code[o]
  BY DEF Grows, Here
<1>2. \A o \in 1..(p - 1) : \A q \in (o + 1)..(p - 1) : code'[q] = code[q]
  BY <1>1
<1>3. QED
  BY <1>1, <1>2 DEF BlocksAt

(* So do the loops and the innermost block there, *)
LEMMA WhilesStay ==
  ASSUME Grows, NEW p \in 1..Here
  PROVE  /\ WhileAt(p)' = WhileAt(p) /\ LoopAt(p)' = LoopAt(p) /\ BlockAt(p)' = BlockAt(p)
         /\ \A o \in BlocksAt(p) : o \in DOMAIN code /\ code'[o] = code[o]
<1>1. BlocksAt(p)' = BlocksAt(p)
  BY BlocksStay
<1>2. \A o \in BlocksAt(p) : o \in DOMAIN code /\ code'[o] = code[o]
  <2>1. /\ p \in Nat /\ Len(code) \in Nat /\ DOMAIN code = 1..Len(code) /\ p <= Len(code) + 1
        /\ \A o \in DOMAIN code : code'[o] = code[o]
    BY DEF Grows, Here
  <2>2. BlocksAt(p) \subseteq 1..(p - 1)
    BY <2>1, BlocksIn
  <2>3. 1..(p - 1) \subseteq 1..Len(code)
    BY <2>1
  <2>4. QED
    BY <2>1, <2>2, <2>3
<1>3. WhileAt(p)' = WhileAt(p)
  BY <1>1, <1>2 DEF WhileAt
<1>4. QED
  BY <1>1, <1>2, <1>3 DEF LoopAt, BlockAt

(* whether it is in the gap, *)
LEMMA SplitStays ==
  ASSUME Grows, NEW p \in 1..Here
  PROVE  SplitAt(p)' <=> SplitAt(p)
<1>1. /\ BlocksAt(p)' = BlocksAt(p) /\ LoopAt(p)' = LoopAt(p) /\ backend' = backend
      /\ \A o \in BlocksAt(p) : code'[o] = code[o]
  BY BlocksStay, WhilesStay DEF Grows
<1>2. QED
  BY <1>1 DEF SplitAt

(* which iteration a jump there starts, *)
LEMMA IterationStays ==
  ASSUME Grows, NEW p \in 1..Here
  PROVE  IterationAt(p)' = IterationAt(p)
<1>1. /\ BlocksAt(p)' = BlocksAt(p) /\ backend' = backend
      /\ \A o \in BlocksAt(p) : code'[o] = code[o]
  BY BlocksStay, WhilesStay DEF Grows
<1>2. {o \in BlocksAt(p) : code'[o].op # "switch"} = {o \in BlocksAt(p) : code[o].op # "switch"}
  BY <1>1
<1>3. QED
  BY <1>1, <1>2 DEF IterationAt

(* where the variable of a forwarded continue is declared, *)
LEMMA ResetStays ==
  ASSUME Grows, NEW p \in DOMAIN code, code[p].of \in Nat, code[p].of > 0, ResetEachIteration(p)
  PROVE  ResetEachIteration(p)'
<1>1. DOMAIN code = 1..Len(code) /\ Len(code) \in Nat /\ p \in 1..Here /\ code'[p] = code[p]
  BY DEF Grows, Here
<1>2. PICK d \in code[p].of .. p :
          /\ code[d].op = "declare" /\ code[d].variable = code[p].variable
          /\ code[p].of \in BlocksAt(d) /\ BlocksAt(d) \subseteq BlocksAt(p)
  BY DEF ResetEachIteration
<1>3. d \in DOMAIN code /\ d \in 1..Here
  BY <1>1 DEF Here
<1>4. code'[d] = code[d] /\ BlocksAt(d)' = BlocksAt(d) /\ BlocksAt(p)' = BlocksAt(p)
  BY <1>1, <1>3, BlocksStay DEF Grows
<1>5. /\ d \in code'[p].of .. p
      /\ code'[d].op = "declare" /\ code'[d].variable = code'[p].variable
      /\ code'[p].of \in BlocksAt(d)' /\ BlocksAt(d)' \subseteq BlocksAt(p)'
  BY <1>1, <1>2, <1>4
<1>6. \E e \in code'[p].of .. p :
          /\ code'[e].op = "declare" /\ code'[e].variable = code'[p].variable
          /\ code'[p].of \in BlocksAt(e)' /\ BlocksAt(e)' \subseteq BlocksAt(p)'
  BY <1>5
<1>7. QED
  BY <1>6 DEF ResetEachIteration

(* and all that is said of one token. *)
LEMMA CodeStays ==
  ASSUME Grows, NEW p \in DOMAIN code, CodeAt(p)
  PROVE  CodeAt(p)'
<1>1. /\ DOMAIN code = 1..Len(code) /\ Len(code) \in Nat /\ p \in 1..Here /\ p \in Nat
      /\ code'[p] = code[p] /\ code[p].of \in Nat
  <2>1. DOMAIN code = 1..Len(code) /\ Len(code) \in Nat /\ p \in 1..Here /\ p \in Nat
    BY DEF Grows, Here
  <2>2. code'[p] = code[p] /\ code[p] \in Tokens
    BY DEF Grows
  <2>3. QED
    BY <2>1, <2>2 DEF Tokens
<1>2. /\ BlocksAt(p)' = BlocksAt(p) /\ WhileAt(p)' = WhileAt(p) /\ LoopAt(p)' = LoopAt(p)
      /\ IterationAt(p)' = IterationAt(p)
  BY <1>1, BlocksStay, WhilesStay, IterationStays
<1>3. \A o \in BlocksAt(p) : BlocksAt(o)' = BlocksAt(o)
  <2>1. BlocksAt(p) \subseteq 1..(p - 1)
    BY <1>1, BlocksIn
  <2>2. 1..(p - 1) \subseteq 1..Here
    BY <1>1 DEF Here
  <2>3. \A o \in BlocksAt(p) : o \in 1..Here
    BY <2>1, <2>2
  <2>4. QED
    BY <2>3, BlocksStay
<1>4. code[p].op = "forward" => ResetEachIteration(p)'
  <2>1. ASSUME code[p].op = "forward" PROVE ResetEachIteration(p)'
    <3>1. WhileAt(p) # {} /\ code[p].of = LoopAt(p) /\ ResetEachIteration(p)
      BY <2>1 DEF CodeAt, Jumps
    <3>2. WhileAt(p) \subseteq 1..p /\ WhileAt(p) \subseteq 0..p
      <4>1. BlocksAt(p) \subseteq 1..(p - 1)
        BY <1>1, BlocksIn
      <4>2. WhileAt(p) \subseteq BlocksAt(p)
        BY DEF WhileAt
      <4>3. 1..(p - 1) \subseteq 1..p /\ 1..(p - 1) \subseteq 0..p
        BY <1>1
      <4>4. QED
        BY <4>1, <4>2, <4>3
    <3>3. LoopAt(p) \in WhileAt(p)
      BY <1>1, <3>1, <3>2, MaxIs DEF LoopAt
    <3>4. code[p].of > 0
      BY <3>1, <3>2, <3>3
    <3>5. QED
      BY <1>1, <3>1, <3>4, ResetStays
  <2>2. QED
    BY <2>1
<1>5. /\ code[p].op = "close" => code[p].of < p
      /\ \A o \in BlocksAt(p) : BlocksAt(o) \subseteq BlocksAt(p)
      /\ code[p].variable # 0 => BlocksAt(p) # {}
      /\ code[p].op \in {"if-break", "if-continue"} => p > 1 /\ code[p].variable # 0
      /\ code[p].op \in Jumps => WhileAt(p) # {}
      /\ code[p].op \in {"continue", "if-continue"} => IterationAt(p) = LoopAt(p)
      /\ code[p].op \in {"continue", "forward"} => code[p].of = LoopAt(p)
  BY DEF CodeAt
<1>6. \A o \in BlocksAt(p)' : BlocksAt(o)' \subseteq BlocksAt(p)'
  BY <1>2, <1>3, <1>5
<1>7. QED
  BY <1>1, <1>2, <1>4, <1>5, <1>6 DEF CodeAt

(* Only the new tokens need to be looked at. *)
LEMMA CodeGrows ==
  ASSUME Grows, CodeInv, \A p \in Here..Len(code') : CodeAt(p)'
  PROVE  CodeInv'
<1>1. /\ DOMAIN code = 1..Len(code) /\ DOMAIN code' = 1..Len(code')
      /\ Len(code) \in Nat /\ Len(code') \in Nat
  BY DEF Grows
<1>2. ASSUME NEW p \in DOMAIN code' PROVE CodeAt(p)'
  <2>1. CASE p \in DOMAIN code
    BY <2>1, CodeStays DEF CodeInv
  <2>2. CASE p \notin DOMAIN code
    <3>1. p \in Here..Len(code')
      BY <1>1, <2>2 DEF Here
    <3>2. QED
      BY <3>1
  <2>3. QED
    BY <2>1, <2>2
<1>3. QED
  BY <1>2 DEF CodeInv

-----------------------------------------------------------------------------
(* The place that is written next. *)

(* What most of the lemmas need to know of the nesting. *)
Blocked == ForwardType /\ NestInv

(* The domains of the sequences, and the blocks that are open. *)
LEMMA NestIs ==
  ASSUME Blocked
  PROVE  /\ DOMAIN nest = 1..Len(nest) /\ Len(nest) \in Nat
         /\ DOMAIN continueCtx = 1..Len(continueCtx) /\ Len(continueCtx) \in Nat
         /\ DOMAIN code = 1..Len(code) /\ Len(code) \in Nat /\ Here \in Nat
         /\ \A i \in DOMAIN nest : /\ nest[i].at \in DOMAIN code /\ nest[i].at \in Nat
                                   /\ nest[i].kind \in {"loop", "do", "switch"}
                                   /\ code[nest[i].at].op = WordOf(nest[i].kind)
         /\ BlocksAt(Here) = {nest[i].at : i \in DOMAIN nest}
<1>1. /\ DOMAIN nest = 1..Len(nest) /\ Len(nest) \in Nat
      /\ DOMAIN continueCtx = 1..Len(continueCtx) /\ Len(continueCtx) \in Nat
      /\ DOMAIN code = 1..Len(code) /\ Len(code) \in Nat /\ Here \in Nat
  BY DEF Blocked, ForwardType, Here
<1>2. \A i \in DOMAIN nest : nest[i] \in Nested
  BY DEF Blocked, ForwardType
<1>3. \A i \in DOMAIN nest : nest[i].at \in Nat /\ nest[i].kind \in {"loop", "do", "switch"}
  BY <1>2 DEF Nested
<1>4. QED
  BY <1>1, <1>3 DEF Blocked, NestInv, Ats

(* The loops open at the end of the code are the loops being written;      *)
(* SourceLoop, the loop a continue belongs to, is the innermost.           *)
LEMMA WhilesHere ==
  ASSUME Blocked
  PROVE  /\ WhileAt(Here) = {nest[i].at : i \in Loops}
         /\ Loops # {} => /\ Max(Loops) \in Loops /\ \A i \in Loops : i <= Max(Loops)
                          /\ LoopAt(Here) = SourceLoop
<1>1. WhileAt(Here) = {nest[i].at : i \in Loops}
  BY NestIs DEF WhileAt, Loops, WordOf
<1>2. ASSUME Loops # {}
      PROVE  /\ Max(Loops) \in Loops /\ \A i \in Loops : i <= Max(Loops)
             /\ LoopAt(Here) = SourceLoop
  <2>1. Loops \subseteq 0..Len(nest) /\ Len(nest) \in Nat /\ Loops \subseteq DOMAIN nest
    BY NestIs DEF Loops
  <2>2. Max(Loops) \in Loops /\ \A i \in Loops : i <= Max(Loops)
    BY <1>2, <2>1, MaxIs
  <2>3. DEFINE m == Max(Loops)
               W == WhileAt(Here)
               n == Len(code)
  <2>4. W \subseteq 0..n /\ n \in Nat
    BY <1>1, <2>1, NestIs
  <2>5. nest[m].at \in W /\ \A w \in W : w <= nest[m].at
    <3>1. HIDE DEF m
    <3>2. m \in Loops /\ \A i \in Loops : i <= m
      BY <2>2 DEF m
    <3>3. \A i \in Loops : nest[i].at <= nest[m].at
      <4>1. ASSUME NEW i \in Loops PROVE nest[i].at <= nest[m].at
        <5>1. i <= m /\ i \in DOMAIN nest /\ m \in DOMAIN nest /\ i \in Nat /\ m \in Nat
          BY <2>1, <3>2
        <5>2. CASE i = m
          BY <5>1, <5>2, NestIs
        <5>3. CASE i < m
          <6>1. nest[i].at < nest[m].at
            BY <5>1, <5>3 DEF Blocked, NestInv
          <6>2. QED
            BY <5>1, <6>1, NestIs
        <5>4. QED
          BY <5>1, <5>2, <5>3
      <4>2. QED
        BY <4>1
    <3>4. QED
      BY <1>1, <3>2, <3>3
  <2>6. HIDE DEF m, W, n
  <2>7. Max(W) = nest[m].at
    BY <2>4, <2>5, MaxOnly
  <2>8. QED
    BY <2>2, <2>7 DEF LoopAt, SourceLoop, m, W
<1>3. QED
  BY <1>1, <1>2

(* Whatever is nested within the innermost recorded statement is a switch that
   GLSL has no entry for. *)
LEMMA Innermosts ==
  ASSUME Blocked, NEW f, Places(f), continueCtx # <<>>
  PROVE  LET m == f[Len(continueCtx)]
         IN  /\ m \in DOMAIN nest
             /\ nest[m].kind = "loop" <=> Innermost(continueCtx).kind = "Loop"
             /\ nest[m].kind # "loop" => Tracked(nest[m].kind) /\ \E l \in 1..(m - 1) : nest[l].kind = "loop"
             /\ \A i \in DOMAIN nest : i > m => nest[i].kind = "switch" /\ backend = "glsl"
             /\ Loops # {} /\ \A l \in Loops : l <= m
<1>1. DEFINE n == Len(continueCtx)
             m == f[n]
<1>2. n \in DOMAIN continueCtx /\ n \in Nat /\ \A j \in DOMAIN continueCtx : j \in Nat /\ j <= n
  BY NestIs
<1>3. m \in DOMAIN nest /\ m \in Nat /\ DOMAIN nest = 1..Len(nest)
  BY <1>2, NestIs DEF Places
<1>4. HIDE DEF n
<1>5. nest[m].kind = "loop" <=> Innermost(continueCtx).kind = "Loop"
  BY <1>2 DEF Places, Innermost, n
<1>6. Recorded(m)
  BY <1>2, <1>3 DEF Places
<1>7. ASSUME NEW i \in DOMAIN nest, i > m PROVE ~Recorded(i)
  <2>1. SUFFICES ASSUME Recorded(i) PROVE FALSE
    OBVIOUS
  <2>2. PICK j \in DOMAIN continueCtx : f[j] = i
    BY <2>1 DEF Places
  <2>3. j # n /\ j < n
    BY <1>2, <1>3, <1>7, <2>2, NestIs
  <2>4. f[j] < f[n]
    BY <1>2, <2>3 DEF Places
  <2>5. QED
    BY <1>3, <1>7, <2>2, <2>4, NestIs
<1>8. \E l \in 1..m : nest[l].kind = "loop"
  <2>1. CASE nest[m].kind = "loop"
    BY <1>3, <2>1
  <2>2. CASE nest[m].kind # "loop"
    <3>1. PICK l \in 1..(m - 1) : nest[l].kind = "loop"
      BY <1>6, <2>2 DEF Recorded
    <3>2. l \in 1..m
      BY <1>3
    <3>3. QED
      BY <3>1, <3>2
  <2>3. QED
    BY <2>1, <2>2
<1>9. PICK l \in 1..m : nest[l].kind = "loop"
  BY <1>8
<1>10. ASSUME NEW i \in DOMAIN nest, i > m PROVE nest[i].kind = "switch" /\ backend = "glsl"
  <2>1. ~Recorded(i)
    BY <1>7, <1>10
  <2>2. nest[i].kind # "loop" /\ ~Tracked(nest[i].kind)
    <3>1. l \in 1..(i - 1)
      BY <1>3, <1>10
    <3>2. QED
      BY <2>1, <1>9, <3>1 DEF Recorded
  <2>3. nest[i].kind \in {"loop", "do", "switch"} /\ backend \in {"hlsl", "glsl"}
    BY NestIs DEF Blocked, ForwardType
  <2>4. QED
    BY <2>2, <2>3 DEF Tracked
<1>11. \A k \in Loops : k <= m
  <2>1. ASSUME NEW k \in Loops, k > m PROVE FALSE
    <3>1. k \in DOMAIN nest /\ nest[k].kind = "loop"
      BY DEF Loops
    <3>2. QED
      BY <2>1, <3>1, <1>10
  <2>2. \A k \in Loops : k \in Nat
    BY <1>3 DEF Loops
  <2>3. QED
    BY <1>3, <2>1, <2>2
<1>12. l \in Loops
  BY <1>3, <1>9 DEF Loops
<1>13. nest[m].kind # "loop" =>
          Tracked(nest[m].kind) /\ \E k \in 1..(m - 1) : nest[k].kind = "loop"
  BY <1>6 DEF Recorded
<1>14. QED
  BY <1>3, <1>5, <1>10, <1>11, <1>12, <1>13 DEF n

(* With a loop for the innermost entry, a continue written as such starts  *)
(* that loop's next iteration: no do-while captures it, and in HLSL no     *)
(* switch is around it.                                                    *)
LEMMA TopLoop ==
  \A e : Blocked /\ Places(e) /\ continueCtx # <<>> /\ ~OnSwitch(continueCtx)
           => WhileAt(Here) # {} /\ IterationAt(Here) = LoopAt(Here)
<1> SUFFICES ASSUME NEW f, Blocked, Places(f), continueCtx # <<>>, ~OnSwitch(continueCtx)
             PROVE  WhileAt(Here) # {} /\ IterationAt(Here) = LoopAt(Here)
  OBVIOUS
<1>1. DEFINE m == f[Len(continueCtx)]
             B == BlocksAt(Here)
             L == {o \in B : code[o].op # "switch"}
<1>2. Innermost(continueCtx).kind = "Loop"
  <2>1. /\ Len(continueCtx) \in DOMAIN continueCtx
        /\ continueCtx[Len(continueCtx)] \in Contexts
    BY NestIs DEF Blocked, ForwardType
  <2>2. QED
    BY <2>1 DEF OnSwitch, Innermost, Contexts
<1>3. /\ m \in DOMAIN nest /\ nest[m].kind = "loop"
      /\ \A i \in DOMAIN nest : i > m => nest[i].kind = "switch" /\ backend = "glsl"
      /\ Loops # {} /\ \A l \in Loops : l <= m
  BY <1>2, Innermosts
<1>4. DOMAIN nest = 1..Len(nest) /\ Len(nest) \in Nat /\ m \in Nat
  BY <1>3, NestIs
<1>5. HIDE DEF m
<1>6. m \in Loops
  BY <1>3 DEF Loops
<1>7. Max(Loops) = m
  <2>1. Loops \subseteq 0..Len(nest) /\ Len(nest) \in Nat
    BY <1>4 DEF Loops
  <2>2. QED
    BY <1>3, <1>6, <2>1, MaxOnly
<1>8. LoopAt(Here) = nest[m].at
  BY <1>3, <1>7, WhilesHere DEF SourceLoop
<1>9. B = {nest[i].at : i \in DOMAIN nest} /\ B \subseteq 0..Len(code) /\ Len(code) \in Nat
  BY NestIs
<1>10. nest[m].at \in L
  BY <1>3, <1>9, NestIs DEF WordOf
<1>11. \A o \in L : o <= nest[m].at
  <2>1. ASSUME NEW o \in L PROVE o <= nest[m].at
    <3>1. PICK i \in DOMAIN nest : o = nest[i].at
      BY <1>9
    <3>2. nest[i].kind # "switch"
      BY <3>1, NestIs DEF WordOf
    <3>3. i <= m /\ i \in Nat
      BY <1>3, <1>4, <3>2
    <3>4. CASE i = m
      BY <3>1, <3>4, <1>3, NestIs
    <3>5. CASE i < m
      BY <3>1, <3>5, <1>3, NestIs DEF Blocked, NestInv
    <3>6. QED
      BY <1>4, <3>3, <3>4, <3>5
  <2>2. QED
    BY <2>1
<1>12. L \subseteq 0..Len(code)
  BY <1>9
<1>13. HIDE DEF L
<1>14. Max(L) = nest[m].at
  BY <1>9, <1>10, <1>11, <1>12, MaxOnly
<1>15. backend = "hlsl" => nest[m].at = Max(B)
  <2>1. ASSUME backend = "hlsl" PROVE nest[m].at = Max(B)
    <3>1. \A i \in DOMAIN nest : i <= m
      BY <1>3, <1>4, <2>1
    <3>2. nest[m].at \in B /\ \A o \in B : o <= nest[m].at
      <4>1. ASSUME NEW o \in B PROVE o <= nest[m].at
        <5>1. PICK i \in DOMAIN nest : o = nest[i].at
          BY <1>9
        <5>2. CASE i = m
          BY <5>1, <5>2, <1>3, NestIs
        <5>3. CASE i # m
          <6>1. i < m
            BY <1>4, <3>1, <5>3
          <6>2. QED
            BY <5>1, <6>1, <1>3, NestIs DEF Blocked, NestInv
        <5>4. QED
          BY <5>2, <5>3
      <4>2. QED
        BY <4>1, <1>3, <1>9
    <3>3. HIDE DEF B
    <3>4. QED
      BY <1>9, <3>2, MaxOnly
  <2>2. QED
    BY <2>1
<1>16. IterationAt(Here) = nest[m].at
  BY <1>10, <1>14, <1>15 DEF IterationAt, L, B
<1>17. WhileAt(Here) # {}
  BY <1>6, WhilesHere
<1>18. QED
  BY <1>8, <1>16, <1>17

(* Where a forwarded continue is, unless in the gap. *)
LEMMA TopSwitch ==
  \A e : Blocked /\ Places(e) /\ OnSwitch(continueCtx)
           => /\ WhileAt(Here) # {}
              /\ ~SplitAt(Here) => e[Len(continueCtx)] = Len(nest)
<1> SUFFICES ASSUME NEW f, Blocked, Places(f), OnSwitch(continueCtx)
             PROVE  /\ WhileAt(Here) # {}
                    /\ ~SplitAt(Here) => f[Len(continueCtx)] = Len(nest)
  OBVIOUS
<1>1. DEFINE m == f[Len(continueCtx)]
             t == Len(nest)
             l == Max(Loops)
<1>2. continueCtx # <<>> /\ Innermost(continueCtx).kind = "Switch"
  BY DEF OnSwitch
<1>3. /\ m \in DOMAIN nest /\ nest[m].kind # "loop" /\ Tracked(nest[m].kind)
      /\ \A i \in DOMAIN nest : i > m => nest[i].kind = "switch" /\ backend = "glsl"
      /\ Loops # {} /\ \A k \in Loops : k <= m
  BY <1>2, Innermosts
<1>4. DOMAIN nest = 1..t /\ t \in Nat /\ m \in Nat /\ m <= t
  BY <1>3, NestIs
<1>5. l \in Loops /\ LoopAt(Here) = nest[l].at /\ WhileAt(Here) # {}
  BY <1>3, WhilesHere DEF SourceLoop
<1>6. ASSUME m # t PROVE SplitAt(Here)
  <2>1. t \in DOMAIN nest /\ t > m
    BY <1>4, <1>6
  <2>2. nest[t].kind = "switch" /\ backend = "glsl"
    BY <1>3, <2>1
  <2>3. nest[m].kind = "do"
    BY <1>3, <2>2, NestIs DEF Tracked
  <2>4. l \in DOMAIN nest /\ nest[l].kind = "loop" /\ l <= m /\ l # m /\ l \in Nat
    BY <1>3, <1>4, <1>5 DEF Loops
  <2>5. l < m /\ m < t
    BY <1>4, <2>1, <2>4
  <2>6. HIDE DEF l, m, t
  <2>7. nest[l].at < nest[m].at /\ nest[m].at < nest[t].at
    BY <1>3, <2>1, <2>4, <2>5 DEF Blocked, NestInv
  <2>8. /\ nest[m].at \in BlocksAt(Here) /\ nest[t].at \in BlocksAt(Here)
        /\ code[nest[m].at].op = "do" /\ code[nest[t].at].op = "switch"
    BY <1>3, <2>1, <2>2, <2>3, NestIs DEF WordOf
  <2>9. QED
    BY <1>5, <2>2, <2>7, <2>8 DEF SplitAt
<1>7. QED
  BY <1>5, <1>6

(* The variable of the innermost switch is declared in the loop and where  *)
(* the jump still is.                                                      *)
LEMMA ResetHere ==
  ASSUME Blocked, NEW f, Places(f), SwitchInv(f), OnSwitch(continueCtx)
  PROVE  \E d \in LoopAt(Here)..Here :
            /\ d \in DOMAIN code
            /\ code[d].op = "declare" /\ code[d].variable = Innermost(continueCtx).variable
            /\ LoopAt(Here) \in BlocksAt(d) /\ BlocksAt(d) \subseteq BlocksAt(Here)
<1>1. DEFINE n == Len(continueCtx)
             m == f[n]
             l == Max(Loops)
             v == Innermost(continueCtx).variable
<1>2. continueCtx # <<>> /\ Innermost(continueCtx).kind = "Switch"
  BY DEF OnSwitch
<1>3. m \in DOMAIN nest /\ nest[m].kind # "loop" /\ Loops # {} /\ \A k \in Loops : k <= m
  BY <1>2, Innermosts
<1>4. l \in Loops /\ LoopAt(Here) = nest[l].at
  BY <1>3, WhilesHere DEF SourceLoop
<1>5. n \in DOMAIN continueCtx /\ continueCtx[n].kind = "Switch" /\ continueCtx[n].variable = v
  BY <1>2, NestIs DEF Innermost
<1>6. PICK d \in DOMAIN code : DeclaredAt(d, m, v)
  <2>1. HIDE DEF n, v
  <2>2. PICK w \in Nat, d \in DOMAIN code : w = continueCtx[n].variable /\ DeclaredAt(d, f[n], w)
    BY <1>5 DEF SwitchInv
  <2>3. w = v
    BY <1>5, <2>2
  <2>4. QED
    BY <2>2, <2>3
<1>7. l \in DOMAIN nest /\ nest[l].kind = "loop" /\ l \in 1..(m - 1) /\ m - 1 \in 0..Len(nest)
  BY <1>3, <1>4, NestIs DEF Loops
<1>8. HIDE DEF l, m, v, n
<1>9. nest[l].at \in BlocksAt(d) /\ BlocksAt(d) \subseteq Ats(m - 1)
      /\ code[d].op = "declare" /\ code[d].variable = v
  BY <1>6, <1>7 DEF DeclaredAt
<1>10. Ats(m - 1) \subseteq BlocksAt(Here)
  <2>1. 1..(m - 1) \subseteq DOMAIN nest
    BY <1>7, NestIs
  <2>2. QED
    BY <2>1, NestIs DEF Ats
<1>11. d \in LoopAt(Here)..Here
  <2>1. d \in Nat /\ d <= Len(code) /\ BlocksAt(d) \subseteq 1..(d - 1)
    BY NestIs, BlocksIn
  <2>2. nest[l].at \in 1..(d - 1)
    BY <1>9, <2>1
  <2>3. QED
    BY <1>4, <2>1, <2>2, NestIs DEF Here
<1>12. QED
  BY <1>4, <1>9, <1>10, <1>11 DEF v

-----------------------------------------------------------------------------
(* The entries. *)

(* Whether a statement has an entry depends on the statements around it    *)
(* only.                                                                   *)
LEMMA RecordedStays ==
  ASSUME backend' = backend, NEW i \in Nat, i > 0, \A k \in 1..i : nest'[k] = nest[k]
  PROVE  Recorded(i)' <=> Recorded(i)
<1>1. nest'[i] = nest[i] /\ \A l \in 1..(i - 1) : nest'[l] = nest[l]
  OBVIOUS
<1>2. (\E l \in 1..(i - 1) : nest'[l].kind = "loop") <=> (\E l \in 1..(i - 1) : nest[l].kind = "loop")
  BY <1>1
<1>3. QED
  BY <1>1, <1>2 DEF Recorded, Tracked

(* So does where its variable is declared. *)
LEMMA DeclaredStays ==
  ASSUME Grows, NEW d \in DOMAIN code, NEW i \in Nat, i > 0, NEW v,
         \A k \in 1..i : nest'[k] = nest[k], DeclaredAt(d, i, v)
  PROVE  DeclaredAt(d, i, v)'
<1>1. nest'[i] = nest[i] /\ \A l \in 1..(i - 1) : nest'[l] = nest[l]
  OBVIOUS
<1>2. Ats(i - 1)' = Ats(i - 1)
  BY <1>1 DEF Ats
<1>3. d \in 1..Here /\ d \in DOMAIN code' /\ code'[d] = code[d]
  BY DEF Grows, Here
<1>4. BlocksAt(d)' = BlocksAt(d)
  BY <1>3, BlocksStay
<1>5. QED
  BY <1>1, <1>2, <1>3, <1>4 DEF DeclaredAt

(* f says where the entries are, and what they mean. *)
Entries(f) == Places(f) /\ SwitchInv(f)
Pushed(x) == nest' = Append(nest, x)

(* A statement is entered. *)
LEMMA PushIs ==
  ASSUME Blocked, NEW x \in Nested, Pushed(x)
  PROVE  /\ nest' \in Seq(Nested) /\ Len(nest') = Len(nest) + 1
         /\ DOMAIN nest' = 1..(Len(nest) + 1) /\ nest'[Len(nest) + 1] = x
         /\ \A i \in DOMAIN nest : nest'[i] = nest[i] /\ i \in DOMAIN nest' /\ i \in Nat /\ i > 0
                                   /\ \A k \in 1..i : nest'[k] = nest[k]
<1>1. nest \in Seq(Nested)
  BY DEF Blocked, ForwardType
<1>2. /\ nest' \in Seq(Nested) /\ Len(nest') = Len(nest) + 1
      /\ DOMAIN nest' = 1..(Len(nest) + 1) /\ nest'[Len(nest) + 1] = x
      /\ DOMAIN nest = 1..Len(nest) /\ Len(nest) \in Nat
      /\ \A i \in 1..Len(nest) : nest'[i] = nest[i]
  BY <1>1 DEF Pushed
<1>3. QED
  BY <1>2

(* A statement without an entry. *)
LEMMA BarePush ==
  ASSUME Blocked, Grows, NEW f, Entries(f), NEW x \in Nested, Pushed(x),
         continueCtx' = continueCtx, x.kind # "loop",
         ~Tracked(x.kind) \/ continueCtx = <<>>
  PROVE  Entries(f)'
<1>1. backend' = backend
  BY DEF Grows
<1>2. \A i \in DOMAIN nest : Recorded(i)' <=> Recorded(i)
  BY <1>1, PushIs, RecordedStays
<1>3. PICK t \in Nat : t = Len(nest) + 1
  BY NestIs
<1>4. t \in Nat /\ DOMAIN nest = 1..(t - 1) /\ DOMAIN nest' = 1..t /\ nest'[t] = x
      /\ \A i \in DOMAIN nest : nest'[i] = nest[i]
  BY <1>3, PushIs, NestIs
<1>5. f \in [DOMAIN continueCtx -> DOMAIN nest]
  BY DEF Entries, Places
<1>6. ~Recorded(t)'
  <2>1. CASE ~Tracked(x.kind)
    BY <1>1, <1>4, <2>1 DEF Recorded, Tracked
  <2>2. CASE continueCtx = <<>>
    <3>1. DOMAIN continueCtx = {}
      BY <2>2
    <3>2. \A i \in DOMAIN nest : ~Recorded(i)
      BY <3>1 DEF Entries, Places
    <3>3. \A i \in 1..(t - 1) : nest'[i].kind # "loop"
      BY <1>4, <3>2 DEF Recorded
    <3>4. QED
      BY <1>4, <3>3 DEF Recorded
  <2>3. QED
    BY <2>1, <2>2
<1>8. Places(f)'
  <2>1. f \in [DOMAIN continueCtx -> DOMAIN nest']
    BY <1>4, <1>5
  <2>2. \A i \in DOMAIN nest' : Recorded(i)' <=> \E j \in DOMAIN continueCtx : f[j] = i
    <3>1. ASSUME NEW i \in DOMAIN nest'
          PROVE  Recorded(i)' <=> \E j \in DOMAIN continueCtx : f[j] = i
      <4>1. CASE i \in DOMAIN nest
        BY <1>2, <4>1 DEF Entries, Places
      <4>2. CASE i \notin DOMAIN nest
        <5>1. i = t
          BY <1>4, <4>2
        <5>2. \A j \in DOMAIN continueCtx : f[j] # i
          BY <1>5, <4>2
        <5>3. QED
          BY <1>6, <5>1, <5>2
      <4>3. QED
        BY <4>1, <4>2
    <3>2. QED
      BY <3>1
  <2>3. \A j \in DOMAIN continueCtx : nest'[f[j]] = nest[f[j]]
    BY <1>4, <1>5
  <2>4. QED
    BY <2>1, <2>2, <2>3 DEF Entries, Places
<1>9. SwitchInv(f)'
  <2>1. ASSUME NEW j \in DOMAIN continueCtx, continueCtx[j].kind = "Switch"
        PROVE  \E v \in Nat, d \in DOMAIN code' :
                  v = continueCtx'[j].variable /\ DeclaredAt(d, f[j], v)'
    <3>1. PICK v \in Nat, d \in DOMAIN code :
             v = continueCtx[j].variable /\ DeclaredAt(d, f[j], v)
      BY <2>1 DEF Entries, SwitchInv
    <3>2. f[j] \in DOMAIN nest
      BY <1>5
    <3>3. f[j] \in Nat /\ f[j] > 0 /\ \A k \in 1..f[j] : nest'[k] = nest[k]
      BY <3>2, PushIs
    <3>4. DeclaredAt(d, f[j], v)'
      BY <3>1, <3>3, DeclaredStays
    <3>5. d \in DOMAIN code'
      BY DEF Grows
    <3>6. QED
      BY <3>1, <3>4, <3>5
  <2>2. QED
    BY <2>1 DEF Entries, SwitchInv
<1>10. QED
  BY <1>8, <1>9 DEF Entries

(* A statement with an entry. *)
LEMMA EntryPush ==
  ASSUME Blocked, Grows, NEW f, Entries(f), NEW x \in Nested, Pushed(x),
         NEW c \in Contexts, continueCtx' = Append(continueCtx, c),
         c.kind = "Loop" <=> x.kind = "loop",
         x.kind = "loop" \/ (Tracked(x.kind) /\ continueCtx # <<>>),
         NEW t \in Nat, t = Len(nest) + 1,
         c.kind = "Switch" =>
            /\ c.variable # 0 /\ continueCtx # <<>>
            /\ OnSwitch(continueCtx) => Innermost(continueCtx).variable = c.variable
            /\ \E d \in DOMAIN code' : DeclaredAt(d, t, c.variable)'
  PROVE  \E g : Entries(g)' /\ \A j \in DOMAIN continueCtx : g[j] = f[j]
<1>1. backend' = backend
  BY DEF Grows
<1>2. \A i \in DOMAIN nest : Recorded(i)' <=> Recorded(i)
  BY <1>1, PushIs, RecordedStays
<1>3. PICK n \in Nat : n = Len(continueCtx)
  BY NestIs
<1>4. t \in Nat /\ DOMAIN nest = 1..(t - 1) /\ DOMAIN nest' = 1..t /\ nest'[t] = x /\ t > 0
      /\ \A i \in DOMAIN nest : nest'[i] = nest[i]
  BY PushIs, NestIs
<1>5. f \in [DOMAIN continueCtx -> DOMAIN nest]
  BY DEF Entries, Places
<1>6. /\ DOMAIN continueCtx = 1..n /\ DOMAIN continueCtx' = 1..(n + 1)
      /\ continueCtx'[n + 1] = c
      /\ \A j \in 1..n : continueCtx'[j] = continueCtx[j]
  <2>1. continueCtx \in Seq(Contexts)
    BY DEF Blocked, ForwardType
  <2>2. QED
    BY <1>3, <2>1
<1>7. Recorded(t)'
  <2>1. CASE x.kind = "loop"
    BY <1>4, <2>1 DEF Recorded
  <2>2. CASE Tracked(x.kind) /\ continueCtx # <<>>
    <3>1. Loops # {}
      BY <2>2, Innermosts DEF Entries
    <3>2. PICK l \in DOMAIN nest : nest[l].kind = "loop"
      BY <3>1 DEF Loops
    <3>3. l \in 1..(t - 1) /\ nest'[l].kind = "loop"
      BY <1>4, <3>2
    <3>4. backend' = "hlsl" \/ nest'[t].kind = "do"
      BY <1>1, <1>4, <2>2 DEF Tracked
    <3>5. QED
      BY <3>3, <3>4 DEF Recorded, Tracked
  <2>3. QED
    BY <2>1, <2>2
<1>8. DEFINE g == [j \in 1..(n + 1) |-> IF j <= n THEN f[j] ELSE t]
<1>9. /\ g \in [1..(n + 1) -> 1..t] /\ g[n + 1] = t
      /\ \A j \in 1..n : g[j] = f[j] /\ g[j] \in 1..(t - 1) /\ f[j] \in Nat /\ f[j] < t
  <2>1. \A j \in 1..n : f[j] \in 1..(t - 1)
    BY <1>4, <1>5, <1>6
  <2>2. QED
    BY <1>4, <2>1
<1>10. HIDE DEF g
<1>11. Places(g)'
  <2>1. g \in [DOMAIN continueCtx' -> DOMAIN nest']
    BY <1>4, <1>6, <1>9
  <2>2. ASSUME NEW j \in DOMAIN continueCtx', NEW k \in DOMAIN continueCtx', j < k
        PROVE  g[j] < g[k]
    <3>1. j \in 1..n /\ k \in 1..(n + 1)
      BY <1>6, <2>2
    <3>2. CASE k \in 1..n
      <4>1. f[j] < f[k]
        BY <1>6, <2>2, <3>1, <3>2 DEF Entries, Places
      <4>2. QED
        BY <1>9, <3>1, <3>2, <4>1
    <3>3. CASE k = n + 1
      BY <1>9, <3>1, <3>3
    <3>4. QED
      BY <3>1, <3>2, <3>3
  <2>3. ASSUME NEW i \in DOMAIN nest'
        PROVE  Recorded(i)' <=> \E j \in DOMAIN continueCtx' : g[j] = i
    <3>1. CASE i \in DOMAIN nest
      <4>1. Recorded(i) <=> \E j \in 1..n : f[j] = i
        BY <1>6, <3>1 DEF Entries, Places
      <4>2. g[n + 1] # i
        BY <1>4, <1>9, <3>1
      <4>3. (\E j \in 1..(n + 1) : g[j] = i) <=> (\E j \in 1..n : f[j] = i)
        BY <1>9, <4>2
      <4>4. QED
        BY <1>2, <1>6, <3>1, <4>1, <4>3
    <3>2. CASE i \notin DOMAIN nest
      <4>1. i = t
        BY <1>4, <3>2
      <4>2. QED
        BY <1>6, <1>7, <1>9, <4>1
    <3>3. QED
      BY <3>1, <3>2
  <2>4. ASSUME NEW j \in DOMAIN continueCtx'
        PROVE  continueCtx'[j].kind = "Loop" <=> nest'[g[j]].kind = "loop"
    <3>1. CASE j \in 1..n
      <4>1. continueCtx[j].kind = "Loop" <=> nest[f[j]].kind = "loop"
        BY <1>6, <3>1 DEF Entries, Places
      <4>2. continueCtx'[j] = continueCtx[j] /\ nest'[g[j]] = nest[f[j]]
        BY <1>4, <1>6, <1>9, <3>1
      <4>3. QED
        BY <4>1, <4>2
    <3>2. CASE j = n + 1
      BY <1>4, <1>6, <1>9, <3>2
    <3>3. QED
      BY <1>6, <3>1, <3>2
  <2>5. QED
    BY <2>1, <2>2, <2>3, <2>4 DEF Places
<1>12. SwitchInv(g)'
  <2>1. ASSUME NEW j \in DOMAIN continueCtx', continueCtx'[j].kind = "Switch"
        PROVE  /\ continueCtx'[j].variable # 0
               /\ j > 1
               /\ continueCtx'[j - 1].kind = "Switch" =>
                     continueCtx'[j - 1].variable = continueCtx'[j].variable
               /\ \E v \in Nat, d \in DOMAIN code' :
                     v = continueCtx'[j].variable /\ DeclaredAt(d, g[j], v)'
    <3>1. CASE j \in 1..n
      <4>1. /\ continueCtx'[j] = continueCtx[j] /\ g[j] = f[j] /\ j \in DOMAIN continueCtx
            /\ f[j] \in DOMAIN nest
        BY <1>4, <1>6, <1>9, <3>1
      <4>2. /\ continueCtx[j].variable # 0 /\ j > 1
            /\ continueCtx[j - 1].kind = "Switch" =>
                  continueCtx[j - 1].variable = continueCtx[j].variable
        BY <2>1, <4>1 DEF Entries, SwitchInv
      <4>3. continueCtx'[j - 1] = continueCtx[j - 1]
        BY <1>6, <3>1, <4>2
      <4>5. PICK v \in Nat, d \in DOMAIN code :
               v = continueCtx[j].variable /\ DeclaredAt(d, f[j], v)
        BY <2>1, <4>1 DEF Entries, SwitchInv
      <4>6. f[j] \in Nat /\ f[j] > 0 /\ \A k \in 1..f[j] : nest'[k] = nest[k]
        BY <4>1, PushIs
      <4>7. DeclaredAt(d, f[j], v)'
        BY <4>5, <4>6, DeclaredStays
      <4>8. d \in DOMAIN code'
        BY DEF Grows
      <4>9. \E w \in Nat, e \in DOMAIN code' :
               w = continueCtx'[j].variable /\ DeclaredAt(e, g[j], w)'
        BY <4>1, <4>5, <4>7, <4>8
      <4>10. QED
        BY <4>1, <4>2, <4>3, <4>9
    <3>2. CASE j = n + 1
      <4>1. continueCtx'[j] = c /\ g[j] = t
        BY <1>6, <1>9, <3>2
      <4>2. /\ c.variable # 0 /\ continueCtx # <<>>
            /\ OnSwitch(continueCtx) => Innermost(continueCtx).variable = c.variable
            /\ \E d \in DOMAIN code' : DeclaredAt(d, t, c.variable)'
        BY <2>1, <4>1
      <4>3. n > 0
        BY <1>3, <4>2, NestIs DEF Blocked, ForwardType
      <4>4. j - 1 = n /\ n \in 1..n
        BY <3>2, <4>3
      <4>5. continueCtx'[j - 1] = Innermost(continueCtx)
        BY <1>3, <1>6, <4>4 DEF Innermost
      <4>6. j > 1
        BY <3>2, <4>3
      <4>7. c.variable \in Nat
        BY DEF Contexts
      <4>8. QED
        BY <4>1, <4>2, <4>5, <4>6, <4>7 DEF OnSwitch
    <3>3. QED
      BY <1>6, <3>1, <3>2
  <2>2. QED
    BY <2>1 DEF SwitchInv
<1>13. QED
  BY <1>6, <1>9, <1>11, <1>12 DEF Entries

(* The contexts that are left are as they were, but for what they encountered. *)
Alike ==
    /\ continueCtx' \in Seq(Contexts)
    /\ \A j \in DOMAIN continueCtx' :
          /\ j \in DOMAIN continueCtx
          /\ continueCtx'[j].kind = continueCtx[j].kind
          /\ continueCtx'[j].variable = continueCtx[j].variable

(* The entries of the statements that are left are where they were. *)
LEMMA EntriesLeft ==
  ASSUME Blocked, Grows, NEW f, Entries(f), Alike, nest' \in Seq(Nested),
         \A i \in DOMAIN nest' : i \in DOMAIN nest /\ nest'[i] = nest[i],
         \A j \in DOMAIN continueCtx : f[j] \in DOMAIN nest' <=> j \in DOMAIN continueCtx'
  PROVE  \E g : Entries(g)' /\ \A j \in DOMAIN continueCtx' : g[j] = f[j]
<1>1. backend' = backend
  BY DEF Grows
<1>2. PICK n \in Nat : DOMAIN continueCtx' = 1..n
  BY DEF Alike
<1>3. PICK t \in Nat : DOMAIN nest' = 1..t
  OBVIOUS
<1>4. /\ \A j \in 1..n : j \in DOMAIN continueCtx
      /\ \A i \in 1..t : i \in DOMAIN nest /\ nest'[i] = nest[i]
  BY <1>2, <1>3 DEF Alike
<1>5. \A i \in 1..t : Recorded(i)' <=> Recorded(i)
  <2>1. ASSUME NEW i \in 1..t PROVE Recorded(i)' <=> Recorded(i)
    <3>1. i \in Nat /\ i > 0 /\ \A k \in 1..i : nest'[k] = nest[k]
      BY <1>4
    <3>2. QED
      BY <1>1, <3>1, RecordedStays
  <2>2. QED
    BY <2>1
<1>6. DEFINE g == [j \in 1..n |-> f[j]]
<1>7. f \in [DOMAIN continueCtx -> DOMAIN nest]
  BY DEF Entries, Places
<1>8. \A j \in 1..n : g[j] = f[j] /\ f[j] \in 1..t /\ f[j] \in Nat
  BY <1>2, <1>3, <1>4
<1>9. g \in [1..n -> 1..t]
  BY <1>8
<1>10. HIDE DEF g
<1>11. Places(g)'
  <2>1. g \in [DOMAIN continueCtx' -> DOMAIN nest']
    BY <1>2, <1>3, <1>9
  <2>2. \A j, k \in DOMAIN continueCtx' : j < k => g[j] < g[k]
    <3>1. \A j, k \in 1..n : j < k => f[j] < f[k]
      BY <1>4 DEF Entries, Places
    <3>2. QED
      BY <1>2, <1>8, <3>1
  <2>3. ASSUME NEW i \in DOMAIN nest'
        PROVE  Recorded(i)' <=> \E j \in DOMAIN continueCtx' : g[j] = i
    <3>1. i \in 1..t
      BY <1>3
    <3>2. Recorded(i) <=> \E j \in DOMAIN continueCtx : f[j] = i
      BY <1>4, <3>1 DEF Entries, Places
    <3>3. (\E j \in DOMAIN continueCtx : f[j] = i) <=> (\E j \in 1..n : g[j] = i)
      BY <1>2, <1>4, <1>8
    <3>4. QED
      BY <1>2, <1>5, <3>1, <3>2, <3>3
  <2>4. ASSUME NEW j \in DOMAIN continueCtx'
        PROVE  continueCtx'[j].kind = "Loop" <=> nest'[g[j]].kind = "loop"
    <3>1. j \in DOMAIN continueCtx /\ continueCtx'[j].kind = continueCtx[j].kind
      BY DEF Alike
    <3>2. nest'[g[j]] = nest[f[j]]
      BY <1>2, <1>4, <1>8
    <3>3. continueCtx[j].kind = "Loop" <=> nest[f[j]].kind = "loop"
      BY <3>1 DEF Entries, Places
    <3>4. QED
      BY <3>1, <3>2, <3>3
  <2>5. QED
    BY <2>1, <2>2, <2>3, <2>4 DEF Places
<1>12. SwitchInv(g)'
  <2>1. ASSUME NEW j \in DOMAIN continueCtx', continueCtx'[j].kind = "Switch"
        PROVE  /\ continueCtx'[j].variable # 0
               /\ j > 1
               /\ continueCtx'[j - 1].kind = "Switch" =>
                     continueCtx'[j - 1].variable = continueCtx'[j].variable
               /\ \E v \in Nat, d \in DOMAIN code' :
                     v = continueCtx'[j].variable /\ DeclaredAt(d, g[j], v)'
    <3>1. /\ j \in DOMAIN continueCtx /\ j \in 1..n /\ g[j] = f[j] /\ f[j] \in 1..t
          /\ continueCtx'[j].kind = continueCtx[j].kind
          /\ continueCtx'[j].variable = continueCtx[j].variable
      BY <1>2, <1>8 DEF Alike
    <3>2. /\ continueCtx[j].variable # 0 /\ j > 1
          /\ continueCtx[j - 1].kind = "Switch" =>
                continueCtx[j - 1].variable = continueCtx[j].variable
      BY <2>1, <3>1 DEF Entries, SwitchInv
    <3>3. j - 1 \in DOMAIN continueCtx'
      BY <1>2, <3>1, <3>2
    <3>4. /\ continueCtx'[j - 1].kind = continueCtx[j - 1].kind
          /\ continueCtx'[j - 1].variable = continueCtx[j - 1].variable
      BY <3>3 DEF Alike
    <3>6. PICK v \in Nat, d \in DOMAIN code :
             v = continueCtx[j].variable /\ DeclaredAt(d, f[j], v)
      BY <2>1, <3>1 DEF Entries, SwitchInv
    <3>7. f[j] \in Nat /\ f[j] > 0 /\ \A k \in 1..f[j] : nest'[k] = nest[k]
      BY <1>4, <3>1
    <3>8. DeclaredAt(d, f[j], v)'
      BY <3>6, <3>7, DeclaredStays
    <3>9. d \in DOMAIN code'
      BY DEF Grows
    <3>10. \E w \in Nat, e \in DOMAIN code' :
               w = continueCtx'[j].variable /\ DeclaredAt(e, g[j], w)'
      BY <3>1, <3>6, <3>8, <3>9
    <3>11. QED
      BY <3>1, <3>2, <3>4, <3>10
  <2>2. QED
    BY <2>1 DEF SwitchInv
<1>13. QED
  BY <1>2, <1>8, <1>11, <1>12 DEF Entries

-----------------------------------------------------------------------------
(* Jumps that are written and their checks. *)

(* New checks look at what is closed now. *)
FreshChecks ==
    \A q \in Here..Len(code') :
        code'[q].op \in Checks =>
            q > Here /\ (code'[q - 1].op = "close" => code'[q - 1].of \in BlocksAt(Here))

(* No check is added for a block that was closed before, *)
LEMMA CheckedStays ==
  ASSUME Grows, CodeInv, FreshChecks, NEW o, o \notin BlocksAt(Here), NEW v
  PROVE  CheckedAfter(o, v)' = CheckedAfter(o, v)
<1>1. /\ DOMAIN code = 1..Len(code) /\ Len(code) \in Nat
      /\ DOMAIN code' = 1..Len(code') /\ Len(code') \in Nat /\ Len(code) <= Len(code')
      /\ \A q \in DOMAIN code : code'[q] = code[q] /\ q \in DOMAIN code'
  BY DEF Grows
<1>2. ASSUME NEW q \in DOMAIN code
      PROVE  q \in CheckedAfter(o, v)' <=> q \in CheckedAfter(o, v)
  <2>1. CASE q > 1
    <3>1. q - 1 \in DOMAIN code /\ code'[q - 1] = code[q - 1] /\ code'[q] = code[q]
      BY <1>1, <2>1
    <3>2. QED
      BY <1>1, <3>1 DEF CheckedAfter
  <2>2. CASE ~(q > 1)
    <3>1. code[q].op \notin {"if-break", "if-continue"} /\ code'[q] = code[q]
      BY <1>1, <2>2 DEF CodeInv, CodeAt
    <3>2. QED
      BY <3>1 DEF CheckedAfter
  <2>3. QED
    BY <2>1, <2>2
<1>3. ASSUME NEW q \in DOMAIN code', q \notin DOMAIN code
      PROVE  q \notin CheckedAfter(o, v)'
  <2>1. q \in Here..Len(code')
    BY <1>1, <1>3 DEF Here
  <2>2. QED
    BY <2>1 DEF CheckedAfter, FreshChecks, Checks
<1>4. CheckedAfter(o, v)' \subseteq DOMAIN code' /\ CheckedAfter(o, v) \subseteq DOMAIN code
  BY DEF CheckedAfter
<1>5. QED
  BY <1>1, <1>2, <1>3, <1>4

(* and a jump that has its check keeps it, and no other. *)
LEMMA AnswerStays ==
  ASSUME Grows, CodeInv, FreshChecks, NEW p \in DOMAIN code, NEW o, o \notin BlocksAt(Here),
         NEW v, Answered(p, o, v)
  PROVE  Answered(p, o, v)'
<1>1. PICK r \in DOMAIN code :
         /\ r > p /\ CheckedAfter(o, v) = {r}
         /\ WhileAt(r) = WhileAt(p) /\ ~SplitAt(r)
  BY DEF Answered
<1>2. r \in 1..Here /\ p \in 1..Here /\ r \in DOMAIN code'
  BY DEF Grows, Here
<1>3. CheckedAfter(o, v)' = {r}
  BY <1>1, CheckedStays
<1>4. WhileAt(r)' = WhileAt(p)' /\ ~SplitAt(r)'
  BY <1>1, <1>2, WhilesStay, SplitStays
<1>5. QED
  BY <1>1, <1>2, <1>3, <1>4 DEF Answered

(* What an open block's entry promises is kept, or the block is closed and *)
(* there is a check.                                                       *)
Passed(f, g) ==
    \A o, v : Entered(f, o, v) /\ o \in BlocksAt(Here)' => Entered(g, o, v)'
Closed(f) ==
    \A p \in DOMAIN code, o \in Nat, v \in Nat :
        /\ o = BlockAt(p) /\ o \in BlocksAt(p) /\ o \in BlocksAt(Here)
        /\ o \notin BlocksAt(Here)' /\ Entered(f, o, v) /\ ~SplitAt(p)
        => Answered(p, o, v)'

(* A jump that was written is as well off after the step. *)
LEMMA JumpStays ==
  ASSUME Grows, CodeInv, FreshChecks, NEW p \in DOMAIN code, NEW f, NEW g, JumpAt(f, p),
         BlocksAt(Here)' \cap DOMAIN code \subseteq BlocksAt(Here),
         Passed(f, g), Closed(f)
  PROVE  JumpAt(g, p)'
<1>1. /\ p \in 1..Here /\ p \in DOMAIN code' /\ code'[p] = code[p] /\ p \in Nat
      /\ code[p] \in Tokens
  BY DEF Grows, Here
<1>2. PICK o : o = BlockAt(p)
  OBVIOUS
<1>3. PICK v \in Nat : v = code[p].variable
  BY <1>1 DEF Tokens
<1>4. BlockAt(p)' = o /\ (SplitAt(p)' <=> SplitAt(p))
  BY <1>1, <1>2, WhilesStay, SplitStays
<1>5. ASSUME code[p].op \in {"forward", "if-break"}, ~SplitAt(p)
      PROVE  /\ code'[o].op # "while"
             /\ IF o \in BlocksAt(Here)' THEN Entered(g, o, v)' ELSE Answered(p, o, v)'
  <2>1. /\ code[o].op # "while"
        /\ IF o \in BlocksAt(Here) THEN Entered(f, o, v) ELSE Answered(p, o, v)
    BY <1>2, <1>3, <1>5 DEF JumpAt
  <2>2. o \in BlocksAt(p)
    <3>1. WhileAt(p) # {}
      BY <1>5 DEF CodeInv, CodeAt, Jumps
    <3>2. BlocksAt(p) # {}
      BY <3>1 DEF WhileAt
    <3>3. QED
      BY <1>1, <1>2, <3>2, BlocksIn, MaxIs DEF BlockAt
  <2>3. o \in DOMAIN code /\ code'[o] = code[o] /\ o \in Nat
    BY <1>1, <2>2, WhilesStay DEF Grows
  <2>4. CASE o \in BlocksAt(Here)'
    <3>1. o \in BlocksAt(Here)
      BY <2>3, <2>4
    <3>2. Entered(f, o, v)
      BY <2>1, <3>1
    <3>3. Entered(g, o, v)'
      BY <2>4, <3>2 DEF Passed
    <3>4. QED
      BY <2>1, <2>3, <2>4, <3>3
  <2>5. CASE o \notin BlocksAt(Here)'
    <3>1. CASE o \in BlocksAt(Here)
      <4>1. Entered(f, o, v)
        BY <2>1, <3>1
      <4>2. Answered(p, o, v)'
        BY <1>2, <1>5, <2>2, <2>3, <2>5, <3>1, <4>1 DEF Closed
      <4>3. QED
        BY <2>1, <2>3, <2>5, <4>2
    <3>2. CASE o \notin BlocksAt(Here)
      <4>1. Answered(p, o, v)'
        BY <2>1, <3>2, AnswerStays
      <4>2. QED
        BY <2>1, <2>3, <2>5, <4>1
    <3>3. QED
      BY <3>1, <3>2
  <2>6. QED
    BY <2>4, <2>5
<1>6. QED
  <2>1. (code[p].op \in {"forward", "if-break"} /\ ~SplitAt(p) =>
            /\ code[BlockAt(p)].op # "while"
            /\ IF BlockAt(p) \in BlocksAt(Here)
               THEN Entered(g, BlockAt(p), code[p].variable)
               ELSE Answered(p, BlockAt(p), code[p].variable))'
    BY <1>1, <1>3, <1>4, <1>5
  <2>2. QED
    BY <2>1 DEF JumpAt

-----------------------------------------------------------------------------
(* Tokens that are written and the blocks they open and close. *)

(* How a token changes the blocks that are open. *)
After(B, p, t) ==
    IF t.op \in Openers THEN B \cup {p} ELSE IF t.op = "close" THEN B \ {t.of} ELSE B

(* A token opens a block or closes one. *)
LEMMA BlocksAfter ==
  \A p : code \in Seq(Tokens) /\ p \in DOMAIN code
           => BlocksAt(p + 1) = After(BlocksAt(p), p, code[p])
<1> SUFFICES ASSUME NEW p, code \in Seq(Tokens), p \in DOMAIN code
             PROVE  BlocksAt(p + 1) = After(BlocksAt(p), p, code[p])
  OBVIOUS
<1>1. p \in Nat /\ p > 0
  OBVIOUS
<1>2. \A o \in 1..(p - 1) : o \in BlocksAt(p + 1) <=>
          o \in BlocksAt(p) /\ ~(code[p].op = "close" /\ code[p].of = o)
  BY <1>1 DEF BlocksAt
<1>3. p \in BlocksAt(p + 1) <=> code[p].op \in Openers
  BY <1>1 DEF BlocksAt
<1>4. BlocksAt(p + 1) \subseteq 1..p /\ BlocksAt(p) \subseteq 1..(p - 1)
  <2>1. p + 1 \in Nat /\ (p + 1) - 1 = p
    BY <1>1
  <2>2. BlocksAt(p + 1) \subseteq 1..((p + 1) - 1)
    BY <2>1, BlocksIn
  <2>3. QED
    BY <1>1, <2>1, <2>2, BlocksIn
<1>5. p \notin BlocksAt(p)
  BY <1>1, <1>4
<1>6. 1..p = 1..(p - 1) \cup {p}
  BY <1>1
<1>7. "close" \notin Openers
  BY DEF Openers
<1>8. DEFINE A == After(BlocksAt(p), p, code[p])
<1>9. \A o \in 1..p : o \in BlocksAt(p + 1) <=> o \in A
  <2>1. \A o \in 1..(p - 1) : o # p /\ (o \in BlocksAt(p + 1) <=> o \in A)
    BY <1>1, <1>2, <1>7 DEF After
  <2>2. p \in BlocksAt(p + 1) <=> p \in A
    BY <1>3, <1>5 DEF After
  <2>3. QED
    BY <1>6, <2>1, <2>2
<1>10. A \subseteq 1..p
  BY <1>4, <1>6 DEF After
<1>11. HIDE DEF A
<1>12. BlocksAt(p + 1) = A
  BY <1>4, <1>9, <1>10
<1>13. QED
  BY <1>12 DEF A

(* One token is written, *)
LEMMA WriteOne ==
  ASSUME Blocked, backend' = backend, NEW t \in Tokens, code' = Append(code, t),
         NEW h \in Nat, h = Here
  PROVE  /\ Grows /\ Len(code') = h /\ Here' = h + 1 /\ DOMAIN code' = 1..h /\ code'[h] = t
         /\ BlocksAt(h)' = BlocksAt(Here)
         /\ BlocksAt(Here)' = After(BlocksAt(Here), h, t)
<1>1. code \in Seq(Tokens)
  BY DEF Blocked, ForwardType
<1>2. code' \in Seq(Tokens) /\ Len(code') = h /\ DOMAIN code' = 1..h /\ code'[h] = t
      /\ \A p \in DOMAIN code : code'[p] = code[p]
  BY <1>1 DEF Here
<1>3. Len(code) <= Len(code') /\ Here' = h + 1 /\ h \in 1..Here /\ h \in DOMAIN code'
  BY <1>1, <1>2 DEF Here
<1>4. Grows
  BY <1>1, <1>2, <1>3 DEF Grows
<1>5. BlocksAt(h)' = BlocksAt(h)
  BY <1>3, <1>4, BlocksStay
<1>6. BlocksAt(h + 1)' = After(BlocksAt(h), h, t)
  <2>1. (\A p : code \in Seq(Tokens) /\ p \in DOMAIN code
           => BlocksAt(p + 1) = After(BlocksAt(p), p, code[p]))'
    BY BlocksAfter, PTL
  <2>2. BlocksAt(h + 1)' = After(BlocksAt(h)', h, code'[h])
    BY <1>2, <1>3, <2>1
  <2>3. QED
    BY <1>2, <1>5, <2>2
<1>7. QED
  BY <1>2, <1>3, <1>4, <1>5, <1>6

(* or two. *)
LEMMA WriteTwo ==
  ASSUME Blocked, backend' = backend, NEW t \in Tokens, NEW u \in Tokens,
         code' = Append(Append(code, t), u), NEW h \in Nat, h = Here
  PROVE  /\ Grows /\ Len(code') = h + 1 /\ Here' = h + 2 /\ DOMAIN code' = 1..(h + 1)
         /\ code'[h] = t /\ code'[h + 1] = u
         /\ BlocksAt(h)' = BlocksAt(Here)
         /\ BlocksAt(h + 1)' = After(BlocksAt(Here), h, t)
         /\ BlocksAt(Here)' = After(After(BlocksAt(Here), h, t), h + 1, u)
<1>1. code \in Seq(Tokens)
  BY DEF Blocked, ForwardType
<1>2. /\ code' \in Seq(Tokens) /\ Len(code') = h + 1 /\ DOMAIN code' = 1..(h + 1)
      /\ code'[h] = t /\ code'[h + 1] = u
      /\ \A p \in DOMAIN code : code'[p] = code[p]
  <2>1. PICK c : c = Append(code, t)
    OBVIOUS
  <2>2. c \in Seq(Tokens) /\ Len(c) = h /\ c[h] = t /\ \A p \in DOMAIN code : c[p] = code[p]
    BY <1>1, <2>1 DEF Here
  <2>3. /\ code' = Append(c, u) /\ DOMAIN code = 1..Len(code) /\ Len(code) \in Nat
        /\ h = Len(code) + 1
    BY <1>1, <2>1 DEF Here
  <2>4. code' \in Seq(Tokens) /\ Len(code') = h + 1 /\ DOMAIN code' = 1..(h + 1)
        /\ code'[h + 1] = u /\ \A p \in 1..h : code'[p] = c[p]
    BY <2>2, <2>3
  <2>5. QED
    BY <2>2, <2>3, <2>4
<1>3. Len(code) <= Len(code') /\ Here' = h + 2 /\ h \in 1..Here /\ h \in DOMAIN code'
      /\ h + 1 \in DOMAIN code'
  BY <1>1, <1>2 DEF Here
<1>4. Grows
  BY <1>1, <1>2, <1>3 DEF Grows
<1>5. BlocksAt(h)' = BlocksAt(h)
  BY <1>3, <1>4, BlocksStay
<1>6. (\A p : code \in Seq(Tokens) /\ p \in DOMAIN code
           => BlocksAt(p + 1) = After(BlocksAt(p), p, code[p]))'
  BY BlocksAfter, PTL
<1>7. BlocksAt(h + 1)' = After(BlocksAt(h)', h, code'[h])
  BY <1>2, <1>3, <1>6
<1>8. BlocksAt((h + 1) + 1)' = After(BlocksAt(h + 1)', h + 1, code'[h + 1])
  BY <1>2, <1>3, <1>6
<1>9. (h + 1) + 1 = h + 2
  OBVIOUS
<1>10. BlocksAt(Here)' = After(After(BlocksAt(h), h, t), h + 1, u)
  BY <1>2, <1>3, <1>5, <1>7, <1>8, <1>9
<1>11. QED
  BY <1>2, <1>3, <1>4, <1>5, <1>7, <1>10

(* A statement is opened with its block. *)
LEMMA NestPush ==
  ASSUME Blocked, Grows, NEW x \in Nested, Pushed(x), x.at > Len(code), x.at \in DOMAIN code',
         code'[x.at].op = WordOf(x.kind), BlocksAt(x.at)' = BlocksAt(Here),
         BlocksAt(Here)' = BlocksAt(Here) \cup {x.at}
  PROVE  NestInv'
<1>1. PICK t \in Nat : t = Len(nest)
  BY NestIs
<1>2. /\ DOMAIN nest = 1..t /\ DOMAIN nest' = 1..(t + 1) /\ nest'[t + 1] = x
      /\ Len(nest') = t + 1 /\ \A i \in 1..t : nest'[i] = nest[i]
  BY <1>1, PushIs, NestIs
<1>3. \A i \in 1..t : /\ nest[i].at \in DOMAIN code /\ nest[i].at <= Len(code)
                      /\ nest[i].at \in Nat
                      /\ code[nest[i].at].op = WordOf(nest[i].kind)
                      /\ BlocksAt(nest[i].at) = Ats(i - 1)
  <2>1. \A i \in 1..t : /\ nest[i].at \in DOMAIN code /\ nest[i].at \in Nat
                        /\ code[nest[i].at].op = WordOf(nest[i].kind)
    BY <1>2, NestIs
  <2>2. \A i \in 1..t : nest[i].at <= Len(code)
    BY <2>1, NestIs
  <2>3. \A i \in 1..t : BlocksAt(nest[i].at) = Ats(i - 1)
    BY <1>2 DEF Blocked, NestInv
  <2>4. QED
    BY <2>1, <2>2, <2>3
<1>4. \A k \in 0..t : Ats(k)' = Ats(k)
  <2>1. ASSUME NEW k \in 0..t PROVE Ats(k)' = Ats(k)
    <3>1. \A i \in 1..k : nest'[i] = nest[i]
      BY <1>2
    <3>2. QED
      BY <3>1 DEF Ats
  <2>2. QED
    BY <2>1
<1>5. BlocksAt(Here) = Ats(t)
  BY <1>1 DEF Blocked, NestInv
<1>6. Ats(t + 1)' = Ats(t) \cup {x.at}
  <2>1. 1..(t + 1) = 1..t \cup {t + 1}
    OBVIOUS
  <2>2. QED
    BY <1>2, <2>1 DEF Ats
<1>7. ASSUME NEW i \in DOMAIN nest'
      PROVE  /\ nest'[i].at \in DOMAIN code' /\ code'[nest'[i].at].op = WordOf(nest'[i].kind)
             /\ BlocksAt(nest[i].at)' = Ats(i - 1)'
  <2>1. CASE i \in 1..t
    <3>1. PICK a \in DOMAIN code : a = nest[i].at
      BY <1>3, <2>1
    <3>2. a \in 1..Here /\ nest'[i].at = a /\ nest'[i] = nest[i]
      BY <1>2, <2>1, <3>1, NestIs DEF Here
    <3>3. BlocksAt(a)' = BlocksAt(a)
      BY <3>2, BlocksStay
    <3>4. BlocksAt(nest[i].at)' = BlocksAt(a)'
      BY <3>2
    <3>5. i - 1 \in 0..t
      BY <2>1
    <3>6. BlocksAt(a) = Ats(i - 1) /\ Ats(i - 1)' = Ats(i - 1)
      BY <1>3, <1>4, <2>1, <3>1, <3>5
    <3>7. a \in DOMAIN code' /\ code'[a] = code[a] /\ code[a].op = WordOf(nest[i].kind)
      BY <1>3, <2>1, <3>1 DEF Grows
    <3>8. QED
      BY <3>2, <3>3, <3>4, <3>6, <3>7
  <2>2. CASE i = t + 1
    <3>1. nest'[i] = x /\ i - 1 = t
      BY <1>2, <2>2
    <3>2. BlocksAt(nest[i].at)' = BlocksAt(x.at)'
      BY <3>1
    <3>3. Ats(i - 1)' = Ats(t)
      BY <3>1, <1>4
    <3>4. QED
      BY <3>1, <3>2, <3>3, <1>5
  <2>3. QED
    BY <1>2, <2>1, <2>2
<1>8. ASSUME NEW i \in DOMAIN nest', NEW j \in DOMAIN nest', i < j
      PROVE  nest'[i].at < nest'[j].at
  <2>1. i \in 1..t /\ nest'[i] = nest[i]
    BY <1>2, <1>8
  <2>2. CASE j \in 1..t
    BY <1>2, <1>8, <2>1, <2>2 DEF Blocked, NestInv
  <2>3. CASE j = t + 1
    <3>1. nest[i].at <= Len(code) /\ x.at > Len(code) /\ nest[i].at \in Nat /\ x.at \in Nat
          /\ Len(code) \in Nat
      BY <1>3, <2>1, NestIs DEF Nested
    <3>2. QED
      BY <1>2, <2>1, <2>3, <3>1
  <2>4. QED
    BY <1>2, <2>2, <2>3
<1>9. BlocksAt(Here)' = Ats(Len(nest))'
  BY <1>2, <1>5, <1>6
<1>10. QED
  BY <1>7, <1>8, <1>9 DEF NestInv

(* The nesting is left as it is, or its innermost statements are closed. *)
LEMMA NestLeft ==
  ASSUME Blocked, Grows, nest' \in Seq(Nested), Len(nest') <= Len(nest),
         \A i \in DOMAIN nest' : nest'[i] = nest[i],
         BlocksAt(Here)' = Ats(Len(nest'))
  PROVE  NestInv'
<1>1. PICK t \in Nat : t = Len(nest')
  OBVIOUS
<1>2. DOMAIN nest' = 1..t /\ \A i \in 1..t : i \in DOMAIN nest /\ nest'[i] = nest[i]
  BY <1>1, NestIs
<1>3. \A k \in 0..t : Ats(k)' = Ats(k)
  <2>1. ASSUME NEW k \in 0..t PROVE Ats(k)' = Ats(k)
    <3>1. \A i \in 1..k : nest'[i] = nest[i]
      BY <1>2
    <3>2. QED
      BY <3>1 DEF Ats
  <2>2. QED
    BY <2>1
<1>4. ASSUME NEW i \in DOMAIN nest'
      PROVE  /\ nest'[i].at \in DOMAIN code' /\ code'[nest'[i].at].op = WordOf(nest'[i].kind)
             /\ BlocksAt(nest[i].at)' = Ats(i - 1)'
  <2>1. i \in 1..t /\ i \in DOMAIN nest
    BY <1>2
  <2>2. PICK a \in DOMAIN code : a = nest[i].at
    BY <2>1, NestIs
  <2>3. a \in 1..Here /\ nest'[i].at = a /\ nest'[i] = nest[i]
    BY <1>2, <2>1, <2>2, NestIs DEF Here
  <2>4. BlocksAt(a)' = BlocksAt(a)
    BY <2>3, BlocksStay
  <2>5. BlocksAt(nest[i].at)' = BlocksAt(a)'
    BY <2>3
  <2>6. BlocksAt(a) = Ats(i - 1)
    BY <2>1, <2>2 DEF Blocked, NestInv
  <2>7. i - 1 \in 0..t
    BY <2>1
  <2>8. a \in DOMAIN code' /\ code'[a] = code[a] /\ code[a].op = WordOf(nest[i].kind)
    BY <2>1, <2>2, NestIs DEF Grows
  <2>9. QED
    BY <1>3, <2>3, <2>4, <2>5, <2>6, <2>7, <2>8
<1>5. \A i, j \in DOMAIN nest' : i < j => nest'[i].at < nest'[j].at
  BY <1>2 DEF Blocked, NestInv
<1>6. BlocksAt(Here)' = Ats(Len(nest))'
  BY <1>1, <1>3
<1>7. QED
  BY <1>4, <1>5, <1>6 DEF NestInv

(* What is open at one place is nested. *)
LEMMA Nesting ==
  ASSUME Blocked, Grows, NEW k \in 0..Len(nest), NEW p \in Nat, BlocksAt(p)' = Ats(k)
  PROVE  \A o \in BlocksAt(p)' : BlocksAt(o)' \subseteq BlocksAt(p)'
<1>1. ASSUME NEW o \in BlocksAt(p)' PROVE BlocksAt(o)' \subseteq Ats(k)
  <2>1. PICK i \in 1..k : o = nest[i].at
    BY <1>1 DEF Ats
  <2>2. i \in DOMAIN nest /\ i \in Nat /\ k \in Nat
    BY NestIs
  <2>3. o \in DOMAIN code /\ BlocksAt(o) = Ats(i - 1)
    BY <2>1, <2>2 DEF Blocked, NestInv
  <2>4. o \in 1..Here
    BY <2>3, NestIs DEF Here
  <2>5. BlocksAt(o)' = BlocksAt(o)
    BY <2>4, BlocksStay
  <2>6. 1..(i - 1) \subseteq 1..k
    BY <2>1, <2>2
  <2>7. QED
    BY <2>3, <2>5, <2>6 DEF Ats
<1>2. QED
  BY <1>1

-----------------------------------------------------------------------------
(* The parts of a step. *)

(* It is enough to look at the jumps that are written in the step. *)
LEMMA JumpsKept ==
  ASSUME Grows, CodeInv, FreshChecks, NEW f, NEW g, JumpInv(f),
         BlocksAt(Here)' \cap DOMAIN code \subseteq BlocksAt(Here),
         Passed(f, g), Closed(f), \A p \in Here..Len(code') : JumpAt(g, p)'
  PROVE  JumpInv(g)'
<1>1. /\ DOMAIN code = 1..Len(code) /\ DOMAIN code' = 1..Len(code')
      /\ Len(code) \in Nat /\ Len(code') \in Nat
  BY DEF Grows
<1>2. ASSUME NEW p \in DOMAIN code' PROVE JumpAt(g, p)'
  <2>1. CASE p \in DOMAIN code
    BY <2>1, JumpStays DEF JumpInv
  <2>2. CASE p \notin DOMAIN code
    <3>1. p \in Here..Len(code')
      BY <1>1, <2>2 DEF Here
    <3>2. QED
      BY <3>1
  <2>3. QED
    BY <2>1, <2>2
<1>3. QED
  BY <1>2 DEF JumpInv

(* The promises are kept when the entries that are left still say what     *)
(* they said.                                                              *)
LEMMA PassedOn ==
  ASSUME Blocked, NEW f, NEW g, Places(f),
         \A j \in DOMAIN continueCtx : f[j] \in DOMAIN nest' =>
            /\ j \in DOMAIN continueCtx' /\ g[j] = f[j]
            /\ continueCtx'[j].kind = continueCtx[j].kind
            /\ continueCtx'[j].variable = continueCtx[j].variable
            /\ continueCtx[j].encountered => continueCtx'[j].encountered,
         \A i \in DOMAIN nest : i \in DOMAIN nest' => nest'[i] = nest[i],
         \A o \in BlocksAt(Here)' \cap DOMAIN code :
            \E i \in DOMAIN nest : i \in DOMAIN nest' /\ o = nest[i].at
  PROVE  Passed(f, g)
<1>1. ASSUME NEW o, NEW v, Entered(f, o, v), o \in BlocksAt(Here)' PROVE Entered(g, o, v)'
  <2>1. PICK j \in DOMAIN continueCtx :
           /\ nest[f[j]].at = o /\ continueCtx[j].kind = "Switch"
           /\ continueCtx[j].variable = v /\ continueCtx[j].encountered
    BY <1>1 DEF Entered
  <2>2. f[j] \in DOMAIN nest
    BY DEF Places
  <2>3. o \in DOMAIN code
    BY <2>1, <2>2, NestIs
  <2>4. PICK i \in DOMAIN nest : i \in DOMAIN nest' /\ o = nest[i].at
    BY <1>1, <2>3
  <2>5. f[j] = i
    <3>1. f[j] \in Nat /\ i \in Nat /\ nest[i].at \in Nat /\ nest[f[j]].at \in Nat
      BY <2>2, NestIs
    <3>2. ~(f[j] < i) /\ ~(i < f[j])
      BY <2>1, <2>2, <2>4, <3>1 DEF Blocked, NestInv
    <3>3. QED
      BY <3>1, <3>2
  <2>6. /\ j \in DOMAIN continueCtx' /\ g[j] = i /\ nest'[i] = nest[i]
        /\ continueCtx'[j].kind = "Switch" /\ continueCtx'[j].variable = v
        /\ continueCtx'[j].encountered
    BY <2>1, <2>4, <2>5
  <2>7. QED
    BY <2>4, <2>6 DEF Entered
<1>2. QED
  BY <1>1 DEF Passed

(* No block is closed. *)
LEMMA ClosedNone ==
  ASSUME BlocksAt(Here) \subseteq BlocksAt(Here)', NEW f
  PROVE  Closed(f)
  BY DEF Closed

(* The parts of the invariant after a step. *)
LEMMA Assembled ==
  ASSUME ForwardType', NestInv', CodeInv', NEW g, Entries(g)', JumpInv(g)'
  PROVE  ForwardInv'
<1>1. g \in [DOMAIN continueCtx' -> DOMAIN nest']
  BY DEF Entries, Places
<1>2. QED
  BY <1>1 DEF ForwardInv, Entries

-----------------------------------------------------------------------------
(* A statement is opened. *)

(* The tokens that are no jumps. *)
PlainOps == {"while", "do", "switch", "declare", "close"}

(* Opening a statement is no jump: all that was promised stays. *)
LEMMA OpenedNest ==
  ASSUME Blocked, Grows, CodeInv, NEW f, NEW g, Entries(f), JumpInv(f), NEW x \in Nested, Pushed(x),
         x.at > Len(code), x.at \in DOMAIN code',
         code'[x.at].op = WordOf(x.kind), BlocksAt(x.at)' = BlocksAt(Here),
         BlocksAt(Here)' = BlocksAt(Here) \cup {x.at},
         \A p \in Here..Len(code') : code'[p].op \in PlainOps,
         \A j \in DOMAIN continueCtx : /\ j \in DOMAIN continueCtx' /\ g[j] = f[j]
                                       /\ continueCtx'[j] = continueCtx[j]
  PROVE  JumpInv(g)'
<1>1. FreshChecks
  BY DEF FreshChecks, PlainOps, Checks
<1>2. \A p \in Here..Len(code') : JumpAt(g, p)'
  <2>1. ASSUME NEW p \in Here..Len(code')
        PROVE (code[p].op \in {"forward", "if-break"} /\ ~SplitAt(p) =>
            /\ code[BlockAt(p)].op # "while"
            /\ IF BlockAt(p) \in BlocksAt(Here)
               THEN Entered(g, BlockAt(p), code[p].variable)
               ELSE Answered(p, BlockAt(p), code[p].variable))'
    BY DEF PlainOps
  <2>2. QED
    BY <2>1 DEF JumpAt
<1>3. x.at \notin DOMAIN code /\ x.at \in Nat
  BY NestIs DEF Nested
<1>4. \A o \in BlocksAt(Here)' \cap DOMAIN code :
         \E i \in DOMAIN nest : i \in DOMAIN nest' /\ o = nest[i].at
  BY <1>3, NestIs, PushIs
<1>5. Passed(f, g)
  <2>1. \A i \in DOMAIN nest : i \in DOMAIN nest' => nest'[i] = nest[i]
    BY PushIs
  <2>2. QED
    BY <1>4, <2>1, PassedOn DEF Entries
<1>6. Closed(f)
  BY ClosedNone
<1>7. BlocksAt(Here)' \cap DOMAIN code \subseteq BlocksAt(Here)
  BY <1>3
<1>8. QED
  BY <1>1, <1>2, <1>5, <1>6, <1>7, JumpsKept

(* What is asked of a token that is no jump. *)
LEMMA PlainCode ==
  ASSUME Blocked, Grows, NEW k \in 0..Len(nest), NEW p \in Nat, BlocksAt(p)' = Ats(k),
         code'[p].op \in PlainOps, code'[p].op = "close" => code'[p].of < p,
         code'[p].variable # 0 => Ats(k) # {}
  PROVE  CodeAt(p)'
<1>1. \A o \in BlocksAt(p)' : BlocksAt(o)' \subseteq BlocksAt(p)'
  BY Nesting
<1>2. QED
  BY <1>1 DEF CodeAt, PlainOps, Jumps

(* The token that opens a block, and the statement it is opened for. *)
Opener(op) == Token(op, 0, 0)
BlockFor(op) == IF op = "while" THEN "loop" ELSE op

(* They are tokens and statements. *)
LEMMA OpenerIs ==
  ASSUME NEW op \in {"while", "do", "switch"}, NEW h \in Nat
  PROVE  /\ Opener(op) \in Tokens /\ Opener(op).op = op /\ Opener(op).variable = 0
         /\ op \in Openers /\ op \in PlainOps /\ op # "close"
         /\ [kind |-> BlockFor(op), at |-> h] \in Nested /\ WordOf(BlockFor(op)) = op
  BY DEF Opener, Token, Tokens, TokenOps, Openers, PlainOps, BlockFor, WordOf, Nested

(* A block is opened without a declaration. *)
LEMMA OpensOne ==
  ASSUME Blocked, CodeInv, backend' = backend, NEW op \in {"while", "do", "switch"},
         NEW h \in Nat, h = Here, code' = Append(code, Opener(op)),
         Pushed([kind |-> BlockFor(op), at |-> h])
  PROVE  /\ Grows /\ NestInv' /\ CodeInv' /\ h > Len(code) /\ h \in DOMAIN code'
         /\ code'[h].op = op /\ BlocksAt(h)' = BlocksAt(Here)
         /\ BlocksAt(Here)' = BlocksAt(Here) \cup {h}
         /\ \A p \in Here..Len(code') : code'[p].op \in PlainOps
<1>1. DEFINE t == Opener(op)
<1>2. PICK x \in Nested : x = [kind |-> BlockFor(op), at |-> h]
  BY OpenerIs
<1>3. t \in Tokens /\ t.op = op /\ t.variable = 0 /\ op \in Openers /\ op \in PlainOps /\ op # "close"
  BY OpenerIs
<1>4. t.op \in Openers
  BY <1>3
<1>5. HIDE DEF t
<1>6. code' = Append(code, t)
  BY DEF t
<1>7. /\ Grows /\ Len(code') = h /\ DOMAIN code' = 1..h /\ code'[h] = t
      /\ BlocksAt(h)' = BlocksAt(Here) /\ BlocksAt(Here)' = After(BlocksAt(Here), h, t)
  BY <1>3, <1>6, WriteOne
<1>8. BlocksAt(Here)' = BlocksAt(Here) \cup {h}
  BY <1>4, <1>7 DEF After
<1>9. h > Len(code) /\ h \in DOMAIN code' /\ \A p \in Here..Len(code') : p = h
  BY <1>7, NestIs DEF Here
<1>10. NestInv'
  <2>1. x.at = h /\ x.kind = BlockFor(op) /\ WordOf(x.kind) = op /\ Pushed(x)
    BY <1>2, OpenerIs
  <2>2. /\ x.at > Len(code) /\ x.at \in DOMAIN code' /\ code'[x.at].op = WordOf(x.kind)
        /\ BlocksAt(x.at)' = BlocksAt(Here) /\ BlocksAt(Here)' = BlocksAt(Here) \cup {x.at}
    BY <1>3, <1>7, <1>8, <1>9, <2>1
  <2>3. QED
    BY <1>7, <2>1, <2>2, NestPush
<1>11. CodeAt(h)'
  <2>1. PICK k \in 0..Len(nest) : k = Len(nest)
    <3>1. Len(nest) \in 0..Len(nest)
      BY NestIs
    <3>2. QED
      BY <3>1
  <2>2. BlocksAt(h)' = Ats(k)
    BY <1>7, <2>1 DEF Blocked, NestInv
  <2>3. /\ code'[h].op \in PlainOps /\ (code'[h].op = "close" => code'[h].of < h)
        /\ (code'[h].variable # 0 => Ats(k) # {})
    BY <1>3, <1>7
  <2>4. QED
    BY <1>7, <2>2, <2>3, PlainCode
<1>12. CodeInv'
  BY <1>7, <1>9, <1>11, CodeGrows
<1>13. QED
  BY <1>3, <1>7, <1>8, <1>9, <1>10, <1>12

(* The declaration of a variable and the block after it are written. *)
DeclaresAndOpens(v, op, a) ==
    /\ code' = Append(Append(code, Token("declare", v, 0)), Opener(op))
    /\ Pushed([kind |-> BlockFor(op), at |-> a])

(* What that leaves. *)
LEMMA OpensDeclared ==
  ASSUME Blocked, CodeInv, backend' = backend, NEW op \in {"while", "do", "switch"},
         NEW v \in Nat, nest # <<>>,
         NEW h \in Nat, h = Here, NEW a \in Nat, a = h + 1,
         DeclaresAndOpens(v, op, a)
  PROVE  /\ Grows /\ NestInv' /\ CodeInv' /\ a > Len(code) /\ a \in DOMAIN code'
         /\ code'[a].op = op /\ BlocksAt(a)' = BlocksAt(Here)
         /\ BlocksAt(Here)' = BlocksAt(Here) \cup {a}
         /\ \A p \in Here..Len(code') : code'[p].op \in PlainOps
         /\ h \in DOMAIN code' /\ code'[h].op = "declare" /\ code'[h].variable = v
         /\ BlocksAt(h)' = BlocksAt(Here)
<1>1. DEFINE t == Opener(op)
             d == Token("declare", v, 0)
<1>2. PICK x \in Nested : x = [kind |-> BlockFor(op), at |-> a]
  BY OpenerIs
<1>3. t \in Tokens /\ t.op = op /\ t.variable = 0 /\ op \in Openers /\ op \in PlainOps /\ op # "close"
  BY OpenerIs
<1>4. t.op \in Openers
  BY <1>3
<1>5. d \in Tokens /\ d.op = "declare" /\ d.variable = v /\ d.op \in PlainOps /\ d.op # "close"
      /\ d.op \notin Openers
  BY DEF Token, Tokens, TokenOps, PlainOps, Openers
<1>6. HIDE DEF t, d
<1>7. code' = Append(Append(code, d), t)
  BY DEF t, d, DeclaresAndOpens
<1>8. /\ Grows /\ Len(code') = h + 1 /\ DOMAIN code' = 1..(h + 1) /\ code'[h] = d
      /\ code'[h + 1] = t
      /\ BlocksAt(h)' = BlocksAt(Here)
      /\ BlocksAt(h + 1)' = After(BlocksAt(Here), h, d)
      /\ BlocksAt(Here)' = After(After(BlocksAt(Here), h, d), h + 1, t)
  BY <1>3, <1>5, <1>7, WriteTwo
<1>9. BlocksAt(h + 1)' = BlocksAt(Here) /\ BlocksAt(Here)' = BlocksAt(Here) \cup {h + 1}
  BY <1>4, <1>5, <1>8 DEF After
<1>10. h + 1 > Len(code) /\ h \in DOMAIN code' /\ h + 1 \in DOMAIN code'
       /\ \A p \in Here..Len(code') : p = h \/ p = h + 1
  BY <1>8, NestIs DEF Here
<1>11. NestInv'
  <2>1. x.at = h + 1 /\ x.kind = BlockFor(op) /\ WordOf(x.kind) = op /\ Pushed(x)
    BY <1>2, OpenerIs DEF DeclaresAndOpens
  <2>2. /\ x.at > Len(code) /\ x.at \in DOMAIN code' /\ code'[x.at].op = WordOf(x.kind)
        /\ BlocksAt(x.at)' = BlocksAt(Here) /\ BlocksAt(Here)' = BlocksAt(Here) \cup {x.at}
    BY <1>2, <1>3, <1>8, <1>9, <1>10, <2>1
  <2>3. QED
    BY <1>8, <2>1, <2>2, NestPush
<1>12. PICK k \in 0..Len(nest) : k = Len(nest)
  <2>1. Len(nest) \in 0..Len(nest)
    BY NestIs
  <2>2. QED
    BY <2>1
<1>13. Ats(k) = BlocksAt(Here) /\ Ats(k) # {}
  <2>1. Ats(k) = BlocksAt(Here)
    BY <1>12 DEF Blocked, NestInv
  <2>2. 1 \in DOMAIN nest
    BY NestIs DEF Blocked, ForwardType
  <2>3. nest[1].at \in BlocksAt(Here)
    BY <2>2, NestIs
  <2>4. QED
    BY <2>1, <2>3
<1>14. CodeAt(h)'
  <2>1. BlocksAt(h)' = Ats(k)
    BY <1>8, <1>13
  <2>2. /\ code'[h].op \in PlainOps /\ (code'[h].op = "close" => code'[h].of < h)
        /\ (code'[h].variable # 0 => Ats(k) # {})
    BY <1>5, <1>8, <1>13
  <2>3. QED
    BY <1>8, <2>1, <2>2, PlainCode
<1>15. CodeAt(h + 1)'
  <2>1. PICK p \in Nat : p = h + 1
    OBVIOUS
  <2>2. BlocksAt(p)' = Ats(k)
    BY <1>9, <1>13, <2>1
  <2>3. /\ code'[p].op \in PlainOps /\ (code'[p].op = "close" => code'[p].of < p)
        /\ (code'[p].variable # 0 => Ats(k) # {})
    BY <1>3, <1>8, <2>1
  <2>4. CodeAt(p)'
    BY <1>8, <2>2, <2>3, PlainCode
  <2>5. QED
    BY <2>1, <2>4
<1>16. CodeInv'
  BY <1>8, <1>10, <1>14, <1>15, CodeGrows
<1>17. QED
  BY <1>3, <1>5, <1>8, <1>9, <1>10, <1>11, <1>16

(* OpenBlock writes the opener, *)
LEMMA BlockOpened ==
  ASSUME Blocked, NEW op \in {"while", "do", "switch"}, NEW h \in Nat, h = Here,
         OpenBlock(op, <<>>)
  PROVE  code' = Append(code, Opener(op)) /\ Pushed([kind |-> BlockFor(op), at |-> h])
<1>1. code \in Seq(Tokens) /\ Opener(op) \in Tokens
  BY OpenerIs DEF Blocked, ForwardType
<1>2. code' = (code \o <<>>) \o <<Opener(op)>>
  BY DEF OpenBlock, Opener
<1>3. code \o <<>> = code
  BY <1>1
<1>4. code' = Append(code, Opener(op))
  BY <1>1, <1>2, <1>3
<1>5. Len(code) + Len(<<>>) + 1 = h
  BY <1>1 DEF Here
<1>6. Pushed([kind |-> BlockFor(op), at |-> h])
  BY <1>5 DEF Pushed, BlockFor, OpenBlock
<1>7. QED
  BY <1>4, <1>6

(* or the declaration and the opener. *)
LEMMA BlockDeclared ==
  ASSUME Blocked, NEW op \in {"while", "do", "switch"}, NEW h \in Nat, h = Here,
         NEW d \in Tokens, OpenBlock(op, <<d>>)
  PROVE  /\ code' = Append(Append(code, d), Opener(op))
         /\ Pushed([kind |-> BlockFor(op), at |-> h + 1])
<1>1. code \in Seq(Tokens) /\ Opener(op) \in Tokens
  BY OpenerIs DEF Blocked, ForwardType
<1>2. code' = (code \o <<d>>) \o <<Opener(op)>>
  BY DEF OpenBlock, Opener
<1>3. code \o <<d>> = Append(code, d) /\ Append(code, d) \in Seq(Tokens)
  BY <1>1
<1>4. code' = Append(Append(code, d), Opener(op))
  BY <1>1, <1>2, <1>3
<1>5. Len(code) + Len(<<d>>) + 1 = h + 1
  BY <1>1 DEF Here
<1>6. Pushed([kind |-> BlockFor(op), at |-> h + 1])
  BY <1>5 DEF Pushed, BlockFor, OpenBlock
<1>7. QED
  BY <1>4, <1>6

(* An entry is pushed. *)
LEMMA ContextPush ==
  ASSUME Blocked, NEW c \in Contexts, continueCtx' = Append(continueCtx, c)
  PROVE  /\ continueCtx' \in Seq(Contexts)
         /\ \A j \in DOMAIN continueCtx : j \in DOMAIN continueCtx' /\ continueCtx'[j] = continueCtx[j]
<1>1. continueCtx \in Seq(Contexts)
  BY DEF Blocked, ForwardType
<1>2. QED
  BY <1>1

(* OpenLoop: enter_loop pushes an entry. *)
LEMMA LoopOpens == ForwardInv /\ OpenLoop => ForwardInv'
<1> SUFFICES ASSUME ForwardInv, OpenLoop PROVE ForwardInv'
  OBVIOUS
<1>1. Blocked /\ CodeInv /\ ForwardType
  BY DEF ForwardInv, Blocked
<1>2. PICK f : Entries(f) /\ JumpInv(f)
  BY DEF ForwardInv, Entries
<1>3. PICK h \in Nat : h = Here
  BY <1>1, NestIs
<1>4. /\ OpenBlock("while", <<>>) /\ continueCtx' = Append(continueCtx, InLoop)
      /\ backend' = backend /\ named' = named
  BY DEF OpenLoop
<1>5. code' = Append(code, Opener("while")) /\ Pushed([kind |-> BlockFor("while"), at |-> h])
  BY <1>1, <1>3, <1>4, BlockOpened
<1>6. PICK x \in Nested : x = [kind |-> BlockFor("while"), at |-> h]
  BY OpenerIs
<1>7. x.kind = "loop" /\ x.at = h /\ Pushed(x) /\ WordOf(x.kind) = "while"
  BY <1>5, <1>6 DEF BlockFor, WordOf
<1>8. /\ Grows /\ NestInv' /\ CodeInv' /\ h > Len(code) /\ h \in DOMAIN code'
      /\ code'[h].op = "while" /\ BlocksAt(h)' = BlocksAt(Here)
      /\ BlocksAt(Here)' = BlocksAt(Here) \cup {h}
      /\ \A p \in Here..Len(code') : code'[p].op \in PlainOps
  BY <1>1, <1>3, <1>4, <1>5, OpensOne
<1>9. InLoop \in Contexts /\ InLoop.kind = "Loop"
  BY DEF InLoop, Contexts
<1>10. PICK t \in Nat : t = Len(nest) + 1
  BY <1>1, NestIs
<1>11. PICK g : Entries(g)' /\ \A j \in DOMAIN continueCtx : g[j] = f[j]
  BY <1>1, <1>2, <1>4, <1>7, <1>8, <1>9, <1>10, EntryPush
<1>12. /\ continueCtx' \in Seq(Contexts)
       /\ \A j \in DOMAIN continueCtx : j \in DOMAIN continueCtx' /\ continueCtx'[j] = continueCtx[j]
  BY <1>1, <1>4, <1>9, ContextPush
<1>13. JumpInv(g)'
  <2>1. /\ x.at > Len(code) /\ x.at \in DOMAIN code' /\ code'[x.at].op = WordOf(x.kind)
        /\ BlocksAt(x.at)' = BlocksAt(Here) /\ BlocksAt(Here)' = BlocksAt(Here) \cup {x.at}
    BY <1>6, <1>7, <1>8
  <2>2. \A j \in DOMAIN continueCtx : /\ j \in DOMAIN continueCtx' /\ g[j] = f[j]
                                      /\ continueCtx'[j] = continueCtx[j]
    BY <1>11, <1>12
  <2>3. QED
    BY <1>1, <1>2, <1>7, <1>8, <2>1, <2>2, OpenedNest
<1>14. ForwardType'
  <2>1. nest' \in Seq(Nested)
    BY <1>1, <1>7, PushIs
  <2>2. code' \in Seq(Tokens)
    BY <1>8 DEF Grows
  <2>3. QED
    BY <1>1, <1>4, <1>12, <2>1, <2>2 DEF ForwardType
<1>15. QED
  BY <1>8, <1>11, <1>13, <1>14, Assembled

(* A switch without an entry. *)
LEMMA BareOpens ==
  ASSUME ForwardInv, NEW kind \in {"switch", "do"}, backend' = backend,
         ~Tracked(kind) \/ continueCtx = <<>>, OpenBlock(kind, <<>>),
         continueCtx' = continueCtx, named' = named
  PROVE  ForwardInv'
<1>1. Blocked /\ CodeInv /\ ForwardType
  BY DEF ForwardInv, Blocked
<1>2. PICK f : Entries(f) /\ JumpInv(f)
  BY DEF ForwardInv, Entries
<1>3. PICK h \in Nat : h = Here
  BY <1>1, NestIs
<1>4. code' = Append(code, Opener(kind)) /\ Pushed([kind |-> BlockFor(kind), at |-> h])
  BY <1>1, <1>3, BlockOpened
<1>5. PICK x \in Nested : x = [kind |-> BlockFor(kind), at |-> h]
  BY OpenerIs
<1>6. x.kind = kind /\ x.at = h /\ Pushed(x) /\ WordOf(x.kind) = kind /\ x.kind # "loop"
  BY <1>4, <1>5 DEF BlockFor, WordOf
<1>7. /\ Grows /\ NestInv' /\ CodeInv' /\ h > Len(code) /\ h \in DOMAIN code'
      /\ code'[h].op = kind /\ BlocksAt(h)' = BlocksAt(Here)
      /\ BlocksAt(Here)' = BlocksAt(Here) \cup {h}
      /\ \A p \in Here..Len(code') : code'[p].op \in PlainOps
  BY <1>1, <1>3, <1>4, OpensOne
<1>8. Entries(f)'
  BY <1>1, <1>2, <1>6, <1>7, BarePush
<1>9. JumpInv(f)'
  <2>1. /\ x.at > Len(code) /\ x.at \in DOMAIN code' /\ code'[x.at].op = WordOf(x.kind)
        /\ BlocksAt(x.at)' = BlocksAt(Here) /\ BlocksAt(Here)' = BlocksAt(Here) \cup {x.at}
    BY <1>5, <1>6, <1>7
  <2>2. \A j \in DOMAIN continueCtx : /\ j \in DOMAIN continueCtx' /\ f[j] = f[j]
                                      /\ continueCtx'[j] = continueCtx[j]
    OBVIOUS
  <2>3. QED
    BY <1>1, <1>2, <1>6, <1>7, <2>1, <2>2, OpenedNest
<1>10. ForwardType'
  <2>1. nest' \in Seq(Nested)
    BY <1>1, <1>6, PushIs
  <2>2. code' \in Seq(Tokens)
    BY <1>7 DEF Grows
  <2>3. QED
    BY <1>1, <2>1, <2>2 DEF ForwardType
<1>11. QED
  BY <1>7, <1>8, <1>9, <1>10, Assembled

(* The outermost switch in a loop: with a variable of its own. *)
LEMMA FirstOpens ==
  ASSUME ForwardInv, NEW kind \in {"switch", "do"}, backend' = backend,
         Tracked(kind), continueCtx # <<>>, ~OnSwitch(continueCtx),
         NEW w \in Nat, w # 0, named' \in Nat,
         OpenBlock(kind, <<Token("declare", w, 0)>>),
         continueCtx' = Append(continueCtx, InSwitch(w))
  PROVE  ForwardInv'
<1>1. Blocked /\ CodeInv /\ ForwardType
  BY DEF ForwardInv, Blocked
<1>2. PICK f : Entries(f) /\ JumpInv(f)
  BY DEF ForwardInv, Entries
<1>3. PICK h \in Nat, a \in Nat : h = Here /\ a = h + 1
  <2>1. PICK h \in Nat : h = Here
    BY <1>1, NestIs
  <2>2. h + 1 \in Nat
    OBVIOUS
  <2>3. QED
    BY <2>1, <2>2
<1>4. Token("declare", w, 0) \in Tokens
  BY DEF Token, Tokens, TokenOps
<1>5. DeclaresAndOpens(w, kind, a)
  <2>1. Pushed([kind |-> BlockFor(kind), at |-> h + 1])
        /\ code' = Append(Append(code, Token("declare", w, 0)), Opener(kind))
    BY <1>1, <1>3, <1>4, BlockDeclared
  <2>2. QED
    BY <1>3, <2>1 DEF DeclaresAndOpens
<1>6. PICK x \in Nested : x = [kind |-> BlockFor(kind), at |-> a]
  BY OpenerIs
<1>7. x.kind = kind /\ x.at = a /\ Pushed(x) /\ WordOf(x.kind) = kind /\ x.kind # "loop"
  BY <1>5, <1>6 DEF BlockFor, WordOf, DeclaresAndOpens
<1>8. nest # <<>>
  <2>1. Loops # {}
    BY <1>1, <1>2, Innermosts DEF Entries
  <2>2. QED
    BY <2>1 DEF Loops
<1>9. /\ Grows /\ NestInv' /\ CodeInv' /\ a > Len(code) /\ a \in DOMAIN code'
      /\ code'[a].op = kind /\ BlocksAt(a)' = BlocksAt(Here)
      /\ BlocksAt(Here)' = BlocksAt(Here) \cup {a}
      /\ \A p \in Here..Len(code') : code'[p].op \in PlainOps
      /\ h \in DOMAIN code' /\ code'[h].op = "declare" /\ code'[h].variable = w
      /\ BlocksAt(h)' = BlocksAt(Here)
  <2>1. kind \in {"while", "do", "switch"}
    OBVIOUS
  <2>2. QED
    BY <1>1, <1>3, <1>5, <1>8, <2>1, OpensDeclared
<1>10. PICK c \in Contexts : c = InSwitch(w)
  BY DEF InSwitch, Contexts
<1>11. c.kind = "Switch" /\ c.variable = w /\ w # 0
  BY <1>10 DEF InSwitch
<1>12. PICK t \in Nat : t = Len(nest) + 1
  BY <1>1, NestIs
<1>13. DeclaredAt(h, t, w)'
  <2>1. nest'[t] = x /\ t - 1 = Len(nest) /\ Len(nest) \in Nat
        /\ \A l \in 1..(t - 1) : l \in DOMAIN nest /\ nest'[l] = nest[l]
    <3>1. x \in Nested /\ Pushed(x) /\ Blocked
      BY <1>1, <1>6, <1>7
    <3>2. nest'[Len(nest) + 1] = x /\ \A i \in DOMAIN nest : nest'[i] = nest[i]
      BY <3>1, PushIs
    <3>3. DOMAIN nest = 1..Len(nest) /\ Len(nest) \in Nat
      BY <3>1, NestIs
    <3>4. QED
      BY <1>12, <3>2, <3>3
  <2>2. Ats(t - 1)' = Ats(t - 1)
    BY <2>1 DEF Ats
  <2>3. BlocksAt(h)' = Ats(t - 1)
    BY <1>1, <1>9, <2>1 DEF Blocked, NestInv
  <2>4. \A l \in 1..(t - 1) : nest'[l].at \in Ats(t - 1)
    BY <2>1 DEF Ats
  <2>5. h < nest'[t].at
    BY <1>3, <1>7, <2>1
  <2>6. QED
    BY <1>9, <2>2, <2>3, <2>4, <2>5 DEF DeclaredAt
<1>14. PICK g : Entries(g)' /\ \A j \in DOMAIN continueCtx : g[j] = f[j]
  <2>1. /\ (c.kind = "Loop" <=> x.kind = "loop")
        /\ x.kind = "loop" \/ (Tracked(x.kind) /\ continueCtx # <<>>)
        /\ continueCtx' = Append(continueCtx, c)
    BY <1>7, <1>10, <1>11
  <2>2. /\ c.variable # 0 /\ continueCtx # <<>>
        /\ OnSwitch(continueCtx) => Innermost(continueCtx).variable = c.variable
        /\ \E d \in DOMAIN code' : DeclaredAt(d, t, c.variable)'
    <3>1. DeclaredAt(h, t, c.variable)'
      BY <1>11, <1>13
    <3>2. QED
      BY <1>9, <1>11, <3>1
  <2>3. QED
    BY <1>1, <1>2, <1>7, <1>9, <1>12, <2>1, <2>2, EntryPush
<1>15. /\ continueCtx' \in Seq(Contexts)
       /\ \A j \in DOMAIN continueCtx : j \in DOMAIN continueCtx' /\ continueCtx'[j] = continueCtx[j]
  BY <1>1, <1>10, ContextPush
<1>16. JumpInv(g)'
  <2>1. /\ x.at > Len(code) /\ x.at \in DOMAIN code' /\ code'[x.at].op = WordOf(x.kind)
        /\ BlocksAt(x.at)' = BlocksAt(Here) /\ BlocksAt(Here)' = BlocksAt(Here) \cup {x.at}
    BY <1>6, <1>7, <1>9
  <2>2. \A j \in DOMAIN continueCtx : /\ j \in DOMAIN continueCtx' /\ g[j] = f[j]
                                      /\ continueCtx'[j] = continueCtx[j]
    BY <1>14, <1>15
  <2>3. QED
    BY <1>1, <1>2, <1>7, <1>9, <2>1, <2>2, OpenedNest
<1>17. ForwardType'
  <2>1. nest' \in Seq(Nested)
    BY <1>1, <1>7, PushIs
  <2>2. code' \in Seq(Tokens)
    BY <1>9 DEF Grows
  <2>3. QED
    BY <1>1, <1>15, <2>1, <2>2 DEF ForwardType
<1>18. QED
  BY <1>9, <1>14, <1>16, <1>17, Assembled

(* A switch in a switch has the outer one's variable. *)
LEMMA InnerOpens ==
  ASSUME ForwardInv, NEW kind \in {"switch", "do"}, backend' = backend,
         Tracked(kind), OnSwitch(continueCtx), named' = named,
         OpenBlock(kind, <<>>),
         continueCtx' = Append(continueCtx, InSwitch(Innermost(continueCtx).variable))
  PROVE  ForwardInv'
<1>1. Blocked /\ CodeInv /\ ForwardType
  BY DEF ForwardInv, Blocked
<1>2. PICK f : Entries(f) /\ JumpInv(f)
  BY DEF ForwardInv, Entries
<1>3. PICK h \in Nat : h = Here
  BY <1>1, NestIs
<1>4. code' = Append(code, Opener(kind)) /\ Pushed([kind |-> BlockFor(kind), at |-> h])
  BY <1>1, <1>3, BlockOpened
<1>5. PICK x \in Nested : x = [kind |-> BlockFor(kind), at |-> h]
  BY OpenerIs
<1>6. x.kind = kind /\ x.at = h /\ Pushed(x) /\ WordOf(x.kind) = kind /\ x.kind # "loop"
  BY <1>4, <1>5 DEF BlockFor, WordOf
<1>7. /\ Grows /\ NestInv' /\ CodeInv' /\ h > Len(code) /\ h \in DOMAIN code'
      /\ code'[h].op = kind /\ BlocksAt(h)' = BlocksAt(Here)
      /\ BlocksAt(Here)' = BlocksAt(Here) \cup {h}
      /\ \A p \in Here..Len(code') : code'[p].op \in PlainOps
  BY <1>1, <1>3, <1>4, OpensOne
<1>8. PICK n \in DOMAIN continueCtx : n = Len(continueCtx) /\ continueCtx # <<>>
  BY <1>1, NestIs DEF OnSwitch
<1>9. continueCtx[n].kind = "Switch" /\ continueCtx[n] \in Contexts /\ Innermost(continueCtx) = continueCtx[n]
  BY <1>1, <1>8 DEF OnSwitch, Innermost, ForwardType
<1>10. PICK v \in Nat, d \in DOMAIN code : v = continueCtx[n].variable /\ DeclaredAt(d, f[n], v)
  BY <1>2, <1>9 DEF Entries, SwitchInv
<1>11. v # 0
  BY <1>2, <1>9, <1>10 DEF Entries, SwitchInv
<1>12. PICK c \in Contexts : c = InSwitch(v)
  BY DEF InSwitch, Contexts
<1>13. c.kind = "Switch" /\ c.variable = v /\ continueCtx' = Append(continueCtx, c)
  BY <1>9, <1>10, <1>12 DEF InSwitch
<1>14. PICK t \in Nat : t = Len(nest) + 1
  BY <1>1, NestIs
<1>15. DeclaredAt(d, t, v)'
  <2>1. PICK m \in DOMAIN nest : m = f[n]
    BY <1>2 DEF Entries, Places
  <2>2. \A l \in Loops : l <= m
    BY <1>1, <1>2, <1>8, <2>1, Innermosts DEF Entries
  <2>3. nest[m].kind # "loop"
    BY <1>2, <1>9, <2>1 DEF Entries, Places
  <2>4. /\ nest'[t] = x /\ t - 1 = Len(nest) /\ Len(nest) \in Nat /\ m \in 1..(t - 1)
        /\ \A l \in 1..(t - 1) : l \in DOMAIN nest /\ nest'[l] = nest[l]
    BY <1>1, <1>6, <1>14, PushIs, NestIs
  <2>5. Ats(t - 1)' = Ats(t - 1)
    BY <2>4 DEF Ats
  <2>6. Ats(m - 1) \subseteq Ats(t - 1)
    <3>1. 1..(m - 1) \subseteq 1..(t - 1)
      BY <2>4
    <3>2. QED
      BY <3>1 DEF Ats
  <2>7. d \in 1..Here /\ BlocksAt(d)' = BlocksAt(d) /\ d \in DOMAIN code' /\ code'[d] = code[d]
        /\ d <= Len(code) /\ d \in Nat /\ Len(code) \in Nat
    <3>1. d \in 1..Here
      BY <1>1, NestIs DEF Here
    <3>2. QED
      BY <1>1, <1>7, <3>1, BlocksStay, NestIs DEF Grows
  <2>8. /\ code[d].op = "declare" /\ code[d].variable = v /\ BlocksAt(d) \subseteq Ats(m - 1)
        /\ \A l \in 1..(m - 1) : nest[l].kind = "loop" => nest[l].at \in BlocksAt(d)
    BY <1>10, <2>1 DEF DeclaredAt
  <2>9. ASSUME NEW l \in 1..(t - 1), nest'[l].kind = "loop" PROVE nest'[l].at \in BlocksAt(d)
    <3>1. l \in DOMAIN nest /\ nest'[l] = nest[l]
      BY <2>4
    <3>2. l \in Loops
      BY <2>9, <3>1 DEF Loops
    <3>3. l <= m /\ l # m
      BY <2>2, <2>3, <2>9, <3>1, <3>2
    <3>4. l \in 1..(m - 1)
      BY <2>4, <3>3
    <3>5. QED
      BY <2>8, <2>9, <3>1, <3>4
  <2>10. d < nest'[t].at
    BY <1>6, <1>7, <2>4, <2>7
  <2>11. BlocksAt(d)' \subseteq Ats(t - 1)'
    BY <2>5, <2>6, <2>7, <2>8
  <2>12. \A l \in 1..(t - 1) : nest'[l].kind = "loop" => nest'[l].at \in BlocksAt(d)'
    BY <2>7, <2>9
  <2>13. QED
    BY <2>7, <2>8, <2>10, <2>11, <2>12 DEF DeclaredAt
<1>16. PICK g : Entries(g)' /\ \A j \in DOMAIN continueCtx : g[j] = f[j]
  <2>1. /\ (c.kind = "Loop" <=> x.kind = "loop")
        /\ x.kind = "loop" \/ (Tracked(x.kind) /\ continueCtx # <<>>)
    BY <1>6, <1>8, <1>13
  <2>2. /\ c.variable # 0 /\ continueCtx # <<>>
        /\ OnSwitch(continueCtx) => Innermost(continueCtx).variable = c.variable
        /\ \E e \in DOMAIN code' : DeclaredAt(e, t, c.variable)'
    <3>1. DeclaredAt(d, t, c.variable)' /\ d \in DOMAIN code'
      BY <1>7, <1>13, <1>15 DEF Grows
    <3>2. QED
      BY <1>8, <1>9, <1>10, <1>11, <1>13, <3>1
  <2>3. QED
    BY <1>1, <1>2, <1>6, <1>7, <1>13, <1>14, <2>1, <2>2, EntryPush
<1>17. /\ continueCtx' \in Seq(Contexts)
       /\ \A j \in DOMAIN continueCtx : j \in DOMAIN continueCtx' /\ continueCtx'[j] = continueCtx[j]
  BY <1>1, <1>13, ContextPush
<1>18. JumpInv(g)'
  <2>1. /\ x.at > Len(code) /\ x.at \in DOMAIN code' /\ code'[x.at].op = WordOf(x.kind)
        /\ BlocksAt(x.at)' = BlocksAt(Here) /\ BlocksAt(Here)' = BlocksAt(Here) \cup {x.at}
    BY <1>5, <1>6, <1>7
  <2>2. \A j \in DOMAIN continueCtx : /\ j \in DOMAIN continueCtx' /\ g[j] = f[j]
                                      /\ continueCtx'[j] = continueCtx[j]
    BY <1>16, <1>17
  <2>3. QED
    BY <1>1, <1>2, <1>6, <1>7, <2>1, <2>2, OpenedNest
<1>19. ForwardType'
  <2>1. nest' \in Seq(Nested)
    BY <1>1, <1>6, PushIs
  <2>2. code' \in Seq(Tokens)
    BY <1>7 DEF Grows
  <2>3. QED
    BY <1>1, <1>17, <2>1, <2>2 DEF ForwardType
<1>20. QED
  BY <1>7, <1>16, <1>18, <1>19, Assembled

(* OpenSwitch: enter_switch does one of these. *)
LEMMA SwitchOpens == \A kind \in {"switch", "do"} : ForwardInv /\ OpenSwitch(kind) => ForwardInv'
<1> SUFFICES ASSUME NEW kind \in {"switch", "do"}, ForwardInv, OpenSwitch(kind)
             PROVE  ForwardInv'
  OBVIOUS
<1>1. backend' = backend
  BY DEF OpenSwitch
<1>2. CASE /\ ~Tracked(kind) \/ continueCtx = <<>>
           /\ OpenBlock(kind, <<>>)
           /\ UNCHANGED <<continueCtx, named>>
  BY <1>1, <1>2, BareOpens
<1>3. CASE /\ Tracked(kind) /\ continueCtx # <<>> /\ ~OnSwitch(continueCtx)
           /\ named' = named + 1
           /\ OpenBlock(kind, <<Token("declare", named + 1, 0)>>)
           /\ continueCtx' = Append(continueCtx, InSwitch(named + 1))
  <2>1. PICK w \in Nat : w = named + 1 /\ w # 0
    BY DEF ForwardInv, ForwardType
  <2>2. OpenBlock(kind, <<Token("declare", w, 0)>>)
    BY <1>3, <2>1
  <2>3. continueCtx' = Append(continueCtx, InSwitch(w)) /\ named' \in Nat /\ w \in Nat /\ w # 0
        /\ Tracked(kind) /\ continueCtx # <<>> /\ ~OnSwitch(continueCtx)
    BY <1>3, <2>1
  <2>4. QED
    BY <1>1, <2>2, <2>3, FirstOpens
<1>4. CASE /\ Tracked(kind) /\ OnSwitch(continueCtx)
           /\ OpenBlock(kind, <<>>)
           /\ continueCtx' = Append(continueCtx, InSwitch(Innermost(continueCtx).variable))
           /\ UNCHANGED named
  BY <1>1, <1>4, InnerOpens
<1>5. QED
  BY <1>2, <1>3, <1>4 DEF OpenSwitch

-----------------------------------------------------------------------------
(* A continue is written. *)

(* Where the same blocks are open, all that is said of them is the same. *)
LEMMA SameBlocks ==
  \A y, z : BlocksAt(y) = BlocksAt(z)
              => /\ WhileAt(y) = WhileAt(z) /\ LoopAt(y) = LoopAt(z) /\ BlockAt(y) = BlockAt(z)
                 /\ SplitAt(y) <=> SplitAt(z)
                 /\ IterationAt(y) = IterationAt(z)
<1> SUFFICES ASSUME NEW p, NEW q, BlocksAt(p) = BlocksAt(q)
             PROVE  /\ WhileAt(p) = WhileAt(q) /\ LoopAt(p) = LoopAt(q) /\ BlockAt(p) = BlockAt(q)
                    /\ SplitAt(p) <=> SplitAt(q)
                    /\ IterationAt(p) = IterationAt(q)
  OBVIOUS
<1>1. WhileAt(p) = WhileAt(q)
  BY DEF WhileAt
<1>2. LoopAt(p) = LoopAt(q) /\ BlockAt(p) = BlockAt(q)
  BY <1>1 DEF LoopAt, BlockAt
<1>3. SplitAt(p) <=> SplitAt(q)
  BY <1>2 DEF SplitAt
<1>4. IterationAt(p) = IterationAt(q)
  BY Zenon DEF IterationAt
<1>5. QED
  BY <1>1, <1>2, <1>3, <1>4

(* The block that is written is the innermost statement's. *)
LEMMA TopBlock ==
  Blocked /\ nest # <<>>
    => /\ Len(nest) \in DOMAIN nest /\ nest[Len(nest)].at \in BlocksAt(Here)
       /\ BlockAt(Here) = nest[Len(nest)].at
<1> SUFFICES ASSUME Blocked, nest # <<>>
             PROVE  /\ Len(nest) \in DOMAIN nest /\ nest[Len(nest)].at \in BlocksAt(Here)
                    /\ BlockAt(Here) = nest[Len(nest)].at
  OBVIOUS
<1>1. nest \in Seq(Nested)
  BY DEF Blocked, ForwardType
<1>2. PICK t \in DOMAIN nest : t = Len(nest)
  BY <1>1
<1>3. PICK a \in Nat : a = nest[t].at
  BY <1>2, NestIs
<1>4. PICK n \in Nat : n = Len(code)
  BY NestIs
<1>5. a \in BlocksAt(Here)
  BY <1>2, <1>3, NestIs
<1>6. \A k \in BlocksAt(Here) : k <= a
  <2>1. ASSUME NEW i \in DOMAIN nest PROVE nest[i].at <= a
    <3>1. i = t \/ i < t
      BY <1>2, NestIs
    <3>2. i < t => nest[i].at < a
      BY <1>2, <1>3 DEF Blocked, NestInv
    <3>3. nest[i].at \in Nat
      BY NestIs
    <3>4. QED
      BY <1>3, <3>1, <3>2, <3>3
  <2>2. QED
    BY <2>1, NestIs
<1>7. BlocksAt(Here) \subseteq 0..n
  <2>1. ASSUME NEW i \in DOMAIN nest PROVE nest[i].at \in 0..n
    BY <1>4, NestIs
  <2>2. QED
    BY <2>1, NestIs
<1>8. BlockAt(Here) = a
  BY <1>4, <1>5, <1>6, <1>7, MaxOnly DEF BlockAt
<1>9. QED
  BY <1>2, <1>3, <1>5, <1>8

(* Where a switch has been told of a continue, its block has an entry that says so. *)
LEMMA JumpHere ==
  \A e, o, w : Blocked /\ Entries(e) /\ OnSwitch(continueCtx) /\ Innermost(continueCtx).encountered
         /\ ~SplitAt(Here) /\ o = BlockAt(Here) /\ w = Innermost(continueCtx).variable
           => code[o].op # "while" /\ o \in BlocksAt(Here) /\ Entered(e, o, w)
<1> SUFFICES ASSUME NEW f, NEW o, NEW v, Blocked, Entries(f), OnSwitch(continueCtx),
                    Innermost(continueCtx).encountered, ~SplitAt(Here),
                    o = BlockAt(Here), v = Innermost(continueCtx).variable
             PROVE  code[o].op # "while" /\ o \in BlocksAt(Here) /\ Entered(f, o, v)
  OBVIOUS
<1>1. f[Len(continueCtx)] = Len(nest)
  BY TopSwitch DEF Entries
<1>2. PICK n \in DOMAIN continueCtx : n = Len(continueCtx) /\ Innermost(continueCtx) = continueCtx[n]
  BY DEF OnSwitch, Blocked, ForwardType, Innermost
<1>3. f[n] \in DOMAIN nest
  BY <1>2 DEF Entries, Places
<1>4. nest # <<>>
  BY <1>3
<1>5. f[n] = Len(nest) /\ o = nest[f[n]].at /\ o \in BlocksAt(Here)
  BY <1>1, <1>2, <1>4, TopBlock
<1>6. continueCtx[n].kind = "Switch"
  BY <1>2 DEF OnSwitch
<1>7. nest[f[n]].kind # "loop" /\ nest[f[n]].kind \in {"loop", "do", "switch"}
  BY <1>2, <1>3, <1>6, NestIs DEF Entries, Places
<1>8. code[o].op # "while"
  BY <1>3, <1>5, <1>7, NestIs DEF WordOf
<1>9. Entered(f, o, v)
  BY <1>2, <1>5, <1>6 DEF Entered
<1>10. QED
  BY <1>5, <1>8, <1>9

(* Encountered marks the innermost entry and leaves the others. *)
LEMMA EncounteredIs ==
  ASSUME NEW stack \in Seq(Contexts), stack # <<>>
  PROVE  /\ Encountered(stack) \in Seq(Contexts) /\ Len(Encountered(stack)) = Len(stack)
         /\ DOMAIN Encountered(stack) = DOMAIN stack
         /\ \A j \in DOMAIN stack : /\ Encountered(stack)[j].kind = stack[j].kind
                                    /\ Encountered(stack)[j].variable = stack[j].variable
                                    /\ stack[j].encountered => Encountered(stack)[j].encountered
         /\ Innermost(Encountered(stack)).encountered
<1>1. PICK n \in 1..Len(stack) : n = Len(stack)
  OBVIOUS
<1>2. stack[n] \in Contexts /\ DOMAIN stack = 1..n
  BY <1>1
<1>3. PICK c \in Contexts : c = [stack[n] EXCEPT !.encountered = TRUE]
  BY <1>2 DEF Contexts
<1>4. c.kind = stack[n].kind /\ c.variable = stack[n].variable /\ c.encountered
  BY <1>2, <1>3 DEF Contexts
<1>5. Encountered(stack) = [stack EXCEPT ![n] = c]
  BY <1>1, <1>3 DEF Encountered
<1>6. /\ Encountered(stack) \in Seq(Contexts) /\ Len(Encountered(stack)) = n
      /\ DOMAIN Encountered(stack) = DOMAIN stack
      /\ Encountered(stack)[n] = c /\ \A j \in DOMAIN stack : j # n => Encountered(stack)[j] = stack[j]
  BY <1>1, <1>2, <1>5
<1>7. QED
  BY <1>1, <1>4, <1>6 DEF Innermost

(* What is asked of a jump that is written. *)
LEMMA JumpCode ==
  ASSUME Blocked, Grows, NEW k \in 0..Len(nest), NEW p \in Nat, BlocksAt(p)' = Ats(k),
         code'[p].op \in Jumps, WhileAt(p)' # {},
         code'[p].op \in Checks => p > 1 /\ code'[p].variable # 0,
         code'[p].op \in {"continue", "if-continue"} => IterationAt(p)' = LoopAt(p)',
         code'[p].op \in {"continue", "forward"} => code'[p].of = LoopAt(p)',
         code'[p].op = "forward" => ResetEachIteration(p)'
  PROVE  CodeAt(p)'
<1>1. \A o \in BlocksAt(p)' : BlocksAt(o)' \subseteq BlocksAt(p)'
  BY Nesting
<1>2. BlocksAt(p)' # {}
  BY DEF WhileAt
<1>3. code'[p].op # "close"
  BY DEF Jumps
<1>4. QED
  BY <1>1, <1>2, <1>3 DEF CodeAt, Checks

(* A continue that is forwarded: continue_encountered marks the switch it  *)
(* leaves.                                                                 *)
LEMMA ForwardKeeps ==
  ASSUME ForwardInv, WriteContinue, OnSwitch(continueCtx)
  PROVE  ForwardInv'
<1>1. Blocked /\ CodeInv /\ ForwardType
  BY DEF ForwardInv, Blocked
<1>2. PICK f : Entries(f) /\ JumpInv(f)
  BY DEF ForwardInv, Entries
<1>3. PICK h \in Nat : h = Here
  BY <1>1, NestIs
<1>4. /\ backend' = backend /\ nest' = nest /\ named' = named /\ Loops # {}
      /\ code' = Append(code, Token("forward", Innermost(continueCtx).variable, SourceLoop))
      /\ continueCtx' = Encountered(continueCtx)
  BY DEF WriteContinue
<1>5. PICK n \in DOMAIN continueCtx :
         n = Len(continueCtx) /\ Innermost(continueCtx) = continueCtx[n] /\ continueCtx # <<>>
         /\ continueCtx[n].kind = "Switch" /\ continueCtx[n] \in Contexts
  BY <1>1 DEF OnSwitch, Innermost, ForwardType
<1>6. PICK v \in Nat : v = Innermost(continueCtx).variable
  BY <1>5 DEF Contexts
<1>7. LoopAt(Here) = SourceLoop /\ Max(Loops) \in Loops
  BY <1>1, <1>4, WhilesHere
<1>8. PICK s \in Nat : s = SourceLoop
  BY <1>1, <1>7, NestIs DEF SourceLoop, Loops
<1>9. PICK t \in Tokens : t = Token("forward", v, s)
  BY DEF Token, Tokens, TokenOps
<1>10. t.op = "forward" /\ t.variable = v /\ t.of = s
  BY <1>9 DEF Token
<1>11. code' = Append(code, t)
  BY <1>4, <1>6, <1>8, <1>9
<1>12. /\ Grows /\ Len(code') = h /\ DOMAIN code' = 1..h /\ code'[h] = t
       /\ BlocksAt(h)' = BlocksAt(Here) /\ BlocksAt(Here)' = BlocksAt(Here)
  <2>1. /\ Grows /\ Len(code') = h /\ DOMAIN code' = 1..h /\ code'[h] = t
        /\ BlocksAt(h)' = BlocksAt(Here) /\ BlocksAt(Here)' = After(BlocksAt(Here), h, t)
    BY <1>1, <1>3, <1>4, <1>11, WriteOne
  <2>2. After(BlocksAt(Here), h, t) = BlocksAt(Here)
    BY <1>10 DEF After, Openers
  <2>3. QED
    BY <2>1, <2>2
<1>13. /\ continueCtx' \in Seq(Contexts) /\ DOMAIN continueCtx' = DOMAIN continueCtx
       /\ Len(continueCtx') = n
       /\ \A j \in DOMAIN continueCtx : /\ continueCtx'[j].kind = continueCtx[j].kind
                                        /\ continueCtx'[j].variable = continueCtx[j].variable
                                        /\ continueCtx[j].encountered => continueCtx'[j].encountered
       /\ Innermost(continueCtx)'.encountered
  <2>1. continueCtx \in Seq(Contexts)
    BY <1>1 DEF ForwardType
  <2>2. Innermost(continueCtx)' = Innermost(Encountered(continueCtx))
    BY <1>4
  <2>3. QED
    BY <1>4, <1>5, <2>1, <2>2, EncounteredIs
<1>14. ForwardType'
  <2>1. code' \in Seq(Tokens)
    BY <1>12 DEF Grows
  <2>2. QED
    BY <1>1, <1>4, <1>13, <2>1 DEF ForwardType
<1>15. NestInv'
  <2>1. BlocksAt(Here)' = Ats(Len(nest'))
    BY <1>1, <1>4, <1>12 DEF Blocked, NestInv
  <2>2. nest' \in Seq(Nested) /\ Len(nest') <= Len(nest) /\ \A i \in DOMAIN nest' : nest'[i] = nest[i]
    BY <1>1, <1>4 DEF ForwardType
  <2>3. QED
    BY <1>1, <1>12, <2>1, <2>2, NestLeft
<1>16. PICK g : Entries(g)' /\ \A j \in DOMAIN continueCtx' : g[j] = f[j]
  <2>1. Alike
    BY <1>13 DEF Alike
  <2>2. nest' \in Seq(Nested) /\ \A i \in DOMAIN nest' : i \in DOMAIN nest /\ nest'[i] = nest[i]
    BY <1>1, <1>4 DEF ForwardType
  <2>3. \A j \in DOMAIN continueCtx : f[j] \in DOMAIN nest' <=> j \in DOMAIN continueCtx'
    BY <1>2, <1>4, <1>13 DEF Entries, Places
  <2>4. QED
    BY <1>1, <1>2, <1>12, <2>1, <2>2, <2>3, EntriesLeft
<1>17. Blocked'
  BY <1>14, <1>15 DEF Blocked
<1>18. /\ Innermost(continueCtx)'.variable = v /\ OnSwitch(continueCtx)'
  <2>1. Innermost(continueCtx)' = continueCtx'[n]
    BY <1>13 DEF Innermost
  <2>2. continueCtx' # <<>>
    BY <1>13
  <2>3. QED
    BY <1>5, <1>6, <1>13, <2>1, <2>2 DEF OnSwitch
<1>19. /\ WhileAt(h)' = WhileAt(Here)' /\ LoopAt(h)' = LoopAt(Here)' /\ BlockAt(h)' = BlockAt(Here)'
       /\ SplitAt(h)' <=> SplitAt(Here)'
  <2>1. (\A y, z : BlocksAt(y) = BlocksAt(z)
              => /\ WhileAt(y) = WhileAt(z) /\ LoopAt(y) = LoopAt(z) /\ BlockAt(y) = BlockAt(z)
                 /\ SplitAt(y) <=> SplitAt(z)
                 /\ IterationAt(y) = IterationAt(z))'
    BY SameBlocks, PTL
  <2>2. PICK q : q = Here'
    OBVIOUS
  <2>3. BlocksAt(h)' = BlocksAt(q)'
    BY <1>12, <2>2
  <2>4. /\ WhileAt(h)' = WhileAt(q)' /\ LoopAt(h)' = LoopAt(q)' /\ BlockAt(h)' = BlockAt(q)'
        /\ SplitAt(h)' <=> SplitAt(q)'
    BY <2>1, <2>3
  <2>5. QED
    BY <2>2, <2>4
<1>20. JumpAt(g, h)'
  <2>1. (\A e, o, w : Blocked /\ Entries(e) /\ OnSwitch(continueCtx) /\ Innermost(continueCtx).encountered
         /\ ~SplitAt(Here) /\ o = BlockAt(Here) /\ w = Innermost(continueCtx).variable
           => code[o].op # "while" /\ o \in BlocksAt(Here) /\ Entered(e, o, w))'
    BY JumpHere, PTL
  <2>2. PICK o : o = BlockAt(Here)'
    OBVIOUS
  <2>3. o = BlockAt(h)' /\ code'[h].variable = v
    BY <1>10, <1>12, <1>19, <2>2
  <2>4. ASSUME ~SplitAt(h)'
        PROVE  code'[o].op # "while" /\ o \in BlocksAt(Here)' /\ Entered(g, o, v)'
    BY <1>13, <1>16, <1>17, <1>18, <1>19, <2>1, <2>2, <2>4
  <2>5. (code[h].op \in {"forward", "if-break"} /\ ~SplitAt(h) =>
            /\ code[BlockAt(h)].op # "while"
            /\ IF BlockAt(h) \in BlocksAt(Here)
               THEN Entered(g, BlockAt(h), code[h].variable)
               ELSE Answered(h, BlockAt(h), code[h].variable))'
    BY <2>3, <2>4
  <2>6. QED
    BY <2>5 DEF JumpAt
<1>21. JumpInv(g)'
  <2>1. FreshChecks
    BY <1>3, <1>10, <1>12 DEF FreshChecks, Checks
  <2>2. \A p \in Here..Len(code') : JumpAt(g, p)'
    BY <1>3, <1>12, <1>20
  <2>3. Passed(f, g)
    <3>1. \A o \in BlocksAt(Here)' \cap DOMAIN code :
            \E i \in DOMAIN nest : i \in DOMAIN nest' /\ o = nest[i].at
      BY <1>1, <1>4, <1>12, NestIs
    <3>2. \A i \in DOMAIN nest : i \in DOMAIN nest' => nest'[i] = nest[i]
      BY <1>4
    <3>3. QED
      BY <1>1, <1>2, <1>13, <1>16, <3>1, <3>2, PassedOn DEF Entries
  <2>4. Closed(f)
    BY <1>12, ClosedNone
  <2>5. BlocksAt(Here)' \cap DOMAIN code \subseteq BlocksAt(Here)
    BY <1>12
  <2>6. QED
    BY <1>1, <1>2, <1>12, <2>1, <2>2, <2>3, <2>4, <2>5, JumpsKept
<1>22. CodeAt(h)'
  <2>1. WhileAt(h)' = WhileAt(Here) /\ LoopAt(h)' = LoopAt(Here) /\ WhileAt(Here) # {}
    <3>1. h \in 1..Here
      BY <1>1, <1>3, NestIs DEF Here
    <3>2. WhileAt(h)' = WhileAt(h) /\ LoopAt(h)' = LoopAt(h)
      BY <1>12, <3>1, WhilesStay
    <3>3. WhileAt(Here) # {}
      BY <1>1, <1>2, TopSwitch DEF Entries
    <3>4. QED
      BY <1>3, <3>2, <3>3
  <2>2. code'[h].of = LoopAt(h)'
    BY <1>7, <1>8, <1>10, <1>12, <2>1
  <2>3. ResetEachIteration(h)'
    <3>1. PICK d \in LoopAt(Here)..Here :
            /\ d \in DOMAIN code
            /\ code[d].op = "declare" /\ code[d].variable = Innermost(continueCtx).variable
            /\ LoopAt(Here) \in BlocksAt(d) /\ BlocksAt(d) \subseteq BlocksAt(Here)
      BY <1>1, <1>2, ResetHere DEF Entries
    <3>2. d \in 1..Here /\ code'[d] = code[d]
      BY <1>1, <1>12, <3>1, NestIs DEF Grows, Here
    <3>3. BlocksAt(d)' = BlocksAt(d)
      BY <1>12, <3>2, BlocksStay
    <3>4. d \in (code'[h].of)..h
      BY <1>3, <2>1, <2>2, <3>1
    <3>5. /\ code'[d].op = "declare" /\ code'[d].variable = code'[h].variable
          /\ code'[h].of \in BlocksAt(d)' /\ BlocksAt(d)' \subseteq BlocksAt(h)'
      BY <1>6, <1>10, <1>12, <2>1, <2>2, <3>1, <3>2, <3>3
    <3>6. QED
      BY <3>4, <3>5 DEF ResetEachIteration
  <2>4. PICK k \in 0..Len(nest) : k = Len(nest)
    <3>1. Len(nest) \in 0..Len(nest)
      BY <1>1, NestIs
    <3>2. QED
      BY <3>1
  <2>5. BlocksAt(h)' = Ats(k)
    BY <1>1, <1>12, <2>4 DEF Blocked, NestInv
  <2>6. /\ code'[h].op \in Jumps /\ (code'[h].op \in Checks => h > 1 /\ code'[h].variable # 0)
        /\ code'[h].op \notin {"continue", "if-continue"}
    BY <1>10, <1>12 DEF Jumps, Checks
  <2>7. QED
    BY <1>1, <1>12, <2>1, <2>2, <2>3, <2>5, <2>6, JumpCode
<1>23. CodeInv'
  <2>1. \A p \in Here..Len(code') : CodeAt(p)'
    BY <1>3, <1>12, <1>22
  <2>2. QED
    BY <1>1, <1>12, <2>1, CodeGrows
<1>24. QED
  BY <1>14, <1>15, <1>16, <1>21, <1>23, Assembled

(* A continue that is written as one. *)
LEMMA ContinueKeeps ==
  ASSUME ForwardInv, WriteContinue, ~OnSwitch(continueCtx)
  PROVE  ForwardInv'
<1>1. Blocked /\ CodeInv /\ ForwardType
  BY DEF ForwardInv, Blocked
<1>2. PICK f : Entries(f) /\ JumpInv(f)
  BY DEF ForwardInv, Entries
<1>3. PICK h \in Nat : h = Here
  BY <1>1, NestIs
<1>4. /\ backend' = backend /\ nest' = nest /\ named' = named /\ Loops # {}
      /\ code' = Append(code, Token("continue", 0, SourceLoop))
      /\ continueCtx' = continueCtx
  BY DEF WriteContinue
<1>5. LoopAt(Here) = SourceLoop /\ Max(Loops) \in Loops
  BY <1>1, <1>4, WhilesHere
<1>6. PICK s \in Nat : s = SourceLoop
  BY <1>1, <1>5, NestIs DEF SourceLoop, Loops
<1>7. PICK t \in Tokens : t = Token("continue", 0, s)
  BY DEF Token, Tokens, TokenOps
<1>8. t.op = "continue" /\ t.variable = 0 /\ t.of = s
  BY <1>7 DEF Token
<1>9. code' = Append(code, t)
  BY <1>4, <1>6, <1>7
<1>10. /\ Grows /\ Len(code') = h /\ DOMAIN code' = 1..h /\ code'[h] = t
       /\ BlocksAt(h)' = BlocksAt(Here) /\ BlocksAt(Here)' = BlocksAt(Here)
  <2>1. /\ Grows /\ Len(code') = h /\ DOMAIN code' = 1..h /\ code'[h] = t
        /\ BlocksAt(h)' = BlocksAt(Here) /\ BlocksAt(Here)' = After(BlocksAt(Here), h, t)
    BY <1>1, <1>3, <1>4, <1>9, WriteOne
  <2>2. After(BlocksAt(Here), h, t) = BlocksAt(Here)
    BY <1>8 DEF After, Openers
  <2>3. QED
    BY <2>1, <2>2
<1>11. ForwardType'
  <2>1. code' \in Seq(Tokens)
    BY <1>10 DEF Grows
  <2>2. QED
    BY <1>1, <1>4, <2>1 DEF ForwardType
<1>12. NestInv'
  <2>1. BlocksAt(Here)' = Ats(Len(nest'))
    BY <1>1, <1>4, <1>10 DEF Blocked, NestInv
  <2>2. nest' \in Seq(Nested) /\ Len(nest') <= Len(nest) /\ \A i \in DOMAIN nest' : nest'[i] = nest[i]
    BY <1>1, <1>4 DEF ForwardType
  <2>3. QED
    BY <1>1, <1>10, <2>1, <2>2, NestLeft
<1>13. PICK g : Entries(g)' /\ \A j \in DOMAIN continueCtx' : g[j] = f[j]
  <2>1. Alike
    BY <1>1, <1>4 DEF Alike, ForwardType
  <2>2. nest' \in Seq(Nested) /\ \A i \in DOMAIN nest' : i \in DOMAIN nest /\ nest'[i] = nest[i]
    BY <1>1, <1>4 DEF ForwardType
  <2>3. \A j \in DOMAIN continueCtx : f[j] \in DOMAIN nest' <=> j \in DOMAIN continueCtx'
    BY <1>2, <1>4 DEF Entries, Places
  <2>4. QED
    BY <1>1, <1>2, <1>10, <2>1, <2>2, <2>3, EntriesLeft
<1>14. JumpInv(g)'
  <2>1. FreshChecks
    BY <1>3, <1>8, <1>10 DEF FreshChecks, Checks
  <2>2. JumpAt(g, h)'
    <3>1. (code[h].op \in {"forward", "if-break"} /\ ~SplitAt(h) =>
            /\ code[BlockAt(h)].op # "while"
            /\ IF BlockAt(h) \in BlocksAt(Here)
               THEN Entered(g, BlockAt(h), code[h].variable)
               ELSE Answered(h, BlockAt(h), code[h].variable))'
      BY <1>8, <1>10
    <3>2. QED
      BY <3>1 DEF JumpAt
  <2>3. \A p \in Here..Len(code') : JumpAt(g, p)'
    BY <1>3, <1>10, <2>2
  <2>4. Passed(f, g)
    <3>1. \A o \in BlocksAt(Here)' \cap DOMAIN code :
            \E i \in DOMAIN nest : i \in DOMAIN nest' /\ o = nest[i].at
      BY <1>1, <1>4, <1>10, NestIs
    <3>2. \A i \in DOMAIN nest : i \in DOMAIN nest' => nest'[i] = nest[i]
      BY <1>4
    <3>3. QED
      BY <1>1, <1>2, <1>4, <1>13, <3>1, <3>2, PassedOn DEF Entries
  <2>5. Closed(f)
    BY <1>10, ClosedNone
  <2>6. BlocksAt(Here)' \cap DOMAIN code \subseteq BlocksAt(Here)
    BY <1>10
  <2>7. QED
    BY <1>1, <1>2, <1>10, <2>1, <2>3, <2>4, <2>5, <2>6, JumpsKept
<1>15. CodeAt(h)'
  <2>1. continueCtx # <<>>
    <3>1. PICK l \in DOMAIN nest : Recorded(l)
      BY <1>4 DEF Loops, Recorded
    <3>2. DOMAIN continueCtx # {}
      BY <1>2, <3>1 DEF Entries, Places
    <3>3. QED
      BY <3>2
  <2>2. WhileAt(Here) # {} /\ IterationAt(Here) = LoopAt(Here)
    BY <1>1, <1>2, <2>1, TopLoop DEF Entries
  <2>3. h \in 1..Here
    BY <1>1, <1>3, NestIs DEF Here
  <2>4. WhileAt(h)' = WhileAt(Here) /\ LoopAt(h)' = LoopAt(Here) /\ IterationAt(h)' = IterationAt(Here)
    <3>1. WhileAt(h)' = WhileAt(h) /\ LoopAt(h)' = LoopAt(h)
      BY <1>10, <2>3, WhilesStay
    <3>2. IterationAt(h)' = IterationAt(h)
      BY <1>10, <2>3, IterationStays
    <3>3. QED
      BY <1>3, <3>1, <3>2
  <2>5. code'[h].of = LoopAt(h)' /\ IterationAt(h)' = LoopAt(h)' /\ WhileAt(h)' # {}
    BY <1>5, <1>6, <1>8, <1>10, <2>2, <2>4
  <2>6. PICK k \in 0..Len(nest) : k = Len(nest)
    <3>1. Len(nest) \in 0..Len(nest)
      BY <1>1, NestIs
    <3>2. QED
      BY <3>1
  <2>7. BlocksAt(h)' = Ats(k)
    BY <1>1, <1>10, <2>6 DEF Blocked, NestInv
  <2>8. /\ code'[h].op \in Jumps /\ (code'[h].op \in Checks => h > 1 /\ code'[h].variable # 0)
        /\ code'[h].op # "forward"
    BY <1>8, <1>10 DEF Jumps, Checks
  <2>9. QED
    BY <1>1, <1>10, <2>5, <2>7, <2>8, JumpCode
<1>16. CodeInv'
  <2>1. \A p \in Here..Len(code') : CodeAt(p)'
    BY <1>3, <1>10, <1>15
  <2>2. QED
    BY <1>1, <1>10, <2>1, CodeGrows
<1>17. QED
  BY <1>11, <1>12, <1>13, <1>14, <1>16, Assembled

-----------------------------------------------------------------------------
(* A statement is closed. *)

(* All but the innermost. *)
LEMMA OuterIs ==
  ASSUME NEW S, NEW stack \in Seq(S), stack # <<>>
  PROVE  /\ Outer(stack) \in Seq(S) /\ Len(Outer(stack)) = Len(stack) - 1
         /\ DOMAIN Outer(stack) = 1..(Len(stack) - 1)
         /\ \A i \in 1..(Len(stack) - 1) : Outer(stack)[i] = stack[i] /\ i \in DOMAIN stack
         /\ Len(stack) \in DOMAIN stack /\ Len(stack) \in Nat /\ DOMAIN stack = 1..Len(stack)
<1>1. Len(stack) \in Nat /\ Len(stack) > 0 /\ DOMAIN stack = 1..Len(stack)
  OBVIOUS
<1>2. PICK n \in Nat : n = Len(stack) - 1
  <2>1. Len(stack) - 1 \in Nat
    BY <1>1
  <2>2. QED
    BY <2>1
<1>3. \A i \in 1..n : stack[i] \in S /\ i \in DOMAIN stack
  <2>1. \A i \in 1..n : i \in 1..Len(stack)
    BY <1>1, <1>2
  <2>2. \A i \in 1..Len(stack) : stack[i] \in S
    OBVIOUS
  <2>3. QED
    BY <1>1, <2>1, <2>2
<1>4. Outer(stack) = SubSeq(stack, 1, n)
  BY <1>2 DEF Outer
<1>5. SubSeq(stack, 1, n) = [i \in 1..n |-> stack[i]]
  BY <1>2, SMT
<1>6. DEFINE o == [i \in 1..n |-> stack[i]]
<1>7. o \in Seq(S) /\ Len(o) = n /\ DOMAIN o = 1..n /\ \A i \in 1..n : o[i] = stack[i]
  BY <1>2, <1>3
<1>8. QED
  BY <1>1, <1>2, <1>3, <1>4, <1>5, <1>7

(* No two statements have one block. *)
LEMMA OneAt ==
  ASSUME Blocked
  PROVE  \A i, j \in DOMAIN nest : nest[i].at = nest[j].at => i = j
<1> SUFFICES ASSUME NEW i \in DOMAIN nest, NEW j \in DOMAIN nest, nest[i].at = nest[j].at
             PROVE  i = j
  OBVIOUS
<1>1. i \in Nat /\ j \in Nat /\ nest[i].at \in Nat
  BY NestIs
<1>2. ~(i < j) /\ ~(j < i)
  BY <1>1 DEF Blocked, NestInv
<1>3. QED
  BY <1>1, <1>2

(* The innermost statement is closed: the blocks of the others are left. *)
LEMMA CloseBlocks ==
  ASSUME Blocked, nest # <<>>, NEW t \in Nat, t = Len(nest)
  PROVE  /\ t \in DOMAIN nest /\ nest[t].at \in BlocksAt(Here) /\ nest[t].at < Here
         /\ BlocksAt(Here) \ {nest[t].at} = Ats(t - 1) /\ BlocksAt(nest[t].at) = Ats(t - 1)
         /\ BlocksAt(Here) = Ats(t)
<1>1. t \in DOMAIN nest
  BY TopBlock
<1>2. DOMAIN nest = 1..t
  BY NestIs
<1>3. BlocksAt(Here) = Ats(t) /\ BlocksAt(nest[t].at) = Ats(t - 1)
  BY <1>1 DEF Blocked, NestInv
<1>4. 1..t = 1..(t - 1) \cup {t} /\ \A i \in 1..(t - 1) : i \in DOMAIN nest /\ i # t
  BY <1>1, <1>2
<1>5. Ats(t) = Ats(t - 1) \cup {nest[t].at}
  BY <1>4 DEF Ats
<1>6. nest[t].at \notin Ats(t - 1)
  BY <1>1, <1>4, OneAt DEF Ats
<1>7. nest[t].at < Here
  BY <1>1, NestIs DEF Here
<1>8. QED
  BY <1>1, <1>3, <1>5, <1>6, <1>7

(* The last entry is the innermost statement's, if it has one. *)
LEMMA LastEntry ==
  ASSUME Blocked, NEW f, Places(f), nest # <<>>, NEW t \in Nat, t = Len(nest), Recorded(t)
  PROVE  /\ continueCtx # <<>> /\ f[Len(continueCtx)] = t
         /\ \A j \in DOMAIN continueCtx : f[j] \in 1..(t - 1) <=> j \in 1..(Len(continueCtx) - 1)
<1>1. PICK n \in Nat : n = Len(continueCtx) /\ DOMAIN continueCtx = 1..n
  BY NestIs
<1>2. t \in DOMAIN nest /\ DOMAIN nest = 1..t
  BY TopBlock, NestIs
<1>3. PICK j \in 1..n : f[j] = t
  BY <1>1, <1>2 DEF Places
<1>4. \A k \in 1..n : f[k] \in 1..t
  BY <1>1, <1>2 DEF Places
<1>5. j = n
  <2>1. CASE j < n
    <3>1. n \in 1..n /\ f[j] < f[n]
      BY <1>1, <1>3, <2>1 DEF Places
    <3>2. f[n] \in 1..t
      BY <1>4, <3>1
    <3>3. QED
      BY <1>3, <3>1, <3>2
  <2>2. QED
    BY <1>3, <2>1
<1>6. \A k \in 1..n : k < n => f[k] < t
  BY <1>1, <1>3, <1>5 DEF Places
<1>7. continueCtx # <<>>
  BY <1>1, <1>3
<1>8. \A k \in 1..n : f[k] \in 1..(t - 1) <=> k \in 1..(n - 1)
  BY <1>3, <1>4, <1>5, <1>6
<1>9. QED
  BY <1>1, <1>3, <1>5, <1>7, <1>8

(* If it has none, all entries are those of the statements around it. *)
LEMMA NoEntry ==
  ASSUME Blocked, NEW f, Places(f), nest # <<>>, NEW t \in Nat, t = Len(nest), ~Recorded(t)
  PROVE  \A j \in DOMAIN continueCtx : f[j] \in 1..(t - 1) /\ f[j] # t
<1>1. t \in DOMAIN nest /\ DOMAIN nest = 1..t
  BY TopBlock, NestIs
<1>2. ASSUME NEW j \in DOMAIN continueCtx PROVE f[j] \in 1..t /\ f[j] # t
  BY <1>1 DEF Places
<1>3. QED
  BY <1>2

(* The innermost statement is closed, and no check is due. *)
LEMMA PlainCloses ==
  ASSUME ForwardInv, backend' = backend, named' = named, nest # <<>>, nest' = Outer(nest),
         code' = Append(code, Token("close", 0, Innermost(nest).at)),
         continueCtx' \in Seq(Contexts),
         \A j \in DOMAIN continueCtx' : j \in DOMAIN continueCtx /\ continueCtx'[j] = continueCtx[j],
         NEW f, Entries(f), JumpInv(f), NEW t \in Nat, t = Len(nest),
         \A j \in DOMAIN continueCtx : f[j] \in 1..(t - 1) <=> j \in DOMAIN continueCtx',
         \A v : ~Entered(f, nest[t].at, v)
  PROVE  ForwardInv'
<1>1. Blocked /\ CodeInv /\ ForwardType
  BY DEF ForwardInv, Blocked
<1>2. Places(f)
  BY DEF Entries
<1>3. PICK h \in Nat : h = Here
  BY <1>1, NestIs
<1>6. PICK a \in Nat : a = nest[t].at
  BY <1>1, CloseBlocks, NestIs
<1>7. /\ t \in DOMAIN nest /\ a \in BlocksAt(Here) /\ a < h
      /\ BlocksAt(Here) \ {a} = Ats(t - 1) /\ BlocksAt(Here) = Ats(t)
      /\ Innermost(nest) = nest[t]
  BY <1>1, <1>3, <1>6, CloseBlocks DEF Innermost
<1>8. PICK c \in Tokens : c = Token("close", 0, a)
  BY DEF Token, Tokens, TokenOps
<1>9. c.op = "close" /\ c.variable = 0 /\ c.of = a
  BY <1>8 DEF Token
<1>10. code' = Append(code, c)
  BY <1>6, <1>7, <1>8
<1>11. /\ Grows /\ Len(code') = h /\ DOMAIN code' = 1..h /\ code'[h] = c
       /\ BlocksAt(h)' = Ats(t) /\ BlocksAt(Here)' = Ats(t - 1)
  <2>1. /\ Grows /\ Len(code') = h /\ DOMAIN code' = 1..h /\ code'[h] = c
        /\ BlocksAt(h)' = BlocksAt(Here) /\ BlocksAt(Here)' = After(BlocksAt(Here), h, c)
    BY <1>1, <1>3, <1>10, WriteOne
  <2>2. After(BlocksAt(Here), h, c) = BlocksAt(Here) \ {a}
    BY <1>9 DEF After, Openers
  <2>3. QED
    BY <1>7, <2>1, <2>2
<1>12. /\ nest' \in Seq(Nested) /\ Len(nest') = t - 1 /\ DOMAIN nest' = 1..(t - 1)
       /\ \A i \in 1..(t - 1) : nest'[i] = nest[i] /\ i \in DOMAIN nest
       /\ DOMAIN nest = 1..t
  <2>1. nest \in Seq(Nested)
    BY <1>1 DEF ForwardType
  <2>2. QED
    BY <2>1, OuterIs
<1>17. ForwardType'
  <2>1. code' \in Seq(Tokens)
    BY <1>11 DEF Grows
  <2>2. QED
    BY <1>1, <1>12, <2>1 DEF ForwardType
<1>18. NestInv'
  <2>1. BlocksAt(Here)' = Ats(Len(nest'))
    BY <1>11, <1>12
  <2>2. nest' \in Seq(Nested) /\ Len(nest') <= Len(nest) /\ \A i \in DOMAIN nest' : nest'[i] = nest[i]
    BY <1>12
  <2>3. QED
    BY <1>1, <1>11, <2>1, <2>2, NestLeft
<1>19. PICK g : Entries(g)' /\ \A j \in DOMAIN continueCtx' : g[j] = f[j]
  <2>1. Alike
    BY DEF Alike
  <2>2. nest' \in Seq(Nested) /\ \A i \in DOMAIN nest' : i \in DOMAIN nest /\ nest'[i] = nest[i]
    BY <1>12
  <2>3. \A j \in DOMAIN continueCtx : f[j] \in DOMAIN nest' <=> j \in DOMAIN continueCtx'
    BY <1>12
  <2>4. QED
    BY <1>1, <1>2, <1>11, <2>1, <2>2, <2>3, EntriesLeft
<1>20. JumpInv(g)'
  <2>1. FreshChecks
    BY <1>3, <1>9, <1>11 DEF FreshChecks, Checks
  <2>2. JumpAt(g, h)'
    <3>1. (code[h].op \in {"forward", "if-break"} /\ ~SplitAt(h) =>
            /\ code[BlockAt(h)].op # "while"
            /\ IF BlockAt(h) \in BlocksAt(Here)
               THEN Entered(g, BlockAt(h), code[h].variable)
               ELSE Answered(h, BlockAt(h), code[h].variable))'
      BY <1>9, <1>11
    <3>2. QED
      BY <3>1 DEF JumpAt
  <2>3. \A p \in Here..Len(code') : JumpAt(g, p)'
    BY <1>3, <1>11, <2>2
  <2>4. Passed(f, g)
    <3>1. \A o \in BlocksAt(Here)' \cap DOMAIN code :
            \E i \in DOMAIN nest : i \in DOMAIN nest' /\ o = nest[i].at
      BY <1>11, <1>12 DEF Ats
    <3>2. \A i \in DOMAIN nest : i \in DOMAIN nest' => nest'[i] = nest[i]
      BY <1>12
    <3>3. \A j \in DOMAIN continueCtx : f[j] \in DOMAIN nest' =>
            /\ j \in DOMAIN continueCtx' /\ g[j] = f[j]
            /\ continueCtx'[j].kind = continueCtx[j].kind
            /\ continueCtx'[j].variable = continueCtx[j].variable
            /\ continueCtx[j].encountered => continueCtx'[j].encountered
      BY <1>12, <1>19
    <3>4. QED
      BY <1>1, <1>2, <3>1, <3>2, <3>3, PassedOn
  <2>5. Closed(f)
    <3>1. ASSUME NEW o, NEW v, o \in BlocksAt(Here), o \notin BlocksAt(Here)'
          PROVE  ~Entered(f, o, v)
      <4>1. o = a
        BY <1>7, <1>11, <3>1
      <4>2. QED
        BY <1>6, <4>1
    <3>2. QED
      BY <3>1 DEF Closed
  <2>6. BlocksAt(Here)' \cap DOMAIN code \subseteq BlocksAt(Here)
    BY <1>7, <1>11
  <2>7. QED
    BY <1>1, <1>2, <1>11, <2>1, <2>3, <2>4, <2>5, <2>6, JumpsKept
<1>21. CodeAt(h)'
  <2>1. t \in 0..Len(nest)
    OBVIOUS
  <2>2. /\ code'[h].op \in PlainOps /\ (code'[h].op = "close" => code'[h].of < h)
        /\ (code'[h].variable # 0 => Ats(t) # {})
    BY <1>7, <1>9, <1>11 DEF PlainOps
  <2>3. QED
    BY <1>1, <1>11, <2>1, <2>2, PlainCode
<1>22. CodeInv'
  <2>1. \A p \in Here..Len(code') : CodeAt(p)'
    BY <1>3, <1>11, <1>21
  <2>2. QED
    BY <1>1, <1>11, <2>1, CodeGrows
<1>23. QED
  BY <1>17, <1>18, <1>19, <1>20, <1>22, Assembled

(* The entries of the statements that are left. *)
LEMMA OuterContext ==
  ASSUME Blocked, continueCtx # <<>>, NEW n \in Nat, n = Len(continueCtx), NEW s, s = Outer(continueCtx)
  PROVE  /\ s \in Seq(Contexts) /\ DOMAIN s = 1..(n - 1) /\ Len(s) = n - 1
         /\ n \in DOMAIN continueCtx /\ DOMAIN continueCtx = 1..n
         /\ \A j \in 1..(n - 1) : s[j] = continueCtx[j] /\ j \in DOMAIN continueCtx
<1>1. continueCtx \in Seq(Contexts)
  BY DEF Blocked, ForwardType
<1>2. QED
  BY <1>1, OuterIs

(* The entry of the innermost statement is the last one. *)
LEMMA EnteredLast ==
  ASSUME Blocked, NEW f, Places(f), nest # <<>>, NEW t \in Nat, t = Len(nest), Recorded(t),
         NEW v, Entered(f, nest[t].at, v)
  PROVE  /\ continueCtx[Len(continueCtx)].kind = "Switch" /\ nest[t].kind # "loop"
         /\ continueCtx[Len(continueCtx)].variable = v
         /\ continueCtx[Len(continueCtx)].encountered
<1>1. PICK j \in DOMAIN continueCtx :
         /\ nest[f[j]].at = nest[t].at /\ continueCtx[j].kind = "Switch"
         /\ continueCtx[j].variable = v /\ continueCtx[j].encountered
  BY DEF Entered
<1>2. f[j] \in DOMAIN nest /\ t \in DOMAIN nest
  BY TopBlock DEF Places
<1>3. f[j] = t
  BY <1>1, <1>2, OneAt
<1>4. PICK n \in Nat : n = Len(continueCtx) /\ DOMAIN continueCtx = 1..n
  BY NestIs
<1>5. \A k \in DOMAIN continueCtx : f[k] \in 1..(t - 1) <=> k \in 1..(n - 1)
  BY <1>4, LastEntry
<1>6. j = n
  BY <1>1, <1>3, <1>4, <1>5
<1>7. nest[t].kind # "loop"
  BY <1>1, <1>3 DEF Places
<1>8. QED
  BY <1>1, <1>4, <1>6, <1>7

(* CloseLoop: exit_loop pops the loop's entry; no jump leaves a loop's     *)
(* block otherwise than as its continue.                                   *)
LEMMA LoopCloses == ForwardInv /\ CloseLoop => ForwardInv'
<1> SUFFICES ASSUME ForwardInv, CloseLoop PROVE ForwardInv'
  OBVIOUS
<1>1. Blocked
  BY DEF ForwardInv, Blocked
<1>2. PICK f : Entries(f) /\ JumpInv(f) /\ Places(f)
  BY DEF ForwardInv, Entries
<1>3. /\ nest # <<>> /\ backend' = backend /\ named' = named
      /\ code' = Append(code, Token("close", 0, Innermost(nest).at))
      /\ nest' = Outer(nest) /\ continueCtx' = Outer(continueCtx)
      /\ Innermost(nest).kind = "loop"
  BY DEF CloseLoop
<1>4. PICK t \in Nat : t = Len(nest)
  BY <1>1, NestIs
<1>5. nest[t].kind = "loop" /\ Recorded(t)
  BY <1>3, <1>4 DEF Innermost, Recorded
<1>6. PICK n \in Nat : n = Len(continueCtx)
  BY <1>1, NestIs
<1>7. /\ continueCtx # <<>>
      /\ \A j \in DOMAIN continueCtx : f[j] \in 1..(t - 1) <=> j \in 1..(n - 1)
  BY <1>1, <1>2, <1>3, <1>4, <1>5, <1>6, LastEntry
<1>8. /\ continueCtx' \in Seq(Contexts) /\ DOMAIN continueCtx' = 1..(n - 1)
      /\ \A j \in 1..(n - 1) : continueCtx'[j] = continueCtx[j] /\ j \in DOMAIN continueCtx
  BY <1>1, <1>3, <1>6, <1>7, OuterContext
<1>9. \A v : ~Entered(f, nest[t].at, v)
  BY <1>1, <1>2, <1>3, <1>4, <1>5, EnteredLast
<1>10. /\ \A j \in DOMAIN continueCtx' : j \in DOMAIN continueCtx /\ continueCtx'[j] = continueCtx[j]
       /\ \A j \in DOMAIN continueCtx : f[j] \in 1..(t - 1) <=> j \in DOMAIN continueCtx'
  BY <1>7, <1>8
<1>11. QED
  BY <1>2, <1>3, <1>4, <1>8, <1>9, <1>10, PlainCloses

(* A switch that GLSL has no entry for, or that is in no loop. *)
LEMMA BareCloses ==
  ASSUME ForwardInv, CloseSwitch, ~Tracked(Innermost(nest).kind) \/ continueCtx = <<>>,
         code' = Append(code, Token("close", 0, Innermost(nest).at)), continueCtx' = continueCtx
  PROVE  ForwardInv'
<1>1. Blocked
  BY DEF ForwardInv, Blocked
<1>2. PICK f : Entries(f) /\ JumpInv(f) /\ Places(f)
  BY DEF ForwardInv, Entries
<1>3. /\ nest # <<>> /\ backend' = backend /\ named' = named
      /\ nest' = Outer(nest) /\ Innermost(nest).kind # "loop"
  BY DEF CloseSwitch
<1>4. PICK t \in Nat : t = Len(nest)
  BY <1>1, NestIs
<1>5. ~Recorded(t)
  <2>1. t \in DOMAIN nest /\ Innermost(nest) = nest[t]
    BY <1>1, <1>3, <1>4, TopBlock DEF Innermost
  <2>2. ASSUME Recorded(t) PROVE FALSE
    <3>1. \E j \in DOMAIN continueCtx : f[j] = t
      BY <1>2, <2>1, <2>2 DEF Places
    <3>2. continueCtx # <<>>
      BY <3>1
    <3>3. QED
      BY <1>3, <2>1, <2>2, <3>2 DEF Recorded
  <2>3. QED
    BY <2>2
<1>6. \A j \in DOMAIN continueCtx : f[j] \in 1..(t - 1) /\ f[j] # t
  BY <1>1, <1>2, <1>3, <1>4, <1>5, NoEntry
<1>7. \A v : ~Entered(f, nest[t].at, v)
  <2>1. ASSUME NEW j \in DOMAIN continueCtx PROVE nest[f[j]].at # nest[t].at
    <3>1. f[j] \in DOMAIN nest /\ t \in DOMAIN nest
      BY <1>1, <1>2, <1>3, <1>4, TopBlock DEF Places
    <3>2. QED
      BY <1>1, <1>6, <3>1, OneAt
  <2>2. QED
    BY <2>1 DEF Entered
<1>8. continueCtx' \in Seq(Contexts)
  BY <1>1 DEF Blocked, ForwardType
<1>9. QED
  BY <1>2, <1>3, <1>4, <1>6, <1>7, <1>8, PlainCloses

(* A recorded switch is in a loop. *)
LEMMA SwitchEntry ==
  ASSUME Blocked, NEW f, Entries(f), nest # <<>>, continueCtx # <<>>,
         NEW t \in Nat, t = Len(nest), nest[t].kind # "loop", Tracked(nest[t].kind),
         NEW n \in Nat, n = Len(continueCtx)
  PROVE  /\ Recorded(t) /\ f[n] = t /\ n \in DOMAIN continueCtx
         /\ continueCtx[n].kind = "Switch" /\ Innermost(continueCtx) = continueCtx[n]
         /\ \A j \in DOMAIN continueCtx : f[j] \in 1..(t - 1) <=> j \in 1..(n - 1)
<1>1. t \in DOMAIN nest /\ DOMAIN nest = 1..t
  BY TopBlock, NestIs
<1>2. Recorded(t)
  <2>1. Loops # {}
    BY Innermosts DEF Entries
  <2>2. PICK l \in DOMAIN nest : nest[l].kind = "loop"
    BY <2>1 DEF Loops
  <2>3. l \in 1..(t - 1)
    BY <1>1, <2>2
  <2>4. QED
    BY <2>2, <2>3 DEF Recorded
<1>3. /\ f[n] = t
      /\ \A j \in DOMAIN continueCtx : f[j] \in 1..(t - 1) <=> j \in 1..(n - 1)
  BY <1>2, LastEntry DEF Entries
<1>4. n \in DOMAIN continueCtx /\ continueCtx[n] \in Contexts
  BY DEF Blocked, ForwardType
<1>5. continueCtx[n].kind # "Loop"
  BY <1>3, <1>4 DEF Entries, Places
<1>6. QED
  BY <1>2, <1>3, <1>4, <1>5 DEF Contexts, Innermost

(* A switch that saw no continue. *)
LEMMA UntoldCloses ==
  ASSUME ForwardInv, CloseSwitch, Tracked(Innermost(nest).kind), continueCtx # <<>>,
         code' = Append(code, Token("close", 0, Innermost(nest).at)),
         continueCtx' = Outer(continueCtx), ~Innermost(continueCtx).encountered
  PROVE  ForwardInv'
<1>1. Blocked
  BY DEF ForwardInv, Blocked
<1>2. PICK f : Entries(f) /\ JumpInv(f) /\ Places(f)
  BY DEF ForwardInv, Entries
<1>3. /\ nest # <<>> /\ backend' = backend /\ named' = named
      /\ nest' = Outer(nest) /\ Innermost(nest).kind # "loop"
  BY DEF CloseSwitch
<1>4. PICK t \in Nat : t = Len(nest)
  BY <1>1, NestIs
<1>5. PICK n \in Nat : n = Len(continueCtx)
  BY <1>1, NestIs
<1>6. nest[t].kind # "loop" /\ Tracked(nest[t].kind)
  BY <1>3, <1>4 DEF Innermost
<1>7. /\ Recorded(t) /\ Innermost(continueCtx) = continueCtx[n]
      /\ \A j \in DOMAIN continueCtx : f[j] \in 1..(t - 1) <=> j \in 1..(n - 1)
  BY <1>1, <1>2, <1>3, <1>4, <1>5, <1>6, SwitchEntry
<1>8. /\ continueCtx' \in Seq(Contexts) /\ DOMAIN continueCtx' = 1..(n - 1)
      /\ \A j \in 1..(n - 1) : continueCtx'[j] = continueCtx[j] /\ j \in DOMAIN continueCtx
  BY <1>1, <1>5, OuterContext
<1>9. \A v : ~Entered(f, nest[t].at, v)
  BY <1>1, <1>2, <1>3, <1>4, <1>5, <1>7, EnteredLast
<1>10. /\ \A j \in DOMAIN continueCtx' : j \in DOMAIN continueCtx /\ continueCtx'[j] = continueCtx[j]
       /\ \A j \in DOMAIN continueCtx : f[j] \in 1..(t - 1) <=> j \in DOMAIN continueCtx'
  BY <1>7, <1>8
<1>11. QED
  BY <1>2, <1>3, <1>4, <1>8, <1>9, <1>10, PlainCloses

-----------------------------------------------------------------------------
(* A switch that has been told of a continue is closed: a check is         *)
(* written.                                                                *)

(* A jump out of a block that is no loop is in the loops that the block is in. *)
LEMMA Enclosing ==
  ASSUME Blocked, CodeInv, NEW p \in DOMAIN code, NEW a \in BlocksAt(p), a = BlockAt(p),
         code[a].op # "while"
  PROVE  /\ a \in DOMAIN code /\ WhileAt(p) = WhileAt(a)
         /\ SplitAt(a) => SplitAt(p)
<1>1. p \in Nat /\ p \in 1..Len(code) /\ Len(code) \in Nat
  BY NestIs
<1>2. BlocksAt(p) \subseteq 1..(p - 1) /\ BlocksAt(p) \subseteq 0..p
  BY <1>1, BlocksIn
<1>3. a \in Nat /\ a < p /\ a \in DOMAIN code
  BY <1>1, <1>2, NestIs
<1>4. \A k \in BlocksAt(p) : k <= a
  BY <1>1, <1>2, MaxIs DEF BlockAt
<1>5. BlocksAt(a) \subseteq BlocksAt(p)
  BY DEF CodeInv, CodeAt
<1>6. ASSUME NEW o \in BlocksAt(p), o # a PROVE o \in BlocksAt(a)
  <2>1. o \in Nat /\ o \in 1..(a - 1)
    BY <1>2, <1>3, <1>4, <1>6
  <2>2. /\ code[o].op \in Openers
        /\ ~\E q \in (o + 1)..(p - 1) : code[q].op = "close" /\ code[q].of = o
    BY DEF BlocksAt
  <2>3. (o + 1)..(a - 1) \subseteq (o + 1)..(p - 1)
    BY <1>1, <1>3, <2>1
  <2>4. QED
    BY <2>1, <2>2, <2>3 DEF BlocksAt
<1>7. a \notin BlocksAt(a)
  <2>1. BlocksAt(a) \subseteq 1..(a - 1)
    BY <1>3, BlocksIn
  <2>2. QED
    BY <1>3, <2>1
<1>8. WhileAt(p) = WhileAt(a)
  BY <1>5, <1>6 DEF WhileAt
<1>9. LoopAt(p) = LoopAt(a)
  BY <1>8 DEF LoopAt
<1>10. SplitAt(a) => SplitAt(p)
  BY <1>5, <1>9 DEF SplitAt
<1>11. QED
  BY <1>3, <1>8, <1>10

(* A block is open: nothing that was written closes it. *)
LEMMA NotClosed ==
  ASSUME Blocked, CodeInv, NEW a \in BlocksAt(Here), NEW q \in DOMAIN code, code[q].op = "close"
  PROVE  code[q].of # a
<1>1. q \in Nat /\ q \in 1..Len(code) /\ Len(code) \in Nat /\ Here = Len(code) + 1
  BY NestIs DEF Here
<1>2. a \in Nat
  BY <1>1, BlocksIn
<1>3. code[q].of < q
  BY DEF CodeInv, CodeAt
<1>4. ~\E k \in (a + 1)..(Here - 1) : code[k].op = "close" /\ code[k].of = a
  BY DEF BlocksAt
<1>5. ASSUME code[q].of = a PROVE FALSE
  <2>1. q \in (a + 1)..(Here - 1)
    BY <1>1, <1>2, <1>3, <1>5
  <2>2. QED
    BY <1>4, <1>5, <2>1
<1>6. QED
  BY <1>5

(* A block is closed and the variable checked: the only check that follows. *)
LEMMA CheckedOnce ==
  ASSUME Blocked, CodeInv, Grows, NEW a \in BlocksAt(Here), NEW h \in Nat, h = Here,
         NEW r \in Nat, r = h + 1, DOMAIN code' = 1..r, code'[h].op = "close", code'[h].of = a,
         code'[r].op \in Checks, NEW v, code'[r].variable = v
  PROVE  CheckedAfter(a, v)' = {r}
<1>1. Len(code) \in Nat /\ h = Len(code) + 1 /\ DOMAIN code = 1..Len(code)
  BY NestIs DEF Here
<1>2. \A q \in DOMAIN code : code'[q] = code[q]
  BY DEF Grows
<1>3. r - 1 = h /\ r \in DOMAIN code'
  BY <1>1
<1>4. r \in CheckedAfter(a, v)'
  BY <1>3 DEF CheckedAfter, Checks
<1>5. ASSUME NEW q \in CheckedAfter(a, v)' PROVE q = r
  <2>1. q \in DOMAIN code' /\ code'[q].op \in {"if-break", "if-continue"}
        /\ code'[q - 1].op = "close" /\ code'[q - 1].of = a
    BY DEF CheckedAfter
  <2>2. CASE q \in DOMAIN code
    <3>1. code[q].op \in {"if-break", "if-continue"}
      BY <1>2, <2>1, <2>2
    <3>2. q > 1
      BY <2>2, <3>1 DEF CodeInv, CodeAt
    <3>3. q - 1 \in DOMAIN code
      BY <1>1, <2>2, <3>2
    <3>4. QED
      BY <1>2, <2>1, <3>3, NotClosed
  <2>3. CASE q \notin DOMAIN code
    <3>1. q = h \/ q = r
      BY <1>1, <2>1, <2>3
    <3>2. q # h
      BY <2>1
    <3>3. QED
      BY <3>1, <3>2
  <2>4. QED
    BY <2>2, <2>3
<1>6. QED
  BY <1>4, <1>5

(* What exit_switch leaves and asks for. *)
LEMMA ToldIs ==
  ASSUME Blocked, NEW f, Entries(f), continueCtx # <<>>, NEW n \in Nat, n = Len(continueCtx),
         OnSwitch(continueCtx), Innermost(continueCtx).encountered,
         NEW v, v = Innermost(continueCtx).variable, NEW s, s = AfterSwitch(continueCtx)
  PROVE  /\ v \in Nat /\ v # 0 /\ s \in Seq(Contexts) /\ s # <<>> /\ DOMAIN s = 1..(n - 1)
         /\ \A j \in 1..(n - 1) : /\ j \in DOMAIN continueCtx
                                  /\ s[j].kind = continueCtx[j].kind
                                  /\ s[j].variable = continueCtx[j].variable
                                  /\ continueCtx[j].encountered => s[j].encountered
         /\ OnSwitch(s) => /\ Innermost(s).encountered /\ Innermost(s).variable = v
                           /\ CheckAfter(continueCtx) = <<Token("if-break", v, 0)>>
         /\ ~OnSwitch(s) => CheckAfter(continueCtx) = <<Token("if-continue", v, 0)>>
<1>1. PICK u : u = Outer(continueCtx)
  OBVIOUS
<1>2. /\ u \in Seq(Contexts) /\ DOMAIN u = 1..(n - 1) /\ Len(u) = n - 1
      /\ n \in DOMAIN continueCtx /\ DOMAIN continueCtx = 1..n
      /\ \A j \in 1..(n - 1) : u[j] = continueCtx[j] /\ j \in DOMAIN continueCtx
  BY <1>1, OuterContext
<1>3. continueCtx[n].kind = "Switch" /\ continueCtx[n].variable = v /\ continueCtx[n].encountered
  BY DEF OnSwitch, Innermost
<1>4. /\ v # 0 /\ n > 1
      /\ continueCtx[n - 1].kind = "Switch" => continueCtx[n - 1].variable = v
  BY <1>2, <1>3 DEF Entries, SwitchInv
<1>5. v \in Nat
  <2>1. continueCtx \in Seq(Contexts)
    BY DEF Blocked, ForwardType
  <2>2. continueCtx[n] \in Contexts
    BY <1>2, <2>1
  <2>3. QED
    BY <1>3, <2>2 DEF Contexts
<1>6. u # <<>> /\ n - 1 \in 1..(n - 1)
  <2>1. n - 1 \in 1..(n - 1)
    BY <1>4
  <2>2. Len(u) # 0
    BY <1>2, <1>4
  <2>3. QED
    BY <1>2, <2>1, <2>2
<1>7. Innermost(u) = u[n - 1] /\ u[n - 1] = continueCtx[n - 1]
  BY <1>2, <1>6 DEF Innermost
<1>8. CASE OnSwitch(u)
  <2>1. s = Encountered(u)
    BY <1>1, <1>8 DEF AfterSwitch
  <2>2. /\ s \in Seq(Contexts) /\ Len(s) = n - 1 /\ DOMAIN s = 1..(n - 1)
        /\ \A j \in 1..(n - 1) : /\ s[j].kind = u[j].kind /\ s[j].variable = u[j].variable
                                 /\ u[j].encountered => s[j].encountered
        /\ Innermost(s).encountered
    BY <1>2, <1>6, <2>1, EncounteredIs
  <2>3. Innermost(s) = s[n - 1]
    BY <2>2 DEF Innermost
  <2>4. u[n - 1].kind = "Switch"
    BY <1>7, <1>8 DEF OnSwitch
  <2>5. Innermost(s).variable = v
    BY <1>4, <1>6, <1>7, <2>2, <2>3, <2>4
  <2>6. s # <<>>
    BY <1>6, <2>2
  <2>7. OnSwitch(s)
    BY <1>6, <2>2, <2>3, <2>4, <2>6 DEF OnSwitch
  <2>8. CheckAfter(continueCtx) = <<Token("if-break", v, 0)>>
    BY <1>1, <1>8, Zenon DEF CheckAfter
  <2>9. QED
    BY <1>2, <1>4, <1>5, <2>2, <2>5, <2>6, <2>7, <2>8
<1>9. CASE ~OnSwitch(u)
  <2>1. s = u
    BY <1>1, <1>9 DEF AfterSwitch
  <2>2. CheckAfter(continueCtx) = <<Token("if-continue", v, 0)>>
    BY <1>1, <1>9, Zenon DEF CheckAfter
  <2>3. QED
    BY <1>2, <1>4, <1>5, <1>6, <1>9, <2>1, <2>2
<1>10. QED
  BY <1>8, <1>9

(* The close of a switch and a check of its variable are written. *)
ClosesAndChecks(a, v, op) ==
    code' = Append(Append(code, Token("close", 0, a)), Token(op, v, 0))

(* What that leaves. *)
CheckIs(a, v, op, t, h, r) ==
    /\ Grows /\ Len(code') = r /\ DOMAIN code' = 1..r
    /\ code'[h].op = "close" /\ code'[h].of = a /\ code'[h].variable = 0
    /\ code'[r].op = op /\ code'[r].variable = v
    /\ BlocksAt(h)' = Ats(t) /\ BlocksAt(r)' = Ats(t - 1) /\ BlocksAt(Here)' = Ats(t - 1)
    /\ FreshChecks
    /\ \A p \in Here..Len(code') : p = h \/ p = r

(* WriteCheck: the positions of the two tokens and the blocks around them. *)
LEMMA WriteCheck ==
  ASSUME Blocked, CodeInv, backend' = backend, NEW t \in Nat, t = Len(nest), nest # <<>>,
         NEW a \in Nat, a = nest[t].at, NEW v \in Nat, NEW op \in Checks,
         ClosesAndChecks(a, v, op), NEW h \in Nat, h = Here, NEW r \in Nat, r = h + 1
  PROVE  CheckIs(a, v, op, t, h, r)
<1>1. PICK c \in Tokens : c = Token("close", 0, a)
  BY DEF Token, Tokens, TokenOps
<1>2. PICK d \in Tokens : d = Token(op, v, 0)
  BY DEF Token, Tokens, TokenOps, Checks
<1>3. /\ c.op = "close" /\ c.variable = 0 /\ c.of = a /\ d.op = op /\ d.variable = v
      /\ d.op \notin Openers /\ d.op # "close"
  BY <1>1, <1>2 DEF Token, Checks, Openers
<1>4. code' = Append(Append(code, c), d)
  BY <1>1, <1>2 DEF ClosesAndChecks
<1>5. /\ Grows /\ Len(code') = h + 1 /\ DOMAIN code' = 1..(h + 1)
      /\ code'[h] = c /\ code'[h + 1] = d
      /\ BlocksAt(h)' = BlocksAt(Here)
      /\ BlocksAt(h + 1)' = After(BlocksAt(Here), h, c)
      /\ BlocksAt(Here)' = After(After(BlocksAt(Here), h, c), h + 1, d)
  BY <1>4, WriteTwo
<1>6. /\ a \in BlocksAt(Here) /\ BlocksAt(Here) \ {a} = Ats(t - 1) /\ BlocksAt(Here) = Ats(t)
  BY CloseBlocks
<1>7. After(BlocksAt(Here), h, c) = Ats(t - 1)
  BY <1>3, <1>6 DEF After, Openers
<1>8. After(Ats(t - 1), h + 1, d) = Ats(t - 1)
  BY <1>3 DEF After
<1>9. BlocksAt(h + 1)' = Ats(t - 1) /\ BlocksAt(Here)' = Ats(t - 1) /\ BlocksAt(h)' = Ats(t)
  BY <1>5, <1>6, <1>7, <1>8
<1>10. BlocksAt(r)' = BlocksAt(h + 1)'
  OBVIOUS
<1>11. \A p \in Here..Len(code') : p = h \/ p = r
  BY <1>5
<1>12. FreshChecks
  <2>1. ASSUME NEW q \in Here..Len(code'), code'[q].op \in Checks
        PROVE  q > Here /\ (code'[q - 1].op = "close" => code'[q - 1].of \in BlocksAt(Here))
    <3>1. q # h
      BY <1>3, <1>5, <2>1 DEF Checks
    <3>2. q = h + 1 /\ q - 1 = h
      BY <1>11, <3>1
    <3>3. code'[q - 1].of = a
      BY <1>3, <1>5, <3>2
    <3>4. QED
      BY <1>6, <3>2, <3>3
  <2>2. QED
    BY <2>1 DEF FreshChecks
<1>13. QED
  BY <1>3, <1>5, <1>9, <1>10, <1>11, <1>12 DEF CheckIs

(* The continues that the switch forwarded are answered by the check. *)
LEMMA CheckAnswers ==
  ASSUME Blocked, CodeInv, Grows, NEW f, Places(f), nest # <<>>, NEW t \in Nat, t = Len(nest), Recorded(t),
         NEW a \in Nat, a = nest[t].at, NEW v \in Nat, v = continueCtx[Len(continueCtx)].variable,
         NEW op \in Checks, ClosesAndChecks(a, v, op), backend' = backend,
         NEW h \in Nat, h = Here, NEW r \in Nat, r = h + 1
  PROVE  Closed(f)
<1>1. /\ Len(code') = r /\ DOMAIN code' = 1..r
      /\ code'[h].op = "close" /\ code'[h].of = a
      /\ code'[r].op = op /\ code'[r].variable = v
      /\ BlocksAt(r)' = Ats(t - 1) /\ BlocksAt(Here)' = Ats(t - 1)
  BY WriteCheck DEF CheckIs
<1>2. /\ t \in DOMAIN nest /\ a \in BlocksAt(Here) /\ BlocksAt(Here) \ {a} = Ats(t - 1)
      /\ BlocksAt(a) = Ats(t - 1)
  BY CloseBlocks
<1>3. SUFFICES ASSUME NEW p \in DOMAIN code, NEW o \in Nat, NEW w \in Nat,
                      o = BlockAt(p), o \in BlocksAt(p), o \in BlocksAt(Here),
                      o \notin BlocksAt(Here)', Entered(f, o, w), ~SplitAt(p)
               PROVE  Answered(p, o, w)'
  BY DEF Closed
<1>4. o = a
  BY <1>1, <1>2, <1>3
<1>5. w = v /\ nest[t].kind # "loop"
  BY <1>3, <1>4, EnteredLast
<1>6. code[a].op # "while"
  <2>1. code[a].op = WordOf(nest[t].kind) /\ nest[t].kind \in {"loop", "do", "switch"}
    BY <1>2, NestIs
  <2>2. QED
    BY <1>5, <2>1 DEF WordOf
<1>7. a \in DOMAIN code /\ WhileAt(p) = WhileAt(a) /\ (SplitAt(a) => SplitAt(p))
  BY <1>3, <1>4, <1>6, Enclosing
<1>8. CheckedAfter(a, v)' = {r}
  BY <1>1, <1>2, CheckedOnce
<1>9. a \in 1..Here /\ p \in 1..Here /\ r > p /\ r \in DOMAIN code'
  BY <1>1, <1>3, <1>7, NestIs DEF Here
<1>10. WhileAt(r)' = WhileAt(a)' /\ (SplitAt(r)' <=> SplitAt(a)')
  <2>1. (\A y, z : BlocksAt(y) = BlocksAt(z)
              => /\ WhileAt(y) = WhileAt(z) /\ LoopAt(y) = LoopAt(z) /\ BlockAt(y) = BlockAt(z)
                 /\ SplitAt(y) <=> SplitAt(z)
                 /\ IterationAt(y) = IterationAt(z))'
    BY SameBlocks, PTL
  <2>2. BlocksAt(a)' = BlocksAt(a)
    BY <1>9, BlocksStay
  <2>3. BlocksAt(r)' = BlocksAt(a)'
    BY <1>1, <1>2, <2>2
  <2>4. QED
    BY <2>1, <2>3
<1>11. /\ WhileAt(a)' = WhileAt(a) /\ WhileAt(p)' = WhileAt(p)
       /\ SplitAt(a)' <=> SplitAt(a)
  BY <1>9, WhilesStay, SplitStays
<1>12. WhileAt(r)' = WhileAt(p)' /\ ~SplitAt(r)'
  BY <1>3, <1>7, <1>10, <1>11
<1>13. QED
  BY <1>4, <1>5, <1>8, <1>9, <1>12 DEF Answered

(* What is left to show of a check that is written. *)
CheckWritten(f, g, t, n, h, r) ==
    /\ \A j \in DOMAIN continueCtx : f[j] \in 1..(t - 1) <=> j \in 1..(n - 1)
    /\ DOMAIN continueCtx' = 1..(n - 1)
    /\ \A j \in 1..(n - 1) : /\ continueCtx'[j].kind = continueCtx[j].kind
                             /\ continueCtx'[j].variable = continueCtx[j].variable
                             /\ continueCtx[j].encountered => continueCtx'[j].encountered
    /\ Grows /\ code'[h].op = "close" /\ code'[h].of < h /\ code'[h].variable = 0
    /\ code'[r].op \in Checks /\ code'[r].variable # 0
    /\ BlocksAt(h)' = Ats(t) /\ BlocksAt(r)' = Ats(t - 1) /\ BlocksAt(Here)' = Ats(t - 1)
    /\ FreshChecks /\ \A p \in Here..Len(code') : p = h \/ p = r
    /\ DOMAIN nest' = 1..(t - 1) /\ \A i \in 1..(t - 1) : nest'[i] = nest[i] /\ i \in DOMAIN nest
    /\ \A j \in DOMAIN continueCtx' : g[j] = f[j]

(* With those, the invariant. *)
LEMMA Checked ==
  ASSUME Blocked, CodeInv, NEW f, JumpInv(f), Places(f), nest # <<>>, NEW t \in Nat, t = Len(nest),
         NEW n \in Nat, NEW h \in Nat, h = Here, NEW r \in Nat, r = h + 1, NEW g,
         CheckWritten(f, g, t, n, h, r), Closed(f), ForwardType', NestInv', Entries(g)',
         WhileAt(r)' # {}, code'[r].op = "if-continue" => IterationAt(r)' = LoopAt(r)', JumpAt(g, r)'
  PROVE  ForwardInv'
<1> USE DEF CheckWritten
<1>1. CodeAt(h)'
  <2>1. t \in 0..Len(nest)
    OBVIOUS
  <2>2. /\ code'[h].op \in PlainOps /\ (code'[h].op = "close" => code'[h].of < h)
        /\ (code'[h].variable # 0 => Ats(t) # {})
    BY DEF PlainOps
  <2>3. QED
    BY <2>1, <2>2, PlainCode
<1>2. CodeAt(r)'
  <2>1. t \in DOMAIN nest /\ DOMAIN nest = 1..t
    BY TopBlock, NestIs
  <2>2. PICK k \in 0..Len(nest) : k = t - 1
    <3>1. t - 1 \in 0..Len(nest)
      BY <2>1
    <3>2. QED
      BY <3>1
  <2>3. BlocksAt(r)' = Ats(k)
    BY <2>2
  <2>4. /\ code'[r].op \in Jumps /\ (code'[r].op \in Checks => r > 1 /\ code'[r].variable # 0)
        /\ code'[r].op \notin {"continue", "forward"}
    <3>1. h > 0
      BY NestIs DEF Here
    <3>2. QED
      BY <3>1 DEF Jumps, Checks
  <2>5. QED
    BY <2>3, <2>4, JumpCode
<1>3. CodeInv'
  <2>1. \A p \in Here..Len(code') : CodeAt(p)'
    <3>1. ASSUME NEW p \in Here..Len(code') PROVE CodeAt(p)'
      BY <1>1, <1>2
    <3>2. QED
      BY <3>1
  <2>2. QED
    BY <2>1, CodeGrows
<1>4. JumpAt(g, h)'
  <2>1. (code[h].op \in {"forward", "if-break"} /\ ~SplitAt(h) =>
            /\ code[BlockAt(h)].op # "while"
            /\ IF BlockAt(h) \in BlocksAt(Here)
               THEN Entered(g, BlockAt(h), code[h].variable)
               ELSE Answered(h, BlockAt(h), code[h].variable))'
    OBVIOUS
  <2>2. QED
    BY <2>1 DEF JumpAt
<1>5. \A p \in Here..Len(code') : JumpAt(g, p)'
  <2>1. ASSUME NEW p \in Here..Len(code') PROVE JumpAt(g, p)'
    BY <1>4
  <2>2. QED
    BY <2>1
<1>6. Passed(f, g)
  <2>1. \A o \in BlocksAt(Here)' \cap DOMAIN code :
          \E i \in DOMAIN nest : i \in DOMAIN nest' /\ o = nest[i].at
    BY DEF Ats
  <2>2. \A i \in DOMAIN nest : i \in DOMAIN nest' => nest'[i] = nest[i]
    OBVIOUS
  <2>3. \A j \in DOMAIN continueCtx : f[j] \in DOMAIN nest' =>
          /\ j \in DOMAIN continueCtx' /\ g[j] = f[j]
          /\ continueCtx'[j].kind = continueCtx[j].kind
          /\ continueCtx'[j].variable = continueCtx[j].variable
          /\ continueCtx[j].encountered => continueCtx'[j].encountered
    OBVIOUS
  <2>4. QED
    BY <2>1, <2>2, <2>3, PassedOn
<1>7. BlocksAt(Here)' \cap DOMAIN code \subseteq BlocksAt(Here)
  BY CloseBlocks
<1>8. JumpInv(g)'
  BY <1>5, <1>6, <1>7, JumpsKept
<1>9. QED
  BY <1>3, <1>8, Assembled

(* A switch that forwarded a continue. *)
LEMMA ToldCloses ==
  ASSUME ForwardInv, CloseSwitch, Tracked(Innermost(nest).kind), continueCtx # <<>>,
         code' = Append(code, Token("close", 0, Innermost(nest).at)) \o CheckAfter(continueCtx),
         continueCtx' = AfterSwitch(continueCtx), Innermost(continueCtx).encountered
  PROVE  ForwardInv'
<1>1. Blocked /\ CodeInv /\ ForwardType
  BY DEF ForwardInv, Blocked
<1>2. PICK f : Entries(f) /\ JumpInv(f) /\ Places(f)
  BY DEF ForwardInv, Entries
<1>3. /\ nest # <<>> /\ backend' = backend /\ named' = named
      /\ nest' = Outer(nest) /\ Innermost(nest).kind # "loop"
  BY DEF CloseSwitch
<1>4. PICK t \in Nat : t = Len(nest)
  BY <1>1, NestIs
<1>5. PICK n \in Nat : n = Len(continueCtx)
  BY <1>1, NestIs
<1>6. PICK h \in Nat, r \in Nat : h = Here /\ r = h + 1
  <2>1. PICK k \in Nat : k = Here
    BY <1>1, NestIs
  <2>2. k + 1 \in Nat
    OBVIOUS
  <2>3. QED
    BY <2>1, <2>2
<1>7. nest[t].kind # "loop" /\ Tracked(nest[t].kind) /\ Innermost(nest) = nest[t]
  BY <1>3, <1>4 DEF Innermost
<1>8. /\ Recorded(t) /\ f[n] = t /\ n \in DOMAIN continueCtx /\ Innermost(continueCtx) = continueCtx[n]
      /\ continueCtx[n].kind = "Switch"
      /\ \A j \in DOMAIN continueCtx : f[j] \in 1..(t - 1) <=> j \in 1..(n - 1)
  BY <1>1, <1>2, <1>3, <1>4, <1>5, <1>7, SwitchEntry
<1>9. OnSwitch(continueCtx)
  BY <1>8 DEF OnSwitch
<1>10. PICK v : v = Innermost(continueCtx).variable
  OBVIOUS
<1>11. /\ v \in Nat /\ v # 0 /\ continueCtx' \in Seq(Contexts) /\ continueCtx' # <<>>
       /\ DOMAIN continueCtx' = 1..(n - 1)
       /\ \A j \in 1..(n - 1) : /\ j \in DOMAIN continueCtx
                                /\ continueCtx'[j].kind = continueCtx[j].kind
                                /\ continueCtx'[j].variable = continueCtx[j].variable
                                /\ continueCtx[j].encountered => continueCtx'[j].encountered
       /\ OnSwitch(continueCtx') => /\ Innermost(continueCtx').encountered
                                    /\ Innermost(continueCtx').variable = v
                                    /\ CheckAfter(continueCtx) = <<Token("if-break", v, 0)>>
       /\ ~OnSwitch(continueCtx') => CheckAfter(continueCtx) = <<Token("if-continue", v, 0)>>
  <2>1. PICK s : s = AfterSwitch(continueCtx)
    OBVIOUS
  <2>2. s = continueCtx'
    BY <2>1
  <2>3. /\ v \in Nat /\ v # 0 /\ s \in Seq(Contexts) /\ s # <<>> /\ DOMAIN s = 1..(n - 1)
        /\ \A j \in 1..(n - 1) : /\ j \in DOMAIN continueCtx
                                 /\ s[j].kind = continueCtx[j].kind
                                 /\ s[j].variable = continueCtx[j].variable
                                 /\ continueCtx[j].encountered => s[j].encountered
        /\ OnSwitch(s) => /\ Innermost(s).encountered /\ Innermost(s).variable = v
                          /\ CheckAfter(continueCtx) = <<Token("if-break", v, 0)>>
        /\ ~OnSwitch(s) => CheckAfter(continueCtx) = <<Token("if-continue", v, 0)>>
    BY <1>1, <1>2, <1>5, <1>9, <1>10, <2>1, ToldIs
  <2>4. QED
    BY <2>2, <2>3
<1>12. PICK op \in Checks : op = IF OnSwitch(continueCtx') THEN "if-break" ELSE "if-continue"
  BY DEF Checks
<1>13. PICK a \in Nat : a = nest[t].at
  BY <1>1, <1>3, <1>4, CloseBlocks, NestIs
<1>14. ClosesAndChecks(a, v, op)
  <2>1. CheckAfter(continueCtx) = <<Token(op, v, 0)>>
    BY <1>11, <1>12
  <2>2. Token("close", 0, a) \in Tokens /\ Token(op, v, 0) \in Tokens
    BY <1>11 DEF Token, Tokens, TokenOps, Checks
  <2>3. PICK c : c = Append(code, Token("close", 0, a))
    OBVIOUS
  <2>4. code \in Seq(Tokens)
    BY <1>1 DEF ForwardType
  <2>5. c \in Seq(Tokens)
    BY <2>2, <2>3, <2>4
  <2>6. code' = c \o <<Token(op, v, 0)>>
    BY <1>7, <1>13, <2>1, <2>3
  <2>7. code' = Append(c, Token(op, v, 0))
    BY <2>2, <2>5, <2>6
  <2>8. QED
    BY <2>3, <2>7 DEF ClosesAndChecks
<1>15. /\ Grows /\ Len(code') = r /\ DOMAIN code' = 1..r
       /\ code'[h].op = "close" /\ code'[h].of = a /\ code'[h].variable = 0
       /\ code'[r].op = op /\ code'[r].variable = v
       /\ BlocksAt(h)' = Ats(t) /\ BlocksAt(r)' = Ats(t - 1) /\ BlocksAt(Here)' = Ats(t - 1)
       /\ FreshChecks
       /\ \A p \in Here..Len(code') : p = h \/ p = r
  <2>1. Blocked /\ CodeInv /\ backend' = backend /\ nest # <<>>
    BY <1>1, <1>3, <1>4, <1>6
  <2>2. /\ t \in Nat /\ t = Len(nest) /\ a \in Nat /\ a = nest[t].at /\ v \in Nat /\ op \in Checks
        /\ h \in Nat /\ h = Here /\ r \in Nat /\ r = h + 1
    BY <1>1, <1>3, <1>4, <1>6, <1>11, <1>12, <1>13
  <2>3. CheckIs(a, v, op, t, h, r)
    BY <2>1, <2>2, <1>14, WriteCheck
  <2>4. QED
    BY <2>3 DEF CheckIs
<1>16. Closed(f)
  <2>1. v = continueCtx[Len(continueCtx)].variable
    BY <1>5, <1>8, <1>10
  <2>2. QED
    BY <1>1, <1>2, <1>3, <1>4, <1>6, <1>8, <1>11, <1>12, <1>13, <1>14, <1>15, <2>1, CheckAnswers
<1>17. /\ nest' \in Seq(Nested) /\ Len(nest') = t - 1 /\ DOMAIN nest' = 1..(t - 1)
       /\ \A i \in 1..(t - 1) : nest'[i] = nest[i] /\ i \in DOMAIN nest
       /\ DOMAIN nest = 1..t
  <2>1. nest \in Seq(Nested)
    BY <1>1 DEF ForwardType
  <2>2. QED
    BY <1>3, <1>4, <2>1, OuterIs
<1>18. ForwardType'
  <2>1. code' \in Seq(Tokens)
    BY <1>15 DEF Grows
  <2>2. QED
    BY <1>1, <1>3, <1>11, <1>17, <2>1 DEF ForwardType
<1>19. NestInv'
  <2>1. BlocksAt(Here)' = Ats(Len(nest'))
    BY <1>15, <1>17
  <2>2. nest' \in Seq(Nested) /\ Len(nest') <= Len(nest) /\ \A i \in DOMAIN nest' : nest'[i] = nest[i]
    BY <1>4, <1>17
  <2>3. QED
    BY <1>1, <1>15, <2>1, <2>2, NestLeft
<1>20. PICK g : Entries(g)' /\ \A j \in DOMAIN continueCtx' : g[j] = f[j]
  <2>1. Alike
    BY <1>11 DEF Alike
  <2>2. nest' \in Seq(Nested) /\ \A i \in DOMAIN nest' : i \in DOMAIN nest /\ nest'[i] = nest[i]
    BY <1>17
  <2>3. \A j \in DOMAIN continueCtx : f[j] \in DOMAIN nest' <=> j \in DOMAIN continueCtx'
    BY <1>8, <1>11, <1>17
  <2>4. QED
    BY <1>1, <1>2, <1>15, <2>1, <2>2, <2>3, EntriesLeft
<1>21. Blocked'
  BY <1>18, <1>19 DEF Blocked
<1>22. /\ WhileAt(r)' = WhileAt(Here)' /\ LoopAt(r)' = LoopAt(Here)' /\ BlockAt(r)' = BlockAt(Here)'
       /\ SplitAt(r)' <=> SplitAt(Here)'
       /\ IterationAt(r)' = IterationAt(Here)'
  <2>1. (\A y, z : BlocksAt(y) = BlocksAt(z)
              => /\ WhileAt(y) = WhileAt(z) /\ LoopAt(y) = LoopAt(z) /\ BlockAt(y) = BlockAt(z)
                 /\ SplitAt(y) <=> SplitAt(z)
                 /\ IterationAt(y) = IterationAt(z))'
    BY SameBlocks, PTL
  <2>2. PICK q : q = Here'
    OBVIOUS
  <2>3. BlocksAt(r)' = BlocksAt(q)'
    BY <1>15, <2>2
  <2>4. /\ WhileAt(r)' = WhileAt(q)' /\ LoopAt(r)' = LoopAt(q)' /\ BlockAt(r)' = BlockAt(q)'
        /\ SplitAt(r)' <=> SplitAt(q)'
        /\ IterationAt(r)' = IterationAt(q)'
    BY <2>1, <2>3
  <2>5. QED
    BY <2>2, <2>4
<1>26. CheckWritten(f, g, t, n, h, r)
  <2>1. a < h
    BY <1>1, <1>3, <1>4, <1>6, <1>13, CloseBlocks
  <2>2. QED
    BY <1>8, <1>11, <1>12, <1>15, <1>17, <1>20, <2>1 DEF CheckWritten
<1>23. CASE OnSwitch(continueCtx')
  <2>1. op = "if-break"
    BY <1>12, <1>23
  <2>2. OnSwitch(continueCtx)' /\ Innermost(continueCtx)'.encountered /\ Innermost(continueCtx)'.variable = v
    BY <1>11, <1>23 DEF OnSwitch, Innermost
  <2>3. WhileAt(r)' # {}
    <3>1. (\A e : Blocked /\ Places(e) /\ OnSwitch(continueCtx)
           => /\ WhileAt(Here) # {}
              /\ ~SplitAt(Here) => e[Len(continueCtx)] = Len(nest))'
      BY TopSwitch, PTL
    <3>2. QED
      BY <1>20, <1>21, <1>22, <2>2, <3>1 DEF Entries
  <2>4. JumpAt(g, r)'
    <3>1. (\A e, o, w : Blocked /\ Entries(e) /\ OnSwitch(continueCtx) /\ Innermost(continueCtx).encountered
         /\ ~SplitAt(Here) /\ o = BlockAt(Here) /\ w = Innermost(continueCtx).variable
           => code[o].op # "while" /\ o \in BlocksAt(Here) /\ Entered(e, o, w))'
      BY JumpHere, PTL
    <3>2. PICK o : o = BlockAt(Here)'
      OBVIOUS
    <3>3. o = BlockAt(r)' /\ code'[r].variable = v
      BY <1>15, <1>22, <3>2
    <3>4. ASSUME ~SplitAt(r)'
          PROVE  code'[o].op # "while" /\ o \in BlocksAt(Here)' /\ Entered(g, o, v)'
      BY <1>20, <1>21, <1>22, <2>2, <3>1, <3>2, <3>4
    <3>5. (code[r].op \in {"forward", "if-break"} /\ ~SplitAt(r) =>
              /\ code[BlockAt(r)].op # "while"
              /\ IF BlockAt(r) \in BlocksAt(Here)
                 THEN Entered(g, BlockAt(r), code[r].variable)
                 ELSE Answered(r, BlockAt(r), code[r].variable))'
      BY <3>3, <3>4
    <3>6. QED
      BY <3>5 DEF JumpAt
  <2>5. QED
    BY <1>1, <1>2, <1>3, <1>4, <1>6, <1>15, <1>16, <1>18, <1>19, <1>20, <1>26,
       <2>1, <2>3, <2>4, Checked
<1>24. CASE ~OnSwitch(continueCtx')
  <2>1. op = "if-continue"
    BY <1>12, <1>24
  <2>2. ~OnSwitch(continueCtx)' /\ continueCtx' # <<>>
    BY <1>11, <1>24 DEF OnSwitch, Innermost
  <2>3. WhileAt(r)' # {} /\ IterationAt(r)' = LoopAt(r)'
    <3>1. (\A e : Blocked /\ Places(e) /\ continueCtx # <<>> /\ ~OnSwitch(continueCtx)
           => WhileAt(Here) # {} /\ IterationAt(Here) = LoopAt(Here))'
      BY TopLoop, PTL
    <3>2. QED
      BY <1>20, <1>21, <1>22, <2>2, <3>1 DEF Entries
  <2>4. JumpAt(g, r)'
    <3>1. (code[r].op \in {"forward", "if-break"} /\ ~SplitAt(r) =>
              /\ code[BlockAt(r)].op # "while"
              /\ IF BlockAt(r) \in BlocksAt(Here)
                 THEN Entered(g, BlockAt(r), code[r].variable)
                 ELSE Answered(r, BlockAt(r), code[r].variable))'
      BY <1>15, <2>1
    <3>2. QED
      BY <3>1 DEF JumpAt
  <2>5. QED
    BY <1>1, <1>2, <1>3, <1>4, <1>6, <1>15, <1>16, <1>18, <1>19, <1>20, <1>26,
       <2>1, <2>3, <2>4, Checked
<1>25. QED
  BY <1>23, <1>24

(* CloseSwitch: exit_switch does one of the three. *)
LEMMA SwitchCloses == ForwardInv /\ CloseSwitch => ForwardInv'
<1> SUFFICES ASSUME ForwardInv, CloseSwitch PROVE ForwardInv'
  OBVIOUS
<1>1. CASE /\ ~Tracked(Innermost(nest).kind) \/ continueCtx = <<>>
           /\ code' = Append(code, Token("close", 0, Innermost(nest).at))
           /\ UNCHANGED continueCtx
  BY <1>1, BareCloses
<1>2. CASE /\ Tracked(Innermost(nest).kind) /\ continueCtx # <<>>
           /\ code' = Append(code, Token("close", 0, Innermost(nest).at)) \o CheckAfter(continueCtx)
           /\ continueCtx' = AfterSwitch(continueCtx)
  <2>1. CASE Innermost(continueCtx).encountered
    BY <1>2, <2>1, ToldCloses
  <2>2. CASE ~Innermost(continueCtx).encountered
    <3>1. CheckAfter(continueCtx) = <<>>
      BY <2>2, Zenon DEF CheckAfter
    <3>2. continueCtx' = Outer(continueCtx)
      BY <1>2, <2>2 DEF AfterSwitch
    <3>3. code' = Append(code, Token("close", 0, Innermost(nest).at))
      <4>1. code \in Seq(Tokens) /\ nest \in Seq(Nested) /\ nest # <<>>
        BY DEF ForwardInv, ForwardType, CloseSwitch
      <4>2. Innermost(nest).at \in Nat
        <5>1. Len(nest) \in DOMAIN nest
          BY <4>1
        <5>2. nest[Len(nest)] \in Nested
          BY <4>1, <5>1
        <5>3. QED
          BY <5>2 DEF Innermost, Nested
      <4>3. Token("close", 0, Innermost(nest).at) \in Tokens
        BY <4>2 DEF Token, Tokens, TokenOps
      <4>4. PICK c : c = Append(code, Token("close", 0, Innermost(nest).at))
        OBVIOUS
      <4>5. c \in Seq(Tokens)
        BY <4>1, <4>3, <4>4
      <4>6. code' = c \o <<>>
        BY <1>2, <3>1, <4>4
      <4>7. QED
        BY <4>4, <4>5, <4>6
    <3>4. QED
      BY <1>2, <2>2, <3>2, <3>3, UntoldCloses
  <2>3. QED
    BY <2>1, <2>2
<1>3. QED
  BY <1>1, <1>2 DEF CloseSwitch

-----------------------------------------------------------------------------
(* The invariant holds. *)

(* Nothing is written. *)
LEMMA ForwardStarts == ForwardInit => ForwardInv
<1> SUFFICES ASSUME ForwardInit PROVE ForwardInv
  OBVIOUS
<1>1. nest = <<>> /\ continueCtx = <<>> /\ code = <<>> /\ named = 0 /\ backend \in {"hlsl", "glsl"}
  BY DEF ForwardInit
<1>2. ForwardType
  BY <1>1 DEF ForwardType
<1>3. DOMAIN nest = {} /\ DOMAIN continueCtx = {} /\ DOMAIN code = {} /\ Len(nest) = 0 /\ Here = 1
  BY <1>1 DEF Here
<1>4. NestInv
  <2>1. Ats(0) = {}
    BY DEF Ats
  <2>2. BlocksAt(1) = {}
    BY BlocksIn
  <2>3. QED
    BY <1>3, <2>1, <2>2 DEF NestInv
<1>5. CodeInv
  BY <1>3 DEF CodeInv
<1>6. PICK f \in [DOMAIN continueCtx -> DOMAIN nest] : TRUE
  <2>1. [j \in DOMAIN continueCtx |-> 0] \in [DOMAIN continueCtx -> DOMAIN nest]
    BY <1>3
  <2>2. QED
    BY <2>1
<1>7. Places(f) /\ SwitchInv(f) /\ JumpInv(f)
  BY <1>3 DEF Places, SwitchInv, JumpInv
<1>8. QED
  BY <1>2, <1>4, <1>5, <1>7 DEF ForwardInv

(* A step that changes nothing. *)
LEMMA ForwardStutters == ForwardInv /\ UNCHANGED forwardVars => ForwardInv'
<1> SUFFICES ASSUME ForwardInv, UNCHANGED forwardVars PROVE ForwardInv'
  OBVIOUS
<1>1. /\ backend' = backend /\ nest' = nest /\ continueCtx' = continueCtx /\ code' = code
      /\ named' = named
  BY DEF forwardVars
<1>2. PICK f : Entries(f) /\ JumpInv(f) /\ Places(f)
  BY DEF ForwardInv, Entries
<1>3. Blocked /\ ForwardType /\ CodeInv /\ NestInv
  BY DEF ForwardInv, Blocked
<1>4. Grows
  BY <1>1, <1>3 DEF Grows, ForwardType
<1>5. ForwardType'
  BY <1>1, <1>3 DEF ForwardType
<1>6. BlocksAt(Here)' = BlocksAt(Here)
  BY <1>1 DEF BlocksAt, Here
<1>7. NestInv'
  <2>1. BlocksAt(Here)' = Ats(Len(nest'))
    BY <1>1, <1>3, <1>6 DEF NestInv
  <2>2. nest' \in Seq(Nested) /\ Len(nest') <= Len(nest) /\ \A i \in DOMAIN nest' : nest'[i] = nest[i]
    BY <1>1, <1>3 DEF ForwardType
  <2>3. QED
    BY <1>3, <1>4, <2>1, <2>2, NestLeft
<1>8. PICK g : Entries(g)' /\ \A j \in DOMAIN continueCtx' : g[j] = f[j]
  <2>1. Alike
    BY <1>1, <1>3 DEF Alike, ForwardType
  <2>2. nest' \in Seq(Nested) /\ \A i \in DOMAIN nest' : i \in DOMAIN nest /\ nest'[i] = nest[i]
    BY <1>1, <1>3 DEF ForwardType
  <2>3. \A j \in DOMAIN continueCtx : f[j] \in DOMAIN nest' <=> j \in DOMAIN continueCtx'
    BY <1>1, <1>2 DEF Places
  <2>4. QED
    BY <1>2, <1>3, <1>4, <2>1, <2>2, <2>3, EntriesLeft
<1>9. Len(code') = Len(code) /\ Here = Len(code) + 1 /\ Len(code) \in Nat
  BY <1>1, <1>3 DEF Here, ForwardType
<1>10. \A p \in Here..Len(code') : FALSE
  BY <1>9
<1>11. CodeInv'
  BY <1>3, <1>4, <1>10, CodeGrows
<1>12. JumpInv(g)'
  <2>1. FreshChecks
    BY <1>10 DEF FreshChecks
  <2>2. Passed(f, g)
    <3>1. \A o \in BlocksAt(Here)' \cap DOMAIN code :
            \E i \in DOMAIN nest : i \in DOMAIN nest' /\ o = nest[i].at
      BY <1>1, <1>3, <1>6, NestIs
    <3>2. QED
      BY <1>1, <1>2, <1>3, <1>8, <3>1, PassedOn
  <2>3. Closed(f)
    BY <1>6, ClosedNone
  <2>4. BlocksAt(Here)' \cap DOMAIN code \subseteq BlocksAt(Here)
    BY <1>6
  <2>5. QED
    BY <1>2, <1>3, <1>4, <1>10, <2>1, <2>2, <2>3, <2>4, JumpsKept
<1>13. QED
  BY <1>5, <1>7, <1>8, <1>11, <1>12, Assembled

(* In every program, of any number and nesting of loops, switches and      *)
(* continues, the walk of a writer with its ContinueCtx keeps ForwardInv:  *)
(* the stack has an entry for just the statements it should, each entry of *)
(* a switch names a variable that is declared in the loop, and every       *)
(* forwarded continue is either promised a check by the entry of the block *)
(* it is in or has exactly one.                                            *)
THEOREM ForwardKept == ForwardSpec => []ForwardInv
<1>1. ForwardInit => ForwardInv
  BY ForwardStarts
<1>2. ForwardInv /\ [ForwardNext]_forwardVars => ForwardInv'
  <2> SUFFICES ASSUME ForwardInv, [ForwardNext]_forwardVars PROVE ForwardInv'
    OBVIOUS
  <2>1. CASE OpenLoop
    BY <2>1, LoopOpens
  <2>2. CASE \E kind \in {"switch", "do"} : OpenSwitch(kind)
    BY <2>2, SwitchOpens
  <2>3. CASE WriteContinue
    BY <2>3, ForwardKeeps, ContinueKeeps
  <2>4. CASE CloseLoop
    BY <2>4, LoopCloses
  <2>5. CASE CloseSwitch
    BY <2>5, SwitchCloses
  <2>6. CASE UNCHANGED forwardVars
    BY <2>6, ForwardStutters
  <2>7. QED
    BY <2>1, <2>2, <2>3, <2>4, <2>5, <2>6 DEF ForwardNext
<1>3. QED
  BY <1>1, <1>2, PTL DEF ForwardSpec

-----------------------------------------------------------------------------
(* What Continued is.  It is defined from the later positions, since a     *)
(* check comes after the block it is about.                                *)

(* Min of the community modules is in the set. *)
LEMMA LeastIs ==
  ASSUME NEW S, S \subseteq Nat, S # {}
  PROVE  Min(S) \in S
<1>1. PICK m \in S : \A k \in S : m <= k
  BY HasLeast
<1>2. QED
  BY <1>1 DEF Min

(* The check that follows a block comes after what is in the block. *)
LEMMA Onward ==
  ASSUME ForwardType, CodeInv, NEW p \in DOMAIN code, NEW o, o = BlockAt(p),
         NEW v, v = code[p].variable, CheckedAfter(o, v) # {}
  PROVE  /\ Min(CheckedAfter(o, v)) \in DOMAIN code /\ Min(CheckedAfter(o, v)) > p
         /\ Min(CheckedAfter(o, v)) \in CheckedAfter(o, v)
<1>1. DOMAIN code = 1..Len(code) /\ Len(code) \in Nat /\ p \in Nat /\ p > 0
  BY DEF ForwardType
<1>2. CheckedAfter(o, v) \subseteq DOMAIN code
  BY DEF CheckedAfter
<1>3. PICK q : q = Min(CheckedAfter(o, v)) /\ q \in CheckedAfter(o, v)
  <2>1. CheckedAfter(o, v) \subseteq Nat
    BY <1>1, <1>2
  <2>2. QED
    BY <2>1, LeastIs
<1>4. /\ q \in DOMAIN code /\ code[q].op \in {"if-break", "if-continue"} /\ code[q].variable = v
      /\ code[q - 1].op = "close" /\ code[q - 1].of = o
  BY <1>3 DEF CheckedAfter
<1>5. q > 1 /\ v # 0
  BY <1>4 DEF CodeInv, CodeAt
<1>6. BlocksAt(p) # {}
  BY <1>5 DEF CodeInv, CodeAt
<1>7. BlocksAt(p) \subseteq 1..(p - 1) /\ BlocksAt(p) \subseteq 0..p
  BY <1>1, BlocksIn
<1>8. o \in BlocksAt(p)
  BY <1>1, <1>6, <1>7, MaxIs DEF BlockAt
<1>9. q - 1 \in DOMAIN code
  BY <1>1, <1>4, <1>5
<1>10. o < q - 1
  BY <1>4, <1>9 DEF CodeInv, CodeAt
<1>11. q - 1 \notin (o + 1)..(p - 1)
  BY <1>4, <1>8 DEF BlocksAt
<1>12. q > p
  <2>1. q \in Nat /\ o \in Nat
    BY <1>1, <1>4, <1>7, <1>8
  <2>2. QED
    BY <1>1, <1>10, <1>11, <2>1
<1>13. QED
  BY <1>3, <1>4, <1>12

(* Where a jump leads to, given where those after it lead to. *)
ContinuedFrom(f, p) ==
    IF code[p].op \in {"continue", "if-continue"} THEN IterationAt(p)
    ELSE IF code[BlockAt(p)].op = "while" \/ CheckedAfter(BlockAt(p), code[p].variable) = {} THEN 0
    ELSE f[Min(CheckedAfter(BlockAt(p), code[p].variable))]

(* It looks at later positions only. *)
LEMMA FromLater ==
  ASSUME ForwardType, CodeInv, NEW p \in DOMAIN code, NEW f, NEW g,
         \A q \in DOMAIN code : q > p => f[q] = g[q]
  PROVE  ContinuedFrom(f, p) = ContinuedFrom(g, p)
<1>1. PICK o, v : o = BlockAt(p) /\ v = code[p].variable
  OBVIOUS
<1>2. CheckedAfter(o, v) # {} => f[Min(CheckedAfter(o, v))] = g[Min(CheckedAfter(o, v))]
  BY <1>1, Onward
<1>3. QED
  BY <1>1, <1>2 DEF ContinuedFrom

(* There is a function that leads each jump where those after it lead:     *)
(* else there were a greatest position up to which none does.              *)
LEMMA ContinuedExists ==
  ASSUME ForwardType, CodeInv
  PROVE  \E f : f = [p \in DOMAIN code |-> ContinuedFrom(f, p)]
<1>1. PICK n \in Nat : n = Len(code) /\ DOMAIN code = 1..n
  BY DEF ForwardType
<1>2. DEFINE M == {m \in 1..(n + 1) : \E f : f = [p \in m..n |-> ContinuedFrom(f, p)]}
<1>3. n + 1 \in M
  <2>1. PICK f : f = [p \in (n + 1)..n |-> 0]
    OBVIOUS
  <2>2. (n + 1)..n = {}
    OBVIOUS
  <2>3. f = [p \in (n + 1)..n |-> ContinuedFrom(f, p)]
    BY <2>1, <2>2
  <2>4. QED
    BY <2>3
<1>4. PICK m \in M : \A k \in M : m <= k
  <2>1. M \subseteq Nat /\ M # {}
    BY <1>3
  <2>2. HIDE DEF M
  <2>3. QED
    BY <2>1, HasLeast
<1>5. m \in 1..(n + 1)
  OBVIOUS
<1>6. PICK f : f = [p \in m..n |-> ContinuedFrom(f, p)]
  OBVIOUS
<1>7. m = 1
  <2>1. SUFFICES ASSUME m # 1 PROVE FALSE
    OBVIOUS
  <2>2. PICK k \in 1..n : k = m - 1
    BY <1>5, <2>1
  <2>3. PICK g : g = [p \in k..n |-> IF p = k THEN ContinuedFrom(f, k) ELSE f[p]]
    OBVIOUS
  <2>4. \A q \in 1..n : q > k => g[q] = f[q]
    BY <2>3
  <2>5. ASSUME NEW p \in k..n PROVE g[p] = ContinuedFrom(g, p)
    <3>1. p \in DOMAIN code /\ \A q \in DOMAIN code : q > p => g[q] = f[q]
      BY <1>1, <2>2, <2>4
    <3>2. ContinuedFrom(g, p) = ContinuedFrom(f, p)
      BY <3>1, FromLater
    <3>3. CASE p = k
      BY <2>3, <3>2, <3>3
    <3>4. CASE p # k
      <4>1. p \in m..n
        BY <1>5, <2>2, <3>4
      <4>2. f[p] = ContinuedFrom(f, p)
        BY <1>6, <4>1
      <4>3. QED
        BY <2>3, <3>2, <3>4, <4>2
    <3>5. QED
      BY <3>3, <3>4
  <2>6. g = [p \in k..n |-> ContinuedFrom(g, p)]
    BY <2>3, <2>5
  <2>7. k \in M
    BY <2>2, <2>6
  <2>8. m <= k
    BY <1>4, <2>7
  <2>9. QED
    BY <1>5, <2>2, <2>8
<1>8. QED
  BY <1>1, <1>6, <1>7

(* Continued is such a function. *)
LEMMA ContinuedIs ==
  ASSUME ForwardType, CodeInv
  PROVE  \A p \in DOMAIN code : Continued[p] = ContinuedFrom(Continued, p)
<1>1. Continued = CHOOSE f : f = [p \in DOMAIN code |->
        IF code[p].op \in {"continue", "if-continue"} THEN IterationAt(p)
        ELSE LET o == Max(BlocksAt(p))
                 checks == CheckedAfter(o, code[p].variable)
             IN IF code[o].op = "while" \/ checks = {} THEN 0 ELSE f[Min(checks)]]
  BY DEF Continued
<1>2. Continued = CHOOSE f : f = [p \in DOMAIN code |-> ContinuedFrom(f, p)]
  BY <1>1, Zenon DEF ContinuedFrom, BlockAt
<1>3. \E f : f = [p \in DOMAIN code |-> ContinuedFrom(f, p)]
  BY ContinuedExists
<1>4. Continued = [p \in DOMAIN code |-> ContinuedFrom(Continued, p)]
  BY <1>2, <1>3
<1>5. QED
  BY <1>4

(* When the program is written, every jump leads to its loop's next iteration. *)
LEMMA JumpsLead ==
  ASSUME ForwardInv, nest = <<>>
  PROVE  \A p \in DOMAIN code :
            code[p].op \in Jumps
            /\ (code[p].op \in {"forward", "if-break"} => ~SplitAt(p))
            => Continued[p] = LoopAt(p)
<1>1. ForwardType /\ CodeInv /\ Blocked
  BY DEF ForwardInv, Blocked
<1>2. PICK f : JumpInv(f)
  BY DEF ForwardInv
<1>3. BlocksAt(Here) = {}
  <2>1. Len(nest) = 0
    OBVIOUS
  <2>2. QED
    BY <1>1, <2>1 DEF Blocked, NestInv, Ats
<1>4. PICK n \in Nat : DOMAIN code = 1..n
  BY <1>1 DEF ForwardType
<1>5. DEFINE Stray == {p \in DOMAIN code :
          /\ code[p].op \in Jumps
          /\ code[p].op \in {"forward", "if-break"} => ~SplitAt(p)
          /\ Continued[p] # LoopAt(p)}
<1>6. SUFFICES ASSUME Stray # {} PROVE FALSE
  OBVIOUS
<1>7. PICK p \in Stray : \A k \in Stray : k <= p
  <2>1. Stray \subseteq Nat /\ \A k \in Stray : k <= n
    BY <1>4
  <2>2. HIDE DEF Stray
  <2>3. QED
    BY <1>6, <2>1, HasGreatest
<1>8. /\ p \in DOMAIN code /\ code[p].op \in Jumps
      /\ code[p].op \in {"forward", "if-break"} => ~SplitAt(p)
      /\ Continued[p] # LoopAt(p)
  OBVIOUS
<1>9. Continued[p] = ContinuedFrom(Continued, p)
  BY <1>1, <1>8, ContinuedIs
<1>10. CASE code[p].op \in {"continue", "if-continue"}
  <2>1. IterationAt(p) = LoopAt(p)
    BY <1>1, <1>8, <1>10 DEF CodeInv, CodeAt
  <2>2. QED
    BY <1>8, <1>9, <1>10, <2>1 DEF ContinuedFrom
<1>11. CASE code[p].op \in {"forward", "if-break"}
  <2>1. PICK o, v : o = BlockAt(p) /\ v = code[p].variable
    OBVIOUS
  <2>2. code[o].op # "while" /\ Answered(p, o, v)
    BY <1>2, <1>3, <1>8, <1>11, <2>1 DEF JumpInv, JumpAt
  <2>3. PICK r \in DOMAIN code :
           r > p /\ CheckedAfter(o, v) = {r} /\ WhileAt(r) = WhileAt(p) /\ ~SplitAt(r)
    BY <2>2 DEF Answered
  <2>4. Min(CheckedAfter(o, v)) = r
    <3>1. r \in Nat
      BY <1>4
    <3>2. QED
      BY <2>3, <3>1, MinSingle
  <2>5. Continued[p] = Continued[r]
    <3>1. CheckedAfter(o, v) # {}
      BY <2>3
    <3>2. code[p].op \notin {"continue", "if-continue"}
      BY <1>11
    <3>3. QED
      BY <1>9, <2>1, <2>2, <2>4, <3>1, <3>2 DEF ContinuedFrom
  <2>6. code[r].op \in Jumps
    <3>1. r \in CheckedAfter(o, v)
      BY <2>3
    <3>2. QED
      BY <3>1 DEF CheckedAfter, Jumps
  <2>7. r \notin Stray
    BY <1>4, <1>7, <1>8, <2>3
  <2>8. Continued[r] = LoopAt(r)
    BY <2>3, <2>6, <2>7
  <2>9. LoopAt(r) = LoopAt(p)
    BY <2>3 DEF LoopAt
  <2>10. QED
    BY <1>8, <2>5, <2>8, <2>9
<1>12. QED
  BY <1>8, <1>10, <1>11 DEF Jumps

(* The gap is the one that ForwardedRight leaves out. *)
LEMMA SplitUntracked ==
  ASSUME CodeInv, NEW p \in DOMAIN code, code[p].op \in {"continue", "forward"}
  PROVE  code[p].of = LoopAt(p) /\ (Untracked(p) <=> SplitAt(p))
<1>1. code[p].of = LoopAt(p)
  BY DEF CodeInv, CodeAt
<1>2. QED
  BY <1>1 DEF Untracked, SplitAt

(* When a function is written, every continue that was forwarded out of    *)
(* switches (ContinueCtx::continue_encountered, exit_switch) starts the    *)
(* next iteration of the loop it was in, with a variable that every        *)
(* iteration declares anew, and so does every continue that was written as *)
(* one; but for the gap of GLSL, a tracked switch that holds an untracked  *)
(* one.                                                                    *)
THEOREM ForwardRight == ForwardSpec => []ForwardedRight
<1>1. ForwardInv => ForwardedRight
  <2> SUFFICES ASSUME ForwardInv, nest = <<>>, NEW p \in DOMAIN code,
                      code[p].op \in {"continue", "forward"}, ~Untracked(p)
               PROVE  /\ Continued[p] = code[p].of
                      /\ code[p].op = "forward" => ResetEachIteration(p)
    BY DEF ForwardedRight
  <2>1. CodeInv
    BY DEF ForwardInv
  <2>2. code[p].of = LoopAt(p) /\ ~SplitAt(p)
    BY <2>1, SplitUntracked
  <2>3. code[p].op \in Jumps
    BY DEF Jumps
  <2>4. Continued[p] = LoopAt(p)
    BY <2>2, <2>3, JumpsLead
  <2>5. code[p].op = "forward" => ResetEachIteration(p)
    BY <2>1 DEF CodeInv, CodeAt
  <2>6. QED
    BY <2>2, <2>4, <2>5
<1>2. QED
  BY <1>1, ForwardKept, PTL
================================================================================
