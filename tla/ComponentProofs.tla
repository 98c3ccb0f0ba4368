---------------------------- MODULE ComponentProofs ----------------------------
(***************************************************************************)
(* What is proved of the components that share no state with each other:   *)
(* the status machine of the command encoder, the surface, the registry of *)
(* resource ids, the staging belt, the ranked locks, the initialization    *)
(* tracker of a texture and the order of the global declarations.  Each    *)
(* has an inductive invariant of its own, which TLC confirms on its        *)
(* instance in MCComponents.                                               *)
(***************************************************************************)
EXTENDS EncoderStatus, Presentation, Registry, StagingBelt, LockRank, InitRanges,
        GlobalIndex, FiniteSetTheorems, SequenceTheorems, WellFoundedInduction, TLAPS

--------------------------------------------------------------------------------
(* The command encoder and what it recorded *)

Recordings == [kind : Command, call : Nat]
Calls == [op : {"push", "begin", "end", "endAgain", "finish"},
          pass : Pass \cup {"none"}, kind : Command]

CommandBuffers == [enc : StatusEncoder, st : {"Finished", "Error", "Submitted"},
                   cmds : Seq(Recordings), at : Nat]

EncoderType ==
    /\ status \in [StatusEncoder -> {"Recording", "Locked", "Consumed", "Error"}]
    /\ recorded \in [StatusEncoder -> Seq(Recordings)]
    /\ passOf \in [Pass -> [st : {"none", "open", "ended"},
                            parent : StatusEncoder \cup {"none"}, base : PassBase]]
    /\ \A p \in Pass : passOf[p].st # "none" => passOf[p].parent \in StatusEncoder
    /\ buffers \in Seq(CommandBuffers)
    /\ ran \in Seq(Nat)
    /\ calls \in [StatusEncoder -> Seq(Calls)]

(* A command buffer that can be executed, or was. *)
Runnable(b) == buffers[b].st = "Finished" \/ \E i \in DOMAIN ran : ran[i] = b

(* It is the only one of an encoder that is consumed and stays so; once it *)
(* was executed it is spent.                                               *)
RunInv ==
    /\ \A b \in DOMAIN buffers : Runnable(b) => status[buffers[b].enc] = "Consumed"
    /\ \A a, b \in DOMAIN buffers :
          Runnable(a) /\ Runnable(b) /\ a # b => buffers[a].enc # buffers[b].enc
    /\ \A i \in DOMAIN ran : ran[i] \in DOMAIN buffers /\ buffers[ran[i]].st = "Submitted"
    /\ \A i, j \in DOMAIN ran : i # j => ran[i] # ran[j]

(* The calls to e that no valid encoder would be given: made once it was   *)
(* finished or while a pass was open, and those that are not valid.        *)
Strayed(e, i) ==
    \/ calls[e][i].op = "finish"
    \/ calls[e][i].op \in {"push", "begin"} /\ OpenBefore(e, i) # {}
Flawed(e, i) == calls[e][i].op \in {"push", "begin"} /\ calls[e][i].kind # "good"

OpenOn(e) == {p \in Pass : passOf[p].st = "open" /\ passOf[p].parent = e}

CallsOf(cmds) == {cmds[i].call : i \in DOMAIN cmds}
Recorders(e, n) == {i \in 1..(n - 1) : calls[e][i].op \in {"push", "end"}}
Rising(cmds) == \A i, j \in DOMAIN cmds : i < j => cmds[i].call < cmds[j].call

(* The status says what the calls made so far were. *)
StatusSays(e) ==
    /\ OpenBefore(e, Len(calls[e]) + 1) = OpenOn(e)
    /\ status[e] \in {"Recording", "Locked"} =>
          /\ \A i \in DOMAIN calls[e] : ~Strayed(e, i)
          /\ CallsOf(recorded[e]) = Recorders(e, Len(calls[e]) + 1)
          /\ Rising(recorded[e])
    /\ status[e] = "Recording" =>
          /\ OpenOn(e) = {}
          /\ Encodes(e) <=> \A i \in DOMAIN calls[e] : ~Flawed(e, i)
    /\ status[e] = "Locked" =>
          \E p \in Pass :
             /\ OpenOn(e) = {p} /\ passOf[p].base \in Command
             /\ Encodes(e) /\ passOf[p].base = "good"
                   <=> \A i \in DOMAIN calls[e] : ~Flawed(e, i)
    /\ status[e] \in {"Consumed", "Error"} =>
          \E i \in DOMAIN calls[e] : Strayed(e, i) \/ Flawed(e, i)

(* What a command buffer was made of. *)
BufferSays(b) ==
    LET e == buffers[b].enc
        n == buffers[b].at
    IN  /\ n \in DOMAIN calls[e]
        /\ Runnable(b) <=> WellNested(e, n)
        /\ Runnable(b) => CallsOf(buffers[b].cmds) = Recorders(e, n)
        /\ Rising(buffers[b].cmds)

StatusInv ==
    /\ \A e \in StatusEncoder : StatusSays(e)
    /\ \A b \in DOMAIN buffers : BufferSays(b)

EncoderInv == EncoderType /\ RunInv /\ StatusInv

--------------------------------------------------------------------------------
(* A call to e is added to its history: what was said of the calls before  *)
(* it stays so, and the passes open after it are those it leaves open.     *)

LEMMA EncoderTypes ==
    ASSUME EncoderType
    PROVE  /\ \A f \in StatusEncoder :
                 /\ calls[f] \in Seq(Calls) /\ Len(calls[f]) \in Nat
                 /\ DOMAIN calls[f] = 1..Len(calls[f])
                 /\ recorded[f] \in Seq(Recordings)
           /\ Len(buffers) \in Nat /\ DOMAIN buffers = 1..Len(buffers)
           /\ \A b \in DOMAIN buffers :
                 /\ buffers[b] \in CommandBuffers
                 /\ buffers[b].enc \in StatusEncoder /\ buffers[b].at \in Nat
                 /\ buffers[b].cmds \in Seq(Recordings)
  <1>1. \A b \in DOMAIN buffers : buffers[b] \in CommandBuffers
    BY DEF EncoderType
  <1>2. \A r \in CommandBuffers : /\ r.enc \in StatusEncoder /\ r.at \in Nat
                                  /\ r.cmds \in Seq(Recordings)
    BY DEF CommandBuffers
  <1>3. \A f \in StatusEncoder : /\ calls[f] \in Seq(Calls) /\ Len(calls[f]) \in Nat
                                 /\ DOMAIN calls[f] = 1..Len(calls[f])
                                 /\ recorded[f] \in Seq(Recordings)
    BY DEF EncoderType
  <1>4. Len(buffers) \in Nat /\ DOMAIN buffers = 1..Len(buffers)
    BY DEF EncoderType
  <1> QED
    BY <1>1, <1>2, <1>3, <1>4

LEMMA CallKept ==
    ASSUME EncoderType, NEW e \in StatusEncoder, NEW name, NEW pass, NEW kind,
           Called(e, name, pass, kind), [op |-> name, pass |-> pass, kind |-> kind] \in Calls
    PROVE  /\ calls' \in [StatusEncoder -> Seq(Calls)]
           /\ Len(calls'[e]) = Len(calls[e]) + 1
           /\ calls'[e][Len(calls[e]) + 1] = [op |-> name, pass |-> pass, kind |-> kind]
           /\ \A f \in StatusEncoder : f # e => calls'[f] = calls[f]
           /\ \A f \in StatusEncoder : \A i \in DOMAIN calls[f] :
                 /\ i \in DOMAIN calls'[f] /\ calls'[f][i] = calls[f][i]
           /\ \A f \in StatusEncoder : Len(calls[f]) \in Nat
  BY DEF Called, EncoderType

LEMMA HistoryKept ==
    ASSUME EncoderType, NEW e \in StatusEncoder, NEW name, NEW pass, NEW kind,
           Called(e, name, pass, kind), [op |-> name, pass |-> pass, kind |-> kind] \in Calls,
           NEW f \in StatusEncoder, NEW n \in 1..(Len(calls[f]) + 1)
    PROVE  /\ OpenBefore(f, n)' = OpenBefore(f, n)
           /\ Recorders(f, n)' = Recorders(f, n)
           /\ WellNested(f, n)' <=> WellNested(f, n)
           /\ n \in DOMAIN calls[f] => /\ Strayed(f, n)' <=> Strayed(f, n)
                                       /\ Flawed(f, n)' <=> Flawed(f, n)
  <1>1. Len(calls[f]) \in Nat /\ DOMAIN calls[f] = 1..Len(calls[f])
    BY DEF EncoderType
  <1>2. \A i \in 1..(n - 1) : i \in DOMAIN calls[f]
    BY <1>1
  <1>3. \A i \in DOMAIN calls[f] : calls'[f][i] = calls[f][i]
    BY CallKept
  <1>4. \A m \in 1..(Len(calls[f]) + 1) : OpenBefore(f, m)' = OpenBefore(f, m)
    <2> SUFFICES ASSUME NEW m \in 1..(Len(calls[f]) + 1)
                 PROVE  OpenBefore(f, m)' = OpenBefore(f, m)
      OBVIOUS
    <2>1. \A i \in 1..(m - 1) : calls'[f][i] = calls[f][i]
      BY <1>1, <1>3
    <2>2. \A i \in 1..(m - 1) : \A j \in (i + 1)..(m - 1) : calls'[f][j] = calls[f][j]
      BY <1>1, <1>3
    <2> QED
      BY <2>1, <2>2 DEF OpenBefore
  <1>5. Recorders(f, n)' = Recorders(f, n)
    BY <1>2, <1>3 DEF Recorders
  <1>6. WellNested(f, n)' <=> WellNested(f, n)
    <2>1. \A i \in 1..(n - 1) : OpenBefore(f, i)' = OpenBefore(f, i)
      BY <1>1, <1>4
    <2> QED
      BY <1>1, <1>2, <1>3, <1>4, <2>1 DEF WellNested
  <1>7. n \in DOMAIN calls[f] => /\ Strayed(f, n)' <=> Strayed(f, n)
                                 /\ Flawed(f, n)' <=> Flawed(f, n)
    BY <1>1, <1>3, <1>4 DEF Strayed, Flawed
  <1> QED
    BY <1>4, <1>5, <1>6, <1>7

(* Being well nested, said of the calls one by one. *)
LEMMA NestedCalls ==
    ASSUME EncoderType, NEW e \in StatusEncoder, NEW n \in Nat
    PROVE  WellNested(e, n) <=> /\ OpenBefore(e, n) = {}
                                /\ \A i \in 1..(n - 1) : ~Strayed(e, i) /\ ~Flawed(e, i)
  BY DEF WellNested, Strayed, Flawed

(* What a call to e leaves true of the other encoders, *)
LEMMA OthersKept ==
    ASSUME EncoderType, NEW e \in StatusEncoder, NEW name, NEW pass, NEW kind,
           Called(e, name, pass, kind), [op |-> name, pass |-> pass, kind |-> kind] \in Calls,
           NEW f \in StatusEncoder, f # e, StatusSays(f),
           status'[f] = status[f], recorded'[f] = recorded[f], OpenOn(f)' = OpenOn(f),
           \A p \in OpenOn(f) : passOf'[p] = passOf[p]
    PROVE  StatusSays(f)'
  <1>1. PICK n : n = Len(calls[f]) + 1
    OBVIOUS
  <1>2. n \in 1..(Len(calls[f]) + 1) /\ calls'[f] = calls[f] /\ n = Len(calls'[f]) + 1
    BY <1>1, CallKept DEF EncoderType
  <1>3. OpenBefore(f, n)' = OpenBefore(f, n) /\ Recorders(f, n)' = Recorders(f, n)
    BY <1>2, HistoryKept
  <1>4. \A i \in DOMAIN calls[f] : /\ Strayed(f, i)' <=> Strayed(f, i)
                                   /\ Flawed(f, i)' <=> Flawed(f, i)
    <2>1. \A i \in DOMAIN calls[f] : i \in 1..(Len(calls[f]) + 1)
      BY DEF EncoderType
    <2> QED
      BY <2>1, HistoryKept
  <1>5. OpenBefore(f, Len(calls[f]) + 1)' = OpenBefore(f, Len(calls[f]) + 1)
    BY <1>1, <1>2, <1>3
  <1>6. Recorders(f, Len(calls[f]) + 1)' = Recorders(f, Len(calls[f]) + 1)
    BY <1>1, <1>2, <1>3
  <1>7. (Encodes(f)' <=> Encodes(f)) /\ Rising(recorded'[f]) = Rising(recorded[f])
    BY DEF Encodes
  <1> QED
    BY <1>2, <1>4, <1>5, <1>6, <1>7 DEF StatusSays

(* of the command buffers, *)
LEMMA BuffersKept ==
    ASSUME EncoderType, NEW e \in StatusEncoder, NEW name, NEW pass, NEW kind,
           Called(e, name, pass, kind), [op |-> name, pass |-> pass, kind |-> kind] \in Calls,
           NEW b \in DOMAIN buffers, BufferSays(b),
           buffers'[b] = buffers[b], Runnable(b)' <=> Runnable(b)
    PROVE  BufferSays(b)'
  <1>1. PICK f, n : f \in StatusEncoder /\ n \in DOMAIN calls[f]
                    /\ f = buffers[b].enc /\ n = buffers[b].at
    BY EncoderTypes DEF BufferSays
  <1>2. n \in 1..(Len(calls[f]) + 1) /\ n \in DOMAIN calls'[f]
    BY <1>1, CallKept, EncoderTypes
  <1>3. Recorders(f, n)' = Recorders(f, n) /\ (WellNested(f, n)' <=> WellNested(f, n))
    BY <1>1, <1>2, HistoryKept
  <1>4. /\ WellNested(buffers[b].enc, buffers[b].at)' <=> WellNested(buffers[b].enc, buffers[b].at)
        /\ Recorders(buffers[b].enc, buffers[b].at)' = Recorders(buffers[b].enc, buffers[b].at)
    BY <1>1, <1>3
  <1> QED
    BY <1>1, <1>2, <1>4 DEF BufferSays

(* and of what is executed, when the call makes no command buffer. *)
LEMMA RunKept ==
    ASSUME EncoderType, RunInv, StatusInv, UNCHANGED <<buffers, ran>>,
           NEW e \in StatusEncoder, NEW name, NEW pass, NEW kind,
           Called(e, name, pass, kind), [op |-> name, pass |-> pass, kind |-> kind] \in Calls,
           \A f \in StatusEncoder : status[f] = "Consumed" => status'[f] = "Consumed"
    PROVE  RunInv' /\ \A b \in DOMAIN buffers' : BufferSays(b)'
  <1>1. \A b : Runnable(b)' <=> Runnable(b)
    BY DEF Runnable
  <1>2. \A b \in DOMAIN buffers : buffers[b].enc \in StatusEncoder
    BY EncoderTypes
  <1>3. RunInv'
    BY <1>1, <1>2 DEF RunInv
  <1>4. \A b \in DOMAIN buffers : BufferSays(b)'
    BY <1>1, BuffersKept DEF StatusInv
  <1> QED
    BY <1>3, <1>4

(* A valid history says so again once a call was added, and a flawed one   *)
(* stays flawed.                                                           *)
LEMMA HistorySays ==
    ASSUME EncoderType, NEW e \in StatusEncoder, NEW name, NEW pass, NEW kind,
           Called(e, name, pass, kind), [op |-> name, pass |-> pass, kind |-> kind] \in Calls,
           NEW n, n = Len(calls[e]) + 1
    PROVE  /\ (\A i \in DOMAIN calls'[e] : ~Strayed(e, i)')
                 <=> (\A i \in DOMAIN calls[e] : ~Strayed(e, i)) /\ ~Strayed(e, n)'
           /\ (\A i \in DOMAIN calls'[e] : ~Flawed(e, i)')
                 <=> (\A i \in DOMAIN calls[e] : ~Flawed(e, i)) /\ ~Flawed(e, n)'
           /\ (\E i \in DOMAIN calls'[e] : Strayed(e, i)' \/ Flawed(e, i)')
                 <=> \/ \E i \in DOMAIN calls[e] : Strayed(e, i) \/ Flawed(e, i)
                     \/ Strayed(e, n)' \/ Flawed(e, n)'
  <1>1. \A i \in DOMAIN calls[e] : i \in 1..(Len(calls[e]) + 1)
    BY DEF EncoderType
  <1>2. \A i \in DOMAIN calls[e] : /\ Strayed(e, i)' <=> Strayed(e, i)
                                   /\ Flawed(e, i)' <=> Flawed(e, i)
    BY <1>1, HistoryKept
  <1>3. \A i : i \in DOMAIN calls'[e] <=> i \in DOMAIN calls[e] \/ i = n
    BY CallKept DEF EncoderType
  <1> QED
    BY <1>2, <1>3

(* What is recorded: nothing, or the command with the number of the call.  *)
LEMMA Extends ==
    ASSUME EncoderType, NEW e \in StatusEncoder, NEW st, NEW cmd \in Command
    PROVE  /\ Extended(e, st, cmd) \in Seq(Recordings)
           /\ ~(st = "Recording" /\ cmd # "bad") => Extended(e, st, cmd) = recorded[e]
           /\ \A n : /\ st = "Recording" /\ cmd # "bad"
                     /\ n = Len(calls[e]) + 1
                     /\ Rising(recorded[e]) /\ CallsOf(recorded[e]) = Recorders(e, n)
                     => /\ Rising(Extended(e, st, cmd))
                        /\ CallsOf(Extended(e, st, cmd)) = Recorders(e, n) \cup {n}
                        /\ (\A i \in DOMAIN Extended(e, st, cmd) :
                                Extended(e, st, cmd)[i].kind # "late")
                              <=> Encodes(e) /\ cmd # "late"
  <1>1. PICK n : n = Len(calls[e]) + 1
    OBVIOUS
  <1>2. n \in Nat /\ recorded[e] \in Seq(Recordings)
    BY <1>1, EncoderTypes
  <1> DEFINE c == [kind |-> cmd, call |-> n]
  <1>3. c \in Recordings /\ c.kind = cmd /\ c.call = n
    BY <1>2 DEF Recordings
  <1>4. Extended(e, st, cmd) = IF st = "Recording" /\ cmd # "bad"
                                 THEN Append(recorded[e], c) ELSE recorded[e]
    BY <1>1 DEF Extended
  <1>5. Extended(e, st, cmd) \in Seq(Recordings)
    BY <1>2, <1>3, <1>4
  <1>6. ASSUME st = "Recording", cmd # "bad", Rising(recorded[e]),
               CallsOf(recorded[e]) = Recorders(e, n)
        PROVE  /\ Rising(Extended(e, st, cmd))
               /\ CallsOf(Extended(e, st, cmd)) = Recorders(e, n) \cup {n}
               /\ (\A i \in DOMAIN Extended(e, st, cmd) :
                       Extended(e, st, cmd)[i].kind # "late")
                     <=> Encodes(e) /\ cmd # "late"
    <2> DEFINE r == Extended(e, st, cmd)
               l == Len(recorded[e])
    <2>1. /\ l \in Nat /\ DOMAIN recorded[e] = 1..l /\ DOMAIN r = 1..(l + 1)
          /\ r[l + 1] = c /\ \A i \in 1..l : r[i] = recorded[e][i]
      BY <1>2, <1>3, <1>4, <1>6
    <2>2. \A i \in 1..(l + 1) : i \in 1..l \/ i = l + 1
      BY <2>1
    <2>3. \A i \in 1..l : recorded[e][i].call \in 1..(n - 1)
      BY <1>6, <2>1 DEF CallsOf, Recorders
    <2> HIDE DEF r, l, c
    <2>4. Rising(r)
      <3>1. \A i \in 1..(l + 1), j \in 1..(l + 1) : i < j => i \in 1..l
        BY <2>1
      <3>2. \A i \in 1..l : recorded[e][i].call < n
        BY <1>2, <2>3
      <3> QED
        BY <1>3, <1>6, <2>1, <2>2, <3>1, <3>2 DEF Rising
    <2>5. CallsOf(r) = Recorders(e, n) \cup {n}
      <3>1. \A x : x \in CallsOf(r) <=> x \in CallsOf(recorded[e]) \/ x = n
        BY <1>3, <2>1, <2>2 DEF CallsOf
      <3> QED
        BY <1>6, <3>1
    <2>6. (\A i \in DOMAIN r : r[i].kind # "late") <=> Encodes(e) /\ cmd # "late"
      BY <1>3, <2>1, <2>2 DEF Encodes
    <2> QED
      BY <2>4, <2>5, <2>6 DEF r
  <1> QED
    BY <1>1, <1>4, <1>5, <1>6

(* The history of e after a call, given which passes it leaves open.       *)
LEMMA CallSays ==
    ASSUME EncoderType, NEW e \in StatusEncoder, NEW name, NEW pass, NEW kind,
           Called(e, name, pass, kind), [op |-> name, pass |-> pass, kind |-> kind] \in Calls,
           name = "begin" => pass \in Pass, StatusSays(e),
           name = "begin" => OpenOn(e)' = OpenOn(e) \cup {pass},
           name = "end" => OpenOn(e)' = OpenOn(e) \ {pass},
           name \notin {"begin", "end"} => OpenOn(e)' = OpenOn(e),
           NEW n, n = Len(calls[e]) + 1
    PROVE  /\ (OpenBefore(e, Len(calls[e]) + 1) = OpenOn(e))'
           /\ name \in {"push", "end"} =>
                 Recorders(e, Len(calls[e]) + 1)' = Recorders(e, n) \cup {n}
           /\ name \notin {"push", "end"} =>
                 Recorders(e, Len(calls[e]) + 1)' = Recorders(e, n)
           /\ name \in {"push", "begin"} =>
                 /\ Strayed(e, n)' <=> OpenOn(e) # {}
                 /\ Flawed(e, n)' <=> kind # "good"
           /\ name = "finish" => Strayed(e, n)'
           /\ name \in {"end", "endAgain"} => ~Strayed(e, n)' /\ ~Flawed(e, n)'
  <1> DEFINE c == [op |-> name, pass |-> pass, kind |-> kind]
  <1>1. n \in Nat /\ n \in 1..n /\ n \in 1..(Len(calls[e]) + 1)
    BY DEF EncoderType
  <1>2. calls'[e][n] = c /\ \A i \in 1..(n - 1) : calls'[e][i] = calls[e][i]
    BY CallKept DEF EncoderType
  <1>3. OpenBefore(e, n)' = OpenBefore(e, n) /\ Recorders(e, n)' = Recorders(e, n)
    BY <1>1, HistoryKept
  <1>4. \A p \in Pass : p \in OpenBefore(e, n + 1)' <=>
            \/ c.op = "begin" /\ c.pass = p
            \/ p \in OpenBefore(e, n)' /\ ~(c.op = "end" /\ c.pass = p)
    <2> SUFFICES ASSUME NEW p \in Pass
                 PROVE  p \in OpenBefore(e, n + 1)' <=>
                          \/ c.op = "begin" /\ c.pass = p
                          \/ p \in OpenBefore(e, n)' /\ ~(c.op = "end" /\ c.pass = p)
      OBVIOUS
    <2> DEFINE Begun(i) == calls'[e][i].op = "begin" /\ calls'[e][i].pass = p
               Ended(i) == calls'[e][i].op = "end" /\ calls'[e][i].pass = p
    <2>1. p \in OpenBefore(e, n + 1)' <=>
            \E i \in 1..n : Begun(i) /\ \A j \in (i + 1)..n : ~Ended(j)
      BY <1>1 DEF OpenBefore
    <2>2. p \in OpenBefore(e, n)' <=>
            \E i \in 1..(n - 1) : Begun(i) /\ \A j \in (i + 1)..(n - 1) : ~Ended(j)
      BY <1>1 DEF OpenBefore
    <2>3. /\ Begun(n) <=> c.op = "begin" /\ c.pass = p
          /\ Ended(n) <=> c.op = "end" /\ c.pass = p
      BY <1>2
    <2> HIDE DEF Begun, Ended, c
    <2>4. (\E i \in 1..n : Begun(i) /\ \A j \in (i + 1)..n : ~Ended(j)) <=>
            \/ Begun(n)
            \/ (\E i \in 1..(n - 1) : Begun(i) /\ \A j \in (i + 1)..(n - 1) : ~Ended(j)) /\ ~Ended(n)
      <3>1. \A i \in 1..n : i = n \/ i \in 1..(n - 1)
        BY <1>1
      <3>2. \A i \in 1..(n - 1) : \A j \in (i + 1)..n : j = n \/ j \in (i + 1)..(n - 1)
        BY <1>1
      <3>3. \A i \in 1..(n - 1) : i \in 1..n /\ n \in (i + 1)..n
                                  /\ \A j \in (i + 1)..(n - 1) : j \in (i + 1)..n
        BY <1>1
      <3>4. n \in 1..n /\ \A j \in (n + 1)..n : FALSE
        BY <1>1
      <3> QED
        BY <3>1, <3>2, <3>3, <3>4
    <2> QED
      BY <2>1, <2>2, <2>3, <2>4
  <1>5. OpenBefore(e, n) \subseteq Pass /\ OpenBefore(e, n + 1)' \subseteq Pass
    BY DEF OpenBefore
  <1>6. Recorders(e, n + 1)' = IF name \in {"push", "end"}
                                 THEN Recorders(e, n) \cup {n} ELSE Recorders(e, n)
    <2>1. Recorders(e, n + 1)' = {i \in 1..n : calls'[e][i].op \in {"push", "end"}}
      BY <1>1 DEF Recorders
    <2>2. Recorders(e, n)' = {i \in 1..(n - 1) : calls'[e][i].op \in {"push", "end"}}
      BY DEF Recorders
    <2>3. calls'[e][n].op \in {"push", "end"} <=> name \in {"push", "end"}
      BY <1>2
    <2>4. \A i : i \in 1..n <=> i \in 1..(n - 1) \/ i = n
      BY <1>1
    <2>5. \A i : i \in Recorders(e, n + 1)' <=>
              \/ i \in Recorders(e, n)
              \/ i = n /\ name \in {"push", "end"}
      BY <1>3, <2>1, <2>2, <2>3, <2>4
    <2> QED
      BY <2>5
  <1>7. Strayed(e, n)' <=> \/ name = "finish"
                           \/ name \in {"push", "begin"} /\ OpenBefore(e, n) # {}
    BY <1>2, <1>3 DEF Strayed
  <1>8. Flawed(e, n)' <=> name \in {"push", "begin"} /\ kind # "good"
    BY <1>2 DEF Flawed
  <1>9. OpenBefore(e, n) = OpenOn(e)
    BY DEF StatusSays
  <1>10. OpenBefore(e, n + 1)' = OpenOn(e)'
    BY <1>3, <1>4, <1>5, <1>9
  <1>11. PICK m : m = n + 1 /\ m = Len(calls'[e]) + 1
    BY CallKept
  <1>12. (OpenBefore(e, Len(calls[e]) + 1) = OpenOn(e))'
    BY <1>10, <1>11
  <1>13. Recorders(e, Len(calls[e]) + 1)' = Recorders(e, n + 1)'
    BY <1>11
  <1> QED
    BY <1>6, <1>7, <1>8, <1>9, <1>12, <1>13

(* A command recorded directly. *)
LEMMA PushSays ==
    ASSUME EncoderType, RunInv, StatusInv, NEW e \in StatusEncoder, NEW cmd \in Command,
           PushCommand(e, cmd)
    PROVE  EncoderType' /\ RunInv' /\ StatusInv'
  <1> DEFINE c == [op |-> "push", pass |-> "none", kind |-> cmd]
  <1>1. PICK n : n = Len(calls[e]) + 1
    OBVIOUS
  <1>2. c \in Calls /\ Called(e, "push", "none", cmd) /\ n \in Nat
    BY <1>1, EncoderTypes DEF Calls, Command, PushCommand
  <1>3. /\ status' = [status EXCEPT ![e] = Pushed(status[e], cmd)]
        /\ recorded' = [recorded EXCEPT ![e] = Extended(e, status[e], cmd)]
        /\ UNCHANGED <<passOf, buffers, ran>>
    BY DEF PushCommand
  <1>4. /\ status[e] \in {"Recording", "Locked", "Consumed", "Error"}
        /\ status'[e] = Pushed(status[e], cmd)
        /\ recorded'[e] = Extended(e, status[e], cmd)
        /\ \A f \in StatusEncoder : f # e =>
              status'[f] = status[f] /\ recorded'[f] = recorded[f]
    BY <1>3 DEF EncoderType
  <1>5. EncoderType'
    <2>1. Extended(e, status[e], cmd) \in Seq(Recordings)
      BY Extends
    <2>2. Pushed(status[e], cmd) \in {"Recording", "Locked", "Consumed", "Error"}
      BY <1>4 DEF Pushed
    <2>3. calls' \in [StatusEncoder -> Seq(Calls)]
      BY <1>2, CallKept
    <2> QED
      BY <1>3, <2>1, <2>2, <2>3 DEF EncoderType
  <1>6. RunInv' /\ \A b \in DOMAIN buffers' : BufferSays(b)'
    <2>1. \A f \in StatusEncoder : status[f] = "Consumed" => status'[f] = "Consumed"
      BY <1>4 DEF Pushed
    <2> QED
      BY <1>2, <1>3, <2>1, RunKept
  <1>7. \A f \in StatusEncoder : f # e => StatusSays(f)'
    <2>1. \A f \in StatusEncoder : OpenOn(f)' = OpenOn(f) /\ StatusSays(f)
      BY <1>3 DEF OpenOn, StatusInv
    <2> QED
      BY <1>2, <1>3, <1>4, <2>1, OthersKept
  <1>8. StatusSays(e)'
    <2>1. StatusSays(e) /\ OpenOn(e)' = OpenOn(e)
      BY <1>3 DEF OpenOn, StatusInv
    <2>5. (OpenBefore(e, Len(calls[e]) + 1) = OpenOn(e))'
      BY <1>1, <1>2, <2>1, CallSays
    <2>6. /\ Recorders(e, Len(calls[e]) + 1)' = Recorders(e, n) \cup {n}
          /\ Strayed(e, n)' <=> OpenOn(e) # {}
          /\ Flawed(e, n)' <=> cmd # "good"
      <3> DEFINE name == "push"
      <3>1. name = "push" /\ name \in {"push", "end"} /\ name \in {"push", "begin"}
            /\ name # "finish" /\ name # "begin" /\ name # "end"
        OBVIOUS
      <3>2. Called(e, name, "none", cmd) /\ [op |-> name, pass |-> "none", kind |-> cmd] \in Calls
        BY <1>2
      <3> HIDE DEF name
      <3> QED
        BY <1>1, <2>1, <3>1, <3>2, CallSays
    <2>7. /\ (\A i \in DOMAIN calls'[e] : ~Strayed(e, i)')
               <=> (\A i \in DOMAIN calls[e] : ~Strayed(e, i)) /\ ~Strayed(e, n)'
          /\ (\A i \in DOMAIN calls'[e] : ~Flawed(e, i)')
               <=> (\A i \in DOMAIN calls[e] : ~Flawed(e, i)) /\ ~Flawed(e, n)'
          /\ (\E i \in DOMAIN calls'[e] : Strayed(e, i)' \/ Flawed(e, i)')
               <=> \/ \E i \in DOMAIN calls[e] : Strayed(e, i) \/ Flawed(e, i)
                   \/ Strayed(e, n)' \/ Flawed(e, n)'
      BY <1>1, <1>2, HistorySays
    <2>8. CASE status[e] = "Recording" /\ cmd # "bad"
      <3>1. status'[e] = "Recording"
        BY <1>4, <2>8 DEF Pushed
      <3>2. /\ Rising(recorded'[e]) /\ CallsOf(recorded'[e]) = Recorders(e, n) \cup {n}
            /\ Encodes(e)' <=> Encodes(e) /\ cmd # "late"
        BY <1>1, <1>4, <2>1, <2>8, Extends DEF StatusSays, Encodes
      <3>3. cmd \in {"good", "late"}
        BY <2>8 DEF Command
      <3> QED
        BY <2>1, <2>5, <2>6, <2>7, <2>8, <3>1, <3>2, <3>3 DEF StatusSays
    <2>9. CASE status[e] = "Recording" /\ cmd = "bad"
      <3>1. status'[e] = "Error" /\ Flawed(e, n)'
        BY <1>4, <2>6, <2>9 DEF Pushed
      <3> QED
        BY <2>5, <2>7, <3>1 DEF StatusSays
    <2>10. CASE status[e] = "Locked"
      <3>1. status'[e] = "Error" /\ Strayed(e, n)'
        BY <1>4, <2>1, <2>6, <2>10 DEF Pushed, StatusSays
      <3> QED
        BY <2>5, <2>7, <3>1 DEF StatusSays
    <2>11. CASE status[e] \in {"Consumed", "Error"}
      <3>1. status'[e] = status[e]
        BY <1>4, <2>11 DEF Pushed
      <3> QED
        BY <2>1, <2>5, <2>7, <2>11, <3>1 DEF StatusSays
    <2> QED
      BY <1>4, <2>8, <2>9, <2>10, <2>11
  <1> QED
    BY <1>5, <1>6, <1>7, <1>8 DEF StatusInv

(* A pass begins: on a recording encoder, or as its second one. *)
LEMMA BeginSays ==
    ASSUME EncoderType, RunInv, StatusInv, NEW e \in StatusEncoder, NEW p \in Pass,
           NEW kind \in Command, BeginPass(e, p, kind)
    PROVE  EncoderType' /\ RunInv' /\ StatusInv'
  <1> DEFINE base == CASE status[e] = "Recording" -> kind
                       [] status[e] = "Locked" -> "Locked"
                       [] status[e] = "Consumed" -> "Ended"
                       [] status[e] = "Error" -> "Invalid"
             r == [st |-> "open", parent |-> e, base |-> base]
  <1>1. PICK n : n = Len(calls[e]) + 1
    OBVIOUS
  <1>2. [op |-> "begin", pass |-> p, kind |-> kind] \in Calls /\ Called(e, "begin", p, kind)
    BY DEF Calls, BeginPass
  <1>3. /\ status' = [status EXCEPT ![e] = Locked(status[e])]
        /\ passOf' = [passOf EXCEPT ![p] = r] /\ passOf[p].st = "none"
        /\ UNCHANGED <<recorded, buffers, ran>>
    BY DEF BeginPass
  <1>4. /\ status[e] \in {"Recording", "Locked", "Consumed", "Error"}
        /\ status'[e] = Locked(status[e])
        /\ \A f \in StatusEncoder : f # e => status'[f] = status[f]
    BY <1>3 DEF EncoderType
  <1>5. base \in PassBase /\ (status[e] = "Recording" => base = kind)
    BY <1>4 DEF PassBase, Command
  <1> HIDE DEF base
  <1>6. passOf'[p] = r /\ \A q \in Pass : q # p => passOf'[q] = passOf[q]
    BY <1>3 DEF EncoderType
  <1>7. EncoderType'
    <2>1. r \in [st : {"none", "open", "ended"}, parent : StatusEncoder \cup {"none"}, base : PassBase]
      BY <1>5
    <2>2. Locked(status[e]) \in {"Recording", "Locked", "Consumed", "Error"}
      BY <1>4 DEF Locked
    <2>3. calls' \in [StatusEncoder -> Seq(Calls)]
      BY <1>2, CallKept
    <2>4. \A q \in Pass : passOf'[q].st # "none" => passOf'[q].parent \in StatusEncoder
      <3>1. \A q \in Pass : passOf[q].st # "none" => passOf[q].parent \in StatusEncoder
        BY DEF EncoderType
      <3>2. r.parent \in StatusEncoder
        OBVIOUS
      <3> HIDE DEF r
      <3> QED
        BY <1>6, <3>1, <3>2
    <2> QED
      BY <1>3, <2>1, <2>2, <2>3, <2>4 DEF EncoderType
  <1>8. RunInv' /\ \A b \in DOMAIN buffers' : BufferSays(b)'
    <2>1. \A f \in StatusEncoder : status[f] = "Consumed" => status'[f] = "Consumed"
      BY <1>4 DEF Locked
    <2> QED
      BY <1>2, <1>3, <2>1, RunKept
  <1>9. \A f \in StatusEncoder : p \notin OpenOn(f)
    BY <1>3 DEF OpenOn
  <1>10. \A f \in StatusEncoder : f # e => StatusSays(f)'
    <2>1. \A f \in StatusEncoder : f # e => OpenOn(f)' = OpenOn(f)
      BY <1>3, <1>6 DEF OpenOn
    <2>2. \A f \in StatusEncoder : StatusSays(f) /\ \A q \in OpenOn(f) : passOf'[q] = passOf[q]
      BY <1>6, <1>9 DEF OpenOn, StatusInv
    <2> QED
      BY <1>2, <1>3, <1>4, <2>1, <2>2, OthersKept
  <1>11. StatusSays(e)'
    <2>1. StatusSays(e) /\ OpenOn(e)' = OpenOn(e) \cup {p}
      BY <1>6 DEF OpenOn, StatusInv
    <2>2. /\ (OpenBefore(e, Len(calls[e]) + 1) = OpenOn(e))'
          /\ Recorders(e, Len(calls[e]) + 1)' = Recorders(e, Len(calls[e]) + 1)
          /\ Strayed(e, n)' <=> OpenOn(e) # {}
          /\ Flawed(e, n)' <=> kind # "good"
      <3> DEFINE name == "begin"
      <3>1. name = "begin" /\ name \notin {"push", "end"} /\ name \in {"push", "begin"}
            /\ name # "finish" /\ name # "end"
        OBVIOUS
      <3>2. Called(e, name, p, kind) /\ [op |-> name, pass |-> p, kind |-> kind] \in Calls
        BY <1>2
      <3> HIDE DEF name
      <3> QED
        BY <1>1, <2>1, <3>1, <3>2, CallSays
    <2>3. /\ (\A i \in DOMAIN calls'[e] : ~Strayed(e, i)')
               <=> (\A i \in DOMAIN calls[e] : ~Strayed(e, i)) /\ ~Strayed(e, n)'
          /\ (\A i \in DOMAIN calls'[e] : ~Flawed(e, i)')
               <=> (\A i \in DOMAIN calls[e] : ~Flawed(e, i)) /\ ~Flawed(e, n)'
          /\ (\E i \in DOMAIN calls'[e] : Strayed(e, i)' \/ Flawed(e, i)')
               <=> \/ \E i \in DOMAIN calls[e] : Strayed(e, i) \/ Flawed(e, i)
                   \/ Strayed(e, n)' \/ Flawed(e, n)'
      BY <1>1, <1>2, HistorySays
    <2>4. CASE status[e] = "Recording"
      <3>1. status'[e] = "Locked" /\ OpenOn(e) = {} /\ ~Strayed(e, n)'
        BY <1>4, <2>1, <2>2, <2>4 DEF Locked, StatusSays
      <3>2. passOf'[p].base = kind /\ (Encodes(e)' <=> Encodes(e))
        BY <1>3, <1>5, <1>6, <2>4 DEF Encodes
      <3>3. \E q \in Pass :
               /\ OpenOn(e)' = {q} /\ passOf'[q].base \in Command
               /\ Encodes(e)' /\ passOf'[q].base = "good"
                     <=> \A i \in DOMAIN calls'[e] : ~Flawed(e, i)'
        BY <2>1, <2>2, <2>3, <2>4, <3>1, <3>2 DEF StatusSays
      <3>4. /\ \A i \in DOMAIN calls'[e] : ~Strayed(e, i)'
            /\ CallsOf(recorded'[e]) = Recorders(e, Len(calls[e]) + 1)'
            /\ Rising(recorded'[e])
        BY <1>3, <2>1, <2>2, <2>3, <2>4, <3>1 DEF StatusSays
      <3> QED
        BY <2>2, <3>1, <3>3, <3>4 DEF StatusSays
    <2>5. CASE status[e] = "Locked"
      <3>1. status'[e] = "Error" /\ Strayed(e, n)'
        BY <1>4, <2>1, <2>2, <2>5 DEF Locked, StatusSays
      <3> QED
        BY <2>2, <2>3, <3>1 DEF StatusSays
    <2>6. CASE status[e] \in {"Consumed", "Error"}
      <3>1. status'[e] = status[e]
        BY <1>4, <2>6 DEF Locked
      <3> QED
        BY <2>1, <2>2, <2>3, <2>6, <3>1 DEF StatusSays
    <2> QED
      BY <1>4, <2>4, <2>5, <2>6
  <1> QED
    BY <1>7, <1>8, <1>10, <1>11 DEF StatusInv

(* A pass ends: what it holds is recorded as one. *)
LEMMA EndSays ==
    ASSUME EncoderType, RunInv, StatusInv, NEW p \in Pass, EndPass(p)
    PROVE  EncoderType' /\ RunInv' /\ StatusInv'
  <1>0. PICK e : e = passOf[p].parent
    OBVIOUS
  <1>1. PICK n : n = Len(calls[e]) + 1
    OBVIOUS
  <1> DEFINE base == passOf[p].base
             after == Unlocked(status[e])
             returns == UnlockFails(status[e]) \/ base \in {"Locked", "Ended"}
             cmd == IF base \in {"good", "late"} THEN base ELSE "bad"
  <1>2. /\ passOf[p].st = "open" /\ e \in StatusEncoder /\ cmd \in Command
        /\ [op |-> "end", pass |-> p, kind |-> "good"] \in Calls /\ Called(e, "end", p, "good")
    BY <1>0 DEF Calls, Command, EndPass, EncoderType
  <1>3. /\ status' = [status EXCEPT ![e] = IF returns THEN after ELSE Pushed(after, cmd)]
        /\ recorded' = [recorded EXCEPT ![e] = IF returns THEN recorded[e] ELSE Extended(e, after, cmd)]
        /\ passOf' = [passOf EXCEPT ![p].st = "ended"]
        /\ UNCHANGED <<buffers, ran>>
    BY <1>0 DEF EndPass
  <1>4. /\ status[e] \in {"Recording", "Locked", "Consumed", "Error"}
        /\ status'[e] = IF returns THEN after ELSE Pushed(after, cmd)
        /\ recorded'[e] = IF returns THEN recorded[e] ELSE Extended(e, after, cmd)
        /\ \A f \in StatusEncoder : f # e =>
              status'[f] = status[f] /\ recorded'[f] = recorded[f]
    BY <1>2, <1>3 DEF EncoderType
  <1>5. /\ passOf'[p].st = "ended" /\ passOf'[p].parent = e
        /\ \A q \in Pass : q # p => passOf'[q] = passOf[q]
    BY <1>0, <1>3 DEF EncoderType
  <1>6. StatusSays(e) /\ p \in OpenOn(e) /\ OpenOn(e)' = OpenOn(e) \ {p}
    BY <1>0, <1>2, <1>5 DEF OpenOn, StatusInv
  <1>7. status[e] # "Recording"
    BY <1>6 DEF StatusSays
  <1>8. status[e] = "Locked" => /\ OpenOn(e) = {p} /\ base \in Command /\ cmd = base /\ ~returns
                                /\ after = "Recording"
    BY <1>6 DEF StatusSays, Command, UnlockFails, Unlocked
  <1>9. status[e] \in {"Consumed", "Error"} => /\ status'[e] = status[e]
                                               /\ recorded'[e] = recorded[e]
    <2>1. status[e] \in {"Consumed", "Error"} => after = status[e]
      BY DEF Unlocked
    <2>2. status[e] \in {"Consumed", "Error"} => Pushed(status[e], cmd) = status[e]
      BY DEF Pushed
    <2>3. status[e] \in {"Consumed", "Error"} => Extended(e, status[e], cmd) = recorded[e]
      BY DEF Extended
    <2> QED
      BY <1>4, <2>1, <2>2, <2>3
  <1>10. /\ status[e] = "Locked" =>
              /\ cmd = "bad" => status'[e] = "Error"
              /\ cmd # "bad" => status'[e] = "Recording"
         /\ status[e] = "Locked" => recorded'[e] = Extended(e, "Recording", cmd)
    BY <1>4, <1>8 DEF Pushed
  <1> HIDE DEF base, after, returns, cmd
  <1>11. EncoderType'
    <2>1. Extended(e, "Recording", cmd) \in Seq(Recordings) /\ recorded[e] \in Seq(Recordings)
      BY <1>2, Extends, EncoderTypes
    <2>2. recorded' \in [StatusEncoder -> Seq(Recordings)]
      <3>1. recorded'[e] \in Seq(Recordings)
        BY <1>4, <1>7, <1>9, <1>10, <2>1
      <3>2. \A f \in StatusEncoder : recorded'[f] \in Seq(Recordings)
        BY <1>4, <3>1, EncoderTypes
      <3>3. recorded' = [f \in StatusEncoder |-> recorded'[f]]
        BY <1>3 DEF EncoderType
      <3> QED
        BY <3>2, <3>3
    <2>3. status' \in [StatusEncoder -> {"Recording", "Locked", "Consumed", "Error"}]
      <3>1. status'[e] \in {"Recording", "Locked", "Consumed", "Error"}
        BY <1>4, <1>7, <1>9, <1>10
      <3>2. \A f \in StatusEncoder : status'[f] \in {"Recording", "Locked", "Consumed", "Error"}
        BY <1>4, <3>1 DEF EncoderType
      <3>3. status' = [f \in StatusEncoder |-> status'[f]]
        BY <1>3 DEF EncoderType
      <3> QED
        BY <3>2, <3>3
    <2>4. calls' \in [StatusEncoder -> Seq(Calls)]
      BY <1>2, CallKept
    <2>5. passOf' \in [Pass -> [st : {"none", "open", "ended"},
                               parent : StatusEncoder \cup {"none"}, base : PassBase]]
      <3>1. [passOf[p] EXCEPT !.st = "ended"]
               \in [st : {"none", "open", "ended"},
                   parent : StatusEncoder \cup {"none"}, base : PassBase]
        BY DEF EncoderType
      <3> QED
        BY <1>3, <3>1 DEF EncoderType
    <2>6. \A q \in Pass : passOf'[q].st # "none" => passOf'[q].parent \in StatusEncoder
      <3>1. \A q \in Pass : passOf[q].st # "none" => passOf[q].parent \in StatusEncoder
        BY DEF EncoderType
      <3> QED
        BY <1>2, <1>5, <3>1
    <2>7. buffers' \in Seq(CommandBuffers) /\ ran' \in Seq(Nat)
      BY <1>3 DEF EncoderType
    <2> QED
      BY <2>2, <2>3, <2>4, <2>5, <2>6, <2>7 DEF EncoderType
  <1>12. RunInv' /\ \A b \in DOMAIN buffers' : BufferSays(b)'
    <2>1. \A f \in StatusEncoder : status[f] = "Consumed" => status'[f] = "Consumed"
      BY <1>4, <1>9
    <2> QED
      BY <1>2, <1>3, <2>1, RunKept
  <1>13. \A f \in StatusEncoder : f # e => StatusSays(f)'
    <2>1. \A f \in StatusEncoder : f # e => p \notin OpenOn(f)
      BY <1>0 DEF OpenOn
    <2>2. \A f \in StatusEncoder : f # e => OpenOn(f)' = OpenOn(f)
      BY <1>0, <1>5 DEF OpenOn
    <2>3. \A f \in StatusEncoder : f # e =>
              StatusSays(f) /\ \A q \in OpenOn(f) : passOf'[q] = passOf[q]
      BY <1>5, <2>1 DEF OpenOn, StatusInv
    <2> QED
      BY <1>2, <1>4, <2>2, <2>3, OthersKept
  <1>14. StatusSays(e)'
    <2>1. /\ (OpenBefore(e, Len(calls[e]) + 1) = OpenOn(e))'
          /\ Recorders(e, Len(calls[e]) + 1)' = Recorders(e, n) \cup {n}
          /\ ~Strayed(e, n)' /\ ~Flawed(e, n)'
      <3> DEFINE name == "end"
      <3>1. name = "end" /\ name \in {"push", "end"} /\ name \notin {"push", "begin"}
            /\ name # "finish" /\ name # "begin"
        OBVIOUS
      <3>2. Called(e, name, p, "good") /\ [op |-> name, pass |-> p, kind |-> "good"] \in Calls
        BY <1>2
      <3> HIDE DEF name
      <3>3. /\ name = "begin" => p \in Pass
            /\ OpenOn(e)' = IF name = "begin" THEN OpenOn(e) \cup {p}
                           ELSE IF name = "end" THEN OpenOn(e) \ {p} ELSE OpenOn(e)
        BY <1>6, <3>1
      <3>4. (OpenBefore(e, Len(calls[e]) + 1) = OpenOn(e))'
        BY <1>1, <1>2, <1>6, <3>2, <3>3, CallSays
      <3>5. Recorders(e, Len(calls[e]) + 1)' = Recorders(e, n) \cup {n}
        BY <1>1, <1>2, <1>6, <3>1, <3>2, <3>3, CallSays
      <3>6. ~Strayed(e, n)' /\ ~Flawed(e, n)'
        BY <1>1, <1>2, <1>6, <3>1, <3>2, <3>3, CallSays
      <3> QED
        BY <3>4, <3>5, <3>6
    <2>2. /\ (\A i \in DOMAIN calls'[e] : ~Strayed(e, i)')
               <=> (\A i \in DOMAIN calls[e] : ~Strayed(e, i)) /\ ~Strayed(e, n)'
          /\ (\A i \in DOMAIN calls'[e] : ~Flawed(e, i)')
               <=> (\A i \in DOMAIN calls[e] : ~Flawed(e, i)) /\ ~Flawed(e, n)'
          /\ (\E i \in DOMAIN calls'[e] : Strayed(e, i)' \/ Flawed(e, i)')
               <=> \/ \E i \in DOMAIN calls[e] : Strayed(e, i) \/ Flawed(e, i)
                   \/ Strayed(e, n)' \/ Flawed(e, n)'
      BY <1>1, <1>2, HistorySays
    <2>3. CASE status[e] = "Locked" /\ cmd # "bad"
      <3>1. status'[e] = "Recording" /\ OpenOn(e)' = {}
        BY <1>6, <1>8, <1>10, <2>3
      <3>2. /\ Rising(recorded'[e]) /\ CallsOf(recorded'[e]) = Recorders(e, n) \cup {n}
            /\ Encodes(e)' <=> Encodes(e) /\ cmd # "late"
        BY <1>1, <1>2, <1>6, <1>10, <2>3, Extends DEF StatusSays, Encodes
      <3>3. /\ cmd \in {"good", "late"}
            /\ Encodes(e) /\ cmd = "good" <=> \A i \in DOMAIN calls[e] : ~Flawed(e, i)
        BY <1>2, <1>6, <1>8, <2>3 DEF StatusSays, Command, base
      <3>4. \A i \in DOMAIN calls[e] : ~Strayed(e, i)
        BY <1>6, <2>3 DEF StatusSays
      <3> QED
        BY <2>1, <2>2, <3>1, <3>2, <3>3, <3>4 DEF StatusSays
    <2>4. CASE status[e] = "Locked" /\ cmd = "bad"
      <3>1. status'[e] = "Error"
        BY <1>10, <2>4
      <3>2. \E i \in DOMAIN calls[e] : Flawed(e, i)
        BY <1>6, <1>8, <2>4 DEF StatusSays, base
      <3> QED
        BY <2>1, <2>2, <3>1, <3>2 DEF StatusSays
    <2>5. CASE status[e] \in {"Consumed", "Error"}
      BY <1>6, <1>9, <2>1, <2>2, <2>5 DEF StatusSays
    <2> QED
      BY <1>4, <1>7, <2>3, <2>4, <2>5
  <1> QED
    BY <1>11, <1>12, <1>13, <1>14 DEF StatusInv

(* A pass that was ended is ended again: nothing but a call. *)
LEMMA EndAgainSays ==
    ASSUME EncoderType, RunInv, StatusInv, NEW p \in Pass, EndPassAgain(p)
    PROVE  EncoderType' /\ RunInv' /\ StatusInv'
  <1>0. PICK e : e = passOf[p].parent
    OBVIOUS
  <1>1. PICK n : n = Len(calls[e]) + 1
    OBVIOUS
  <1>2. /\ e \in StatusEncoder /\ Called(e, "endAgain", p, "good")
        /\ [op |-> "endAgain", pass |-> p, kind |-> "good"] \in Calls
    BY <1>0 DEF Calls, Command, EndPassAgain, EncoderType
  <1>3. UNCHANGED <<status, recorded, passOf, buffers, ran>>
    BY DEF EndPassAgain
  <1>4. EncoderType'
    <2>1. calls' \in [StatusEncoder -> Seq(Calls)]
      BY <1>2, CallKept
    <2> QED
      BY <1>3, <2>1 DEF EncoderType
  <1>5. RunInv' /\ \A b \in DOMAIN buffers' : BufferSays(b)'
    BY <1>2, <1>3, RunKept
  <1>6. \A f \in StatusEncoder : StatusSays(f) /\ OpenOn(f)' = OpenOn(f)
    BY <1>3 DEF OpenOn, StatusInv
  <1>7. \A f \in StatusEncoder : f # e => StatusSays(f)'
    BY <1>2, <1>3, <1>6, OthersKept
  <1>8. StatusSays(e)'
    <2>1. /\ (OpenBefore(e, Len(calls[e]) + 1) = OpenOn(e))'
          /\ Recorders(e, Len(calls[e]) + 1)' = Recorders(e, n)
          /\ ~Strayed(e, n)' /\ ~Flawed(e, n)'
      BY <1>1, <1>2, <1>6, CallSays
    <2>2. /\ (\A i \in DOMAIN calls'[e] : ~Strayed(e, i)')
               <=> (\A i \in DOMAIN calls[e] : ~Strayed(e, i)) /\ ~Strayed(e, n)'
          /\ (\A i \in DOMAIN calls'[e] : ~Flawed(e, i)')
               <=> (\A i \in DOMAIN calls[e] : ~Flawed(e, i)) /\ ~Flawed(e, n)'
          /\ (\E i \in DOMAIN calls'[e] : Strayed(e, i)' \/ Flawed(e, i)')
               <=> \/ \E i \in DOMAIN calls[e] : Strayed(e, i) \/ Flawed(e, i)
                   \/ Strayed(e, n)' \/ Flawed(e, n)'
      BY <1>1, <1>2, HistorySays
    <2>3. Recorders(e, n) = Recorders(e, Len(calls[e]) + 1) /\ (Encodes(e)' <=> Encodes(e))
      BY <1>1, <1>3 DEF Encodes
    <2> QED
      BY <1>2, <1>3, <1>6, <2>1, <2>2, <2>3 DEF StatusSays
  <1> QED
    BY <1>2, <1>4, <1>5, <1>7, <1>8 DEF StatusInv

(* The encoder is finished, and a command buffer made of it. *)
LEMMA FinishSays ==
    ASSUME EncoderType, RunInv, StatusInv, NEW e \in StatusEncoder, FinishEncoder(e)
    PROVE  EncoderType' /\ RunInv' /\ StatusInv'
  <1>1. PICK n : n = Len(calls[e]) + 1
    OBVIOUS
  <1>2. PICK d : d = Len(buffers) + 1
    OBVIOUS
  <1> DEFINE cmds == IF FinishedAs(e) = "Finished" THEN recorded[e] ELSE <<>>
             r == [enc |-> e, st |-> FinishedAs(e), cmds |-> cmds, at |-> n]
  <1>3. /\ [op |-> "finish", pass |-> "none", kind |-> "good"] \in Calls
        /\ Called(e, "finish", "none", "good") /\ n \in Nat /\ d \in Nat
    BY <1>1, <1>2, EncoderTypes DEF Calls, Command, FinishEncoder
  <1>4. /\ buffers' = Append(buffers, r)
        /\ status' = [status EXCEPT ![e] = "Consumed"]
        /\ recorded' = [recorded EXCEPT ![e] = <<>>]
        /\ UNCHANGED <<passOf, ran>>
    BY <1>1 DEF FinishEncoder
  <1>5. /\ status'[e] = "Consumed" /\ recorded'[e] = <<>>
        /\ \A f \in StatusEncoder : f # e =>
              status'[f] = status[f] /\ recorded'[f] = recorded[f]
    BY <1>4 DEF EncoderType
  <1>6. r \in CommandBuffers /\ cmds \in Seq(Recordings)
    <2>1. cmds \in Seq(Recordings)
      BY EncoderTypes
    <2> QED
      BY <1>3, <2>1 DEF CommandBuffers, FinishedAs
  <1>7. r.enc = e /\ r.st = FinishedAs(e) /\ r.cmds = cmds /\ r.at = n
    OBVIOUS
  <1> HIDE DEF r
  <1>8. /\ DOMAIN buffers' = DOMAIN buffers \cup {d} /\ d \notin DOMAIN buffers
        /\ buffers'[d] = r /\ \A b \in DOMAIN buffers : buffers'[b] = buffers[b]
    BY <1>2, <1>4, <1>6 DEF EncoderType
  <1>9. EncoderType'
    <2>1. calls' \in [StatusEncoder -> Seq(Calls)]
      BY <1>3, CallKept
    <2>2. buffers' \in Seq(CommandBuffers)
      BY <1>4, <1>6 DEF EncoderType
    <2>3. recorded' \in [StatusEncoder -> Seq(Recordings)]
      <3>1. <<>> \in Seq(Recordings)
        OBVIOUS
      <3> QED
        BY <1>4, <3>1 DEF EncoderType
    <2>4. status' \in [StatusEncoder -> {"Recording", "Locked", "Consumed", "Error"}]
      BY <1>4 DEF EncoderType
    <2>5. /\ passOf' \in [Pass -> [st : {"none", "open", "ended"},
                                  parent : StatusEncoder \cup {"none"}, base : PassBase]]
          /\ \A p \in Pass : passOf'[p].st # "none" => passOf'[p].parent \in StatusEncoder
          /\ ran' \in Seq(Nat)
      BY <1>4 DEF EncoderType
    <2> QED
      BY <2>1, <2>2, <2>3, <2>4, <2>5 DEF EncoderType
  <1>10. /\ \A b \in DOMAIN buffers : Runnable(b)' <=> Runnable(b)
         /\ Runnable(d)' <=> FinishedAs(e) = "Finished"
    <2>1. \A i \in DOMAIN ran : ran[i] # d
      BY <1>8 DEF RunInv
    <2> QED
      BY <1>4, <1>7, <1>8, <2>1 DEF Runnable
  <1>11. RunInv'
    <2>1. \A b \in DOMAIN buffers : buffers[b].enc \in StatusEncoder
      BY EncoderTypes
    <2>2. FinishedAs(e) = "Finished" => status[e] = "Recording"
      BY DEF FinishedAs
    <2>3. \A b \in DOMAIN buffers' : Runnable(b)' => status'[buffers'[b].enc] = "Consumed"
      BY <1>5, <1>7, <1>8, <1>10, <2>1 DEF RunInv
    <2>4. \A b \in DOMAIN buffers : Runnable(b)' /\ Runnable(d)' => buffers[b].enc # e
      BY <1>10, <2>1, <2>2 DEF RunInv
    <2>5. \A a, b \in DOMAIN buffers' :
             Runnable(a)' /\ Runnable(b)' /\ a # b => buffers'[a].enc # buffers'[b].enc
      BY <1>7, <1>8, <1>10, <2>4 DEF RunInv
    <2>6. /\ \A i \in DOMAIN ran' : ran'[i] \in DOMAIN buffers' /\ buffers'[ran'[i]].st = "Submitted"
          /\ \A i, j \in DOMAIN ran' : i # j => ran'[i] # ran'[j]
      BY <1>4, <1>8 DEF RunInv
    <2> QED
      BY <2>3, <2>5, <2>6 DEF RunInv
  <1>12. \A f \in StatusEncoder : StatusSays(f) /\ OpenOn(f)' = OpenOn(f)
    BY <1>4 DEF OpenOn, StatusInv
  <1>13. \A f \in StatusEncoder : f # e => StatusSays(f)'
    BY <1>3, <1>4, <1>5, <1>12, OthersKept
  <1>14. StatusSays(e)'
    <2>1. /\ (OpenBefore(e, Len(calls[e]) + 1) = OpenOn(e))'
          /\ Strayed(e, n)'
      BY <1>1, <1>3, <1>12, CallSays
    <2>2. \E i \in DOMAIN calls'[e] : Strayed(e, i)' \/ Flawed(e, i)'
      BY <1>1, <1>3, <2>1, HistorySays
    <2> QED
      BY <1>5, <2>1, <2>2 DEF StatusSays
  <1>15. \A b \in DOMAIN buffers : BufferSays(b)'
    BY <1>3, <1>8, <1>10, BuffersKept DEF StatusInv
  <1>16. BufferSays(d)'
    <2>1. n \in DOMAIN calls'[e]
      BY <1>1, <1>3, CallKept
    <2>2. n \in 1..(Len(calls[e]) + 1) /\ n \in Nat /\ DOMAIN calls[e] = 1..(n - 1)
      BY <1>1, EncoderTypes
    <2>3. (WellNested(e, n)' <=> WellNested(e, n)) /\ Recorders(e, n)' = Recorders(e, n)
      BY <1>3, <2>2, HistoryKept
    <2>4. OpenBefore(e, n) = OpenOn(e)
      BY <1>1, <1>12 DEF StatusSays
    <2>5. WellNested(e, n) <=> /\ OpenOn(e) = {}
                               /\ \A i \in DOMAIN calls[e] : ~Strayed(e, i) /\ ~Flawed(e, i)
      BY <2>2, <2>4, NestedCalls
    <2>6. FinishedAs(e) = "Finished" <=> WellNested(e, n)
      <3>1. status[e] \in {"Recording", "Locked", "Consumed", "Error"}
        BY DEF EncoderType
      <3>2. status[e] = "Recording" => (WellNested(e, n) <=> Encodes(e))
        BY <1>12, <2>5 DEF StatusSays
      <3>3. status[e] # "Recording" => ~WellNested(e, n)
        BY <1>12, <2>5, <3>1 DEF StatusSays
      <3> QED
        BY <3>2, <3>3 DEF FinishedAs
    <2>7. FinishedAs(e) = "Finished" => CallsOf(cmds) = Recorders(e, n)
      BY <1>1, <1>12 DEF StatusSays, FinishedAs
    <2>8. Rising(cmds)
      BY <1>12 DEF StatusSays, FinishedAs, Rising
    <2> QED
      BY <1>7, <1>8, <1>10, <2>1, <2>3, <2>6, <2>7, <2>8 DEF BufferSays
  <1> QED
    BY <1>8, <1>9, <1>11, <1>13, <1>14, <1>15, <1>16 DEF StatusInv

(* A command buffer is submitted, and spent. *)
LEMMA SubmitSays ==
    ASSUME EncoderType, RunInv, StatusInv, NEW d \in DOMAIN buffers, SubmitBuffer(d)
    PROVE  EncoderType' /\ RunInv' /\ StatusInv'
  <1>1. /\ buffers[d].st # "Submitted"
        /\ ran' = IF buffers[d].st = "Finished" THEN Append(ran, d) ELSE ran
        /\ buffers' = [buffers EXCEPT ![d].st = "Submitted"]
        /\ UNCHANGED <<status, recorded, passOf, calls>>
    BY DEF SubmitBuffer, TakenAs
  <1> DEFINE r == [buffers[d] EXCEPT !.st = "Submitted"]
  <1>2. /\ DOMAIN buffers' = DOMAIN buffers /\ buffers'[d] = r
        /\ \A b \in DOMAIN buffers : b # d => buffers'[b] = buffers[b]
    BY <1>1
  <1>3. r \in CommandBuffers /\ r.st = "Submitted" /\ r.enc = buffers[d].enc
        /\ r.cmds = buffers[d].cmds /\ r.at = buffers[d].at
    BY EncoderTypes DEF CommandBuffers
  <1>4. d \in Nat /\ ran \in Seq(Nat) /\ ran' \in Seq(Nat)
    BY <1>1, EncoderTypes DEF EncoderType
  <1>5. buffers[d].st = "Finished" =>
            /\ Len(ran) + 1 \notin DOMAIN ran
            /\ DOMAIN ran' = DOMAIN ran \cup {Len(ran) + 1} /\ ran'[Len(ran) + 1] = d
            /\ \A i \in DOMAIN ran : ran'[i] = ran[i]
    BY <1>1, <1>4
  <1> HIDE DEF r
  <1>6. /\ \A b \in DOMAIN buffers : b # d => buffers'[b] = buffers[b]
        /\ \A b \in DOMAIN buffers : /\ buffers'[b].enc = buffers[b].enc
                                     /\ buffers'[b].cmds = buffers[b].cmds
                                     /\ buffers'[b].at = buffers[b].at
    BY <1>2, <1>3
  <1>7. EncoderType'
    <2>1. buffers' \in Seq(CommandBuffers)
      <3>1. buffers' = [buffers EXCEPT ![d] = r]
        BY <1>1, <1>2, EncoderTypes DEF EncoderType
      <3> QED
        BY <1>3, <3>1 DEF EncoderType
    <2> QED
      BY <1>1, <1>4, <2>1 DEF EncoderType
  <1>8. \A i \in DOMAIN ran : ran[i] # d
    BY <1>1 DEF RunInv
  <1>9. \A b \in DOMAIN buffers : Runnable(b)' <=> Runnable(b)
    <2>1. CASE buffers[d].st = "Finished"
      <3>1. Runnable(d)' /\ Runnable(d)
        BY <1>5, <2>1 DEF Runnable
      <3>2. \A b \in DOMAIN buffers : b # d => (Runnable(b)' <=> Runnable(b))
        BY <1>5, <1>6, <2>1 DEF Runnable
      <3> QED
        BY <3>1, <3>2
    <2>2. CASE buffers[d].st # "Finished"
      BY <1>1, <1>2, <1>3, <1>8, <2>2 DEF Runnable
    <2> QED
      BY <2>1, <2>2
  <1>10. RunInv'
    <2>1. /\ \A b \in DOMAIN buffers' : Runnable(b)' => status'[buffers'[b].enc] = "Consumed"
          /\ \A a, b \in DOMAIN buffers' :
                Runnable(a)' /\ Runnable(b)' /\ a # b => buffers'[a].enc # buffers'[b].enc
      BY <1>1, <1>2, <1>6, <1>9 DEF RunInv
    <2>2. /\ \A i \in DOMAIN ran' : ran'[i] \in DOMAIN buffers' /\ buffers'[ran'[i]].st = "Submitted"
          /\ \A i, j \in DOMAIN ran' : i # j => ran'[i] # ran'[j]
      <3>1. \A i \in DOMAIN ran : /\ ran[i] \in DOMAIN buffers' /\ ran[i] # d
                                  /\ buffers'[ran[i]].st = "Submitted"
        BY <1>2, <1>6, <1>8 DEF RunInv
      <3>2. CASE buffers[d].st = "Finished"
        BY <1>2, <1>3, <1>5, <3>1, <3>2 DEF RunInv
      <3>3. CASE buffers[d].st # "Finished"
        BY <1>1, <3>1, <3>3 DEF RunInv
      <3> QED
        BY <3>2, <3>3
    <2> QED
      BY <2>1, <2>2 DEF RunInv
  <1>11. \A e \in StatusEncoder : StatusSays(e)'
    BY <1>1 DEF StatusInv, StatusSays, OpenBefore, OpenOn, Strayed, Flawed, CallsOf,
                Recorders, Rising, Encodes
  <1>12. \A b \in DOMAIN buffers' : BufferSays(b)'
    <2>1. \A e, n : /\ WellNested(e, n)' <=> WellNested(e, n)
                    /\ Recorders(e, n)' = Recorders(e, n)
      BY <1>1 DEF WellNested, Recorders, OpenBefore
    <2> QED
      BY <1>1, <1>2, <1>6, <1>9, <2>1 DEF StatusInv, BufferSays
  <1> QED
    BY <1>7, <1>10, <1>11, <1>12 DEF StatusInv

LEMMA EncoderBegins == EncoderInit => EncoderInv
  <1> SUFFICES ASSUME EncoderInit PROVE EncoderInv
    OBVIOUS
  <1>1. EncoderType
    <2>1. /\ NoPass \in [st : {"none", "open", "ended"},
                         parent : StatusEncoder \cup {"none"}, base : PassBase]
          /\ NoPass.st = "none"
      BY DEF NoPass, PassBase
    <2>2. \A p \in Pass : passOf[p] = NoPass
      BY DEF EncoderInit
    <2>3. \A S : <<>> \in Seq(S)
      OBVIOUS
    <2> QED
      BY <2>1, <2>2, <2>3 DEF EncoderInit, EncoderType
  <1>2. RunInv /\ DOMAIN buffers = {}
    BY DEF EncoderInit, RunInv
  <1>3. \A e \in StatusEncoder : StatusSays(e)
    <2> SUFFICES ASSUME NEW e \in StatusEncoder PROVE StatusSays(e)
      OBVIOUS
    <2>1. status[e] = "Recording" /\ recorded[e] = <<>> /\ calls[e] = <<>> /\ Len(calls[e]) = 0
      BY DEF EncoderInit
    <2>2. \A p \in Pass : passOf[p].st # "open"
      BY DEF EncoderInit, NoPass
    <2>3. OpenOn(e) = {} /\ OpenBefore(e, Len(calls[e]) + 1) = {}
      BY <2>1, <2>2 DEF OpenOn, OpenBefore
    <2>4. CallsOf(recorded[e]) = {} /\ Recorders(e, Len(calls[e]) + 1) = {}
      BY <2>1 DEF CallsOf, Recorders
    <2>5. DOMAIN calls[e] = {} /\ Encodes(e) /\ Rising(recorded[e])
      BY <2>1 DEF Rising, Encodes
    <2> QED
      BY <2>1, <2>3, <2>4, <2>5 DEF StatusSays
  <1> QED
    BY <1>1, <1>2, <1>3 DEF EncoderInv, StatusInv

LEMMA EncoderSteps == EncoderInv /\ [EncoderNext]_encoderVars => EncoderInv'
  <1> SUFFICES ASSUME EncoderType, RunInv, StatusInv, [EncoderNext]_encoderVars
               PROVE  EncoderType' /\ RunInv' /\ StatusInv'
    BY DEF EncoderInv
  <1>1. ASSUME NEW e \in StatusEncoder, NEW cmd \in Command, PushCommand(e, cmd)
        PROVE  EncoderType' /\ RunInv' /\ StatusInv'
    BY <1>1, PushSays
  <1>2. ASSUME NEW e \in StatusEncoder, NEW p \in Pass, NEW kind \in Command, BeginPass(e, p, kind)
        PROVE  EncoderType' /\ RunInv' /\ StatusInv'
    BY <1>2, BeginSays
  <1>3. ASSUME NEW p \in Pass, EndPass(p)
        PROVE  EncoderType' /\ RunInv' /\ StatusInv'
    BY <1>3, EndSays
  <1>4. ASSUME NEW p \in Pass, EndPassAgain(p)
        PROVE  EncoderType' /\ RunInv' /\ StatusInv'
    BY <1>4, EndAgainSays
  <1>5. ASSUME NEW e \in StatusEncoder, FinishEncoder(e)
        PROVE  EncoderType' /\ RunInv' /\ StatusInv'
    BY <1>5, FinishSays
  <1>6. ASSUME NEW b \in 1..Len(buffers), SubmitBuffer(b)
        PROVE  EncoderType' /\ RunInv' /\ StatusInv'
    BY <1>6, SubmitSays, EncoderTypes
  <1>7. CASE UNCHANGED encoderVars
    <2> USE <1>7 DEF encoderVars
    <2>1. EncoderType' /\ RunInv'
      BY DEF EncoderType, RunInv, Runnable
    <2>2. \A e \in StatusEncoder : StatusSays(e)'
      BY DEF StatusInv, StatusSays, OpenBefore, OpenOn, Strayed, Flawed, CallsOf,
             Recorders, Rising, Encodes
    <2>3. \A b \in DOMAIN buffers' : BufferSays(b)'
      <3>1. \A e, n : /\ WellNested(e, n)' <=> WellNested(e, n)
                      /\ Recorders(e, n)' = Recorders(e, n)
        BY DEF WellNested, Recorders, OpenBefore
      <3>2. \A b : Runnable(b)' <=> Runnable(b)
        BY DEF Runnable
      <3> QED
        BY <3>1, <3>2 DEF StatusInv, BufferSays
    <2> QED
      BY <2>1, <2>2, <2>3 DEF StatusInv
  <1> QED
    BY <1>1, <1>2, <1>3, <1>4, <1>5, <1>6, <1>7 DEF EncoderNext

(* The status of an encoder always says what the calls made to it were,    *)
(* and what was recorded of them is executed by one command buffer at most *)
(* (CommandEncoderStatus, command/mod.rs).                                 *)
THEOREM EncoderTold == EncoderSpec => []EncoderInv
  BY EncoderBegins, EncoderSteps, PTL DEF EncoderSpec

(* A command buffer is executed if and only if the calls made to its       *)
(* encoder were those of a valid one, with all that was recorded, in order *)
(* (CommandEncoder::finish, Queue::submit).                                *)
THEOREM OnlyWellNested == EncoderSpec => []FinishedWellNested
  <1>1. EncoderInv => FinishedWellNested
    <2> SUFFICES ASSUME EncoderType, StatusInv, NEW b \in DOMAIN buffers
                 PROVE  LET e == buffers[b].enc
                            n == buffers[b].at
                            Runs == buffers[b].st = "Finished" \/ \E i \in DOMAIN ran : ran[i] = b
                        IN  /\ Runs <=> WellNested(e, n)
                            /\ Runs => {buffers[b].cmds[i].call : i \in DOMAIN buffers[b].cmds} =
                                         {i \in 1..(n - 1) : calls[e][i].op \in {"push", "end"}}
                            /\ \A i, j \in DOMAIN buffers[b].cmds :
                                  i < j => buffers[b].cmds[i].call < buffers[b].cmds[j].call
      BY DEF EncoderInv, FinishedWellNested
    <2>1. BufferSays(b)
      BY DEF StatusInv
    <2> QED
      BY <2>1 DEF BufferSays, Runnable, CallsOf, Recorders, Rising
  <1> QED
    BY <1>1, EncoderTold, PTL

(* What an encoder recorded is executed once at most (take_finished). *)
THEOREM RunOnce == EncoderSpec => []RunsOnce
  <1>1. EncoderInv => RunsOnce
    BY DEF EncoderInv, RunInv, RunsOnce, Runnable
  <1> QED
    BY <1>1, EncoderTold, PTL

--------------------------------------------------------------------------------
(* The surface and its images *)

Ops == {"idle", "configure", "configured", "acquire", "store"}
SurfaceTextures == [image : Nat \X Nat, raw : BOOLEAN]

SurfaceType ==
    /\ presentation \in [set : BOOLEAN, acquired : Nat]
    /\ textures \in Seq(SurfaceTextures) /\ handles \in Seq(Nat)
    /\ DOMAIN handles = DOMAIN textures
    /\ presentation.acquired # 0 => presentation.acquired \in DOMAIN textures /\ presentation.set
    /\ doing \in [Presenter -> [op : Ops, image : Nat \X Nat]]
    /\ \A c \in Presenter : doing[c].op = "idle" => doing[c] = Resting
    /\ swapchain \in Nat /\ chains \in Nat /\ swapchain <= chains
    /\ careless \in BOOLEAN /\ surfacePanic \in BOOLEAN /\ valid \in BOOLEAN

Storing(c) == doing[c].op = "store"
Made == (0..chains) \X (1..SwapImages)

(* Where an image may be: idle or discarded, of the swapchain in use; with *)
(* one texture, or with one thread that is about to store it, of any       *)
(* swapchain made.                                                         *)
Given == idleImages \cup discarded
ImageInv ==
    /\ Given \subseteq {swapchain} \X (1..SwapImages)
    /\ idleImages \cap discarded = {}
    /\ \A i \in DOMAIN textures : textures[i].raw =>
          textures[i].image \notin Given /\ textures[i].image \in Made
    /\ \A c \in Presenter : Storing(c) =>
          doing[c].image \notin Given /\ doing[c].image \in Made
    /\ \A i, j \in DOMAIN textures :
          i # j /\ textures[i].raw /\ textures[j].raw => textures[i].image # textures[j].image
    /\ \A i \in DOMAIN textures, c \in Presenter :
          Storing(c) /\ textures[i].raw => textures[i].image # doing[c].image
    /\ \A c, d \in Presenter :
          c # d /\ Storing(c) /\ Storing(d) => doing[c].image # doing[d].image

(* While the application is careful and the device is valid, one thread is *)
(* busy with the surface at most, and no frame is out then; the            *)
(* presentation is set where a frame is acquired, and only over a          *)
(* swapchain.                                                              *)
Busy(c) == doing[c].op # "idle"
OneBusy ==
    /\ \A c, d \in Presenter : Busy(c) /\ Busy(d) => c = d
    /\ \A c \in Presenter : Busy(c) => presentation.acquired = 0
    /\ \A c \in Presenter :
          /\ doing[c].op \in {"configure", "configured"} => ~presentation.set
          /\ doing[c].op \in {"acquire", "store"} => presentation.set
          /\ doing[c].op = "configured" => swapchain # 0
    /\ presentation.set => swapchain # 0
(* The images in use are then of the swapchain, and it has no others.      *)
Accounted ==
    /\ ~surfacePanic
    /\ \A i \in InUse : i[1] = swapchain
    /\ swapchain # 0 => {swapchain} \X (1..SwapImages) = Given \cup InUse
    /\ \A t \in DOMAIN textures :
          /\ textures[t].raw <=> presentation.acquired = t
          /\ handles[t] = IF presentation.acquired = t THEN 1 ELSE 0
CareInv == careless \/ ~valid \/ (OneBusy /\ Accounted)

SurfaceInv == SurfaceType /\ ImageInv /\ CareInv

LEMMA InUseIs ==
    \A x : x \in InUse <=>
        \/ \E i \in DOMAIN textures : textures[i].raw /\ x = textures[i].image
        \/ \E c \in Presenter : Storing(c) /\ x = doing[c].image
  BY DEF InUse, Storing

(* A step that moves no image from one place to another. *)
LEMMA ImagesStay ==
    ASSUME ImageInv, UNCHANGED <<textures, idleImages, discarded, swapchain, chains>>,
           \A c \in Presenter : Storing(c)' <=> Storing(c),
           \A c \in Presenter : Storing(c) => doing'[c] = doing[c]
    PROVE  ImageInv' /\ InUse' = InUse
  <1>1. ImageInv'
    BY DEF ImageInv, Made, Given
  <1>2. \A x : x \in InUse' <=> x \in InUse
    BY DEF InUse, Storing
  <1> QED
    BY <1>1, <1>2

(* An application that is careful now has no frame and does nothing. *)
LEMMA NothingOut ==
    ASSUME SurfaceType, CareInv, ~careless, valid, Careful
    PROVE  presentation.acquired = 0 /\ (\A c \in Presenter : ~Busy(c)) /\ OneBusy /\ Accounted
  <1>1. OneBusy /\ Accounted /\ \A c \in Presenter : ~Busy(c)
    BY DEF CareInv, Careful, Busy
  <1>2. ASSUME presentation.acquired # 0 PROVE FALSE
    <2>1. handles[presentation.acquired] = 1 /\ presentation.acquired \in DOMAIN handles
      BY <1>1, <1>2 DEF SurfaceType, Accounted
    <2> QED
      BY <2>1 DEF Careful, FrameOut
  <1> QED
    BY <1>1, <1>2

LEMMA TakeAccounts ==
    ASSUME SurfaceInv, NEW c \in Presenter, ConfigureTake(c)
    PROVE  SurfaceInv'
  <1> USE DEF SurfaceInv
  <1>1. /\ doing[c] = Resting /\ valid
        /\ careless' = (careless \/ ~Careful)
        /\ presentation' = Unconfigured
        /\ doing' = [doing EXCEPT ![c] =
                        IF presentation.acquired # 0 THEN Resting ELSE Doing("configure")]
        /\ UNCHANGED <<textures, handles, swapchain, chains, idleImages, discarded, valid,
                       surfacePanic>>
    BY DEF ConfigureTake
  <1>2. /\ doing'[c] \in {Resting, Doing("configure")}
        /\ \A d \in Presenter : d # c => doing'[d] = doing[d]
    BY <1>1 DEF SurfaceType
  <1>3. doing'[c].op \in {"idle", "configure"} /\ doing[c].op = "idle"
    BY <1>1, <1>2 DEF Resting, Doing
  <1>4. SurfaceType'
    <2>1. Resting \in [op : Ops, image : Nat \X Nat] /\ Doing("configure") \in [op : Ops, image : Nat \X Nat]
          /\ Resting.op = "idle" /\ Doing("configure").op = "configure"
      BY DEF Resting, Doing, Ops
    <2>2. Unconfigured \in [set : BOOLEAN, acquired : Nat] /\ Unconfigured.acquired = 0
      BY DEF Unconfigured
    <2>3. doing' \in [Presenter -> [op : Ops, image : Nat \X Nat]]
      BY <1>1, <2>1 DEF SurfaceType
    <2>4. \A d \in Presenter : doing'[d].op = "idle" => doing'[d] = Resting
      BY <1>2, <2>1 DEF SurfaceType
    <2> QED
      BY <1>1, <2>2, <2>3, <2>4 DEF SurfaceType
  <1>5. ImageInv' /\ InUse' = InUse
    <2>1. \A d \in Presenter : Storing(d)' <=> Storing(d)
      BY <1>2, <1>3 DEF Storing
    <2>2. \A d \in Presenter : Storing(d) => doing'[d] = doing[d]
      BY <1>2, <1>3 DEF Storing
    <2> QED
      BY <1>1, <2>1, <2>2, ImagesStay
  <1>6. ASSUME ~careless', valid' PROVE OneBusy' /\ Accounted'
    <2>1. ~careless /\ Careful
      BY <1>1, <1>6
    <2>2. /\ presentation.acquired = 0 /\ OneBusy /\ Accounted
          /\ \A d \in Presenter : ~Busy(d)
      BY <1>1, <1>6, <2>1, NothingOut
    <2>3. presentation'.set = FALSE /\ presentation'.acquired = 0
      BY <1>1 DEF Unconfigured
    <2>4. \A d \in Presenter : d # c => ~Busy(d)' /\ doing'[d].op = "idle"
      BY <1>2, <2>2 DEF Busy
    <2>5. OneBusy'
      BY <1>3, <2>3, <2>4 DEF OneBusy, Busy
    <2>6. Accounted'
      BY <1>1, <1>5, <2>2, <2>3 DEF Accounted, Given
    <2> QED
      BY <2>5, <2>6
  <1> QED
    BY <1>4, <1>5, <1>6 DEF CareInv

LEMMA BackendAccounts ==
    ASSUME SurfaceInv, NEW c \in Presenter, NEW ok \in BOOLEAN, ConfigureBackend(c, ok)
    PROVE  SurfaceInv'
  <1> USE DEF SurfaceInv
  <1>1. /\ doing[c].op = "configure"
        /\ surfacePanic' = (surfacePanic \/ \E i \in InUse : i[1] = swapchain)
        /\ chains' = chains + 1
        /\ swapchain' = IF ok THEN chains' ELSE 0
        /\ idleImages' = IF ok THEN {chains'} \X (1..SwapImages) ELSE {}
        /\ discarded' = {}
        /\ doing' = [doing EXCEPT ![c] = IF ok THEN Doing("configured") ELSE Resting]
        /\ UNCHANGED <<presentation, textures, handles, valid, careless>>
    BY DEF ConfigureBackend
  <1>2. /\ doing'[c] = IF ok THEN Doing("configured") ELSE Resting
        /\ \A d \in Presenter : d # c => doing'[d] = doing[d]
    BY <1>1 DEF SurfaceType
  <1>3. doing'[c].op = IF ok THEN "configured" ELSE "idle"
    BY <1>2 DEF Resting, Doing
  <1>4. chains \in Nat /\ chains' \in Nat /\ chains' > chains /\ swapchain' \in Nat /\ swapchain' <= chains'
    BY <1>1 DEF SurfaceType
  <1>5. SurfaceType'
    <2>1. Resting \in [op : Ops, image : Nat \X Nat] /\ Doing("configured") \in [op : Ops, image : Nat \X Nat]
      BY DEF Resting, Doing, Ops
    <2>2. doing' \in [Presenter -> [op : Ops, image : Nat \X Nat]]
      BY <1>1, <2>1 DEF SurfaceType
    <2>3. \A d \in Presenter : doing'[d].op = "idle" => doing'[d] = Resting
      BY <1>2, <1>3 DEF SurfaceType
    <2>4. surfacePanic' \in BOOLEAN
      BY <1>1 DEF SurfaceType
    <2> QED
      BY <1>1, <1>4, <2>2, <2>3, <2>4 DEF SurfaceType
  <1>6. \A d \in Presenter : /\ Storing(d)' <=> Storing(d)
                             /\ Storing(d) => doing'[d] = doing[d]
    BY <1>1, <1>2, <1>3 DEF Storing
  <1>7. ImageInv'
    <2>1. Given' \subseteq {swapchain'} \X (1..SwapImages) /\ idleImages' \cap discarded' = {}
      BY <1>1 DEF Given
    <2>2. \A x \in Given' : x[1] = chains'
      BY <1>1 DEF Given
    <2>3. \A x \in Made : x \notin Given' /\ x \in Made'
      BY <1>1, <1>4, <2>2 DEF Made
    <2> QED
      BY <1>1, <1>6, <2>1, <2>3 DEF ImageInv
  <1>8. ASSUME ~careless', valid' PROVE OneBusy' /\ Accounted'
    <2>1. OneBusy /\ Accounted /\ ~careless
      BY <1>1, <1>8 DEF CareInv
    <2>2. Busy(c) /\ presentation.acquired = 0 /\ ~presentation.set
      BY <1>1, <2>1 DEF OneBusy, Busy
    <2>3. \A d \in Presenter : d # c => doing'[d].op = "idle" /\ ~Busy(d)'
      BY <1>2, <2>1, <2>2 DEF OneBusy, Busy
    <2>4. OneBusy'
      BY <1>1, <1>3, <1>4, <2>2, <2>3 DEF OneBusy, Busy
    <2>5. InUse = {} /\ InUse' = {}
      <3>1. \A i \in DOMAIN textures : ~textures[i].raw
        BY <2>1, <2>2 DEF Accounted, SurfaceType
      <3>2. \A d \in Presenter : ~Storing(d) /\ ~Storing(d)'
        BY <1>1, <1>6, <2>1, <2>2 DEF OneBusy, Busy, Storing
      <3>3. \A x : x \notin InUse
        BY <3>1, <3>2, InUseIs
      <3>4. \A x : x \notin InUse'
        BY <1>1, <3>1, <3>2 DEF InUse, Storing
      <3> QED
        BY <3>3, <3>4
    <2>6. Accounted'
      <3>1. ~surfacePanic'
        BY <1>1, <2>1, <2>5 DEF Accounted
      <3>2. swapchain' # 0 => {swapchain'} \X (1..SwapImages) = Given' \cup InUse'
        BY <1>1, <2>5 DEF Given
      <3> QED
        BY <1>1, <2>1, <2>5, <3>1, <3>2 DEF Accounted
    <2> QED
      BY <2>4, <2>6
  <1> QED
    BY <1>5, <1>7, <1>8 DEF CareInv

LEMMA SetAccounts ==
    ASSUME SurfaceInv, NEW c \in Presenter, ConfigureSet(c)
    PROVE  SurfaceInv'
  <1> USE DEF SurfaceInv
  <1>1. /\ doing[c].op = "configured"
        /\ presentation' = [set |-> TRUE, acquired |-> 0]
        /\ doing' = [doing EXCEPT ![c] = Resting]
        /\ UNCHANGED <<textures, handles, swapchain, chains, idleImages, discarded, valid,
                       careless, surfacePanic>>
    BY DEF ConfigureSet
  <1>2. /\ doing'[c] = Resting /\ doing'[c].op = "idle"
        /\ \A d \in Presenter : d # c => doing'[d] = doing[d]
    BY <1>1 DEF SurfaceType, Resting
  <1>3. SurfaceType'
    <2>1. Resting \in [op : Ops, image : Nat \X Nat]
      BY DEF Resting, Ops
    <2>2. doing' \in [Presenter -> [op : Ops, image : Nat \X Nat]]
      BY <1>1, <2>1 DEF SurfaceType
    <2>3. \A d \in Presenter : doing'[d].op = "idle" => doing'[d] = Resting
      BY <1>2 DEF SurfaceType
    <2>4. presentation' \in [set : BOOLEAN, acquired : Nat] /\ presentation'.acquired = 0
      BY <1>1
    <2> QED
      BY <1>1, <2>2, <2>3, <2>4 DEF SurfaceType
  <1>4. ImageInv' /\ InUse' = InUse
    <2>1. \A d \in Presenter : Storing(d)' <=> Storing(d)
      BY <1>1, <1>2 DEF Storing
    <2>2. \A d \in Presenter : Storing(d) => doing'[d] = doing[d]
      BY <1>1, <1>2 DEF Storing
    <2> QED
      BY <1>1, <2>1, <2>2, ImagesStay
  <1>5. ASSUME ~careless', valid' PROVE OneBusy' /\ Accounted'
    <2>1. OneBusy /\ Accounted /\ ~careless
      BY <1>1, <1>5 DEF CareInv
    <2>2. Busy(c) /\ presentation.acquired = 0 /\ swapchain # 0
      BY <1>1, <2>1 DEF OneBusy, Busy
    <2>3. \A d \in Presenter : doing'[d].op = "idle" /\ ~Busy(d)'
      BY <1>2, <2>1, <2>2 DEF OneBusy, Busy
    <2>4. OneBusy'
      BY <1>1, <2>2, <2>3 DEF OneBusy
    <2>5. Accounted'
      BY <1>1, <1>4, <2>1, <2>2 DEF Accounted, Given
    <2> QED
      BY <2>4, <2>5
  <1> QED
    BY <1>3, <1>4, <1>5 DEF CareInv

LEMMA ReadAccounts ==
    ASSUME SurfaceInv, NEW c \in Presenter, AcquireRead(c)
    PROVE  SurfaceInv'
  <1> USE DEF SurfaceInv
  <1>1. /\ doing[c] = Resting /\ presentation.set /\ valid
        /\ careless' = (careless \/ ~Careful)
        /\ doing' = [doing EXCEPT ![c] = Doing("acquire")]
        /\ UNCHANGED <<presentation, textures, handles, swapchain, chains, idleImages,
                       discarded, valid, surfacePanic>>
    BY DEF AcquireRead
  <1>2. /\ doing'[c] = Doing("acquire") /\ doing'[c].op = "acquire" /\ doing[c].op = "idle"
        /\ \A d \in Presenter : d # c => doing'[d] = doing[d]
    BY <1>1 DEF SurfaceType, Resting, Doing
  <1>3. SurfaceType'
    <2>1. Doing("acquire") \in [op : Ops, image : Nat \X Nat]
      BY DEF Doing, Ops
    <2>2. doing' \in [Presenter -> [op : Ops, image : Nat \X Nat]]
      BY <1>1, <2>1 DEF SurfaceType
    <2>3. \A d \in Presenter : doing'[d].op = "idle" => doing'[d] = Resting
      BY <1>2 DEF SurfaceType
    <2> QED
      BY <1>1, <2>2, <2>3 DEF SurfaceType
  <1>4. ImageInv' /\ InUse' = InUse
    <2>1. \A d \in Presenter : Storing(d)' <=> Storing(d)
      BY <1>1, <1>2 DEF Storing
    <2>2. \A d \in Presenter : Storing(d) => doing'[d] = doing[d]
      BY <1>1, <1>2 DEF Storing
    <2> QED
      BY <1>1, <2>1, <2>2, ImagesStay
  <1>5. ASSUME ~careless', valid' PROVE OneBusy' /\ Accounted'
    <2>1. /\ presentation.acquired = 0 /\ OneBusy /\ Accounted
          /\ \A d \in Presenter : ~Busy(d)
      BY <1>1, <1>5, NothingOut
    <2>2. \A d \in Presenter : d # c => ~Busy(d)' /\ doing'[d].op = "idle"
      BY <1>2, <2>1 DEF Busy
    <2>3. OneBusy'
      BY <1>1, <1>2, <2>1, <2>2 DEF OneBusy, Busy
    <2>4. Accounted'
      BY <1>1, <1>4, <2>1 DEF Accounted, Given
    <2> QED
      BY <2>3, <2>4
  <1> QED
    BY <1>3, <1>4, <1>5 DEF CareInv

LEMMA ImageAccounts ==
    ASSUME SurfaceInv, NEW c \in Presenter, AcquireBackend(c)
    PROVE  SurfaceInv'
  <1> USE DEF SurfaceInv
  <1>1. /\ doing[c].op = "acquire"
        /\ surfacePanic' = (surfacePanic \/ swapchain = 0)
        /\ UNCHANGED <<presentation, textures, handles, swapchain, chains, discarded, valid,
                       careless>>
    BY DEF AcquireBackend
  <1>2. /\ surfacePanic' \in BOOLEAN
        /\ ~careless /\ valid => ~surfacePanic' /\ Busy(c) /\ swapchain # 0
    BY <1>1 DEF SurfaceType, CareInv, OneBusy, Accounted, Busy
  <1>3. CASE doing' = [doing EXCEPT ![c] = Resting] /\ UNCHANGED idleImages
    <2>1. /\ doing'[c] = Resting /\ doing'[c].op = "idle"
          /\ \A d \in Presenter : d # c => doing'[d] = doing[d]
      BY <1>3 DEF SurfaceType, Resting
    <2>2. SurfaceType'
      <3>1. Resting \in [op : Ops, image : Nat \X Nat]
        BY DEF Resting, Ops
      <3>2. doing' \in [Presenter -> [op : Ops, image : Nat \X Nat]]
        BY <1>3, <3>1 DEF SurfaceType
      <3>3. \A d \in Presenter : doing'[d].op = "idle" => doing'[d] = Resting
        BY <2>1 DEF SurfaceType
      <3> QED
        BY <1>1, <1>2, <3>2, <3>3 DEF SurfaceType
    <2>3. ImageInv' /\ InUse' = InUse
      <3>1. \A d \in Presenter : Storing(d)' <=> Storing(d)
        BY <1>1, <2>1 DEF Storing
      <3>2. \A d \in Presenter : Storing(d) => doing'[d] = doing[d]
        BY <1>1, <2>1 DEF Storing
      <3> QED
        BY <1>1, <1>3, <3>1, <3>2, ImagesStay
    <2>4. ASSUME ~careless', valid' PROVE OneBusy' /\ Accounted'
      <3>1. OneBusy /\ Accounted
        BY <1>1, <2>4 DEF CareInv
      <3>2. OneBusy'
        BY <1>1, <2>1, <3>1 DEF OneBusy, Busy
      <3>3. Accounted'
        BY <1>1, <1>2, <1>3, <2>3, <2>4, <3>1 DEF Accounted, Given
      <3> QED
        BY <3>2, <3>3
    <2> QED
      BY <2>2, <2>3, <2>4 DEF CareInv
  <1>4. ASSUME NEW i \in idleImages, idleImages' = idleImages \ {i},
               doing' = [doing EXCEPT ![c] = [op |-> "store", image |-> i]]
        PROVE  SurfaceInv'
    <2>1. /\ doing'[c].op = "store" /\ doing'[c].image = i
          /\ \A d \in Presenter : d # c => doing'[d] = doing[d]
      BY <1>4 DEF SurfaceType
    <2>2. i \in Nat \X Nat /\ i[1] = swapchain /\ i \in Made
      BY <1>4, PresentationAssumption DEF ImageInv, SurfaceType, Made, Given
    <2>3. SurfaceType'
      <3>1. [op |-> "store", image |-> i] \in [op : Ops, image : Nat \X Nat]
        BY <2>2 DEF Ops
      <3>2. doing' \in [Presenter -> [op : Ops, image : Nat \X Nat]]
        BY <1>4, <3>1 DEF SurfaceType
      <3>3. \A d \in Presenter : doing'[d].op = "idle" => doing'[d] = Resting
        BY <2>1 DEF SurfaceType
      <3> QED
        BY <1>1, <1>2, <3>2, <3>3 DEF SurfaceType
    <2>4. /\ Storing(c)' /\ ~Storing(c)
          /\ \A d \in Presenter : d # c => /\ Storing(d)' <=> Storing(d)
                                           /\ doing'[d].image = doing[d].image
      BY <1>1, <2>1 DEF Storing
    <2>5. ImageInv'
      <3>1. /\ Given' \subseteq {swapchain'} \X (1..SwapImages)
            /\ idleImages' \cap discarded' = {}
            /\ Given' = Given \ {i} /\ i \in Given
        BY <1>1, <1>4 DEF ImageInv, Given
      <3>2. \A j \in DOMAIN textures : textures[j].raw =>
                /\ textures[j].image \notin Given' /\ textures[j].image \in Made
                /\ textures[j].image # i
        BY <3>1 DEF ImageInv
      <3>3. \A d \in Presenter : Storing(d) =>
                /\ doing[d].image \notin Given' /\ doing[d].image \in Made
                /\ doing[d].image # i
        BY <3>1 DEF ImageInv
      <3>4. i \notin Given'
        BY <3>1
      <3>5. \A d \in Presenter : Storing(d)' =>
                doing'[d].image \notin Given' /\ doing'[d].image \in Made
        BY <2>1, <2>2, <2>4, <3>3, <3>4
      <3>6. \A j \in DOMAIN textures, d \in Presenter :
                Storing(d)' /\ textures[j].raw => textures[j].image # doing'[d].image
        BY <2>1, <2>4, <3>2 DEF ImageInv
      <3>7. \A d, f \in Presenter :
                d # f /\ Storing(d)' /\ Storing(f)' => doing'[d].image # doing'[f].image
        BY <2>1, <2>4, <3>3 DEF ImageInv
      <3> QED
        BY <1>1, <3>1, <3>2, <3>5, <3>6, <3>7 DEF ImageInv, Made
    <2>6. InUse' = InUse \cup {i}
      <3>1. \A x : x \in InUse' <=> x \in InUse \/ x = i
        <4>1. \A x : x \in InUse' <=>
                 \/ \E j \in DOMAIN textures : textures[j].raw /\ x = textures[j].image
                 \/ \E d \in Presenter : Storing(d)' /\ x = doing'[d].image
          BY <1>1 DEF InUse, Storing
        <4> QED
          BY <2>1, <2>4, <4>1, InUseIs
      <3> QED
        BY <3>1
    <2>7. ASSUME ~careless', valid' PROVE OneBusy' /\ Accounted'
      <3>1. OneBusy /\ Accounted
        BY <1>1, <2>7 DEF CareInv
      <3>2. OneBusy'
        BY <1>1, <2>1, <3>1 DEF OneBusy, Busy
      <3>3. \A x \in InUse' : x[1] = swapchain'
        BY <1>1, <2>2, <2>6, <3>1 DEF Accounted
      <3>4. Given' \cup InUse' = Given \cup InUse
        BY <1>1, <1>4, <2>6 DEF Given
      <3>5. Accounted'
        BY <1>1, <1>2, <2>7, <3>1, <3>3, <3>4 DEF Accounted
      <3> QED
        BY <3>2, <3>5
    <2> QED
      BY <2>3, <2>5, <2>7 DEF CareInv
  <1> QED
    BY <1>3, <1>4 DEF AcquireBackend

LEMMA StoreAccounts ==
    ASSUME SurfaceInv, NEW c \in Presenter, AcquireStore(c)
    PROVE  SurfaceInv'
  <1> USE DEF SurfaceInv
  <1> DEFINE refused == presentation.acquired # 0 \/ ~presentation.set
             r == [image |-> doing[c].image, raw |-> ~refused]
  <1>1. PICK n : n = Len(textures) + 1
    OBVIOUS
  <1>2. /\ doing[c].op = "store"
        /\ surfacePanic' = (surfacePanic \/ ~presentation.set)
        /\ textures' = Append(textures, r)
        /\ handles' = Append(handles, IF refused THEN 0 ELSE 1)
        /\ presentation' = IF refused THEN presentation
                           ELSE [presentation EXCEPT !.acquired = n]
        /\ doing' = [doing EXCEPT ![c] = Resting]
        /\ UNCHANGED <<swapchain, chains, idleImages, discarded, valid, careless>>
    BY <1>1 DEF AcquireStore
  <1>3. /\ r \in SurfaceTextures /\ r.image = doing[c].image /\ (r.raw <=> ~refused)
        /\ refused \in BOOLEAN
    BY DEF SurfaceType, SurfaceTextures
  <1>4. /\ doing'[c] = Resting /\ doing'[c].op = "idle"
        /\ \A d \in Presenter : d # c => doing'[d] = doing[d]
    BY <1>2 DEF SurfaceType, Resting
  <1>5. /\ n \in Nat \ {0} /\ n \notin DOMAIN textures
        /\ DOMAIN textures' = DOMAIN textures \cup {n} /\ textures'[n] = r
        /\ \A i \in DOMAIN textures : textures'[i] = textures[i]
        /\ textures' \in Seq(SurfaceTextures)
    <2>1. textures \in Seq(SurfaceTextures)
      BY DEF SurfaceType
    <2>2. r \in SurfaceTextures
      BY <1>3
    <2> HIDE DEF r
    <2> QED
      BY <1>1, <1>2, <2>1, <2>2
  <1>6. Len(handles) = Len(textures)
    BY DEF SurfaceType
  <1>7. /\ DOMAIN handles' = DOMAIN handles \cup {n}
        /\ handles'[n] = IF refused THEN 0 ELSE 1
        /\ \A i \in DOMAIN handles : handles'[i] = handles[i]
        /\ handles' \in Seq(Nat)
    BY <1>1, <1>2, <1>6 DEF SurfaceType
  <1>8. /\ presentation' \in [set : BOOLEAN, acquired : Nat]
        /\ presentation'.set = presentation.set
        /\ presentation'.acquired = IF refused THEN presentation.acquired ELSE n
    BY <1>2, <1>5 DEF SurfaceType
  <1> HIDE DEF r
  <1>9. SurfaceType'
    <2>1. Resting \in [op : Ops, image : Nat \X Nat]
      BY DEF Resting, Ops
    <2>2. doing' \in [Presenter -> [op : Ops, image : Nat \X Nat]]
      BY <1>2, <2>1 DEF SurfaceType
    <2>3. \A d \in Presenter : doing'[d].op = "idle" => doing'[d] = Resting
      BY <1>4 DEF SurfaceType
    <2>4. presentation'.acquired # 0 =>
              presentation'.acquired \in DOMAIN textures' /\ presentation'.set
      BY <1>5, <1>8 DEF SurfaceType
    <2>5. surfacePanic' \in BOOLEAN
      BY <1>2 DEF SurfaceType
    <2>6. DOMAIN handles' = DOMAIN textures'
      BY <1>5, <1>7 DEF SurfaceType
    <2> QED
      BY <1>2, <1>5, <1>7, <1>8, <2>2, <2>3, <2>4, <2>5, <2>6 DEF SurfaceType
  <1>10. /\ Storing(c) /\ ~Storing(c)'
         /\ \A d \in Presenter : d # c => /\ Storing(d)' <=> Storing(d)
                                          /\ doing'[d].image = doing[d].image
    BY <1>2, <1>4 DEF Storing
  <1>11. ImageInv'
    <2>1. \A i \in DOMAIN textures' : textures'[i].raw =>
              \/ i \in DOMAIN textures /\ textures'[i] = textures[i] /\ textures[i].raw
              \/ i = n /\ textures'[i].image = doing[c].image
      BY <1>3, <1>5
    <2>2. \A i \in DOMAIN textures' : textures'[i].raw =>
              textures'[i].image \notin Given /\ textures'[i].image \in Made
      BY <1>10, <2>1 DEF ImageInv
    <2>3. \A i, j \in DOMAIN textures' :
             i # j /\ textures'[i].raw /\ textures'[j].raw => textures'[i].image # textures'[j].image
      BY <1>10, <2>1 DEF ImageInv
    <2>4. \A i \in DOMAIN textures', d \in Presenter :
             Storing(d)' /\ textures'[i].raw => textures'[i].image # doing'[d].image
      BY <1>10, <2>1 DEF ImageInv
    <2>5. /\ \A d \in Presenter : Storing(d)' =>
                doing'[d].image \notin Given /\ doing'[d].image \in Made
          /\ \A d, f \in Presenter :
                d # f /\ Storing(d)' /\ Storing(f)' => doing'[d].image # doing'[f].image
      BY <1>10 DEF ImageInv
    <2>6. /\ Given' \subseteq {swapchain'} \X (1..SwapImages) /\ Given' = Given
          /\ idleImages' \cap discarded' = {}
      BY <1>2 DEF ImageInv, Given
    <2> QED
      BY <1>2, <2>2, <2>3, <2>4, <2>5, <2>6 DEF ImageInv, Made
  <1>12. ASSUME ~careless', valid' PROVE OneBusy' /\ Accounted'
    <2>1. OneBusy /\ Accounted
      BY <1>2, <1>12 DEF CareInv
    <2>2. presentation.acquired = 0 /\ presentation.set /\ ~refused
      BY <1>2, <2>1 DEF OneBusy, Busy
    <2>3. \A d \in Presenter : ~Busy(d)' /\ doing'[d].op = "idle"
      BY <1>2, <1>4, <2>1 DEF OneBusy, Busy
    <2>4. OneBusy'
      BY <1>2, <1>8, <2>1, <2>3 DEF OneBusy
    <2>5. InUse' = InUse
      <3>1. \A x : x \in InUse' <=>
               \/ \E j \in DOMAIN textures' : textures'[j].raw /\ x = textures'[j].image
               \/ \E d \in Presenter : Storing(d)' /\ x = doing'[d].image
        BY DEF InUse, Storing
      <3>2. \A x : x \in InUse' <=>
               \/ \E j \in DOMAIN textures : textures[j].raw /\ x = textures[j].image
               \/ x = doing[c].image
               \/ \E d \in Presenter : Storing(d)' /\ x = doing'[d].image
        BY <1>3, <1>5, <2>2, <3>1
      <3>3. \A x : x \in InUse' <=> x \in InUse
        BY <1>10, <3>2, InUseIs
      <3> QED
        BY <3>3
    <2>6. \A t \in DOMAIN textures' :
             /\ textures'[t].raw <=> presentation'.acquired = t
             /\ handles'[t] = IF presentation'.acquired = t THEN 1 ELSE 0
      <3>1. \A t \in DOMAIN textures : ~textures[t].raw /\ handles[t] = 0 /\ t # n
        BY <1>5, <2>1, <2>2 DEF Accounted, SurfaceType
      <3>2. textures'[n].raw /\ handles'[n] = 1 /\ presentation'.acquired = n
        BY <1>3, <1>5, <1>7, <1>8, <2>2
      <3> QED
        BY <1>5, <1>7, <3>1, <3>2 DEF SurfaceType
    <2>7. Accounted'
      BY <1>2, <2>1, <2>2, <2>5, <2>6 DEF Accounted, Given
    <2> QED
      BY <2>4, <2>7
  <1> QED
    BY <1>9, <1>11, <1>12 DEF CareInv

LEMMA FailAccounts ==
    ASSUME SurfaceInv, NEW c \in Presenter, AcquireFail(c)
    PROVE  SurfaceInv'
  <1> USE DEF SurfaceInv
  <1>1. /\ doing[c].op = "store" /\ valid' = FALSE
        /\ doing' = [doing EXCEPT ![c] = Resting]
        /\ UNCHANGED <<presentation, textures, handles, swapchain, chains, idleImages,
                       discarded, careless, surfacePanic>>
    BY DEF AcquireFail
  <1>2. /\ doing'[c] = Resting /\ doing'[c].op = "idle"
        /\ \A d \in Presenter : d # c => doing'[d] = doing[d]
    BY <1>1 DEF SurfaceType, Resting
  <1>3. SurfaceType'
    <2>1. Resting \in [op : Ops, image : Nat \X Nat]
      BY DEF Resting, Ops
    <2>2. doing' \in [Presenter -> [op : Ops, image : Nat \X Nat]]
      BY <1>1, <2>1 DEF SurfaceType
    <2>3. \A d \in Presenter : doing'[d].op = "idle" => doing'[d] = Resting
      BY <1>2 DEF SurfaceType
    <2> QED
      BY <1>1, <2>2, <2>3 DEF SurfaceType
  <1>4. \A d \in Presenter : Storing(d)' => Storing(d) /\ doing'[d] = doing[d]
    BY <1>2 DEF Storing
  <1>5. ImageInv'
    BY <1>1, <1>4 DEF ImageInv, Made, Given
  <1> QED
    BY <1>1, <1>3, <1>5 DEF CareInv

(* The image that present or discard takes goes to the swapchain, unless   *)
(* that loses the device; a careful application has one to give.           *)
Moved == HasImage /\ AcquiredImage[1] = swapchain
LEMMA GiveAccounts ==
    ASSUME SurfaceInv, NEW h \in DOMAIN handles, TakeFrame(h),
           \A y \in Given' : y \in Given \/ (Moved /\ y = AcquiredImage),
           idleImages' \cap discarded' = {},
           valid' \in BOOLEAN, surfacePanic' \in BOOLEAN,
           valid' => valid /\ (Moved => Given' = Given \cup {AcquiredImage}),
           surfacePanic' => surfacePanic \/ ~HasImage \/ swapchain = 0
    PROVE  SurfaceInv'
  <1> USE DEF SurfaceInv
  <1>1. PICK t : t = IF Unusable THEN 0 ELSE presentation.acquired
    OBVIOUS
  <1>2. /\ handles[h] > 0
        /\ handles' = [handles EXCEPT ![h] = handles[h] - 1]
        /\ presentation' = IF Unusable THEN presentation
                           ELSE [presentation EXCEPT !.acquired = 0]
        /\ textures' = IF t = 0 THEN textures ELSE [textures EXCEPT ![t].raw = FALSE]
        /\ UNCHANGED <<doing, swapchain, chains, careless>>
    BY <1>1 DEF TakeFrame, Taken, Snatched
  <1>3. /\ t # 0 => t \in DOMAIN textures /\ t = presentation.acquired
        /\ HasImage <=> t # 0 /\ textures[t].raw
        /\ HasImage => AcquiredImage = textures[t].image
    BY <1>1 DEF SurfaceType, HasImage, AcquiredImage
  <1>4. /\ DOMAIN textures' = DOMAIN textures
        /\ \A i \in DOMAIN textures : /\ textures'[i].image = textures[i].image
                                      /\ textures'[i].raw <=> textures[i].raw /\ i # t
        /\ textures' \in Seq(SurfaceTextures)
    <2>1. CASE t = 0
      <3>1. 0 \notin DOMAIN textures
        BY DEF SurfaceType
      <3> QED
        BY <1>2, <2>1, <3>1 DEF SurfaceType
    <2>2. CASE t # 0
      <3>1. textures[t] \in SurfaceTextures
        BY <1>3, <2>2 DEF SurfaceType
      <3>2. textures' = [textures EXCEPT ![t] = [textures[t] EXCEPT !.raw = FALSE]]
        BY <1>2, <2>2
      <3>3. /\ [textures[t] EXCEPT !.raw = FALSE].image = textures[t].image
            /\ [textures[t] EXCEPT !.raw = FALSE].raw = FALSE
            /\ [textures[t] EXCEPT !.raw = FALSE] \in SurfaceTextures
        BY <3>1 DEF SurfaceTextures
      <3> DEFINE r == [textures[t] EXCEPT !.raw = FALSE]
      <3> HIDE DEF r
      <3>4. textures' = [textures EXCEPT ![t] = r] /\ r \in SurfaceTextures
            /\ r.image = textures[t].image /\ r.raw = FALSE
        BY <3>1, <3>2, <3>3 DEF r
      <3> QED
        BY <1>3, <2>2, <3>4 DEF SurfaceType
    <2> QED
      BY <2>1, <2>2
  <1>5. /\ presentation' \in [set : BOOLEAN, acquired : Nat]
        /\ presentation'.acquired = 0 \/ (~valid /\ presentation'.acquired = presentation.acquired)
        /\ presentation'.set = presentation.set
    BY <1>2 DEF SurfaceType, Unusable
  <1>6. /\ DOMAIN handles' = DOMAIN handles /\ handles' \in Seq(Nat)
        /\ handles'[h] = handles[h] - 1
        /\ \A i \in DOMAIN handles : i # h => handles'[i] = handles[i]
    BY <1>2 DEF SurfaceType
  <1>7. SurfaceType'
    BY <1>2, <1>4, <1>5, <1>6 DEF SurfaceType
  <1>8. \A d \in Presenter : (Storing(d)' <=> Storing(d)) /\ doing'[d] = doing[d]
    BY <1>2 DEF Storing
  <1>9. ImageInv'
    <2>1. \A y \in Given' :
             \/ y \in Given
             \/ /\ t \in DOMAIN textures /\ textures[t].raw
                /\ y = textures[t].image /\ y[1] = swapchain
      BY <1>3 DEF Moved
    <2>2. Given' \subseteq {swapchain'} \X (1..SwapImages)
      <3>1. \A y \in Made : y[1] = swapchain => y \in {swapchain} \X (1..SwapImages)
        BY DEF Made
      <3> QED
        BY <1>2, <2>1, <3>1 DEF ImageInv
    <2>3. \A i \in DOMAIN textures' : textures'[i].raw =>
              textures'[i].image \notin Given' /\ textures'[i].image \in Made
      BY <1>4, <2>1 DEF ImageInv
    <2>4. \A d \in Presenter : Storing(d) =>
              doing[d].image \notin Given' /\ doing[d].image \in Made
      BY <2>1 DEF ImageInv
    <2>5. \A i, j \in DOMAIN textures' :
             i # j /\ textures'[i].raw /\ textures'[j].raw => textures'[i].image # textures'[j].image
      BY <1>4 DEF ImageInv
    <2>6. \A i \in DOMAIN textures', d \in Presenter :
             Storing(d) /\ textures'[i].raw => textures'[i].image # doing[d].image
      BY <1>4 DEF ImageInv
    <2> QED
      BY <1>2, <1>8, <2>2, <2>3, <2>4, <2>5, <2>6 DEF ImageInv, Made
  <1>10. ASSUME ~careless', valid' PROVE OneBusy' /\ Accounted'
    <2>1. OneBusy /\ Accounted
      BY <1>2, <1>10 DEF CareInv
    <2>2. /\ t = h /\ ~Unusable /\ t # 0 /\ textures[t].raw /\ handles[h] = 1 /\ t \in DOMAIN textures
          /\ presentation.set /\ swapchain # 0
      <3>1. h = presentation.acquired /\ handles[h] = 1 /\ h \in DOMAIN textures
        BY <1>2, <2>1 DEF Accounted, SurfaceType
      <3>2. h # 0 /\ presentation.set /\ ~Unusable
        BY <1>10, <3>1 DEF SurfaceType, Unusable
      <3> QED
        BY <1>1, <2>1, <3>1, <3>2 DEF Accounted, OneBusy
    <2>3. HasImage /\ ~surfacePanic' /\ presentation'.acquired = 0
      BY <1>2, <1>3, <2>1, <2>2, SurfaceType DEF Accounted
    <2>4. OneBusy'
      BY <1>2, <1>5, <2>1, <2>3 DEF OneBusy, Busy
    <2>5. textures[t].image \in InUse /\ textures[t].image[1] = swapchain
      BY <2>1, <2>2, InUseIs DEF Accounted
    <2>6. InUse' = InUse \ {textures[t].image}
      <3>1. \A y : y \in InUse' <=>
               \/ \E j \in DOMAIN textures' : textures'[j].raw /\ y = textures'[j].image
               \/ \E d \in Presenter : Storing(d)' /\ y = doing'[d].image
        BY DEF InUse, Storing
      <3>2. \A y : y \in InUse' <=>
               \/ \E j \in DOMAIN textures : textures[j].raw /\ j # t /\ y = textures[j].image
               \/ \E d \in Presenter : Storing(d) /\ y = doing[d].image
        BY <1>4, <1>8, <3>1
      <3>3. \A y : y \in InUse' <=> y \in InUse /\ y # textures[t].image
        BY <2>2, <3>2, InUseIs DEF ImageInv
      <3> QED
        BY <3>3
    <2>7. Given' \cup InUse' = Given \cup InUse
      BY <1>3, <1>10, <2>2, <2>3, <2>5, <2>6 DEF Moved
    <2>8. \A i \in DOMAIN textures' :
             /\ textures'[i].raw <=> presentation'.acquired = i
             /\ handles'[i] = IF presentation'.acquired = i THEN 1 ELSE 0
      <3>1. \A i \in DOMAIN textures : i # 0 /\ i \in DOMAIN handles
        BY DEF SurfaceType
      <3>2. \A i \in DOMAIN textures : i # t => ~textures[i].raw /\ handles[i] = 0
        BY <1>3, <2>1, <2>2 DEF Accounted
      <3> QED
        BY <1>4, <1>6, <2>2, <2>3, <3>1, <3>2
    <2>9. Accounted'
      BY <1>2, <2>1, <2>3, <2>6, <2>7, <2>8 DEF Accounted
    <2> QED
      BY <2>4, <2>9
  <1> QED
    BY <1>7, <1>9, <1>10 DEF CareInv

LEMMA CloneAccounts ==
    ASSUME SurfaceInv, NEW h \in DOMAIN handles, CloneFrame(h)
    PROVE  SurfaceInv'
  <1>1. /\ handles' = [handles EXCEPT ![h] = 2] /\ careless' = TRUE
        /\ UNCHANGED <<presentation, textures, doing, swapchain, chains, idleImages, discarded,
                       valid, surfacePanic>>
    BY DEF CloneFrame
  <1>2. SurfaceType'
    BY <1>1 DEF SurfaceInv, SurfaceType
  <1>3. ImageInv'
    BY <1>1, ImagesStay DEF SurfaceInv, Storing
  <1> QED
    BY <1>1, <1>2, <1>3 DEF SurfaceInv, CareInv

(* A texture loses its image, and nobody gets it. *)
Loses(h) ==
    /\ textures' = [textures EXCEPT ![h].raw = FALSE]
    /\ careless' \in BOOLEAN /\ (careless' \/ (~valid /\ careless' = careless))
    /\ UNCHANGED <<presentation, handles, doing, swapchain, chains, idleImages, discarded,
                   valid, surfacePanic>>

LEMMA LossAccounts ==
    ASSUME SurfaceInv, NEW h \in DOMAIN handles, Loses(h)
    PROVE  SurfaceInv'
  <1> USE DEF SurfaceInv
  <1>1. h \in DOMAIN textures
    BY DEF SurfaceType
  <1>0. /\ careless' \in BOOLEAN /\ (careless' \/ (~valid /\ careless' = careless))
        /\ UNCHANGED <<presentation, handles, doing, swapchain, chains, idleImages, discarded,
                       valid, surfacePanic>>
    BY DEF Loses
  <1> DEFINE r == [textures[h] EXCEPT !.raw = FALSE]
  <1>2. r \in SurfaceTextures /\ r.image = textures[h].image /\ r.raw = FALSE
    <2>1. textures[h] \in SurfaceTextures
      BY <1>1 DEF SurfaceType
    <2> QED
      BY <2>1 DEF SurfaceTextures
  <1>3. textures' = [textures EXCEPT ![h] = r]
    BY DEF Loses
  <1> HIDE DEF r
  <1>4. /\ DOMAIN textures' = DOMAIN textures /\ textures' \in Seq(SurfaceTextures)
        /\ \A i \in DOMAIN textures : /\ textures'[i].image = textures[i].image
                                      /\ textures'[i].raw => textures[i].raw
    <2>1. textures \in Seq(SurfaceTextures)
      BY DEF SurfaceType
    <2>2. textures' \in Seq(SurfaceTextures) /\ DOMAIN textures' = DOMAIN textures
      <3>1. h \in DOMAIN textures
        BY <1>1
      <3> QED
        BY <1>2, <1>3, <2>1, <3>1
    <2>3. textures'[h] = r /\ \A i \in DOMAIN textures : i # h => textures'[i] = textures[i]
      BY <1>1, <1>3, <2>1
    <2> QED
      BY <1>2, <2>2, <2>3
  <1>5. SurfaceType'
    BY <1>0, <1>4 DEF SurfaceType
  <1>6. ImageInv'
    BY <1>0, <1>4 DEF ImageInv, Storing, Made, Given
  <1> QED
    BY <1>0, <1>5, <1>6 DEF CareInv

LEMMA SurfaceBegins == PresentationInit => SurfaceInv
  <1> SUFFICES ASSUME PresentationInit PROVE SurfaceInv
    OBVIOUS
  <1> USE DEF PresentationInit
  <1>1. \A c \in Presenter : doing[c] = Resting /\ doing[c].op = "idle"
    BY DEF Resting
  <1>2. SurfaceType
    <2>1. Resting \in [op : Ops, image : Nat \X Nat]
      BY DEF Resting, Ops
    <2>2. Unconfigured \in [set : BOOLEAN, acquired : Nat] /\ Unconfigured.acquired = 0
      BY DEF Unconfigured
    <2>3. doing \in [Presenter -> [op : Ops, image : Nat \X Nat]]
      BY <2>1
    <2>4. textures \in Seq(SurfaceTextures) /\ handles \in Seq(Nat) /\ DOMAIN handles = DOMAIN textures
      OBVIOUS
    <2>5. presentation \in [set : BOOLEAN, acquired : Nat] /\ presentation.acquired = 0
      BY <2>2
    <2>6. swapchain = 0 /\ chains = 0 /\ careless = FALSE /\ surfacePanic = FALSE /\ valid = TRUE
      OBVIOUS
    <2>7. swapchain \in Nat /\ chains \in Nat /\ swapchain <= chains
      BY <2>6
    <2>8. careless \in BOOLEAN /\ surfacePanic \in BOOLEAN /\ valid \in BOOLEAN
      BY <2>6
    <2>9. \A c \in Presenter : doing[c].op = "idle" => doing[c] = Resting
      BY <1>1
    <2> HIDE DEF PresentationInit
    <2> QED
      BY <2>3, <2>4, <2>5, <2>7, <2>8, <2>9 DEF SurfaceType
  <1>3. ImageInv
    BY <1>1 DEF ImageInv, Storing, Given
  <1>4. OneBusy /\ Accounted
    <2>1. InUse = {}
      BY <1>1 DEF InUse
    <2> QED
      BY <1>1, <2>1 DEF OneBusy, Busy, Accounted, Unconfigured
  <1> QED
    BY <1>2, <1>3, <1>4 DEF SurfaceInv, CareInv

LEMMA SurfaceSteps == SurfaceInv /\ [PresentationNext]_surfaceVars => SurfaceInv'
  <1> SUFFICES ASSUME SurfaceInv, [PresentationNext]_surfaceVars PROVE SurfaceInv'
    OBVIOUS
  <1>1. ASSUME NEW c \in Presenter, ConfigureTake(c) PROVE SurfaceInv'
    BY <1>1, TakeAccounts
  <1>2. ASSUME NEW c \in Presenter, ConfigureSet(c) PROVE SurfaceInv'
    BY <1>2, SetAccounts
  <1>3. ASSUME NEW c \in Presenter, NEW ok \in BOOLEAN, ConfigureBackend(c, ok) PROVE SurfaceInv'
    BY <1>3, BackendAccounts
  <1>4. ASSUME NEW c \in Presenter, AcquireRead(c) PROVE SurfaceInv'
    BY <1>4, ReadAccounts
  <1>5. ASSUME NEW c \in Presenter, AcquireBackend(c) PROVE SurfaceInv'
    BY <1>5, ImageAccounts
  <1>6. ASSUME NEW c \in Presenter, AcquireStore(c) PROVE SurfaceInv'
    BY <1>6, StoreAccounts
  <1>7. ASSUME NEW h \in DOMAIN handles, PresentFrame(h) PROVE SurfaceInv'
    <2>1. /\ TakeFrame(h) /\ discarded' = discarded
          /\ surfacePanic' = (surfacePanic \/ (HasImage /\ swapchain = 0))
      BY <1>7 DEF PresentFrame
    <2>2. surfacePanic' \in BOOLEAN
      BY <2>1 DEF SurfaceInv, SurfaceType
    <2>3. Moved => AcquiredImage \notin Given
      BY DEF Moved, HasImage, AcquiredImage, SurfaceInv, SurfaceType, ImageInv
    <2>4. CASE valid' = valid /\ idleImages' = IF HasImage /\ AcquiredImage[1] = swapchain
                                              THEN idleImages \cup {AcquiredImage} ELSE idleImages
      <3>1. Given' = IF Moved THEN Given \cup {AcquiredImage} ELSE Given
        BY <2>1, <2>4 DEF Given, Moved
      <3>2. idleImages' \cap discarded' = {} /\ valid' \in BOOLEAN
        BY <2>1, <2>3, <2>4 DEF Given, Moved, SurfaceInv, SurfaceType, ImageInv
      <3> QED
        BY <2>1, <2>2, <2>4, <3>1, <3>2, GiveAccounts
    <2>5. CASE valid' = FALSE /\ idleImages' = idleImages
      <3>1. Given' = Given /\ idleImages' \cap discarded' = {}
        BY <2>1, <2>5 DEF Given, SurfaceInv, ImageInv
      <3> QED
        BY <2>1, <2>2, <2>5, <3>1, GiveAccounts
    <2> QED
      BY <1>7, <2>4, <2>5 DEF PresentFrame
  <1>8. ASSUME NEW h \in DOMAIN handles, DropFrame(h) PROVE SurfaceInv'
    <2>1. /\ TakeFrame(h) /\ idleImages' = idleImages /\ valid' = valid
          /\ surfacePanic' = (surfacePanic \/ ~HasImage \/ swapchain = 0)
          /\ discarded' = IF HasImage /\ AcquiredImage[1] = swapchain
                            THEN discarded \cup {AcquiredImage} ELSE discarded
      BY <1>8 DEF DropFrame
    <2>2. surfacePanic' \in BOOLEAN /\ valid' \in BOOLEAN
      BY <2>1 DEF SurfaceInv, SurfaceType
    <2>3. Moved => AcquiredImage \notin Given
      BY DEF Moved, HasImage, AcquiredImage, SurfaceInv, SurfaceType, ImageInv
    <2>4. Given' = IF Moved THEN Given \cup {AcquiredImage} ELSE Given
      BY <2>1 DEF Given, Moved
    <2>5. idleImages' \cap discarded' = {}
      BY <2>1, <2>3 DEF Given, Moved, SurfaceInv, ImageInv
    <2> QED
      BY <2>1, <2>2, <2>4, <2>5, GiveAccounts
  <1>9. ASSUME NEW h \in DOMAIN handles, CloneFrame(h) PROVE SurfaceInv'
    BY <1>9, CloneAccounts
  <1>10. ASSUME NEW h \in DOMAIN handles, DestroyFrame(h) PROVE SurfaceInv'
    BY <1>10, LossAccounts DEF DestroyFrame, Loses
  <1>11. ASSUME NEW c \in Presenter, AcquireFail(c) PROVE SurfaceInv'
    BY <1>11, FailAccounts
  <1>12. ASSUME NEW h \in DOMAIN handles, LastReference(h) PROVE SurfaceInv'
    <2>1. careless \in BOOLEAN /\ h \in DOMAIN textures
      BY DEF SurfaceInv, SurfaceType
    <2>2. careless \/ ~valid
      BY <1>12, <2>1 DEF LastReference, ImageLost, SurfaceInv, CareInv, Accounted
    <2> QED
      BY <1>12, <2>1, <2>2, LossAccounts DEF LastReference, ImageLost, Loses
  <1>13. ASSUME NEW h \in DOMAIN handles, ReleaseFrame(h) PROVE SurfaceInv'
    <2>1. careless \in BOOLEAN
      BY DEF SurfaceInv, SurfaceType
    <2> QED
      BY <1>13, <2>1, LossAccounts DEF ReleaseFrame, ImageLost, Loses
  <1>14. CASE LoseDevice
    <2> USE <1>14 DEF LoseDevice
    <2>1. ImageInv'
      BY ImagesStay DEF SurfaceInv, Storing
    <2> QED
      BY <2>1 DEF SurfaceInv, SurfaceType, CareInv
  <1>15. CASE UNCHANGED surfaceVars
    <2> USE <1>15 DEF surfaceVars
    <2>1. ImageInv' /\ InUse' = InUse
      BY ImagesStay DEF SurfaceInv, Storing
    <2> QED
      BY <2>1 DEF SurfaceInv, SurfaceType, CareInv, OneBusy, Busy, Accounted, Given
  <1> QED
    BY <1>1, <1>2, <1>3, <1>4, <1>5, <1>6, <1>7, <1>8, <1>9, <1>10, <1>11, <1>12, <1>13, <1>14, <1>15
       DEF PresentationNext

(* Where every image of a surface is, and what a careful application can   *)
(* count on (present.rs).                                                  *)
THEOREM SurfaceKept == PresentationSpec => []SurfaceInv
  BY SurfaceBegins, SurfaceSteps, PTL DEF PresentationSpec

(* No image is in two places, whatever the application does, however its   *)
(* threads interleave and whenever the device is lost                      *)
(* (get_current_texture, present, discard).                                *)
THEOREM OnePlace == PresentationSpec => []HandedBackOnce
  <1>1. SurfaceInv => HandedBackOnce
    <2> SUFFICES ASSUME ImageInv PROVE HandedBackOnce
      BY DEF SurfaceInv
    <2>1. \A x \in InUse : x \notin Given
      BY InUseIs DEF ImageInv
    <2> QED
      BY <2>1 DEF HandedBackOnce, ImageInv, Storing, Given
  <1> QED
    BY <1>1, SurfaceKept, PTL

(* As long as its device is valid, nothing panics for a careful            *)
(* application, and it loses an image only by dropping a frame that it did *)
(* not present (Surface::present, SurfaceTexture's Drop,                   *)
(* configure_surface, and the errors of get_current_texture).              *)
THEOREM LostOnlyIfDropped == PresentationSpec => []ImagesAccounted
  <1>1. SurfaceInv => ImagesAccounted
    <2> SUFFICES ASSUME SurfaceType, CareInv, ~careless, valid PROVE ImagesAccounted
      BY DEF SurfaceInv, ImagesAccounted
    <2>1. Accounted
      BY DEF CareInv
    <2> QED
      BY <2>1 DEF ImagesAccounted, Accounted, Given
  <1> QED
    BY <1>1, SurfaceKept, PTL

--------------------------------------------------------------------------------
(* The registry and its ids *)

Tasks == [op : {"idle", "assign", "remove"}, id : Id, step : 0..2]

RegistryType ==
    /\ nextIndex \in Nat /\ idCount \in Int
    /\ freeIds \in Seq(Id) /\ issued \in Seq(Id)
    /\ DOMAIN table \subseteq 0..(nextIndex - 1)
    /\ task \in [Client -> Tasks]
    /\ usable \subseteq Id /\ abandoned \subseteq Id

(* What a thread holds while it prepares an id or removes one. *)
Working(c) == task[c].op # "idle"
TaskSays(c) ==
    /\ Working(c) <=> task[c] # Idle
    /\ Working(c) => task[c].id.epoch >= 1 /\ task[c].id.index < nextIndex
    /\ task[c].op = "assign" => EpochAt(task[c].id) = Vacant
    /\ task[c].op = "remove" =>
          /\ task[c].step \in {1, 2}
          /\ EpochAt(task[c].id) = IF task[c].step = 1 THEN task[c].id.epoch ELSE Vacant
TaskInv == \A c \in Client : TaskSays(c)

(* An index is in one place: with one id that is usable or abandoned, with *)
(* one thread, or free.                                                    *)
PlaceInv ==
    /\ usable \cap abandoned = {}
    /\ \A a, b \in usable \cup abandoned : a.index = b.index => a = b
    /\ \A c \in Client, a \in usable \cup abandoned :
          Working(c) => a.index # task[c].id.index
    /\ \A c, d \in Client : Working(c) /\ Working(d) /\ c # d =>
          task[c].id.index # task[d].id.index
    /\ \A i, j \in DOMAIN freeIds : i # j => freeIds[i].index # freeIds[j].index
    /\ \A i \in DOMAIN freeIds, a \in Live : freeIds[i].index # a.index

(* The table has the epoch of a usable id, and nothing of a free one. *)
TableInv ==
    /\ \A a \in usable : EpochAt(a) = a.epoch
    /\ \A a \in usable \cup abandoned : a.epoch >= 1 /\ a.index < nextIndex
    /\ \A i \in DOMAIN freeIds :
          /\ freeIds[i].epoch >= 1 /\ freeIds[i].index < nextIndex
          /\ EpochAt(freeIds[i]) = Vacant

(* Of the ids issued with an index, the one in place is the last. *)
IssuedInv ==
    /\ \A i, j \in DOMAIN issued : i # j => issued[i] # issued[j]
    /\ \A i \in DOMAIN issued :
          /\ issued[i].index < nextIndex
          /\ \A a \in Live \cup Freed : a.index = issued[i].index => issued[i].epoch <= a.epoch

CountInv == IsFiniteSet(Live) /\ idCount = Cardinality(Live) /\ ~registryPanic

RegistryInv == RegistryType /\ TaskInv /\ PlaceInv /\ TableInv /\ IssuedInv /\ CountInv

LEMMA LiveIs ==
    ASSUME TaskInv
    PROVE  \A x : x \in Live <=> \/ x \in usable \cup abandoned
                                 \/ \E c \in Client : Working(c) /\ x = task[c].id
  BY DEF Live, TaskInv, TaskSays

(* An id that alloc returns is of no live or free index, it is vacant in   *)
(* the table, and later than every id issued with its index.               *)
LEMMA AllocatedFresh ==
    ASSUME RegistryInv, NEW c \in Client, Prepare(c)
    PROVE  /\ Allocated \in Id /\ Allocated.epoch >= 1
           /\ nextIndex' \in Nat /\ nextIndex' >= nextIndex /\ Allocated.index < nextIndex'
           /\ EpochAt(Allocated) = Vacant
           /\ \A a \in Live : a.index # Allocated.index
           /\ freeIds' \in Seq(Id) /\ DOMAIN freeIds' \subseteq DOMAIN freeIds
           /\ \A i \in DOMAIN freeIds' : /\ freeIds'[i] = freeIds[i]
                                         /\ freeIds'[i].index # Allocated.index
           /\ \A i \in DOMAIN issued : issued[i].index = Allocated.index =>
                 issued[i].epoch < Allocated.epoch
  <1> USE DEF RegistryInv
  <1>1. freeIds \in Seq(Id) /\ issued \in Seq(Id) /\ nextIndex \in Nat
    BY DEF RegistryType
  <1>2. \A i \in DOMAIN issued : issued[i].index \in Nat /\ issued[i].epoch \in Nat
    <2>1. \A i \in DOMAIN issued : issued[i] \in Id
      BY <1>1
    <2> QED
      BY <2>1 DEF Id
  <1>3. CASE freeIds # <<>>
    <2>1. PICK k : k = Len(freeIds)
      OBVIOUS
    <2>2. /\ k \in Nat \ {0} /\ k \in DOMAIN freeIds /\ freeIds[k] \in Id
          /\ DOMAIN freeIds = 1..k
      BY <1>1, <1>3, <2>1
    <2>3. Allocated = [freeIds[k] EXCEPT !.epoch = freeIds[k].epoch + 1]
      BY <1>3, <2>1 DEF Allocated, Reused
    <2>4. /\ Allocated \in Id /\ Allocated.index = freeIds[k].index
          /\ Allocated.epoch = freeIds[k].epoch + 1 /\ freeIds[k].epoch \in Nat
      BY <2>2, <2>3 DEF Id
    <2>5. EpochAt(Allocated) = Vacant
      BY <2>2, <2>4 DEF EpochAt, TableInv
    <2>6. /\ nextIndex' = nextIndex /\ freeIds' = SubSeq(freeIds, 1, k - 1)
      BY <1>3, <2>1 DEF Prepare
    <2>7. /\ freeIds' \in Seq(Id) /\ DOMAIN freeIds' = 1..(k - 1)
          /\ \A i \in 1..(k - 1) : freeIds'[i] = freeIds[i]
      BY <1>1, <2>1, <2>2, <2>6
    <2>8. \A i \in 1..(k - 1) : i \in DOMAIN freeIds /\ i # k
      BY <2>2
    <2>9. \A i \in DOMAIN issued : issued[i].index = Allocated.index =>
              issued[i].epoch < Allocated.epoch
      <3>1. freeIds[k] \in Freed
        BY <2>2 DEF Freed
      <3> QED
        BY <1>2, <2>4, <3>1 DEF IssuedInv
    <2>10. Allocated.index < nextIndex /\ Allocated.epoch >= 1
      BY <2>2, <2>4 DEF TableInv
    <2>11. \A a \in Live : a.index # Allocated.index
      BY <2>2, <2>4 DEF PlaceInv
    <2>12. \A i \in DOMAIN freeIds' : /\ i \in DOMAIN freeIds /\ freeIds'[i] = freeIds[i]
                                      /\ freeIds'[i].index # Allocated.index
      BY <2>2, <2>4, <2>7, <2>8 DEF PlaceInv
    <2> QED
      BY <1>1, <2>4, <2>5, <2>6, <2>7, <2>9, <2>10, <2>11, <2>12
  <1>4. CASE freeIds = <<>>
    <2>1. Allocated = [index |-> nextIndex, epoch |-> 1]
      BY <1>4 DEF Allocated
    <2>2. Allocated \in Id /\ Allocated.index = nextIndex /\ Allocated.epoch = 1
      BY <1>1, <2>1 DEF Id
    <2>3. nextIndex' = nextIndex + 1 /\ freeIds' = <<>>
      BY <1>4 DEF Prepare
    <2>4. EpochAt(Allocated) = Vacant
      BY <1>1, <2>2 DEF EpochAt, RegistryType
    <2>5. \A a \in Live : a.index < nextIndex
      BY LiveIs DEF TaskInv, TaskSays, TableInv
    <2>6. \A a \in Live : a.index # Allocated.index
      BY <1>1, <2>2, <2>5
    <2>7. \A i \in DOMAIN issued : issued[i].index # Allocated.index
      BY <1>1, <1>2, <2>2 DEF IssuedInv
    <2> QED
      BY <1>1, <2>2, <2>3, <2>4, <2>6, <2>7
  <1> QED
    BY <1>3, <1>4

LEMMA PrepareKeeps ==
    ASSUME RegistryInv, NEW c \in Client, Prepare(c)
    PROVE  RegistryInv'
  <1> USE DEF RegistryInv
  <1>1. PICK new : new = Allocated
    OBVIOUS
  <1>2. /\ new \in Id /\ new.epoch >= 1 /\ new.index \in Nat /\ new.epoch \in Nat
        /\ nextIndex' \in Nat /\ nextIndex' >= nextIndex /\ new.index < nextIndex'
        /\ EpochAt(new) = Vacant
        /\ \A a \in Live : a.index # new.index
        /\ freeIds' \in Seq(Id) /\ DOMAIN freeIds' \subseteq DOMAIN freeIds
        /\ \A i \in DOMAIN freeIds' : freeIds'[i] = freeIds[i] /\ freeIds'[i].index # new.index
        /\ \A i \in DOMAIN issued : issued[i].index = new.index => issued[i].epoch < new.epoch
    BY <1>1, AllocatedFresh DEF Id
  <1> DEFINE job == [op |-> "assign", id |-> new, step |-> 1]
  <1>3. /\ task[c] = Idle
        /\ idCount' = idCount + 1
        /\ issued' = Append(issued, new)
        /\ task' = [task EXCEPT ![c] = job]
        /\ UNCHANGED <<table, usable, abandoned, registryPanic>>
    BY <1>1 DEF Prepare
  <1>4. job \in Tasks /\ job.op = "assign" /\ job.id = new /\ job.step = 1
    BY <1>2 DEF Tasks
  <1> HIDE DEF job
  <1>5. /\ ~Working(c) /\ task'[c] = job
        /\ \A d \in Client : d # c => task'[d] = task[d] /\ (Working(d)' <=> Working(d))
        /\ Working(c)'
    BY <1>3, <1>4 DEF Working, Idle, RegistryType
  <1>6. \A x : EpochAt(x)' = EpochAt(x)
    BY <1>3 DEF EpochAt
  <1>7. RegistryType'
    <2>1. issued' \in Seq(Id) /\ task' \in [Client -> Tasks] /\ idCount' \in Int
      BY <1>2, <1>3, <1>4 DEF RegistryType
    <2>2. DOMAIN table \subseteq 0..(nextIndex' - 1)
      BY <1>2 DEF RegistryType
    <2> QED
      BY <1>2, <1>3, <2>1, <2>2 DEF RegistryType
  <1>8. TaskInv'
    <2>1. \A d \in Client : task[d].id.index \in Nat
      BY DEF RegistryType, Tasks, Id
    <2>2. nextIndex \in Nat
      BY DEF RegistryType
    <2>3. \A d \in Client : d # c => TaskSays(d)'
      BY <1>2, <1>3, <1>5, <2>1, <2>2 DEF TaskInv, TaskSays, EpochAt
    <2>4. task'[c] # Idle
      BY <1>4, <1>5 DEF Idle
    <2>5. TaskSays(c)'
      BY <1>2, <1>3, <1>4, <1>5, <2>4 DEF TaskSays, EpochAt
    <2> QED
      BY <2>3, <2>5 DEF TaskInv
  <1>9. Live' = Live \cup {new} /\ new \notin Live
    <2>1. \A x : x \in Live' <=> \/ x \in usable \cup abandoned
                                 \/ \E d \in Client : Working(d)' /\ x = task'[d].id
      BY <1>3, <1>8 DEF Live, TaskInv, TaskSays
    <2>2. \A x : x \in Live' <=> x \in Live \/ x = new
      BY <1>4, <1>5, <2>1, LiveIs
    <2> QED
      BY <1>2, <2>2
  <1>10. PlaceInv'
    <2>1. \A a \in usable \cup abandoned : a.index # new.index
      BY <1>2, LiveIs
    <2>2. \A d \in Client : Working(d) => task[d].id.index # new.index
      BY <1>2, LiveIs
    <2>3. \A d, f \in Client : Working(d)' /\ Working(f)' /\ d # f =>
              task'[d].id.index # task'[f].id.index
      BY <1>4, <1>5, <2>2 DEF PlaceInv
    <2>4. \A d \in Client, a \in usable \cup abandoned :
              Working(d)' => a.index # task'[d].id.index
      BY <1>4, <1>5, <2>1 DEF PlaceInv
    <2>5. /\ \A i, j \in DOMAIN freeIds' : i # j => freeIds'[i].index # freeIds'[j].index
          /\ \A i \in DOMAIN freeIds', a \in Live' : freeIds'[i].index # a.index
      BY <1>2, <1>9 DEF PlaceInv
    <2> QED
      BY <1>3, <2>3, <2>4, <2>5 DEF PlaceInv
  <1>11. TableInv'
    <2>1. \A a \in usable \cup abandoned : a.index \in Nat
      BY DEF RegistryType, Id
    <2>2. \A i \in DOMAIN freeIds : freeIds[i].index \in Nat
      <3>1. \A i \in DOMAIN freeIds : freeIds[i] \in Id
        BY DEF RegistryType
      <3> QED
        BY <3>1 DEF Id
    <2>3. nextIndex \in Nat
      BY DEF RegistryType
    <2>4. \A a \in usable \cup abandoned : a.epoch >= 1 /\ a.index < nextIndex'
      BY <1>2, <2>1, <2>3 DEF TableInv
    <2>5. \A i \in DOMAIN freeIds' : /\ freeIds'[i].epoch >= 1 /\ freeIds'[i].index < nextIndex'
                                     /\ EpochAt(freeIds[i])' = Vacant
      BY <1>2, <1>3, <2>2, <2>3 DEF TableInv, EpochAt
    <2> QED
      BY <1>3, <1>6, <2>4, <2>5 DEF TableInv
  <1>12. IssuedInv'
    <2>1. PICK n : n = Len(issued) + 1
      OBVIOUS
    <2>2. /\ n \notin DOMAIN issued /\ DOMAIN issued' = DOMAIN issued \cup {n}
          /\ issued'[n] = new /\ \A i \in DOMAIN issued : issued'[i] = issued[i]
      BY <1>2, <1>3, <2>1 DEF RegistryType
    <2>3. \A i \in DOMAIN issued : issued[i].index \in Nat /\ issued[i].epoch \in Nat
      <3>1. \A i \in DOMAIN issued : issued[i] \in Id
        BY DEF RegistryType
      <3> QED
        BY <3>1 DEF Id
    <2>4. \A i \in DOMAIN issued : issued[i] # new
      BY <1>2, <2>3
    <2>5. \A a \in Live' \cup Freed' : a = new \/ (a \in Live \cup Freed /\ a.index # new.index)
      BY <1>2, <1>9 DEF Freed
    <2>6. \A i \in DOMAIN issued : issued[i].index < nextIndex'
      BY <1>2, <2>3 DEF IssuedInv, RegistryType
    <2>7. \A i \in DOMAIN issued : \A a \in Live' \cup Freed' :
              a.index = issued[i].index => issued[i].epoch <= a.epoch
      BY <1>2, <2>3, <2>5 DEF IssuedInv
    <2>8. \A a \in Live' \cup Freed' : a.index = new.index => new.epoch <= a.epoch
      BY <1>2, <2>5
    <2>9. \A i, j \in DOMAIN issued' : i # j => issued'[i] # issued'[j]
      BY <2>2, <2>4 DEF IssuedInv
    <2> QED
      BY <1>2, <2>2, <2>6, <2>7, <2>8, <2>9 DEF IssuedInv
  <1>13. CountInv'
    <2>1. IsFiniteSet(Live') /\ Cardinality(Live') = Cardinality(Live) + 1
      BY <1>9, FS_AddElement DEF CountInv
    <2> QED
      BY <1>3, <2>1 DEF CountInv
  <1> QED
    BY <1>7, <1>8, <1>10, <1>11, <1>12, <1>13

(* A step that gives the same ids to others to hold. *)
LEMMA LiveStays ==
    ASSUME RegistryInv, TaskInv', UNCHANGED <<freeIds, nextIndex, idCount, issued>>, ~registryPanic',
           \A x : \/ x \in usable' \cup abandoned'
                  \/ \E d \in Client : Working(d)' /\ x = task'[d].id
                  <=>
                  \/ x \in usable \cup abandoned
                  \/ \E d \in Client : Working(d) /\ x = task[d].id
    PROVE  Live' = Live /\ IssuedInv' /\ CountInv'
  <1> USE DEF RegistryInv
  <1>1. \A x : x \in Live' <=> \/ x \in usable' \cup abandoned'
                               \/ \E d \in Client : Working(d)' /\ x = task'[d].id
    BY DEF Live, TaskInv, TaskSays
  <1>2. Live' = Live
    <2>1. \A x : x \in Live' <=> x \in Live
      BY <1>1, LiveIs
    <2> QED
      BY <2>1
  <1>3. Freed' = Freed
    BY DEF Freed
  <1> QED
    BY <1>2, <1>3 DEF IssuedInv, CountInv

(* Assigning an id, which is vacant in the table: it is usable. *)
LEMMA AssignKeeps ==
    ASSUME RegistryInv, NEW c \in Client, Assign(c)
    PROVE  RegistryInv'
  <1> USE DEF RegistryInv
  <1>1. PICK id : id = task[c].id
    OBVIOUS
  <1>2. /\ task[c].op = "assign"
        /\ registryPanic' = (registryPanic \/ EpochAt(id) = id.epoch)
        /\ table' = [i \in DOMAIN table \cup 0..id.index |->
                       IF i = id.index THEN id.epoch
                       ELSE IF i \in DOMAIN table THEN table[i] ELSE Vacant]
        /\ usable' = usable \cup {id}
        /\ task' = [task EXCEPT ![c] = Idle]
        /\ UNCHANGED <<freeIds, nextIndex, idCount, abandoned, issued>>
    BY <1>1 DEF Assign
  <1>3. /\ id \in Id /\ id.index \in Nat /\ id.epoch \in Nat /\ nextIndex \in Nat
        /\ Working(c) /\ id.epoch >= 1 /\ id.index < nextIndex
    <2>1. task[c] \in Tasks /\ nextIndex \in Nat
      BY DEF RegistryType
    <2>2. Working(c)
      BY <1>2 DEF Working
    <2> QED
      BY <1>1, <2>1, <2>2 DEF TaskInv, TaskSays, Tasks, Id
  <1>4. EpochAt(id) = Vacant
    BY <1>1, <1>2 DEF TaskInv, TaskSays
  <1>5. ~registryPanic'
    <2>1. EpochAt(id) # id.epoch
      BY <1>3, <1>4 DEF Vacant
    <2>2. ~registryPanic
      BY DEF CountInv
    <2> QED
      BY <1>2, <2>1, <2>2
  <1>6. /\ task'[c] = Idle /\ ~Working(c)'
        /\ \A d \in Client : d # c => task'[d] = task[d] /\ (Working(d)' <=> Working(d))
    BY <1>2 DEF Working, Idle, RegistryType
  <1>7. /\ EpochAt(id)' = id.epoch
        /\ \A x : x.index # id.index => EpochAt(x)' = EpochAt(x)
    BY <1>2, <1>3 DEF EpochAt
  <1>8. \A d \in Client : d # c /\ Working(d) => task[d].id.index # id.index
    BY <1>1, <1>3 DEF PlaceInv
  <1>9. \A a \in usable \cup abandoned : a.index # id.index
    BY <1>1, <1>3 DEF PlaceInv
  <1>10. \A i \in DOMAIN freeIds : freeIds[i].index # id.index
    BY <1>1, <1>3, LiveIs DEF PlaceInv
  <1>11. RegistryType'
    <2>1. DOMAIN table' \subseteq 0..(nextIndex - 1)
      BY <1>2, <1>3 DEF RegistryType
    <2>2. Idle \in Tasks
      BY DEF Idle, Tasks, Id
    <2>3. task' \in [Client -> Tasks]
      BY <1>2, <2>2 DEF RegistryType
    <2> QED
      BY <1>2, <1>3, <2>1, <2>3 DEF RegistryType
  <1>12. TaskInv'
    <2>1. TaskSays(c)'
      BY <1>6 DEF TaskSays, Idle, Working
    <2>2. ASSUME NEW d \in Client, d # c PROVE TaskSays(d)'
      <3>1. PICK x : x = task[d].id /\ x = task'[d].id
        BY <1>6, <2>2
      <3>2. Working(d) => EpochAt(x)' = EpochAt(x)
        BY <1>7, <1>8, <2>2, <3>1
      <3>3. task'[d] = task[d] /\ TaskSays(d) /\ (Working(d)' <=> Working(d))
        BY <1>6, <2>2 DEF TaskInv
      <3>4. task[d].op \in {"assign", "remove"} => Working(d)
        BY DEF Working
      <3>5. Working(d) => EpochAt(task[d].id)' = EpochAt(task[d].id)
        BY <3>1, <3>2 DEF EpochAt
      <3> QED
        BY <1>2, <3>3, <3>4, <3>5 DEF TaskSays
    <2> QED
      BY <2>1, <2>2 DEF TaskInv
  <1>13. Live' = Live /\ IssuedInv' /\ CountInv'
    <2>1. \A x : \/ x \in usable' \cup abandoned'
                 \/ \E d \in Client : Working(d)' /\ x = task'[d].id
                 <=>
                 \/ x \in usable \cup abandoned
                 \/ \E d \in Client : Working(d) /\ x = task[d].id
      BY <1>1, <1>2, <1>3, <1>6
    <2> QED
      BY <1>2, <1>5, <1>12, <2>1, LiveStays
  <1>14. PlaceInv'
    <2>1. usable' \cap abandoned' = {}
      BY <1>2, <1>9 DEF PlaceInv
    <2>2. \A a, b \in usable' \cup abandoned' : a.index = b.index => a = b
      BY <1>2, <1>9 DEF PlaceInv
    <2>3. \A d \in Client, a \in usable' \cup abandoned' :
              Working(d)' => a.index # task'[d].id.index
      BY <1>2, <1>6, <1>8 DEF PlaceInv
    <2>4. \A d, f \in Client : Working(d)' /\ Working(f)' /\ d # f =>
              task'[d].id.index # task'[f].id.index
      BY <1>6 DEF PlaceInv
    <2> QED
      BY <1>2, <1>13, <2>1, <2>2, <2>3, <2>4 DEF PlaceInv
  <1>15. TableInv'
    <2>1. \A a \in usable' : EpochAt(a)' = a.epoch
      BY <1>2, <1>7, <1>9 DEF TableInv
    <2>2. \A a \in usable' \cup abandoned' : a.epoch >= 1 /\ a.index < nextIndex'
      BY <1>2, <1>3 DEF TableInv
    <2>3. \A i \in DOMAIN freeIds :
             /\ freeIds[i].epoch >= 1 /\ freeIds[i].index < nextIndex
             /\ EpochAt(freeIds[i])' = Vacant
      <3> SUFFICES ASSUME NEW i \in DOMAIN freeIds PROVE EpochAt(freeIds[i])' = Vacant
        BY DEF TableInv
      <3>1. PICK x : x = freeIds[i] /\ x = freeIds'[i]
        BY <1>2
      <3>2. EpochAt(x)' = Vacant
        BY <1>7, <1>10, <3>1 DEF TableInv
      <3> QED
        BY <3>1, <3>2 DEF EpochAt
    <2> QED
      BY <1>2, <2>1, <2>2, <2>3 DEF TableInv
  <1> QED
    BY <1>11, <1>12, <1>13, <1>14, <1>15

(* Abandoning it instead: the table is left vacant for ever. *)
LEMMA AbandonKeeps ==
    ASSUME RegistryInv, NEW c \in Client, Abandon(c)
    PROVE  RegistryInv'
  <1> USE DEF RegistryInv
  <1>1. PICK id : id = task[c].id
    OBVIOUS
  <1>2. /\ task[c].op = "assign"
        /\ abandoned' = abandoned \cup {id}
        /\ task' = [task EXCEPT ![c] = Idle]
        /\ UNCHANGED <<freeIds, nextIndex, idCount, table, usable, issued, registryPanic>>
    BY <1>1 DEF Abandon
  <1>3. id \in Id /\ Working(c) /\ id.epoch >= 1 /\ id.index < nextIndex
    <2>1. task[c] \in Tasks
      BY DEF RegistryType
    <2>2. Working(c)
      BY <1>2 DEF Working
    <2> QED
      BY <1>1, <2>1, <2>2 DEF TaskInv, TaskSays, Tasks
  <1>4. /\ task'[c] = Idle /\ ~Working(c)'
        /\ \A d \in Client : d # c => task'[d] = task[d] /\ (Working(d)' <=> Working(d))
    BY <1>2 DEF Working, Idle, RegistryType
  <1>5. \A a \in usable \cup abandoned : a.index # id.index
    BY <1>1, <1>3 DEF PlaceInv
  <1>6. \A d \in Client : d # c /\ Working(d) => task[d].id.index # id.index
    BY <1>1, <1>3 DEF PlaceInv
  <1>7. RegistryType'
    <2>1. Idle \in Tasks
      BY DEF Idle, Tasks, Id
    <2>2. task' \in [Client -> Tasks]
      BY <1>2, <2>1 DEF RegistryType
    <2> QED
      BY <1>2, <1>3, <2>2 DEF RegistryType
  <1>8. TaskInv'
    <2>1. TaskSays(c)'
      BY <1>4 DEF TaskSays, Idle, Working
    <2>2. \A d \in Client : d # c => TaskSays(d)'
      BY <1>2, <1>4 DEF TaskInv, TaskSays, EpochAt
    <2> QED
      BY <2>1, <2>2 DEF TaskInv
  <1>9. Live' = Live /\ IssuedInv' /\ CountInv'
    <2>1. \A x : \/ x \in usable' \cup abandoned'
                 \/ \E d \in Client : Working(d)' /\ x = task'[d].id
                 <=>
                 \/ x \in usable \cup abandoned
                 \/ \E d \in Client : Working(d) /\ x = task[d].id
      BY <1>1, <1>2, <1>3, <1>4
    <2> QED
      BY <1>2, <1>8, <2>1, LiveStays DEF CountInv
  <1>10. PlaceInv'
    <2>1. usable' \cap abandoned' = {}
      BY <1>2, <1>5 DEF PlaceInv
    <2>2. \A a, b \in usable' \cup abandoned' : a.index = b.index => a = b
      BY <1>2, <1>5 DEF PlaceInv
    <2>3. \A d \in Client, a \in usable' \cup abandoned' :
              Working(d)' => a.index # task'[d].id.index
      BY <1>2, <1>4, <1>6 DEF PlaceInv
    <2>4. \A d, f \in Client : Working(d)' /\ Working(f)' /\ d # f =>
              task'[d].id.index # task'[f].id.index
      BY <1>4 DEF PlaceInv
    <2> QED
      BY <1>2, <1>9, <2>1, <2>2, <2>3, <2>4 DEF PlaceInv
  <1>11. TableInv'
    BY <1>2, <1>3 DEF TableInv, EpochAt
  <1> QED
    BY <1>7, <1>8, <1>9, <1>10, <1>11

(* A usable id is found in the table. *)
LEMMA GetKeeps ==
    ASSUME RegistryInv, NEW c \in Client, NEW id \in usable, Get(c, id)
    PROVE  RegistryInv'
  <1> USE DEF RegistryInv
  <1>1. UNCHANGED <<freeIds, nextIndex, idCount, table, task, usable, abandoned, issued>>
    BY DEF Get
  <1>2. ~registryPanic'
    BY DEF Get, TableInv, CountInv
  <1>3. RegistryType'
    BY <1>1 DEF RegistryType
  <1>4. TaskInv'
    BY <1>1 DEF TaskInv, TaskSays, Working, EpochAt
  <1>5. Live' = Live /\ IssuedInv' /\ CountInv'
    <2>1. \A d \in Client : Working(d)' <=> Working(d)
      BY <1>1 DEF Working
    <2> QED
      BY <1>1, <1>2, <1>4, <2>1, LiveStays
  <1>6. PlaceInv'
    BY <1>1, <1>5 DEF PlaceInv, Working
  <1>7. TableInv'
    BY <1>1 DEF TableInv, EpochAt
  <1> QED
    BY <1>3, <1>4, <1>5, <1>6, <1>7

(* Removing an id: from the ids that are usable, *)
LEMMA BeginKeeps ==
    ASSUME RegistryInv, NEW c \in Client, NEW id \in usable, BeginRemove(c, id)
    PROVE  RegistryInv'
  <1> USE DEF RegistryInv
  <1> DEFINE job == [op |-> "remove", id |-> id, step |-> 1]
  <1>1. /\ task[c] = Idle
        /\ usable' = usable \ {id}
        /\ task' = [task EXCEPT ![c] = job]
        /\ UNCHANGED <<freeIds, nextIndex, idCount, table, abandoned, issued, registryPanic>>
    BY DEF BeginRemove
  <1>2. id \in Id /\ id.epoch >= 1 /\ id.index < nextIndex /\ EpochAt(id) = id.epoch
    BY DEF RegistryType, TableInv
  <1>3. job \in Tasks /\ job.op = "remove" /\ job.id = id /\ job.step = 1
    BY <1>2 DEF Tasks
  <1> HIDE DEF job
  <1>4. /\ ~Working(c) /\ task'[c] = job /\ Working(c)'
        /\ \A d \in Client : d # c => task'[d] = task[d] /\ (Working(d)' <=> Working(d))
    BY <1>1, <1>3 DEF Working, Idle, RegistryType
  <1>5. id \notin abandoned
    BY DEF PlaceInv
  <1>6. RegistryType'
    <2>1. task' \in [Client -> Tasks]
      BY <1>1, <1>3 DEF RegistryType
    <2> QED
      BY <1>1, <2>1 DEF RegistryType
  <1>7. TaskInv'
    <2>1. TaskSays(c)'
      BY <1>1, <1>2, <1>3, <1>4 DEF TaskSays, Idle, EpochAt
    <2>2. \A d \in Client : d # c => TaskSays(d)'
      BY <1>1, <1>4 DEF TaskInv, TaskSays, EpochAt
    <2> QED
      BY <2>1, <2>2 DEF TaskInv
  <1>8. Live' = Live /\ IssuedInv' /\ CountInv'
    <2>1. \A x : \/ x \in usable' \cup abandoned'
                 \/ \E d \in Client : Working(d)' /\ x = task'[d].id
                 <=>
                 \/ x \in usable \cup abandoned
                 \/ \E d \in Client : Working(d) /\ x = task[d].id
      BY <1>1, <1>3, <1>4
    <2> QED
      BY <1>1, <1>7, <2>1, LiveStays DEF CountInv
  <1>9. PlaceInv'
    <2>1. \A a \in usable' \cup abandoned' : a.index # id.index
      BY <1>1, <1>5 DEF PlaceInv
    <2>2. \A d \in Client : Working(d) => task[d].id.index # id.index
      BY DEF PlaceInv
    <2>3. \A d \in Client, a \in usable' \cup abandoned' :
              Working(d)' => a.index # task'[d].id.index
      BY <1>1, <1>3, <1>4, <2>1 DEF PlaceInv
    <2>4. \A d, f \in Client : Working(d)' /\ Working(f)' /\ d # f =>
              task'[d].id.index # task'[f].id.index
      BY <1>3, <1>4, <2>2 DEF PlaceInv
    <2> QED
      BY <1>1, <1>8, <2>3, <2>4 DEF PlaceInv
  <1>10. TableInv'
    BY <1>1 DEF TableInv, EpochAt
  <1> QED
    BY <1>6, <1>7, <1>8, <1>9, <1>10

(* from the table, *)
LEMMA EntryKeeps ==
    ASSUME RegistryInv, NEW c \in Client, RemoveEntry(c)
    PROVE  RegistryInv'
  <1> USE DEF RegistryInv
  <1>1. PICK id : id = task[c].id
    OBVIOUS
  <1>2. task[c].op = "remove" /\ task[c].step = 1 /\ EpochAt(id) = id.epoch
    <2>1. /\ task[c].op = "remove" /\ task[c].step \in {1, 2}
          /\ EpochAt(task[c].id) = IF task[c].step = 1 THEN task[c].id.epoch ELSE Vacant
      BY DEF RemoveEntry, TaskInv, TaskSays
    <2>2. RemoveOrder[task[c].step] = "storage"
      BY DEF RemoveEntry
    <2>3. task[c].step = 1
      BY <2>1, <2>2 DEF RemoveOrder
    <2> QED
      BY <1>1, <2>1, <2>3
  <1> DEFINE job == [task[c] EXCEPT !.step = 2]
  <1>3. /\ registryPanic' = (registryPanic \/ EpochAt(id) # id.epoch)
        /\ table' = [table EXCEPT ![id.index] = Vacant]
        /\ task' = [task EXCEPT ![c] = job]
        /\ UNCHANGED <<freeIds, nextIndex, idCount, usable, abandoned, issued>>
    <2>1. Stepped(c) = job
      BY <1>2 DEF Stepped, RemoveOrder
    <2> QED
      BY <1>1, <2>1 DEF RemoveEntry
  <1>4. /\ Working(c) /\ id \in Id /\ id.index \in Nat /\ id.epoch \in Nat /\ id.epoch >= 1
        /\ id.index < nextIndex /\ task[c] \in Tasks
    <2>1. task[c] \in Tasks /\ Working(c)
      BY <1>2 DEF RegistryType, Working
    <2> QED
      BY <1>1, <2>1 DEF TaskInv, TaskSays, Tasks, Id
  <1>5. job \in Tasks /\ job.op = "remove" /\ job.id = id /\ job.step = 2
    BY <1>1, <1>2, <1>4 DEF Tasks
  <1> HIDE DEF job
  <1>6. /\ task'[c] = job /\ Working(c)'
        /\ \A d \in Client : d # c => task'[d] = task[d] /\ (Working(d)' <=> Working(d))
    BY <1>3, <1>5 DEF Working, RegistryType
  <1>7. /\ EpochAt(id)' = Vacant
        /\ \A x : x.index # id.index => EpochAt(x)' = EpochAt(x)
    BY <1>3 DEF EpochAt
  <1>8. \A d \in Client : d # c /\ Working(d) => task[d].id.index # id.index
    BY <1>1, <1>4 DEF PlaceInv
  <1>9. \A a \in usable \cup abandoned : a.index # id.index
    BY <1>1, <1>4 DEF PlaceInv
  <1>10. \A i \in DOMAIN freeIds : freeIds[i].index # id.index
    BY <1>1, <1>4, LiveIs DEF PlaceInv
  <1>11. RegistryType'
    <2>1. task' \in [Client -> Tasks]
      BY <1>3, <1>5 DEF RegistryType
    <2> QED
      BY <1>3, <2>1 DEF RegistryType
  <1>12. TaskInv'
    <2>1. TaskSays(c)'
      <3>1. EpochAt(task[c].id)' = Vacant
        BY <1>5, <1>6, <1>7 DEF EpochAt
      <3>2. job # Idle
        BY <1>5 DEF Idle
      <3> QED
        BY <1>3, <1>4, <1>5, <1>6, <3>1, <3>2 DEF TaskSays
    <2>2. ASSUME NEW d \in Client, d # c PROVE TaskSays(d)'
      <3>1. PICK x : x = task[d].id /\ x = task'[d].id
        BY <1>6, <2>2
      <3>2. Working(d) => EpochAt(x)' = EpochAt(x)
        BY <1>7, <1>8, <2>2, <3>1
      <3>3. task'[d] = task[d] /\ TaskSays(d) /\ (Working(d)' <=> Working(d))
        BY <1>6, <2>2 DEF TaskInv
      <3>4. task[d].op \in {"assign", "remove"} => Working(d)
        BY DEF Working
      <3>5. Working(d) => EpochAt(task[d].id)' = EpochAt(task[d].id)
        BY <3>1, <3>2 DEF EpochAt
      <3> QED
        BY <1>3, <3>3, <3>4, <3>5 DEF TaskSays
    <2> QED
      BY <2>1, <2>2 DEF TaskInv
  <1>13. Live' = Live /\ IssuedInv' /\ CountInv'
    <2>1. \A x : \/ x \in usable' \cup abandoned'
                 \/ \E d \in Client : Working(d)' /\ x = task'[d].id
                 <=>
                 \/ x \in usable \cup abandoned
                 \/ \E d \in Client : Working(d) /\ x = task[d].id
      BY <1>1, <1>3, <1>4, <1>5, <1>6
    <2>2. ~registryPanic'
      BY <1>2, <1>3 DEF CountInv
    <2> QED
      BY <1>3, <1>12, <2>1, <2>2, LiveStays
  <1>14. PlaceInv'
    <2>1. \A d \in Client : /\ Working(d)' <=> Working(d)
                            /\ Working(d) => task'[d].id = task[d].id
      BY <1>1, <1>4, <1>5, <1>6
    <2> QED
      BY <1>3, <1>13, <2>1 DEF PlaceInv
  <1>15. TableInv'
    <2>1. \A a \in usable : EpochAt(a)' = a.epoch
      BY <1>7, <1>9 DEF TableInv
    <2>2. \A i \in DOMAIN freeIds :
             /\ freeIds[i].epoch >= 1 /\ freeIds[i].index < nextIndex
             /\ EpochAt(freeIds[i])' = Vacant
      <3> SUFFICES ASSUME NEW i \in DOMAIN freeIds PROVE EpochAt(freeIds[i])' = Vacant
        BY DEF TableInv
      <3>1. PICK x : x = freeIds[i] /\ x = freeIds'[i]
        BY <1>3
      <3>2. EpochAt(x)' = Vacant
        <4>1. EpochAt(x) = Vacant
          BY <3>1 DEF TableInv, EpochAt
        <4>2. x.index # id.index
          BY <1>10, <3>1
        <4>3. EpochAt(x)' = EpochAt(x)
          BY <1>7, <4>2
        <4> QED
          BY <4>1, <4>3
      <3> QED
        BY <3>1, <3>2 DEF EpochAt
    <2> QED
      BY <1>3, <2>1, <2>2 DEF TableInv
  <1> QED
    BY <1>11, <1>12, <1>13, <1>14, <1>15

(* and then from the allocator, which may give its index again. *)
LEMMA ReleaseKeeps ==
    ASSUME RegistryInv, NEW c \in Client, ReleaseId(c)
    PROVE  RegistryInv'
  <1> USE DEF RegistryInv
  <1>1. PICK id : id = task[c].id
    OBVIOUS
  <1>2. task[c].op = "remove" /\ task[c].step = 2 /\ EpochAt(id) = Vacant
    <2>1. /\ task[c].op = "remove" /\ task[c].step \in {1, 2}
          /\ EpochAt(task[c].id) = IF task[c].step = 1 THEN task[c].id.epoch ELSE Vacant
      BY DEF ReleaseId, TaskInv, TaskSays
    <2>2. RemoveOrder[task[c].step] = "identity"
      BY DEF ReleaseId
    <2>3. task[c].step = 2
      BY <2>1, <2>2 DEF RemoveOrder
    <2> QED
      BY <1>1, <2>1, <2>3
  <1>3. /\ freeIds' = Append(freeIds, id)
        /\ idCount' = idCount - 1
        /\ task' = [task EXCEPT ![c] = Idle]
        /\ UNCHANGED <<nextIndex, table, usable, abandoned, issued, registryPanic>>
    <2>1. Stepped(c) = Idle
      BY <1>2 DEF Stepped, RemoveOrder
    <2> QED
      BY <1>1, <2>1 DEF ReleaseId
  <1>4. /\ Working(c) /\ id \in Id /\ id.epoch >= 1 /\ id.index < nextIndex /\ id \in Live
    <2>1. task[c] \in Tasks /\ Working(c)
      BY <1>2 DEF RegistryType, Working
    <2> QED
      BY <1>1, <2>1, LiveIs DEF TaskInv, TaskSays, Tasks
  <1>5. /\ task'[c] = Idle /\ ~Working(c)'
        /\ \A d \in Client : d # c => task'[d] = task[d] /\ (Working(d)' <=> Working(d))
    BY <1>3 DEF Working, Idle, RegistryType
  <1>6. PICK n : n = Len(freeIds) + 1
    OBVIOUS
  <1>7. /\ n \notin DOMAIN freeIds /\ DOMAIN freeIds' = DOMAIN freeIds \cup {n}
        /\ freeIds'[n] = id /\ \A i \in DOMAIN freeIds : freeIds'[i] = freeIds[i]
        /\ freeIds' \in Seq(Id)
    BY <1>3, <1>4, <1>6 DEF RegistryType
  <1>8. RegistryType'
    <2>1. Idle \in Tasks
      BY DEF Idle, Tasks, Id
    <2>2. task' \in [Client -> Tasks] /\ idCount' \in Int
      BY <1>3, <2>1 DEF RegistryType
    <2> QED
      BY <1>3, <1>7, <2>2 DEF RegistryType
  <1>9. TaskInv'
    <2>1. TaskSays(c)'
      BY <1>5 DEF TaskSays, Idle, Working
    <2>2. \A d \in Client : d # c => TaskSays(d)'
      BY <1>3, <1>5 DEF TaskInv, TaskSays, EpochAt
    <2> QED
      BY <2>1, <2>2 DEF TaskInv
  <1>10. \A a \in usable \cup abandoned : a.index # id.index
    BY <1>1, <1>4 DEF PlaceInv
  <1>11. \A d \in Client : d # c /\ Working(d) => task[d].id.index # id.index
    BY <1>1, <1>4 DEF PlaceInv
  <1>12. Live' = Live \ {id}
    <2>1. \A x : x \in Live' <=> \/ x \in usable \cup abandoned
                                 \/ \E d \in Client : Working(d)' /\ x = task'[d].id
      BY <1>3, <1>9 DEF Live, TaskInv, TaskSays
    <2>2. \A x : x \in Live' <=> x \in Live /\ x # id
      BY <1>1, <1>5, <1>10, <1>11, <2>1, LiveIs
    <2> QED
      BY <2>2
  <1>13. PlaceInv'
    <2>1. \A d \in Client, a \in usable \cup abandoned :
              Working(d)' => a.index # task'[d].id.index
      BY <1>5 DEF PlaceInv
    <2>2. \A d, f \in Client : Working(d)' /\ Working(f)' /\ d # f =>
              task'[d].id.index # task'[f].id.index
      BY <1>5 DEF PlaceInv
    <2>3. \A i \in DOMAIN freeIds : freeIds[i].index # id.index
      BY <1>4 DEF PlaceInv
    <2>4. \A i, j \in DOMAIN freeIds' : i # j => freeIds'[i].index # freeIds'[j].index
      BY <1>7, <2>3 DEF PlaceInv
    <2>5. \A a \in Live' : a.index # id.index
      <3>1. \A a \in Live' : \/ a \in usable \cup abandoned
                             \/ \E d \in Client : d # c /\ Working(d) /\ a = task[d].id
        BY <1>1, <1>12, LiveIs
      <3> QED
        BY <1>10, <1>11, <3>1
    <2>6. \A i \in DOMAIN freeIds', a \in Live' : freeIds'[i].index # a.index
      BY <1>7, <1>12, <2>5 DEF PlaceInv
    <2> QED
      BY <1>3, <2>1, <2>2, <2>4, <2>6 DEF PlaceInv
  <1>14. TableInv'
    <2>1. EpochAt(id)' = Vacant
      BY <1>2, <1>3 DEF EpochAt
    <2>2. \A i \in DOMAIN freeIds' : /\ freeIds'[i].epoch >= 1 /\ freeIds'[i].index < nextIndex
                                     /\ EpochAt(freeIds[i])' = Vacant
      <3> SUFFICES ASSUME NEW i \in DOMAIN freeIds'
                   PROVE  /\ freeIds'[i].epoch >= 1 /\ freeIds'[i].index < nextIndex
                          /\ EpochAt(freeIds[i])' = Vacant
        OBVIOUS
      <3>1. CASE i = n
        BY <1>4, <1>7, <2>1, <3>1 DEF EpochAt
      <3>2. CASE i # n
        BY <1>3, <1>7, <3>2 DEF TableInv, EpochAt
      <3> QED
        BY <3>1, <3>2
    <2> QED
      BY <1>3, <2>2 DEF TableInv, EpochAt
  <1>15. IssuedInv'
    <2>1. \A x \in Live' \cup Freed' : x \in Live \cup Freed
      BY <1>4, <1>7, <1>12 DEF Freed
    <2> QED
      BY <1>3, <2>1 DEF IssuedInv
  <1>16. CountInv'
    <2>1. /\ IsFiniteSet(Live')
          /\ Cardinality(Live') = Cardinality(Live) - 1
      BY <1>4, <1>12, FS_RemoveElement DEF CountInv
    <2> QED
      BY <1>3, <2>1 DEF CountInv
  <1> QED
    BY <1>8, <1>9, <1>13, <1>14, <1>15, <1>16

LEMMA RegistryBegins == RegistryInit => RegistryInv
  <1> SUFFICES ASSUME RegistryInit PROVE RegistryInv
    OBVIOUS
  <1> USE DEF RegistryInit
  <1>1. \A c \in Client : task[c] = Idle /\ task[c].op = "idle" /\ ~Working(c)
    BY DEF Idle, Working
  <1>2. RegistryType
    <2>1. Idle \in Tasks
      BY DEF Idle, Tasks, Id
    <2>2. task \in [Client -> Tasks]
      BY <2>1
    <2>3. freeIds \in Seq(Id) /\ issued \in Seq(Id)
      OBVIOUS
    <2> QED
      BY <2>2, <2>3 DEF RegistryType
  <1>3. TaskInv
    BY <1>1 DEF TaskInv, TaskSays
  <1>4. Live = {} /\ DOMAIN freeIds = {} /\ DOMAIN issued = {}
    <2>1. \A x : x \notin Live
      BY <1>1, <1>3, LiveIs
    <2> QED
      BY <2>1
  <1>5. PlaceInv /\ TableInv /\ IssuedInv
    BY <1>1, <1>4 DEF PlaceInv, TableInv, IssuedInv
  <1>6. CountInv
    BY <1>4, FS_EmptySet DEF CountInv
  <1> QED
    BY <1>2, <1>3, <1>5, <1>6 DEF RegistryInv

LEMMA RegistrySteps == RegistryInv /\ [RegistryNext]_registryVars => RegistryInv'
  <1> SUFFICES ASSUME RegistryInv, [RegistryNext]_registryVars PROVE RegistryInv'
    OBVIOUS
  <1>1. ASSUME NEW c \in Client, Prepare(c) PROVE RegistryInv'
    BY <1>1, PrepareKeeps
  <1>2. ASSUME NEW c \in Client, Assign(c) PROVE RegistryInv'
    BY <1>2, AssignKeeps
  <1>3. ASSUME NEW c \in Client, Abandon(c) PROVE RegistryInv'
    BY <1>3, AbandonKeeps
  <1>4. ASSUME NEW c \in Client, RemoveEntry(c) PROVE RegistryInv'
    BY <1>4, EntryKeeps
  <1>5. ASSUME NEW c \in Client, ReleaseId(c) PROVE RegistryInv'
    BY <1>5, ReleaseKeeps
  <1>6. ASSUME NEW c \in Client, NEW id \in usable, Get(c, id) PROVE RegistryInv'
    BY <1>6, GetKeeps
  <1>7. ASSUME NEW c \in Client, NEW id \in usable, BeginRemove(c, id) PROVE RegistryInv'
    BY <1>7, BeginKeeps
  <1>8. CASE UNCHANGED registryVars
    <2> USE <1>8 DEF registryVars, RegistryInv
    <2>1. TaskInv'
      BY DEF TaskInv, TaskSays, Working, EpochAt
    <2>2. Live' = Live /\ Freed' = Freed /\ \A c \in Client : Working(c)' <=> Working(c)
      BY DEF Live, Freed, Working
    <2> QED
      BY <2>1, <2>2 DEF RegistryType, PlaceInv, TableInv, IssuedInv, CountInv, EpochAt
  <1> QED
    BY <1>1, <1>2, <1>3, <1>4, <1>5, <1>6, <1>7, <1>8 DEF RegistryNext

(* Where every id is, what the table has of it, and that it is the last    *)
(* one issued of its index (identity.rs, registry.rs, storage.rs).         *)
THEOREM RegistryKept == RegistrySpec => []RegistryInv
  BY RegistryBegins, RegistrySteps, PTL DEF RegistrySpec

(* Ids are fresh, those in use have distinct indices, and no check on an   *)
(* epoch of the table ever fails (IdentityValues::alloc, Registry::remove).*)
THEOREM FreshIds == RegistrySpec => []IdsSound
  <1>1. RegistryInv => IdsSound
    <2> SUFFICES ASSUME RegistryInv PROVE IdsSound
      OBVIOUS
    <2> USE DEF RegistryInv
    <2>1. \A a, b \in Live : a.index = b.index => a = b
      BY LiveIs DEF PlaceInv
    <2>2. Live \ Freed = Live
      BY DEF PlaceInv, Freed
    <2> QED
      BY <2>1, <2>2 DEF IdsSound, IssuedInv, CountInv, TableInv
  <1> QED
    BY <1>1, RegistryKept, PTL

--------------------------------------------------------------------------------
(* The staging belt *)

BeltBuffers == [size : Nat \ {0}, offset : Nat, state : {"mapped", "unmapped", "pending"}]
BeltWrites == [chunk : Nat \ {0}, start : Nat, size : Nat \ {0},
               stage : {"recorded", "submitted", "done"}]

BeltType ==
    /\ chunks \in Seq(BeltBuffers)
    /\ writes \in Seq(BeltWrites) /\ \A k \in DOMAIN writes : writes[k].chunk \in DOMAIN chunks
    /\ content \in Seq(Seq(Nat)) /\ Len(content) = Len(chunks)
    /\ \A c \in DOMAIN chunks : Len(content[c]) = chunks[c].size
    /\ activeChunks \in Seq(DOMAIN chunks) /\ closedChunks \in Seq(DOMAIN chunks)
    /\ freeChunks \in Seq(DOMAIN chunks) /\ channel \in Seq(DOMAIN chunks)

(* The state of a chunk's buffer tells where the chunk is, but for those   *)
(* that are mapped: these are active, or wait once, and never both.        *)
ListsInv ==
    /\ \A i \in DOMAIN activeChunks : chunks[activeChunks[i]].state = "mapped"
    /\ \A i \in DOMAIN closedChunks : chunks[closedChunks[i]].state = "unmapped"
    /\ \A i \in DOMAIN Received : /\ chunks[Received[i]].state = "mapped"
                                  /\ ~Contains(activeChunks, Received[i])
                                  /\ \A j \in DOMAIN Received : Received[j] = Received[i] => i = j

(* A recorded write is before its chunk's offset, and its chunk active or  *)
(* closed; that of a submitted one is not mapped.                          *)
BytesInv ==
    \A k \in DOMAIN writes :
       LET w == writes[k]
       IN w.stage # "done" =>
             /\ w.start % MapAlignment = 0 /\ w.start + w.size <= chunks[w.chunk].size
             /\ \A u \in Units(w.start, w.size) : content[w.chunk][u] = k
             /\ w.stage = "recorded" =>
                   /\ Contains(activeChunks, w.chunk) \/ Contains(closedChunks, w.chunk)
                   /\ w.start + w.size <= chunks[w.chunk].offset
             /\ w.stage = "submitted" => chunks[w.chunk].state # "mapped"

BeltInv == BeltType /\ ListsInv /\ BytesInv

(* Alignment *)
LEMMA Aligned ==
    ASSUME NEW v \in Nat, NEW a \in Nat \ {0}, a % 2 = 0
    PROVE  AlignTo(v, a) \in Nat /\ AlignTo(v, a) >= v /\ AlignTo(v, a) % 2 = 0
  <1>1. PICK q \in Nat : q = (v + a - 1) \div a
    OBVIOUS
  <1>2. PICK h \in Nat : a = 2 * h
    <2>1. a = 2 * (a \div 2) /\ a \div 2 \in Nat
      OBVIOUS
    <2> QED
      BY <2>1
  <1>3. AlignTo(v, a) = q * a
    BY <1>1 DEF AlignTo
  <1>4. q * a \in Nat /\ q * a >= v
    <2>1. q * a + a > v + a - 1
      BY <1>1
    <2> QED
      BY <2>1
  <1>5. q * a = 2 * (q * h)
    BY <1>2
  <1>6. q * h \in Nat
    OBVIOUS
  <1>7. (2 * (q * h)) % 2 = 0
    <2>1. \A m \in Nat : (2 * m) % 2 = 0
      OBVIOUS
    <2> QED
      BY <1>6, <2>1
  <1> QED
    BY <1>3, <1>4, <1>5, <1>7

LEMMA RoundedUp ==
    ASSUME NEW asked \in Alignments, NEW a, a = Larger(asked, MapAlignment)
    PROVE  a \in Nat \ {0} /\ a % 2 = 0
  BY StagingBeltAssumption DEF Larger, MapAlignment

Once(list) == \A j, k \in DOMAIN list : list[j] = list[k] => j = k

(* swap_remove takes away one of the list, and nothing else. *)
LEMMA Swapped ==
    ASSUME NEW S, NEW list \in Seq(S), NEW i \in DOMAIN list, NEW rest,
           rest = SwapRemove(list, i)
    PROVE  /\ rest \in Seq(S)
           /\ \A j \in DOMAIN rest : \E k \in DOMAIN list : k # i /\ rest[j] = list[k]
           /\ \A k \in DOMAIN list : k # i => \E j \in DOMAIN rest : rest[j] = list[k]
           /\ Once(list) => Once(rest)
  <1>1. PICK n \in Nat : n = Len(list)
    OBVIOUS
  <1>2. PICK other : other = [list EXCEPT ![i] = list[n]]
    OBVIOUS
  <1>3. n \in 1..n /\ i \in 1..n /\ DOMAIN list = 1..n
    BY <1>1
  <1>4. other \in Seq(S) /\ Len(other) = n
    BY <1>1, <1>2, <1>3
  <1>5. rest = SubSeq(other, 1, n - 1)
    BY <1>1, <1>2, <1>4 DEF SwapRemove, Front, Last
  <1>6. /\ rest \in Seq(S) /\ DOMAIN rest = 1..(n - 1)
        /\ \A j \in 1..(n - 1) : rest[j] = IF j = i THEN list[n] ELSE list[j]
    <2>1. /\ rest \in Seq(S) /\ Len(rest) = n - 1
          /\ \A j \in 1..(n - 1) : rest[j] = other[j]
      BY <1>3, <1>4, <1>5
    <2> QED
      BY <1>2, <1>3, <2>1
  <1>7. \A j \in DOMAIN rest : \E k \in DOMAIN list : k # i /\ rest[j] = list[k]
    BY <1>3, <1>6
  <1>8. \A k \in DOMAIN list : k # i => \E j \in DOMAIN rest : rest[j] = list[k]
    <2> SUFFICES ASSUME NEW k \in DOMAIN list, k # i PROVE \E j \in DOMAIN rest : rest[j] = list[k]
      OBVIOUS
    <2>1. CASE k = n
      BY <1>3, <1>6, <2>1
    <2>2. CASE k # n
      BY <1>3, <1>6, <2>2
    <2> QED
      BY <2>1, <2>2
  <1>9. Once(list) => Once(rest)
    <2> SUFFICES ASSUME \A j, k \in DOMAIN list : list[j] = list[k] => j = k,
                        NEW j \in DOMAIN rest, NEW k \in DOMAIN rest, rest[j] = rest[k]
                 PROVE  j = k
      BY DEF Once
    <2> QED
      BY <1>3, <1>6
  <1> QED
    BY <1>6, <1>7, <1>8, <1>9

(* The chunks that came back, and what they are once they are empty. *)
LEMMA ReceivedIs ==
    ASSUME BeltType
    PROVE  /\ Received \in Seq(DOMAIN chunks)
           /\ \A i \in DOMAIN channel : \E j \in DOMAIN Received : Received[j] = channel[i]
           /\ \A i \in DOMAIN freeChunks : \E j \in DOMAIN Received : Received[j] = freeChunks[i]
  <1>1. /\ freeChunks \in Seq(DOMAIN chunks) /\ channel \in Seq(DOMAIN chunks)
    BY DEF BeltType
  <1>2. PICK m \in Nat, n \in Nat : m = Len(freeChunks) /\ n = Len(channel)
    BY <1>1
  <1>3. /\ Received \in Seq(DOMAIN chunks) /\ Len(Received) = m + n
        /\ \A j \in 1..(m + n) : Received[j] = IF j <= m THEN freeChunks[j] ELSE channel[j - m]
    <2> DEFINE T == DOMAIN chunks
    <2>1. freeChunks \in Seq(T) /\ channel \in Seq(T)
      BY <1>1
    <2> HIDE DEF T
    <2>2. /\ freeChunks \o channel \in Seq(T) /\ Len(freeChunks \o channel) = m + n
          /\ \A j \in 1..(m + n) :
                (freeChunks \o channel)[j] = IF j <= m THEN freeChunks[j] ELSE channel[j - m]
      BY <1>2, <2>1
    <2> QED
      BY <2>2 DEF Received, T
  <1>4. DOMAIN channel = 1..n /\ DOMAIN freeChunks = 1..m /\ DOMAIN Received = 1..(m + n)
    BY <1>1, <1>2, <1>3
  <1>5. \A i \in 1..n : Received[m + i] = channel[i]
    <2> SUFFICES ASSUME NEW i \in 1..n PROVE Received[m + i] = channel[i]
      OBVIOUS
    <2>1. m + i \in 1..(m + n) /\ ~(m + i <= m) /\ (m + i) - m = i
      OBVIOUS
    <2> QED
      BY <1>3, <2>1
  <1>6. \A i \in 1..m : Received[i] = freeChunks[i]
    BY <1>3
  <1>7. \A i \in 1..n : m + i \in 1..(m + n)
    OBVIOUS
  <1>8. \A i \in 1..m : i \in 1..(m + n)
    OBVIOUS
  <1> QED
    BY <1>3, <1>4, <1>5, <1>6, <1>7, <1>8

LEMMA EmptiedIs ==
    ASSUME BeltType, NEW made, made = Emptied(chunks)
    PROVE  /\ made \in Seq(BeltBuffers) /\ Len(made) = Len(chunks)
           /\ \A c \in DOMAIN chunks :
                 /\ made[c].size = chunks[c].size /\ made[c].state = chunks[c].state
                 /\ \/ made[c].offset = chunks[c].offset
                    \/ made[c].offset = 0 /\ \E i \in DOMAIN channel : channel[i] = c
  <1>1. /\ chunks \in Seq(BeltBuffers) /\ channel \in Seq(DOMAIN chunks)
        /\ \A c \in DOMAIN chunks : chunks[c] \in BeltBuffers
    BY DEF BeltType
  <1>2. made = [c \in DOMAIN chunks |->
                  IF Contains(channel, c) THEN [chunks[c] EXCEPT !.offset = 0] ELSE chunks[c]]
    BY DEF Emptied
  <1>3. \A c \in DOMAIN chunks :
           /\ made[c] \in BeltBuffers
           /\ made[c].size = chunks[c].size /\ made[c].state = chunks[c].state
           /\ \/ made[c].offset = chunks[c].offset
              \/ made[c].offset = 0 /\ Contains(channel, c)
    <2> SUFFICES ASSUME NEW c \in DOMAIN chunks
                 PROVE  /\ made[c] \in BeltBuffers
                        /\ made[c].size = chunks[c].size /\ made[c].state = chunks[c].state
                        /\ \/ made[c].offset = chunks[c].offset
                           \/ made[c].offset = 0 /\ Contains(channel, c)
      OBVIOUS
    <2>1. CASE Contains(channel, c)
      <3>1. PICK x \in BeltBuffers : x = chunks[c]
        BY <1>1
      <3>2. made[c] = [x EXCEPT !.offset = 0]
        BY <1>2, <2>1, <3>1
      <3>3. made[c] \in BeltBuffers /\ made[c].size = x.size /\ made[c].state = x.state
            /\ made[c].offset = 0
        BY <3>2 DEF BeltBuffers
      <3> QED
        BY <2>1, <3>1, <3>3
    <2>2. CASE ~Contains(channel, c)
      <3>1. made[c] = chunks[c]
        BY <1>2, <2>2
      <3> QED
        BY <1>1, <3>1
    <2> QED
      BY <2>1, <2>2
  <1>4. DOMAIN chunks = 1..Len(chunks) /\ Len(chunks) \in Nat
    BY <1>1
  <1>5. made \in Seq(BeltBuffers) /\ Len(made) = Len(chunks)
    <2>1. DOMAIN made = 1..Len(chunks) /\ made = [c \in 1..Len(chunks) |-> made[c]]
      BY <1>2, <1>4
    <2> QED
      BY <1>3, <1>4, <2>1
  <1>6. \A c : Contains(channel, c) => \E i \in DOMAIN channel : channel[i] = c
    BY <1>1 DEF Contains
  <1> QED
    BY <1>3, <1>5, <1>6

LEMMA BeltFields ==
    /\ \A x \in BeltBuffers : x.size \in Nat \ {0} /\ x.offset \in Nat /\ x.state \in {"mapped", "unmapped", "pending"}
    /\ \A w \in BeltWrites : /\ w.chunk \in Nat \ {0} /\ w.start \in Nat /\ w.size \in Nat \ {0}
                             /\ w.stage \in {"recorded", "submitted", "done"}
  BY DEF BeltBuffers, BeltWrites

LEMMA BeltTypes ==
    ASSUME BeltType
    PROVE  /\ DOMAIN chunks = 1..Len(chunks) /\ Len(chunks) \in Nat /\ DOMAIN content = DOMAIN chunks
           /\ \A c \in DOMAIN chunks : /\ chunks[c] \in BeltBuffers /\ content[c] \in Seq(Nat)
                                       /\ Len(content[c]) = chunks[c].size
           /\ DOMAIN writes = 1..Len(writes) /\ Len(writes) \in Nat
           /\ \A k \in DOMAIN writes : writes[k] \in BeltWrites /\ writes[k].chunk \in DOMAIN chunks
  <1>1. chunks \in Seq(BeltBuffers) /\ content \in Seq(Seq(Nat)) /\ Len(content) = Len(chunks)
    BY DEF BeltType
  <1>2. /\ DOMAIN chunks = 1..Len(chunks) /\ Len(chunks) \in Nat /\ DOMAIN content = DOMAIN chunks
        /\ \A c \in DOMAIN chunks : chunks[c] \in BeltBuffers /\ content[c] \in Seq(Nat)
    BY <1>1
  <1>3. writes \in Seq(BeltWrites)
    BY DEF BeltType
  <1>4. /\ DOMAIN writes = 1..Len(writes) /\ Len(writes) \in Nat
        /\ \A k \in DOMAIN writes : writes[k] \in BeltWrites
    BY <1>3
  <1>5. /\ \A c \in DOMAIN chunks : Len(content[c]) = chunks[c].size
        /\ \A k \in DOMAIN writes : writes[k].chunk \in DOMAIN chunks
    BY DEF BeltType
  <1> QED
    BY <1>2, <1>4, <1>5

(* A write is placed after what its chunk holds. *)
LEMMA Placed ==
    ASSUME BeltType, BytesInv,
           NEW made \in Seq(BeltBuffers), NEW c \in DOMAIN made,
           NEW size \in BeltSizes, NEW alignment \in Nat \ {0}, alignment % 2 = 0,
           \/ c \in DOMAIN chunks /\ Len(made) = Len(chunks)
           \/ c = Len(chunks) + 1 /\ Len(made) = Len(chunks) + 1,
           \A d \in DOMAIN chunks : made[d].size = chunks[d].size /\ made[d].state = chunks[d].state,
           \A k \in DOMAIN writes : writes[k].stage = "recorded" =>
               made[writes[k].chunk].offset = chunks[writes[k].chunk].offset,
           made[c].state = "mapped",
           CanAllocate(made[c], size, alignment), Place(c, made, size, alignment),
           activeChunks' \in Seq(DOMAIN made), freeChunks' \in Seq(DOMAIN made),
           channel' \in Seq(DOMAIN made), closedChunks' = closedChunks,
           Contains(activeChunks, c)' /\ \A d : Contains(activeChunks, d) => Contains(activeChunks, d)'
    PROVE  /\ BeltType' /\ BytesInv'
           /\ Len(chunks') = Len(made) /\ \A d \in DOMAIN made : chunks'[d].state = made[d].state
  <1>0. /\ size \in Nat \ {0} /\ made[c] \in BeltBuffers /\ made[c].offset \in Nat /\ made[c].size \in Nat
        /\ \A d \in DOMAIN made : made[d] \in BeltBuffers
    <2>1. \A d \in DOMAIN made : made[d] \in BeltBuffers
      OBVIOUS
    <2>2. size \in Nat \ {0}
      BY StagingBeltAssumption
    <2> QED
      BY <2>1, <2>2, BeltFields
  <1>1. PICK start \in Nat : /\ start = AlignTo(made[c].offset, alignment)
                             /\ start >= made[c].offset /\ start % 2 = 0
    BY <1>0, Aligned
  <1>2. PICK n \in Nat \ {0} : n = Len(writes) + 1
    BY DEF BeltType
  <1>3. start + size <= made[c].size
    BY <1>1 DEF CanAllocate
  <1>4. PICK e : e = start + size
    OBVIOUS
  <1>5. /\ chunks' = [made EXCEPT ![c].offset = e]
        /\ writes' = Append(writes, [chunk |-> c, start |-> start, size |-> size, stage |-> "recorded"])
    BY <1>1, <1>4 DEF Place, OffsetAfter
  <1>6. /\ chunks' \in Seq(BeltBuffers) /\ Len(chunks') = Len(made)
        /\ \A d \in DOMAIN made : chunks'[d].size = made[d].size /\ chunks'[d].state = made[d].state
        /\ chunks'[c].offset = e
        /\ \A d \in DOMAIN made : d # c => chunks'[d] = made[d]
    <2>1. PICK x \in BeltBuffers : x = made[c]
      BY <1>0
    <2>2. PICK y : y = [x EXCEPT !.offset = e]
      OBVIOUS
    <2>3. y \in BeltBuffers /\ y.size = x.size /\ y.state = x.state /\ y.offset = e
      <3>1. e \in Nat
        BY <1>0, <1>1, <1>4
      <3> QED
        BY <2>2, <3>1 DEF BeltBuffers
    <2>4. chunks' = [made EXCEPT ![c] = y]
      BY <1>5, <2>1, <2>2
    <2> QED
      BY <2>1, <2>3, <2>4
  <1>7. PICK old : old = IF c \in DOMAIN content THEN content[c] ELSE [u \in 1..made[c].size |-> 0]
    OBVIOUS
  <1>8. PICK new : new = [u \in DOMAIN old |-> IF u \in Units(start, size) THEN n ELSE old[u]]
    OBVIOUS
  <1>9. content' = IF c \in DOMAIN content THEN [content EXCEPT ![c] = new] ELSE Append(content, new)
    BY <1>1, <1>2, <1>7, <1>8 DEF Place
  <1>10. /\ content \in Seq(Seq(Nat)) /\ Len(content) = Len(chunks) /\ DOMAIN content = DOMAIN chunks
         /\ \A d \in DOMAIN content : content[d] \in Seq(Nat) /\ Len(content[d]) = chunks[d].size
         /\ DOMAIN chunks = 1..Len(chunks) /\ Len(chunks) \in Nat
    <2>1. content \in Seq(Seq(Nat)) /\ Len(content) = Len(chunks)
      BY DEF BeltType
    <2> QED
      BY <2>1, BeltTypes
  <1>11. old \in Seq(Nat) /\ Len(old) = made[c].size /\ DOMAIN old = 1..made[c].size
    <2>1. CASE c \in DOMAIN content
      <3>1. old = content[c] /\ chunks[c].size = made[c].size
        BY <1>7, <1>10, <2>1
      <3> QED
        BY <1>0, <1>10, <2>1, <3>1
    <2>2. CASE c \notin DOMAIN content
      BY <1>0, <1>7, <2>2
    <2> QED
      BY <2>1, <2>2
  <1>12. /\ new \in Seq(Nat) /\ Len(new) = made[c].size
         /\ \A u \in 1..made[c].size : new[u] = IF u \in Units(start, size) THEN n ELSE old[u]
    <2>1. DOMAIN new = 1..made[c].size
      BY <1>8, <1>11
    <2>2. \A u \in 1..made[c].size : old[u] \in Nat
      BY <1>11
    <2>3. \A u \in 1..made[c].size : new[u] = IF u \in Units(start, size) THEN n ELSE old[u]
      BY <1>8, <1>11
    <2>4. \A u \in 1..made[c].size : new[u] \in Nat
      BY <1>2, <2>2, <2>3
    <2>5. new = [u \in 1..made[c].size |-> new[u]]
      BY <1>8, <1>11
    <2>6. PICK m \in Nat : m = made[c].size
      BY <1>0
    <2>7. new \in [1..m -> Nat] /\ DOMAIN new = 1..m
      BY <2>1, <2>4, <2>5, <2>6
    <2>8. new \in Seq(Nat) /\ Len(new) = m
      BY <2>7
    <2> QED
      BY <2>3, <2>6, <2>8
  <1>13. /\ content' \in Seq(Seq(Nat)) /\ Len(content') = Len(made)
         /\ content'[c] = new
         /\ \A d \in DOMAIN content : d # c => content'[d] = content[d]
    <2>1. CASE c \in DOMAIN content
      BY <1>9, <1>10, <1>12, <2>1
    <2>2. CASE c \notin DOMAIN content
      <3>1. c = Len(content) + 1 /\ Len(made) = c
        BY <1>10, <2>2
      <3>2. content' = Append(content, new)
        BY <1>9, <2>2
      <3> QED
        BY <1>10, <1>12, <3>1, <3>2
    <2> QED
      BY <2>1, <2>2
  <1>14. \A d \in DOMAIN made : d = c \/ d \in DOMAIN chunks
    BY <1>10
  <1>15. \A d \in DOMAIN made : Len(content'[d]) = chunks'[d].size
    <2>1. Len(content'[c]) = chunks'[c].size
      BY <1>6, <1>12, <1>13
    <2>2. \A d \in DOMAIN chunks : d # c => Len(content'[d]) = made[d].size
      BY <1>10, <1>13
    <2> QED
      BY <1>6, <1>14, <2>1, <2>2
  <1>16. DOMAIN chunks \subseteq DOMAIN made /\ DOMAIN chunks' = DOMAIN made
    BY <1>6, <1>10
  <1>17. /\ writes' \in Seq(BeltWrites) /\ DOMAIN writes' = DOMAIN writes \cup {n}
         /\ \A k \in DOMAIN writes : k # n /\ writes'[k] = writes[k]
         /\ writes'[n] = [chunk |-> c, start |-> start, size |-> size, stage |-> "recorded"]
    <2>1. PICK w : w = [chunk |-> c, start |-> start, size |-> size, stage |-> "recorded"]
      OBVIOUS
    <2>2. w \in BeltWrites
      BY <1>0, <2>1 DEF BeltWrites
    <2>3. writes \in Seq(BeltWrites) /\ writes' = Append(writes, w)
      BY <1>5, <2>1 DEF BeltType
    <2> QED
      BY <1>2, <2>1, <2>2, <2>3
  <1>18. BeltType'
    <2>1. \A k \in DOMAIN writes' : writes'[k].chunk \in DOMAIN chunks'
      <3>1. \A k \in DOMAIN writes : writes[k].chunk \in DOMAIN made
        BY <1>16, BeltTypes
      <3> QED
        BY <1>16, <1>17, <3>1
    <2>2. closedChunks \in Seq(DOMAIN made)
      <3>1. closedChunks \in Seq(DOMAIN chunks)
        BY DEF BeltType
      <3> QED
        BY <1>16, <3>1
    <2> QED
      BY <1>6, <1>13, <1>15, <1>16, <1>17, <2>1, <2>2 DEF BeltType
  <1>19. BytesInv'
    <2> SUFFICES ASSUME NEW k \in DOMAIN writes', writes'[k].stage # "done"
                 PROVE  /\ writes'[k].start % MapAlignment = 0
                        /\ writes'[k].start + writes'[k].size <= chunks'[writes'[k].chunk].size
                        /\ \A u \in Units(writes'[k].start, writes'[k].size) : content'[writes'[k].chunk][u] = k
                        /\ writes'[k].stage = "recorded" =>
                              /\ \/ Contains(activeChunks', writes'[k].chunk)
                                 \/ Contains(closedChunks', writes'[k].chunk)
                              /\ writes'[k].start + writes'[k].size <= chunks'[writes'[k].chunk].offset
                        /\ writes'[k].stage = "submitted" => chunks'[writes'[k].chunk].state # "mapped"
      BY DEF BytesInv
    <2>1. CASE k = n
      <3>1. \A u \in Units(start, size) : u \in 1..made[c].size
        BY <1>0, <1>3 DEF Units
      <3>2. /\ writes'[k].chunk = c /\ writes'[k].start = start /\ writes'[k].size = size
            /\ writes'[k].stage = "recorded"
        BY <1>17, <2>1
      <3>3. \A u \in Units(start, size) : content'[c][u] = k
        BY <1>12, <1>13, <2>1, <3>1
      <3>4. Contains(activeChunks, c)'
        OBVIOUS
      <3>5. start % MapAlignment = 0
        BY <1>1 DEF MapAlignment
      <3> QED
        BY <1>3, <1>4, <1>6, <3>2, <3>3, <3>4, <3>5
    <2>2. CASE k \in DOMAIN writes
      <3>1. PICK w \in BeltWrites : w = writes[k] /\ w = writes'[k]
        BY <1>17, <2>2 DEF BeltType
      <3>2. PICK d \in DOMAIN chunks : d = w.chunk
        BY <2>2, <3>1 DEF BeltType
      <3>3. /\ w.start % MapAlignment = 0 /\ w.start + w.size <= chunks[d].size
            /\ \A u \in Units(w.start, w.size) : content[d][u] = k
            /\ w.stage = "recorded" =>
                  /\ Contains(activeChunks, d) \/ Contains(closedChunks, d)
                  /\ w.start + w.size <= chunks[d].offset /\ made[d].offset = chunks[d].offset
            /\ w.stage = "submitted" => chunks[d].state # "mapped"
        <4>1. writes[k].stage # "done" /\ writes[k].chunk = d
          BY <3>1, <3>2
        <4> QED
          BY <2>2, <3>1, <4>1 DEF BytesInv
      <3>4. /\ w.start \in Nat /\ w.size \in Nat \ {0} /\ w.stage \in {"recorded", "submitted"}
            /\ chunks[d].offset \in Nat /\ chunks[d].size \in Nat
        BY <3>1, <3>2, BeltFields, BeltTypes
      <3>5. chunks'[d].size = chunks[d].size /\ chunks'[d].state = chunks[d].state
        BY <1>6, <1>16, <3>2
      <3>6. d = c /\ w.stage = "recorded" => w.start + w.size <= start
        <4> SUFFICES ASSUME d = c, w.stage = "recorded" PROVE w.start + w.size <= start
          OBVIOUS
        <4>1. PICK o \in Nat : o = made[c].offset
          BY <1>0
        <4>2. PICK x \in Nat : x = w.start + w.size
          BY <3>4
        <4>3. x <= o
          BY <3>3, <4>1, <4>2
        <4>4. o <= start
          BY <1>1, <4>1
        <4> QED
          BY <4>2, <4>3, <4>4
      <3>7. w.stage = "recorded" => w.start + w.size <= chunks'[d].offset
        <4>1. CASE d = c
          BY <1>0, <1>4, <1>6, <3>4, <3>6, <4>1
        <4>2. CASE d # c
          BY <1>6, <1>16, <3>3, <4>2
        <4> QED
          BY <4>1, <4>2
      <3>8. \A u \in Units(w.start, w.size) : content'[d][u] = k
        <4>1. CASE d # c
          BY <1>10, <1>13, <3>3, <4>1
        <4>2. CASE d = c
          <5>1. w.stage = "recorded"
            BY <3>2, <3>3, <3>4, <4>2
          <5>2. w.start + w.size <= start
            BY <3>6, <4>2, <5>1
          <5>3. \A u \in Units(w.start, w.size) : u \notin Units(start, size) /\ u \in 1..made[c].size
            <6>1. PICK m \in Nat : m = made[c].size
              BY <1>0
            <6>2. PICK ws \in Nat, wn \in Nat \ {0} : ws = w.start /\ wn = w.size
              BY <3>4
            <6>3. ws + wn <= start /\ start + size <= m /\ size \in Nat \ {0}
              BY <1>0, <1>3, <5>2, <6>1, <6>2
            <6>4. \A u \in Units(ws, wn) : u \notin Units(start, size) /\ u \in 1..m
              BY <6>3 DEF Units
            <6> QED
              BY <6>1, <6>2, <6>4
          <5>4. old = content[c]
            BY <1>7, <1>10, <4>2
          <5> QED
            BY <1>12, <1>13, <3>3, <4>2, <5>3, <5>4
        <4> QED
          BY <4>1, <4>2
      <3>9. w.stage = "recorded" => Contains(activeChunks, d)' \/ Contains(closedChunks', d)
        BY <3>3
      <3> QED
        BY <3>1, <3>2, <3>3, <3>5, <3>7, <3>8, <3>9
    <2> QED
      BY <1>17, <2>1, <2>2
  <1> QED
    BY <1>6, <1>18, <1>19


LEMMA WiderSeq ==
    ASSUME NEW S, NEW T, S \subseteq T, NEW list \in Seq(S)
    PROVE  list \in Seq(T)
  OBVIOUS

(* Iterator::position finds the first. *)
LEMMA FirstFound ==
    ASSUME NEW indices, indices \subseteq Nat, indices # {}
    PROVE  FirstOf(indices) \in indices
  <1>1. PICK i \in indices : \A j \in indices : ~(<<j, i>> \in OpToRel(<, Nat))
    BY WFMin, NatLessThanWellFounded
  <1>2. \A j \in indices : ~(j < i)
    BY <1>1 DEF OpToRel
  <1>3. \E k \in indices : \A j \in indices : k <= j
    BY <1>2
  <1> QED
    BY <1>3 DEF FirstOf

LEMMA FittingFound ==
    ASSUME NEW S, NEW list \in Seq(S), NEW made, NEW size, NEW alignment,
           Fitting(list, made, size, alignment) # {}
    PROVE  /\ FirstOf(Fitting(list, made, size, alignment)) \in DOMAIN list
           /\ CanAllocate(made[list[FirstOf(Fitting(list, made, size, alignment))]], size, alignment)
  <1> DEFINE F == Fitting(list, made, size, alignment)
  <1>1. F \subseteq Nat
    BY DEF Fitting
  <1>2. FirstOf(F) \in F
    BY <1>1, FirstFound
  <1> QED
    BY <1>2 DEF Fitting

LEMMA ContainsIs ==
    ASSUME NEW S, NEW list \in Seq(S), NEW d
    PROVE  Contains(list, d) <=> \E i \in DOMAIN list : list[i] = d
  BY DEF Contains

LEMMA WhereIs ==
    ASSUME BeltType, ListsInv
    PROVE  /\ \A i \in DOMAIN activeChunks : /\ activeChunks[i] \in DOMAIN chunks
                                             /\ chunks[activeChunks[i]].state = "mapped"
           /\ \A i \in DOMAIN closedChunks : /\ closedChunks[i] \in DOMAIN chunks
                                             /\ chunks[closedChunks[i]].state = "unmapped"
           /\ \A i \in DOMAIN Received : Received[i] \in DOMAIN chunks
           /\ \A d : Contains(activeChunks, d) => d \in DOMAIN chunks /\ chunks[d].state = "mapped"
           /\ \A d : Contains(closedChunks, d) => d \in DOMAIN chunks /\ chunks[d].state = "unmapped"
  <1>1. /\ activeChunks \in Seq(DOMAIN chunks) /\ closedChunks \in Seq(DOMAIN chunks)
    BY DEF BeltType
  <1>2. /\ \A i \in DOMAIN activeChunks : activeChunks[i] \in DOMAIN chunks
        /\ \A i \in DOMAIN closedChunks : closedChunks[i] \in DOMAIN chunks
    BY <1>1
  <1>3. /\ \A i \in DOMAIN activeChunks : chunks[activeChunks[i]].state = "mapped"
        /\ \A i \in DOMAIN closedChunks : chunks[closedChunks[i]].state = "unmapped"
    BY DEF ListsInv
  <1>4. \A i \in DOMAIN Received : Received[i] \in DOMAIN chunks
    BY ReceivedIs
  <1>5. \A d : Contains(activeChunks, d) => d \in DOMAIN chunks /\ chunks[d].state = "mapped"
    BY <1>1, <1>2, <1>3, ContainsIs
  <1>6. \A d : Contains(closedChunks, d) => d \in DOMAIN chunks /\ chunks[d].state = "unmapped"
    BY <1>1, <1>2, <1>3, ContainsIs
  <1> QED
    BY <1>2, <1>3, <1>4, <1>5, <1>6

(* A chunk that is written to does not wait to be written again. *)
LEMMA EmptiedKeeps ==
    ASSUME BeltInv, NEW k \in DOMAIN writes, writes[k].stage = "recorded"
    PROVE  Emptied(chunks)[writes[k].chunk].offset = chunks[writes[k].chunk].offset
  <1> USE DEF BeltInv
  <1>1. PICK d \in DOMAIN chunks : d = writes[k].chunk
    BY BeltTypes
  <1>2. Contains(activeChunks, d) \/ Contains(closedChunks, d)
    BY <1>1 DEF BytesInv
  <1>3. \A j \in DOMAIN Received : Received[j] # d
    <2>2. Contains(closedChunks, d) => chunks[d].state = "unmapped"
      BY WhereIs
    <2>3. \A j \in DOMAIN Received : Received[j] = d => chunks[d].state = "mapped" /\ ~Contains(activeChunks, d)
      BY DEF ListsInv
    <2> QED
      BY <1>2, <2>2, <2>3
  <1>4. ~\E i \in DOMAIN channel : channel[i] = d
    BY <1>3, ReceivedIs
  <1>5. PICK made : made = Emptied(chunks)
    OBVIOUS
  <1>6. made[d].offset = chunks[d].offset
    BY <1>4, <1>5, EmptiedIs
  <1> QED
    BY <1>1, <1>5, <1>6

LEMMA AppendHas ==
    ASSUME NEW S, NEW list \in Seq(S), NEW c \in S
    PROVE  /\ Append(list, c) \in Seq(S)
           /\ \A d : Contains(Append(list, c), d) <=> Contains(list, d) \/ d = c
  <1>1. PICK n \in Nat : n = Len(list)
    OBVIOUS
  <1>2. /\ Append(list, c) \in Seq(S) /\ Len(Append(list, c)) = n + 1
        /\ Append(list, c)[n + 1] = c
        /\ \A i \in 1..n : Append(list, c)[i] = list[i]
    BY <1>1
  <1>3. \A i \in 1..(n + 1) : i \in 1..n \/ i = n + 1
    BY <1>1
  <1>4. n + 1 \in 1..(n + 1) /\ \A i \in 1..n : i \in 1..(n + 1)
    BY <1>1
  <1> QED
    BY <1>1, <1>2, <1>3, <1>4 DEF Contains

(* allocate, from an active chunk, *)
LEMMA AllocateActiveKeeps ==
    ASSUME BeltInv, NEW size \in BeltSizes, NEW alignment \in Nat \ {0}, alignment % 2 = 0,
           AllocateActive(size, alignment)
    PROVE  BeltInv'
  <1> USE DEF BeltInv
  <1>1. chunks \in Seq(BeltBuffers) /\ activeChunks \in Seq(DOMAIN chunks)
        /\ freeChunks \in Seq(DOMAIN chunks) /\ channel \in Seq(DOMAIN chunks)
    BY DEF BeltType
  <1>2. PICK i : i = FirstOf(Fitting(activeChunks, chunks, size, alignment))
    OBVIOUS
  <1>3. i \in DOMAIN activeChunks /\ CanAllocate(chunks[activeChunks[i]], size, alignment)
    <2>1. Fitting(activeChunks, chunks, size, alignment) # {}
      BY DEF AllocateActive
    <2> QED
      BY <1>1, <1>2, <2>1, FittingFound
  <1>4. PICK c \in DOMAIN chunks : c = activeChunks[i]
    BY <1>1, <1>3
  <1>5. PICK rest : rest = SwapRemove(activeChunks, i)
    OBVIOUS
  <1>6. /\ Place(c, chunks, size, alignment) /\ activeChunks' = Append(rest, c)
        /\ UNCHANGED <<closedChunks, freeChunks, channel>>
    BY <1>2, <1>4, <1>5 DEF AllocateActive
  <1>7. /\ rest \in Seq(DOMAIN chunks)
        /\ \A j \in DOMAIN rest : \E k \in DOMAIN activeChunks : k # i /\ rest[j] = activeChunks[k]
        /\ \A k \in DOMAIN activeChunks : k # i => \E j \in DOMAIN rest : rest[j] = activeChunks[k]
    BY <1>1, <1>3, <1>5, Swapped
  <1>8. activeChunks' \in Seq(DOMAIN chunks)
        /\ \A d : Contains(activeChunks', d) <=> Contains(rest, d) \/ d = c
    BY <1>6, <1>7, AppendHas
  <1>9. \A d : Contains(activeChunks', d) <=> Contains(activeChunks, d)
    <2>1. \A d : Contains(rest, d) <=> \E j \in DOMAIN rest : rest[j] = d
      BY <1>7, ContainsIs
    <2>2. \A d : Contains(activeChunks, d) <=> \E j \in DOMAIN activeChunks : activeChunks[j] = d
      BY <1>1, ContainsIs
    <2> QED
      BY <1>3, <1>4, <1>7, <1>8, <2>1, <2>2
  <1>10. chunks[c].state = "mapped"
    BY <1>3, <1>4 DEF ListsInv
  <1>11. /\ BeltType' /\ BytesInv'
         /\ Len(chunks') = Len(chunks) /\ \A d \in DOMAIN chunks : chunks'[d].state = chunks[d].state
    <2>1. Contains(activeChunks, c)' /\ \A d : Contains(activeChunks, d) => Contains(activeChunks, d)'
      BY <1>8, <1>9
    <2> QED
      BY <1>1, <1>3, <1>4, <1>6, <1>8, <1>10, <2>1, Placed
  <1>12. ListsInv'
    <2>1. \A j \in DOMAIN activeChunks' : chunks'[activeChunks'[j]].state = "mapped"
      <3> SUFFICES ASSUME NEW d, \E j \in DOMAIN activeChunks' : activeChunks'[j] = d
                   PROVE  chunks'[d].state = "mapped"
        OBVIOUS
      <3>1. d \in DOMAIN chunks /\ \E j \in DOMAIN activeChunks : activeChunks[j] = d
        <4>1. Contains(activeChunks', d)
          BY <1>8, ContainsIs
        <4>2. Contains(activeChunks, d)
          BY <1>9, <4>1
        <4> QED
          BY <1>1, <4>2, ContainsIs
      <3>2. chunks[d].state = "mapped"
        BY <3>1 DEF ListsInv
      <3> QED
        BY <1>11, <3>1, <3>2
    <2>2. \A j \in DOMAIN closedChunks' : chunks'[closedChunks'[j]].state = "unmapped"
      <3>1. closedChunks' = closedChunks
        BY <1>6
      <3> QED
        BY <1>11, <3>1, WhereIs
    <2>3. Received' = Received /\ \A j \in DOMAIN Received : Received[j] \in DOMAIN chunks
      BY <1>6, ReceivedIs DEF Received
    <2> QED
      BY <1>9, <1>11, <2>1, <2>2, <2>3 DEF ListsInv
  <1> QED
    BY <1>11, <1>12


(* from a chunk that came back, *)
LEMMA AllocateFreeKeeps ==
    ASSUME BeltInv, NEW size \in BeltSizes, NEW alignment \in Nat \ {0}, alignment % 2 = 0,
           AllocateFree(size, alignment)
    PROVE  BeltInv'
  <1> USE DEF BeltInv
  <1>0. PICK made : made = Emptied(chunks)
    OBVIOUS
  <1>1. /\ chunks \in Seq(BeltBuffers) /\ activeChunks \in Seq(DOMAIN chunks)
        /\ Received \in Seq(DOMAIN chunks)
        /\ made \in Seq(BeltBuffers) /\ Len(made) = Len(chunks) /\ DOMAIN made = DOMAIN chunks
    <2>1. /\ chunks \in Seq(BeltBuffers) /\ activeChunks \in Seq(DOMAIN chunks)
      BY DEF BeltType
    <2>2. made \in Seq(BeltBuffers) /\ Len(made) = Len(chunks)
      BY <1>0, EmptiedIs
    <2> QED
      BY <2>1, <2>2, ReceivedIs
  <1>2. PICK i : i = FirstOf(Fitting(Received, made, size, alignment))
    OBVIOUS
  <1>3. i \in DOMAIN Received /\ CanAllocate(made[Received[i]], size, alignment)
    <2>1. Fitting(Received, made, size, alignment) # {}
      BY <1>0 DEF AllocateFree
    <2> QED
      BY <1>1, <1>2, <2>1, FittingFound
  <1>4. PICK c \in DOMAIN chunks : c = Received[i]
    BY <1>1, <1>3
  <1>5. PICK rest : rest = SwapRemove(Received, i)
    OBVIOUS
  <1>6. /\ Place(c, made, size, alignment) /\ activeChunks' = Append(activeChunks, c)
        /\ freeChunks' = rest /\ channel' = <<>> /\ UNCHANGED closedChunks
    BY <1>0, <1>2, <1>4, <1>5 DEF AllocateFree
  <1>7. /\ rest \in Seq(DOMAIN chunks)
        /\ \A j \in DOMAIN rest : \E k \in DOMAIN Received : k # i /\ rest[j] = Received[k]
        /\ \A j \in DOMAIN rest : \A k \in DOMAIN rest : rest[j] = rest[k] => j = k
    <2>1. PICK list \in Seq(DOMAIN chunks) : list = Received
      BY <1>1
    <2>2. Once(list)
      BY <2>1 DEF ListsInv, Once
    <2>3. i \in DOMAIN list /\ rest = SwapRemove(list, i)
      BY <1>3, <1>5, <2>1
    <2>4. /\ rest \in Seq(DOMAIN chunks)
          /\ \A j \in DOMAIN rest : \E k \in DOMAIN list : k # i /\ rest[j] = list[k]
      BY <2>3, Swapped
    <2>5. Once(rest)
      BY <2>2, <2>3, Swapped
    <2> QED
      BY <2>1, <2>4, <2>5 DEF Once
  <1>8. activeChunks' \in Seq(DOMAIN chunks)
        /\ \A d : Contains(activeChunks', d) <=> Contains(activeChunks, d) \/ d = c
    BY <1>1, <1>4, <1>6, AppendHas
  <1>9. Received' = rest
    BY <1>6, <1>7 DEF Received
  <1>10. made[c].state = "mapped" /\ \A d \in DOMAIN chunks : made[d].size = chunks[d].size /\ made[d].state = chunks[d].state
    BY <1>0, <1>3, <1>4, EmptiedIs DEF ListsInv
  <1>11. /\ BeltType' /\ BytesInv'
         /\ Len(chunks') = Len(chunks) /\ \A d \in DOMAIN chunks : chunks'[d].state = chunks[d].state
    <2>1. Contains(activeChunks, c)' /\ \A d : Contains(activeChunks, d) => Contains(activeChunks, d)'
      BY <1>8
    <2>2. \A k \in DOMAIN writes : writes[k].stage = "recorded" =>
             made[writes[k].chunk].offset = chunks[writes[k].chunk].offset
      BY <1>0, EmptiedKeeps
    <2>3. channel' \in Seq(DOMAIN made)
      BY <1>6
    <2>4. /\ BeltType' /\ BytesInv'
          /\ Len(chunks') = Len(made) /\ \A d \in DOMAIN made : chunks'[d].state = made[d].state
      BY <1>1, <1>3, <1>4, <1>6, <1>7, <1>8, <1>10, <2>1, <2>2, <2>3, Placed
    <2> QED
      BY <1>1, <1>10, <2>4
  <1>12. ListsInv'
    <2>1. \A j \in DOMAIN activeChunks' : chunks'[activeChunks'[j]].state = "mapped"
      <3> SUFFICES ASSUME NEW d, \E j \in DOMAIN activeChunks' : activeChunks'[j] = d
                   PROVE  chunks'[d].state = "mapped"
        OBVIOUS
      <3>1. Contains(activeChunks', d)
        BY <1>8, ContainsIs
      <3>2. CASE d = c
        BY <1>10, <1>11, <3>2
      <3>3. CASE Contains(activeChunks, d)
        <4>1. d \in DOMAIN chunks /\ \E j \in DOMAIN activeChunks : activeChunks[j] = d
          BY <1>1, <3>3, ContainsIs
        <4>2. chunks[d].state = "mapped"
          BY <4>1 DEF ListsInv
        <4> QED
          BY <1>11, <4>1, <4>2
      <3> QED
        BY <1>8, <3>1, <3>2, <3>3
    <2>2. \A j \in DOMAIN closedChunks' : chunks'[closedChunks'[j]].state = "unmapped"
      <3>1. closedChunks' = closedChunks
        BY <1>6
      <3> QED
        BY <1>11, <3>1, WhereIs
    <2>3. \A j \in DOMAIN rest : /\ chunks'[rest[j]].state = "mapped"
                                 /\ ~Contains(activeChunks', rest[j])
      <3> SUFFICES ASSUME NEW j \in DOMAIN rest
                   PROVE  chunks'[rest[j]].state = "mapped" /\ ~Contains(activeChunks', rest[j])
        OBVIOUS
      <3>1. PICK k \in DOMAIN Received : k # i /\ rest[j] = Received[k]
        BY <1>7
      <3>2. rest[j] \in DOMAIN chunks
        BY <1>7
      <3>3. chunks[rest[j]].state = "mapped" /\ ~Contains(activeChunks, rest[j]) /\ rest[j] # c
        BY <1>3, <1>4, <3>1 DEF ListsInv
      <3> QED
        BY <1>8, <1>11, <3>2, <3>3
    <2> QED
      BY <1>7, <1>9, <2>1, <2>2, <2>3 DEF ListsInv
  <1> QED
    BY <1>11, <1>12

(* or from a new one. *)
LEMMA AllocateNewKeeps ==
    ASSUME BeltInv, NEW size \in BeltSizes, NEW alignment \in Nat \ {0}, alignment % 2 = 0,
           AllocateNew(size, alignment)
    PROVE  BeltInv'
  <1> USE DEF BeltInv
  <1>0. PICK emptied : emptied = Emptied(chunks)
    OBVIOUS
  <1>1. /\ chunks \in Seq(BeltBuffers) /\ activeChunks \in Seq(DOMAIN chunks)
        /\ Received \in Seq(DOMAIN chunks)
        /\ emptied \in Seq(BeltBuffers) /\ Len(emptied) = Len(chunks)
    <2>1. /\ chunks \in Seq(BeltBuffers) /\ activeChunks \in Seq(DOMAIN chunks)
      BY DEF BeltType
    <2>2. emptied \in Seq(BeltBuffers) /\ Len(emptied) = Len(chunks)
      BY <1>0, EmptiedIs
    <2> QED
      BY <2>1, <2>2, ReceivedIs
  <1>2. PICK c \in Nat : c = Len(chunks) + 1
    BY <1>1
  <1>3. PICK new : new = NewChunk(size)
    OBVIOUS
  <1>4. new \in BeltBuffers /\ new.state = "mapped" /\ CanAllocate(new, size, alignment)
    <2>1. /\ size \in Nat \ {0} /\ ChunkSize \in Nat \ {0}
      BY StagingBeltAssumption
    <2>2. AlignTo(0, alignment) = 0
      <3>1. (0 + alignment - 1) \div alignment = 0
        OBVIOUS
      <3> QED
        BY <3>1 DEF AlignTo
    <2>3. /\ Larger(ChunkSize, size) \in Nat \ {0} /\ Larger(ChunkSize, size) >= size
      BY <2>1 DEF Larger
    <2> QED
      BY <1>3, <2>1, <2>2, <2>3 DEF NewChunk, BeltBuffers, CanAllocate
  <1>5. PICK made : made = Append(emptied, new)
    OBVIOUS
  <1>6. /\ made \in Seq(BeltBuffers) /\ Len(made) = c /\ DOMAIN made = 1..c /\ made[c] = new
        /\ \A d \in DOMAIN chunks : made[d] = emptied[d] /\ d \in DOMAIN made /\ d # c
    BY <1>1, <1>2, <1>4, <1>5
  <1>7. /\ Place(c, made, size, alignment) /\ activeChunks' = Append(activeChunks, c)
        /\ freeChunks' = Received /\ channel' = <<>> /\ UNCHANGED closedChunks
    BY <1>0, <1>3, <1>5, <1>6 DEF AllocateNew
  <1>8. c \in DOMAIN made /\ DOMAIN chunks \subseteq DOMAIN made
    BY <1>1, <1>2, <1>6
  <1>9. activeChunks' \in Seq(DOMAIN made)
        /\ \A d : Contains(activeChunks', d) <=> Contains(activeChunks, d) \/ d = c
    <2>1. activeChunks \in Seq(DOMAIN made)
      BY <1>1, <1>8, WiderSeq
    <2> QED
      BY <1>7, <1>8, <2>1, AppendHas
  <1>10. Received' = Received
    BY <1>1, <1>7 DEF Received
  <1>11. \A d \in DOMAIN chunks : made[d].size = chunks[d].size /\ made[d].state = chunks[d].state
    BY <1>0, <1>6, EmptiedIs
  <1>12. /\ BeltType' /\ BytesInv' /\ chunks'[c].state = "mapped"
         /\ \A d \in DOMAIN chunks : chunks'[d].state = chunks[d].state
    <2>1. Contains(activeChunks, c)' /\ \A d : Contains(activeChunks, d) => Contains(activeChunks, d)'
      BY <1>9
    <2>2. \A k \in DOMAIN writes : writes[k].stage = "recorded" =>
             made[writes[k].chunk].offset = chunks[writes[k].chunk].offset
      BY <1>0, <1>6, EmptiedKeeps, BeltTypes
    <2>3. channel' \in Seq(DOMAIN made) /\ freeChunks' \in Seq(DOMAIN made)
      <3>1. Received \in Seq(DOMAIN made)
        BY <1>1, <1>8, WiderSeq
      <3> QED
        BY <1>7, <3>1
    <2>4. /\ BeltType' /\ BytesInv'
          /\ Len(chunks') = Len(made) /\ \A d \in DOMAIN made : chunks'[d].state = made[d].state
      BY <1>1, <1>2, <1>4, <1>6, <1>7, <1>8, <1>9, <1>11, <2>1, <2>2, <2>3, Placed
    <2> QED
      BY <1>4, <1>6, <1>8, <1>11, <2>4
  <1>13. ListsInv'
    <2>1. \A j \in DOMAIN activeChunks' : chunks'[activeChunks'[j]].state = "mapped"
      <3> SUFFICES ASSUME NEW d, \E j \in DOMAIN activeChunks' : activeChunks'[j] = d
                   PROVE  chunks'[d].state = "mapped"
        OBVIOUS
      <3>1. Contains(activeChunks', d)
        BY <1>9, ContainsIs
      <3>2. CASE d = c
        BY <1>12, <3>2
      <3>3. CASE Contains(activeChunks, d)
        <4>1. d \in DOMAIN chunks /\ \E j \in DOMAIN activeChunks : activeChunks[j] = d
          BY <1>1, <3>3, ContainsIs
        <4>2. chunks[d].state = "mapped"
          BY <4>1 DEF ListsInv
        <4> QED
          BY <1>12, <4>1, <4>2
      <3> QED
        BY <1>9, <3>1, <3>2, <3>3
    <2>2. \A j \in DOMAIN closedChunks' : chunks'[closedChunks'[j]].state = "unmapped"
      <3>1. closedChunks' = closedChunks
        BY <1>7
      <3> QED
        BY <1>12, <3>1, WhereIs
    <2>3. \A j \in DOMAIN Received : Received[j] \in DOMAIN chunks /\ Received[j] # c
      BY <1>6, WhereIs
    <2>4. \A j \in DOMAIN Received : /\ chunks[Received[j]].state = "mapped"
                                     /\ ~Contains(activeChunks, Received[j])
                                     /\ \A k \in DOMAIN Received : Received[k] = Received[j] => j = k
      BY DEF ListsInv
    <2>5. \A j \in DOMAIN Received : /\ chunks'[Received[j]].state = "mapped"
                                     /\ ~Contains(activeChunks', Received[j])
      BY <1>9, <1>12, <2>3, <2>4
    <2> QED
      BY <1>10, <2>1, <2>2, <2>4, <2>5 DEF ListsInv
  <1> QED
    BY <1>12, <1>13

LEMMA WriteKeeps ==
    ASSUME BeltInv, WriteBelt
    PROVE  BeltInv'
  <1>1. PICK size \in BeltSizes, asked \in Alignments :
           \/ AllocateActive(size, Larger(asked, MapAlignment))
           \/ AllocateFree(size, Larger(asked, MapAlignment))
           \/ AllocateNew(size, Larger(asked, MapAlignment))
    BY DEF WriteBelt
  <1>2. PICK alignment : alignment = Larger(asked, MapAlignment)
    OBVIOUS
  <1>3. alignment \in Nat \ {0} /\ alignment % 2 = 0
    BY <1>2, RoundedUp
  <1> QED
    BY <1>1, <1>2, <1>3, AllocateActiveKeeps, AllocateFreeKeeps, AllocateNewKeeps


LEMMA JoinHas ==
    ASSUME NEW S, NEW list \in Seq(S), NEW more \in Seq(S)
    PROVE  /\ list \o more \in Seq(S)
           /\ \A d : Contains(list \o more, d) <=> Contains(list, d) \/ Contains(more, d)
  <1>1. PICK m \in Nat, n \in Nat : m = Len(list) /\ n = Len(more)
    OBVIOUS
  <1>2. PICK join : join = list \o more
    OBVIOUS
  <1>3. /\ join \in Seq(S) /\ Len(join) = m + n
        /\ \A j \in 1..(m + n) : join[j] = IF j <= m THEN list[j] ELSE more[j - m]
    BY <1>1, <1>2
  <1>4. \A i \in 1..m : i \in 1..(m + n) /\ join[i] = list[i]
    BY <1>3
  <1>5. \A i \in 1..n : m + i \in 1..(m + n) /\ join[m + i] = more[i]
    <2> SUFFICES ASSUME NEW i \in 1..n PROVE m + i \in 1..(m + n) /\ join[m + i] = more[i]
      OBVIOUS
    <2>1. m + i \in 1..(m + n) /\ ~(m + i <= m) /\ (m + i) - m = i
      OBVIOUS
    <2> QED
      BY <1>3, <2>1
  <1>6. \A j \in 1..(m + n) :
           (j \in 1..m /\ join[j] = list[j]) \/ (j - m \in 1..n /\ join[j] = more[j - m])
    <2> SUFFICES ASSUME NEW j \in 1..(m + n)
                 PROVE  (j \in 1..m /\ join[j] = list[j]) \/ (j - m \in 1..n /\ join[j] = more[j - m])
      OBVIOUS
    <2>1. CASE j <= m
      BY <1>3, <2>1
    <2>2. CASE ~(j <= m)
      BY <1>3, <2>2
    <2> QED
      BY <2>1, <2>2
  <1>7. \A d : Contains(join, d) <=> Contains(list, d) \/ Contains(more, d)
    <2>1. \A d : Contains(join, d) <=> \E j \in 1..(m + n) : join[j] = d
      BY <1>3 DEF Contains
    <2>2. \A d : /\ Contains(list, d) <=> \E j \in 1..m : list[j] = d
                 /\ Contains(more, d) <=> \E j \in 1..n : more[j] = d
      BY <1>1 DEF Contains
    <2>3. \A d : Contains(join, d) => Contains(list, d) \/ Contains(more, d)
      BY <1>6, <2>1, <2>2
    <2>4. \A d : Contains(list, d) => Contains(join, d)
      BY <1>4, <2>1, <2>2
    <2>5. \A d : Contains(more, d) => Contains(join, d)
      BY <1>5, <2>1, <2>2
    <2> QED
      BY <2>3, <2>4, <2>5
  <1> QED
    BY <1>2, <1>3, <1>7

LEMMA JoinAppends ==
    ASSUME NEW S, NEW list \in Seq(S), NEW more \in Seq(S), NEW c \in S
    PROVE  list \o Append(more, c) = Append(list \o more, c)
  OBVIOUS

(* Changing states keeps a list of chunks one. *)
LEMMA StatesOf ==
    ASSUME BeltType, NEW list, NEW state \in {"mapped", "unmapped", "pending"},
           NEW made, made = ToState(list, state)
    PROVE  /\ made \in Seq(BeltBuffers) /\ Len(made) = Len(chunks)
           /\ \A c \in DOMAIN chunks :
                 /\ made[c].size = chunks[c].size /\ made[c].offset = chunks[c].offset
                 /\ made[c].state = IF Contains(list, c) THEN state ELSE chunks[c].state
  <1>1. made = [c \in DOMAIN chunks |->
                  IF Contains(list, c) THEN [chunks[c] EXCEPT !.state = state] ELSE chunks[c]]
    BY DEF ToState
  <1>2. \A c \in DOMAIN chunks :
           /\ made[c] \in BeltBuffers
           /\ made[c].size = chunks[c].size /\ made[c].offset = chunks[c].offset
           /\ made[c].state = IF Contains(list, c) THEN state ELSE chunks[c].state
    <2> SUFFICES ASSUME NEW c \in DOMAIN chunks
                 PROVE  /\ made[c] \in BeltBuffers
                        /\ made[c].size = chunks[c].size /\ made[c].offset = chunks[c].offset
                        /\ made[c].state = IF Contains(list, c) THEN state ELSE chunks[c].state
      OBVIOUS
    <2>1. PICK x \in BeltBuffers : x = chunks[c]
      BY BeltTypes
    <2>2. CASE Contains(list, c)
      <3>1. made[c] = [x EXCEPT !.state = state]
        BY <1>1, <2>1, <2>2
      <3>2. made[c] \in BeltBuffers /\ made[c].size = x.size /\ made[c].offset = x.offset
            /\ made[c].state = state
        BY <3>1 DEF BeltBuffers
      <3> QED
        BY <2>1, <2>2, <3>2
    <2>3. CASE ~Contains(list, c)
      BY <1>1, <2>1, <2>3
    <2> QED
      BY <2>2, <2>3
  <1>3. made \in Seq(BeltBuffers) /\ Len(made) = Len(chunks)
    <2>1. DOMAIN made = 1..Len(chunks) /\ made = [c \in 1..Len(chunks) |-> made[c]] /\ Len(chunks) \in Nat
      BY <1>1, BeltTypes
    <2> QED
      BY <1>2, <2>1, BeltTypes
  <1> QED
    BY <1>2, <1>3

(* finish unmaps the active chunks: what they hold stays. *)
LEMMA FinishKeeps ==
    ASSUME BeltInv, FinishBelt
    PROVE  BeltInv'
  <1> USE DEF BeltInv
  <1>1. /\ chunks' = ToState(activeChunks, "unmapped")
        /\ closedChunks' = closedChunks \o activeChunks /\ activeChunks' = <<>>
        /\ UNCHANGED <<content, freeChunks, channel, writes>>
    BY DEF FinishBelt
  <1>2. /\ chunks' \in Seq(BeltBuffers) /\ Len(chunks') = Len(chunks)
        /\ \A c \in DOMAIN chunks :
              /\ chunks'[c].size = chunks[c].size /\ chunks'[c].offset = chunks[c].offset
              /\ chunks'[c].state = IF Contains(activeChunks, c) THEN "unmapped" ELSE chunks[c].state
    <2>1. PICK made : made = ToState(activeChunks, "unmapped")
      OBVIOUS
    <2> QED
      BY <1>1, <2>1, StatesOf
  <1>3. DOMAIN chunks' = DOMAIN chunks
    BY <1>2, BeltTypes
  <1>4. /\ activeChunks \in Seq(DOMAIN chunks) /\ closedChunks \in Seq(DOMAIN chunks)
    BY DEF BeltType
  <1>5. /\ closedChunks' \in Seq(DOMAIN chunks)
        /\ \A d : Contains(closedChunks', d) <=> Contains(closedChunks, d) \/ Contains(activeChunks, d)
    BY <1>1, <1>4, JoinHas
  <1>6. BeltType'
    <2>1. \A c \in DOMAIN chunks' : Len(content[c]) = chunks'[c].size
      BY <1>2, <1>3, BeltTypes
    <2>2. /\ content \in Seq(Seq(Nat)) /\ Len(content) = Len(chunks')
          /\ writes \in Seq(BeltWrites) /\ \A k \in DOMAIN writes : writes[k].chunk \in DOMAIN chunks'
          /\ freeChunks \in Seq(DOMAIN chunks') /\ channel \in Seq(DOMAIN chunks')
      BY <1>2, <1>3 DEF BeltType
    <2>3. activeChunks' \in Seq(DOMAIN chunks')
      BY <1>1
    <2> QED
      BY <1>1, <1>2, <1>3, <1>5, <2>1, <2>2, <2>3 DEF BeltType
  <1>7. ListsInv'
    <2>1. \A j \in DOMAIN closedChunks' : chunks'[closedChunks'[j]].state = "unmapped"
      <3> SUFFICES ASSUME NEW d, \E j \in DOMAIN closedChunks' : closedChunks'[j] = d
                   PROVE  chunks'[d].state = "unmapped"
        OBVIOUS
      <3>1. d \in DOMAIN chunks /\ Contains(closedChunks', d)
        BY <1>5, ContainsIs
      <3>2. Contains(closedChunks, d) => chunks[d].state = "unmapped"
        BY <1>4, ContainsIs DEF ListsInv
      <3> QED
        BY <1>2, <1>5, <3>1, <3>2
    <2>2. \A j \in DOMAIN Received : Received[j] \in DOMAIN chunks /\ ~Contains(activeChunks, Received[j])
      BY ReceivedIs DEF ListsInv
    <2>3. Received' = Received /\ \A d : ~Contains(activeChunks', d)
      BY <1>1 DEF Received, Contains
    <2>4. \A j \in DOMAIN activeChunks' : FALSE
      BY <1>1
    <2> QED
      BY <1>2, <2>1, <2>2, <2>3, <2>4 DEF ListsInv
  <1>8. BytesInv'
    <2> SUFFICES ASSUME NEW k \in DOMAIN writes, writes[k].stage # "done"
                 PROVE  /\ writes[k].start % MapAlignment = 0
                        /\ writes[k].start + writes[k].size <= chunks'[writes[k].chunk].size
                        /\ \A u \in Units(writes[k].start, writes[k].size) : content[writes[k].chunk][u] = k
                        /\ writes[k].stage = "recorded" =>
                              /\ \/ Contains(activeChunks', writes[k].chunk)
                                 \/ Contains(closedChunks', writes[k].chunk)
                              /\ writes[k].start + writes[k].size <= chunks'[writes[k].chunk].offset
                        /\ writes[k].stage = "submitted" => chunks'[writes[k].chunk].state # "mapped"
      BY <1>1 DEF BytesInv
    <2>1. PICK d \in DOMAIN chunks : d = writes[k].chunk
      BY BeltTypes
    <2> QED
      BY <1>2, <1>5, <2>1 DEF BytesInv
  <1> QED
    BY <1>6, <1>7, <1>8


LEMMA SubmitKeeps ==
    ASSUME BeltInv, SubmitBelt
    PROVE  BeltInv'
  <1> USE DEF BeltInv
  <1>1. /\ writes' = [k \in DOMAIN writes |->
                        IF Finished(k) THEN [writes[k] EXCEPT !.stage = "submitted"] ELSE writes[k]]
        /\ UNCHANGED <<chunks, content, activeChunks, closedChunks, freeChunks, channel>>
    BY DEF SubmitBelt
  <1>2. /\ DOMAIN writes' = DOMAIN writes
        /\ \A k \in DOMAIN writes :
              /\ writes'[k] \in BeltWrites
              /\ writes'[k].chunk = writes[k].chunk /\ writes'[k].start = writes[k].start
              /\ writes'[k].size = writes[k].size
              /\ writes'[k].stage = IF Finished(k) THEN "submitted" ELSE writes[k].stage
    <2> SUFFICES ASSUME NEW k \in DOMAIN writes
                 PROVE  /\ writes'[k] \in BeltWrites
                        /\ writes'[k].chunk = writes[k].chunk /\ writes'[k].start = writes[k].start
                        /\ writes'[k].size = writes[k].size
                        /\ writes'[k].stage = IF Finished(k) THEN "submitted" ELSE writes[k].stage
      BY <1>1
    <2>1. PICK w \in BeltWrites : w = writes[k]
      BY BeltTypes
    <2>2. CASE Finished(k)
      <3>1. writes'[k] = [w EXCEPT !.stage = "submitted"]
        BY <1>1, <2>1, <2>2
      <3>2. /\ writes'[k] \in BeltWrites /\ writes'[k].chunk = w.chunk /\ writes'[k].start = w.start
            /\ writes'[k].size = w.size /\ writes'[k].stage = "submitted"
        BY <3>1 DEF BeltWrites
      <3> QED
        BY <2>1, <2>2, <3>2
    <2>3. CASE ~Finished(k)
      BY <1>1, <2>1, <2>3
    <2> QED
      BY <2>2, <2>3
  <1>3. BeltType'
    <2>1. writes' \in Seq(BeltWrites)
      <3>1. writes' = [k \in 1..Len(writes) |-> writes'[k]] /\ Len(writes) \in Nat
        BY <1>1, BeltTypes
      <3> QED
        BY <1>2, <3>1, BeltTypes
    <2>2. \A k \in DOMAIN writes' : writes'[k].chunk \in DOMAIN chunks
      BY <1>2, BeltTypes
    <2> QED
      BY <1>1, <2>1, <2>2 DEF BeltType
  <1>4. ListsInv'
    BY <1>1 DEF ListsInv, Received
  <1>5. BytesInv'
    <2> SUFFICES ASSUME NEW k \in DOMAIN writes, writes'[k].stage # "done"
                 PROVE  /\ writes'[k].start % MapAlignment = 0
                        /\ writes'[k].start + writes'[k].size <= chunks[writes'[k].chunk].size
                        /\ \A u \in Units(writes'[k].start, writes'[k].size) : content[writes'[k].chunk][u] = k
                        /\ writes'[k].stage = "recorded" =>
                              /\ \/ Contains(activeChunks, writes'[k].chunk)
                                 \/ Contains(closedChunks, writes'[k].chunk)
                              /\ writes'[k].start + writes'[k].size <= chunks[writes'[k].chunk].offset
                        /\ writes'[k].stage = "submitted" => chunks[writes'[k].chunk].state # "mapped"
      BY <1>1, <1>2 DEF BytesInv
    <2>1. writes[k].stage # "done"
      BY <1>2 DEF Finished
    <2>2. Finished(k) => chunks[writes[k].chunk].state = "unmapped"
      <3>1. closedChunks \in Seq(DOMAIN chunks)
        BY DEF BeltType
      <3> QED
        BY <3>1, ContainsIs DEF Finished, ListsInv
    <2>3. writes'[k].stage = "submitted" => chunks[writes[k].chunk].state # "mapped"
      BY <1>2, <2>1, <2>2 DEF BytesInv
    <2>4. writes'[k].stage = "recorded" => writes[k].stage = "recorded"
      BY <1>2
    <2> QED
      BY <1>2, <2>1, <2>3, <2>4 DEF BytesInv
  <1> QED
    BY <1>3, <1>4, <1>5

(* recall sends the closed chunks to be mapped: none of them holds a write *)
(* that has yet to be submitted.                                           *)
LEMMA RecallKeeps ==
    ASSUME BeltInv, Recall
    PROVE  BeltInv'
  <1> USE DEF BeltInv
  <1>1. PICK pending : pending = ToState(closedChunks, "pending")
    OBVIOUS
  <1>2. PICK emptied : emptied = Emptied(chunks)
    OBVIOUS
  <1>3. /\ ~\E k \in DOMAIN writes : Finished(k)
        /\ chunks' = [c \in DOMAIN chunks |-> [pending[c] EXCEPT !.offset = emptied[c].offset]]
        /\ freeChunks' = Received /\ closedChunks' = <<>> /\ channel' = <<>>
        /\ UNCHANGED <<content, activeChunks, writes>>
    BY <1>1, <1>2 DEF Recall, Recalled
  <1>4. /\ pending \in Seq(BeltBuffers) /\ Len(pending) = Len(chunks) /\ DOMAIN pending = DOMAIN chunks
        /\ \A c \in DOMAIN chunks :
              /\ pending[c] \in BeltBuffers
              /\ pending[c].size = chunks[c].size /\ pending[c].offset = chunks[c].offset
              /\ pending[c].state = IF Contains(closedChunks, c) THEN "pending" ELSE chunks[c].state
    <2>1. /\ pending \in Seq(BeltBuffers) /\ Len(pending) = Len(chunks)
          /\ \A c \in DOMAIN chunks :
                /\ pending[c].size = chunks[c].size /\ pending[c].offset = chunks[c].offset
                /\ pending[c].state = IF Contains(closedChunks, c) THEN "pending" ELSE chunks[c].state
      BY <1>1, StatesOf
    <2>2. DOMAIN pending = DOMAIN chunks
      BY <2>1, BeltTypes
    <2>3. \A c \in DOMAIN pending : pending[c] \in BeltBuffers
      BY <2>1
    <2> QED
      BY <2>1, <2>2, <2>3
  <1>5. \A c \in DOMAIN chunks : emptied[c] \in BeltBuffers /\ emptied[c].offset \in Nat
    <2>1. emptied \in Seq(BeltBuffers) /\ Len(emptied) = Len(chunks)
      BY <1>2, EmptiedIs
    <2>2. DOMAIN emptied = DOMAIN chunks /\ \A c \in DOMAIN emptied : emptied[c] \in BeltBuffers
      BY <2>1, BeltTypes
    <2> QED
      BY <2>2, BeltFields
  <1>6. \A c \in DOMAIN chunks :
           /\ chunks'[c] \in BeltBuffers
           /\ chunks'[c].size = chunks[c].size /\ chunks'[c].offset = emptied[c].offset
           /\ chunks'[c].state = IF Contains(closedChunks, c) THEN "pending" ELSE chunks[c].state
    <2> SUFFICES ASSUME NEW c \in DOMAIN chunks
                 PROVE  /\ chunks'[c] \in BeltBuffers
                        /\ chunks'[c].size = chunks[c].size /\ chunks'[c].offset = emptied[c].offset
                        /\ chunks'[c].state = IF Contains(closedChunks, c) THEN "pending" ELSE chunks[c].state
      OBVIOUS
    <2>1. PICK x \in BeltBuffers : x = pending[c]
      BY <1>4
    <2>2. PICK o \in Nat : o = emptied[c].offset
      BY <1>5
    <2>3. chunks'[c] = [x EXCEPT !.offset = o]
      BY <1>3, <2>1, <2>2
    <2>4. /\ chunks'[c] \in BeltBuffers /\ chunks'[c].size = x.size /\ chunks'[c].state = x.state
          /\ chunks'[c].offset = o
      BY <2>3 DEF BeltBuffers
    <2> QED
      BY <1>4, <2>1, <2>2, <2>4
  <1>7. chunks' \in Seq(BeltBuffers) /\ Len(chunks') = Len(chunks) /\ DOMAIN chunks' = DOMAIN chunks
    <2>1. /\ DOMAIN chunks' = 1..Len(chunks) /\ Len(chunks) \in Nat
          /\ chunks' = [c \in 1..Len(chunks) |-> chunks'[c]]
      BY <1>3, BeltTypes
    <2> QED
      BY <1>6, <2>1, BeltTypes
  <1>8. closedChunks \in Seq(DOMAIN chunks) /\ activeChunks \in Seq(DOMAIN chunks)
        /\ Received \in Seq(DOMAIN chunks)
    BY ReceivedIs DEF BeltType
  <1>9. \A d : Contains(closedChunks, d) => chunks[d].state = "unmapped"
    BY <1>8, ContainsIs DEF ListsInv
  <1>10. Received' = Received
    BY <1>3, <1>8 DEF Received
  <1>11. BeltType'
    <2>1. \A c \in DOMAIN chunks' : Len(content[c]) = chunks'[c].size
      BY <1>6, <1>7, BeltTypes
    <2>2. /\ content \in Seq(Seq(Nat)) /\ Len(content) = Len(chunks')
          /\ writes \in Seq(BeltWrites) /\ \A k \in DOMAIN writes : writes[k].chunk \in DOMAIN chunks'
      BY <1>7 DEF BeltType
    <2>3. closedChunks' \in Seq(DOMAIN chunks') /\ channel' \in Seq(DOMAIN chunks')
      BY <1>3
    <2>4. freeChunks' \in Seq(DOMAIN chunks') /\ activeChunks' \in Seq(DOMAIN chunks')
      BY <1>3, <1>7, <1>8
    <2> QED
      BY <1>3, <1>7, <2>1, <2>2, <2>3, <2>4 DEF BeltType
  <1>12. ListsInv'
    <2>1. \A c \in DOMAIN chunks : chunks[c].state = "mapped" => chunks'[c].state = "mapped"
      BY <1>6, <1>9
    <2>2. \A j \in DOMAIN closedChunks' : FALSE
      BY <1>3
    <2>3. /\ \A j \in DOMAIN activeChunks : activeChunks[j] \in DOMAIN chunks
          /\ \A j \in DOMAIN Received : Received[j] \in DOMAIN chunks
      BY <1>8
    <2> QED
      BY <1>3, <1>10, <2>1, <2>2, <2>3 DEF ListsInv
  <1>13. BytesInv'
    <2> SUFFICES ASSUME NEW k \in DOMAIN writes, writes[k].stage # "done"
                 PROVE  /\ writes[k].start % MapAlignment = 0
                        /\ writes[k].start + writes[k].size <= chunks'[writes[k].chunk].size
                        /\ \A u \in Units(writes[k].start, writes[k].size) : content[writes[k].chunk][u] = k
                        /\ writes[k].stage = "recorded" =>
                              /\ \/ Contains(activeChunks, writes[k].chunk)
                                 \/ Contains(closedChunks', writes[k].chunk)
                              /\ writes[k].start + writes[k].size <= chunks'[writes[k].chunk].offset
                        /\ writes[k].stage = "submitted" => chunks'[writes[k].chunk].state # "mapped"
      BY <1>3 DEF BytesInv
    <2>1. PICK d \in DOMAIN chunks : d = writes[k].chunk
      BY BeltTypes
    <2>2. writes[k].stage = "recorded" => ~Contains(closedChunks, d)
      BY <1>3, <2>1 DEF Finished
    <2>3. writes[k].stage = "recorded" => emptied[d].offset = chunks[d].offset
      BY <1>2, <2>1, EmptiedKeeps
    <2>4. chunks[d].state # "mapped" => chunks'[d].state # "mapped"
      BY <1>6
    <2> QED
      BY <1>6, <2>1, <2>2, <2>3, <2>4 DEF BytesInv
  <1> QED
    BY <1>11, <1>12, <1>13


LEMMA CopyKeeps ==
    ASSUME BeltInv, CopyOut
    PROVE  BeltInv'
  <1> USE DEF BeltInv
  <1>1. PICK k \in DOMAIN writes :
           /\ writes' = [writes EXCEPT ![k].stage = "done"]
           /\ UNCHANGED <<chunks, content, activeChunks, closedChunks, freeChunks, channel>>
    BY DEF CopyOut
  <1>2. /\ writes' \in Seq(BeltWrites) /\ DOMAIN writes' = DOMAIN writes
        /\ writes'[k].stage = "done" /\ writes'[k].chunk = writes[k].chunk
        /\ \A j \in DOMAIN writes : j # k => writes'[j] = writes[j]
    <2>1. PICK w \in BeltWrites : w = writes[k]
      BY BeltTypes
    <2>2. PICK done : done = [w EXCEPT !.stage = "done"]
      OBVIOUS
    <2>3. done \in BeltWrites /\ done.stage = "done" /\ done.chunk = w.chunk
      BY <2>2 DEF BeltWrites
    <2>4. writes' = [writes EXCEPT ![k] = done] /\ writes \in Seq(BeltWrites)
      BY <1>1, <2>1, <2>2 DEF BeltType
    <2> QED
      BY <2>1, <2>3, <2>4
  <1>3. BeltType'
    <2>1. \A j \in DOMAIN writes' : writes'[j].chunk \in DOMAIN chunks
      BY <1>2, BeltTypes
    <2> QED
      BY <1>1, <1>2, <2>1 DEF BeltType
  <1>4. ListsInv'
    BY <1>1 DEF ListsInv, Received
  <1>5. BytesInv'
    <2>1. \A j \in DOMAIN writes' : writes'[j].stage # "done" => j \in DOMAIN writes /\ writes'[j] = writes[j]
      BY <1>2
    <2> QED
      BY <1>1, <2>1 DEF BytesInv
  <1> QED
    BY <1>3, <1>4, <1>5

(* A chunk comes back when the GPU has copied what it held. *)
LEMMA MapKeeps ==
    ASSUME BeltInv, NEW c \in DOMAIN chunks, MapChunk(c)
    PROVE  BeltInv'
  <1> USE DEF BeltInv
  <1>1. /\ chunks[c].state = "pending"
        /\ ~\E k \in DOMAIN writes : InQueue(k) /\ writes[k].chunk = c
        /\ chunks' = [chunks EXCEPT ![c].state = "mapped"]
        /\ channel' = Append(channel, c)
        /\ UNCHANGED <<content, activeChunks, closedChunks, freeChunks, writes>>
    BY DEF MapChunk
  <1>2. /\ chunks' \in Seq(BeltBuffers) /\ Len(chunks') = Len(chunks) /\ DOMAIN chunks' = DOMAIN chunks
        /\ chunks'[c].state = "mapped"
        /\ \A d \in DOMAIN chunks : /\ chunks'[d].size = chunks[d].size /\ chunks'[d].offset = chunks[d].offset
                                    /\ d # c => chunks'[d].state = chunks[d].state
    <2>1. PICK x \in BeltBuffers : x = chunks[c]
      BY BeltTypes
    <2>2. PICK y : y = [x EXCEPT !.state = "mapped"]
      OBVIOUS
    <2>3. y \in BeltBuffers /\ y.state = "mapped" /\ y.size = x.size /\ y.offset = x.offset
      BY <2>2 DEF BeltBuffers
    <2>4. chunks' = [chunks EXCEPT ![c] = y] /\ chunks \in Seq(BeltBuffers)
      BY <1>1, <2>1, <2>2 DEF BeltType
    <2> QED
      BY <2>1, <2>3, <2>4
  <1>3. /\ freeChunks \in Seq(DOMAIN chunks) /\ channel \in Seq(DOMAIN chunks)
        /\ activeChunks \in Seq(DOMAIN chunks) /\ closedChunks \in Seq(DOMAIN chunks)
    BY DEF BeltType
  <1>4. channel' \in Seq(DOMAIN chunks)
    BY <1>1, <1>3
  <1>5. BeltType'
    <2>1. \A d \in DOMAIN chunks' : Len(content[d]) = chunks'[d].size
      BY <1>2, BeltTypes
    <2>2. /\ content \in Seq(Seq(Nat)) /\ Len(content) = Len(chunks')
          /\ writes \in Seq(BeltWrites) /\ \A k \in DOMAIN writes : writes[k].chunk \in DOMAIN chunks'
      BY <1>2 DEF BeltType
    <2> QED
      BY <1>1, <1>2, <1>3, <1>4, <2>1, <2>2 DEF BeltType
  <1>6. PICK n \in Nat : n = Len(Received)
    BY ReceivedIs
  <1>7. /\ \A j \in DOMAIN Received : Received[j] \in DOMAIN chunks /\ Received[j] # c
        /\ ~Contains(activeChunks, c) /\ ~Contains(closedChunks, c)
    <2>1. \A j \in DOMAIN Received : Received[j] \in DOMAIN chunks
      BY ReceivedIs
    <2>2. Contains(activeChunks, c) => chunks[c].state = "mapped"
      BY <1>3, ContainsIs DEF ListsInv
    <2>3. Contains(closedChunks, c) => chunks[c].state = "unmapped"
      BY <1>3, ContainsIs DEF ListsInv
    <2> QED
      BY <1>1, <2>1, <2>2, <2>3 DEF ListsInv
  <1>8. /\ DOMAIN Received = 1..n /\ DOMAIN Received' = 1..(n + 1) /\ Received'[n + 1] = c
        /\ \A j \in 1..n : Received'[j] = Received[j]
    <2>1. PICK list \in Seq(DOMAIN chunks) : list = Received
      BY ReceivedIs
    <2>2. Received' = Append(list, c)
      <3>1. freeChunks \o Append(channel, c) = Append(freeChunks \o channel, c)
        BY <1>3, JoinAppends
      <3>2. Received' = freeChunks \o Append(channel, c)
        BY <1>1 DEF Received
      <3> QED
        BY <2>1, <3>1, <3>2 DEF Received
    <2>3. Len(list) = n /\ DOMAIN list = 1..n
      <3>1. Len(list) = n
        BY <1>6, <2>1
      <3> QED
        BY <3>1
    <2>4. /\ DOMAIN Append(list, c) = 1..(n + 1) /\ Append(list, c)[n + 1] = c
          /\ \A j \in 1..n : Append(list, c)[j] = list[j]
      BY <2>3
    <2> QED
      BY <2>1, <2>2, <2>3, <2>4
  <1>9. ListsInv'
    <2>1. \A j \in DOMAIN activeChunks : chunks'[activeChunks[j]].state = "mapped"
      <3>1. \A j \in DOMAIN activeChunks : activeChunks[j] \in DOMAIN chunks
        BY <1>3
      <3> QED
        BY <1>2, <3>1 DEF ListsInv
    <2>2. \A j \in DOMAIN closedChunks : chunks'[closedChunks[j]].state = "unmapped"
      <3>1. \A j \in DOMAIN closedChunks : closedChunks[j] \in DOMAIN chunks /\ closedChunks[j] # c
        BY <1>3, <1>7, ContainsIs
      <3> QED
        BY <1>2, <3>1, WhereIs
    <2>3. \A j \in 1..(n + 1) : j \in 1..n \/ j = n + 1
      BY <1>6
    <2>4. \A j \in 1..n : chunks'[Received[j]].state = "mapped" /\ ~Contains(activeChunks, Received[j])
      BY <1>2, <1>7, <1>8 DEF ListsInv
    <2>5. \A j, k \in 1..n : Received[j] = Received[k] => j = k
      BY <1>8 DEF ListsInv
    <2>6. \A j \in DOMAIN Received' : /\ chunks'[Received'[j]].state = "mapped"
                                      /\ ~Contains(activeChunks, Received'[j])
      BY <1>2, <1>7, <1>8, <2>3, <2>4
    <2>7. \A j, k \in DOMAIN Received' : Received'[j] = Received'[k] => j = k
      BY <1>7, <1>8, <2>3, <2>5
    <2> QED
      BY <1>1, <2>1, <2>2, <2>6, <2>7 DEF ListsInv
  <1>10. BytesInv'
    <2> SUFFICES ASSUME NEW k \in DOMAIN writes, writes[k].stage # "done"
                 PROVE  /\ writes[k].start % MapAlignment = 0
                        /\ writes[k].start + writes[k].size <= chunks'[writes[k].chunk].size
                        /\ \A u \in Units(writes[k].start, writes[k].size) : content[writes[k].chunk][u] = k
                        /\ writes[k].stage = "recorded" =>
                              /\ \/ Contains(activeChunks, writes[k].chunk)
                                 \/ Contains(closedChunks, writes[k].chunk)
                              /\ writes[k].start + writes[k].size <= chunks'[writes[k].chunk].offset
                        /\ writes[k].stage = "submitted" => chunks'[writes[k].chunk].state # "mapped"
      BY <1>1 DEF BytesInv
    <2>1. PICK d \in DOMAIN chunks : d = writes[k].chunk
      BY BeltTypes
    <2>2. writes[k].stage = "submitted" => d # c
      BY <1>1, <2>1 DEF InQueue
    <2> QED
      BY <1>2, <2>1, <2>2 DEF BytesInv
  <1> QED
    BY <1>5, <1>9, <1>10

(* The belt's invariant: where a chunk is, and whose bytes it holds. *)
THEOREM BeltKept == BeltSpec => []BeltInv
  <1>1. BeltInit => BeltInv
    BY DEF BeltInit, BeltInv, BeltType, ListsInv, BytesInv, Received
  <1>2. BeltInv /\ [BeltNext]_beltVars => BeltInv'
    <2> SUFFICES ASSUME BeltInv, [BeltNext]_beltVars PROVE BeltInv'
      OBVIOUS
    <2>1. CASE BeltNext
      BY <2>1, WriteKeeps, FinishKeeps, SubmitKeeps, RecallKeeps, CopyKeeps, MapKeeps DEF BeltNext
    <2>2. CASE UNCHANGED beltVars
      BY <2>2 DEF beltVars, BeltInv, BeltType, ListsInv, BytesInv, Received
    <2> QED
      BY <2>1, <2>2
  <1> QED
    BY <1>1, <1>2, PTL DEF BeltSpec

(* No write is overwritten, nor its chunk mapped while the GPU copies from *)
(* it, before it was copied out: StagingBelt's promise, for any chunk size,*)
(* sizes and alignments, however late the GPU is.                          *)
THEOREM BytesKept == BeltSpec => []BeltIntact
  <1>1. BeltInv => BeltIntact
    <2> SUFFICES ASSUME BeltInv PROVE BeltIntact
      OBVIOUS
    <2>1. BeltType /\ ListsInv /\ BytesInv
      BY DEF BeltInv
    <2>2. \A d : Contains(activeChunks, d) => chunks[d].state = "mapped"
      <3>1. activeChunks \in Seq(DOMAIN chunks)
        BY <2>1 DEF BeltType
      <3> QED
        BY <2>1, <3>1, ContainsIs DEF ListsInv
    <2> QED
      BY <2>1, <2>2 DEF BeltIntact, BytesInv, ListsInv
  <1> QED
    BY <1>1, BeltKept, PTL

--------------------------------------------------------------------------------
(***************************************************************************)
(* The ranked locks never deadlock, for any threads, any locks and any     *)
(* ranks whose followers have no cycle.  The proof is the argument of      *)
(* lock/ranked.rs: what a thread holds, and then waits for, is a path      *)
(* through the graph of the ranks (LockInv); so in a set of threads that   *)
(* wait for each other the ranks held or wanted would have no last one.    *)
(***************************************************************************)

State == [last : Rank \cup {"none"}, depth : Nat]
Guard == [lock : Lock, mode : {"read", "write"}, saved : State]

(* The guards of a thread and then the one it waits for *)
LockChain(t) == IF wants[t] = NotWaiting THEN guards[t] ELSE Append(guards[t], wants[t])

(* LOCK_STATE after i guards of s, which guard i + 1 of s saves *)
StateAfter(s, i) ==
    IF i = 0 THEN Initial ELSE [last |-> RankOf[s[i].lock], depth |-> i]
Saves(s) == \A i \in DOMAIN s : s[i].saved = StateAfter(s, i - 1)

(* Each rank is permitted after the one before it. *)
Path(s) == \A i \in 1 .. (Len(s) - 1) : RankOf[s[i + 1].lock] \in Followers[RankOf[s[i].lock]]

LocksTypeOK ==
    /\ lockState \in [Thread -> State]
    /\ guards \in [Thread -> Seq(Guard)]
    /\ wants \in [Thread -> Guard \cup {NotWaiting}]

LockInv ==
    /\ LocksTypeOK
    /\ \A t \in Thread :
          /\ lockState[t] = StateAfter(LockChain(t), Len(LockChain(t)))
          /\ Saves(LockChain(t))
          /\ Path(LockChain(t))

(* Nobody holds or waits for anything at the start. *)
LEMMA LocksInitInv == LocksInit => LockInv
<1> SUFFICES ASSUME LocksInit PROVE LockInv
  OBVIOUS
<1>1. Initial \in State /\ <<>> \in Seq(Guard)
  BY DEF Initial, State
<1>2. LocksTypeOK
  BY <1>1 DEF LocksInit, LocksTypeOK
<1>3. ASSUME NEW t \in Thread
      PROVE  LockChain(t) = <<>> /\ lockState[t] = Initial
  BY DEF LocksInit, LockChain
<1>4. QED
  BY <1>2, <1>3 DEF LockInv, Saves, Path, StateAfter

(* A thread that asks extends its path, one that is granted a lock keeps   *)
(* it, and one that drops its newest guard, or all of them, cuts it.       *)
LEMMA LocksNextInv == LockInv /\ [LocksNext]_lockVars => LockInv'
<1> SUFFICES ASSUME LockInv, [LocksNext]_lockVars PROVE LockInv'
  OBVIOUS
<1> USE RankAssumption
<1> DEFINE Right(t) == /\ lockState[t] = StateAfter(LockChain(t), Len(LockChain(t)))
                       /\ Saves(LockChain(t)) /\ Path(LockChain(t))
<1>a. LocksTypeOK /\ \A t \in Thread : Right(t)
  BY DEF LockInv
<1>b. ASSUME NEW t \in Thread PROVE LockChain(t) \in Seq(Guard)
  BY <1>a DEF LocksTypeOK, LockChain
<1>c. ASSUME NEW u \in Thread, lockState'[u] = lockState[u],
             guards'[u] = guards[u], wants'[u] = wants[u]
      PROVE  Right(u)'
  <2>1. LockChain(u)' = LockChain(u)
    BY <1>c DEF LockChain
  <2>2. QED
    BY <2>1, <1>a, <1>c DEF Saves, Path, StateAfter
<1>d. Initial \in State
  BY DEF Initial, State
<1>1. ASSUME NEW t \in Thread, NEW l \in Lock, NEW m \in {"read", "write"}, AskLock(t, l, m)
      PROVE  LockInv'
  <2> DEFINE g == [lock |-> l, mode |-> m, saved |-> lockState[t]]
             s == guards[t]
             n == Len(guards[t])
  <2>1. /\ lockState' = [lockState EXCEPT ![t] = [last |-> RankOf[l], depth |-> lockState[t].depth + 1]]
        /\ wants' = [wants EXCEPT ![t] = g]
        /\ guards' = guards /\ wants[t] = NotWaiting
        /\ RankOf[l] \in Permitted(lockState[t])
    BY <1>1 DEF AskLock, Running
  <2>2. g \in Guard /\ g # NotWaiting
    BY <1>a DEF LocksTypeOK, Guard, NotWaiting
  <2>3. [last |-> RankOf[l], depth |-> lockState[t].depth + 1] \in State
    BY <1>a DEF LocksTypeOK, State
  <2>4. LocksTypeOK'
    BY <2>1, <2>2, <2>3, <1>a DEF LocksTypeOK
  <2>5. s \in Seq(Guard) /\ n \in Nat
    BY <1>a DEF LocksTypeOK
  <2>6. LockChain(t) = s /\ lockState[t] = StateAfter(s, n) /\ Saves(s) /\ Path(s)
    BY <1>a, <2>1 DEF LockChain
  <2>7. LockChain(t)' = Append(s, g)
    BY <2>1, <2>2, <1>a DEF LockChain, LocksTypeOK
  <2>8. /\ Len(Append(s, g)) = n + 1 /\ Append(s, g)[n + 1] = g
        /\ \A i \in 1 .. n : Append(s, g)[i] = s[i]
    BY <2>2, <2>5
  <2>9. lockState'[t] = StateAfter(Append(s, g), n + 1)
    <3>1. lockState[t].depth = n
      BY <2>6 DEF StateAfter, Initial
    <3>2. QED
      BY <3>1, <2>1, <2>5, <2>8, <1>a DEF StateAfter, LocksTypeOK
  <2>10. Saves(Append(s, g))
    <3>1. ASSUME NEW i \in 1 .. (n + 1)
          PROVE  Append(s, g)[i].saved = StateAfter(Append(s, g), i - 1)
      <4>1. CASE i = n + 1
        BY <4>1, <2>5, <2>6, <2>8 DEF StateAfter
      <4>2. CASE i # n + 1
        <5>1. i \in DOMAIN s /\ s[i].saved = StateAfter(s, i - 1)
          BY <4>2, <2>5, <2>6 DEF Saves
        <5>2. i - 1 = 0 \/ i - 1 \in 1 .. n
          BY <4>2, <2>5
        <5>3. QED
          BY <4>2, <5>1, <5>2, <2>5, <2>8 DEF StateAfter
      <4>3. QED
        BY <4>1, <4>2
    <3>2. QED
      BY <3>1, <2>2, <2>5, <2>8 DEF Saves
  <2>11. Path(Append(s, g))
    <3>1. ASSUME NEW i \in 1 .. n
          PROVE  RankOf[Append(s, g)[i + 1].lock] \in Followers[RankOf[Append(s, g)[i].lock]]
      <4>1. CASE i = n
        <5>1. lockState[t].last = RankOf[s[n].lock]
          BY <4>1, <2>6 DEF StateAfter
        <5>2. s[n] \in Guard
          BY <4>1, <2>5
        <5>3. RankOf[s[n].lock] # "none"
          BY <5>2 DEF Guard
        <5>4. QED
          BY <4>1, <5>1, <5>3, <2>1, <2>5, <2>8 DEF Permitted
      <4>2. CASE i # n
        BY <4>2, <2>5, <2>6, <2>8 DEF Path
      <4>3. QED
        BY <4>1, <4>2
    <3>2. QED
      BY <3>1, <2>5, <2>8 DEF Path
  <2>12. Right(t)'
    BY <2>7, <2>8, <2>9, <2>10, <2>11 DEF Saves, Path, StateAfter
  <2>13. ASSUME NEW u \in Thread, u # t PROVE Right(u)'
    BY <2>13, <2>1, <1>a, <1>c DEF LocksTypeOK
  <2>14. QED
    BY <2>4, <2>12, <2>13 DEF LockInv
<1>2. ASSUME NEW t \in Thread, NEW l \in Lock, AskWrongLock(t, l)
      PROVE  LockInv'
  <2>1. /\ lockState' = [lockState EXCEPT ![t] = Initial]
        /\ guards' = [guards EXCEPT ![t] = <<>>]
        /\ wants' = wants /\ wants[t] = NotWaiting
    BY <1>2 DEF AskWrongLock, Running
  <2>2. LocksTypeOK'
    BY <2>1, <1>a, <1>d DEF LocksTypeOK
  <2>3. LockChain(t)' = <<>> /\ lockState'[t] = Initial
    BY <2>1, <1>a DEF LockChain, LocksTypeOK
  <2>4. Right(t)'
    BY <2>3 DEF Saves, Path, StateAfter
  <2>5. ASSUME NEW u \in Thread, u # t PROVE Right(u)'
    BY <2>5, <2>1, <1>a, <1>c DEF LocksTypeOK
  <2>6. QED
    BY <2>2, <2>4, <2>5 DEF LockInv
<1>3. ASSUME NEW t \in Thread, GrantLock(t) PROVE LockInv'
  <2>1. /\ guards' = [guards EXCEPT ![t] = Append(guards[t], wants[t])]
        /\ wants' = [wants EXCEPT ![t] = NotWaiting]
        /\ lockState' = lockState /\ wants[t] # NotWaiting
    BY <1>3 DEF GrantLock
  <2>2. wants[t] \in Guard /\ guards[t] \in Seq(Guard)
    BY <2>1, <1>a DEF LocksTypeOK
  <2>3. LocksTypeOK'
    BY <2>1, <2>2, <1>a DEF LocksTypeOK
  <2>4. LockChain(t)' = LockChain(t)
    BY <2>1, <1>a DEF LockChain, LocksTypeOK
  <2>5. Right(t)'
    BY <2>1, <2>4, <1>a DEF Saves, Path, StateAfter
  <2>6. ASSUME NEW u \in Thread, u # t PROVE Right(u)'
    BY <2>6, <2>1, <1>a, <1>c DEF LocksTypeOK
  <2>7. QED
    BY <2>3, <2>5, <2>6 DEF LockInv
<1>4. ASSUME NEW t \in Thread, DropGuard(t) PROVE LockInv'
  <2> DEFINE s == guards[t]
             n == Len(guards[t])
             r == SubSeq(guards[t], 1, Len(guards[t]) - 1)
  <2>1. /\ lockState' = [lockState EXCEPT ![t] = s[n].saved]
        /\ guards' = [guards EXCEPT ![t] = r]
        /\ wants' = wants /\ wants[t] = NotWaiting /\ s # <<>>
    BY <1>4 DEF DropGuard, Running
  <2>2. s \in Seq(Guard) /\ n \in Nat /\ n # 0 /\ s[n] \in Guard
    BY <2>1, <1>a DEF LocksTypeOK
  <2>3. /\ r \in Seq(Guard) /\ Len(r) = n - 1 /\ DOMAIN r = 1 .. (n - 1)
        /\ \A i \in 1 .. (n - 1) : r[i] = s[i]
    BY <2>2
  <2>4. LocksTypeOK'
    BY <2>1, <2>2, <2>3, <1>a DEF LocksTypeOK, Guard
  <2>5. LockChain(t) = s /\ Saves(s) /\ Path(s)
    BY <1>a, <2>1 DEF LockChain
  <2>6. LockChain(t)' = r
    BY <2>1, <1>a DEF LockChain, LocksTypeOK
  <2>7. lockState'[t] = StateAfter(r, n - 1)
    <3>1. lockState'[t] = StateAfter(s, n - 1)
      BY <2>1, <2>2, <2>5, <1>a DEF Saves, LocksTypeOK
    <3>2. n - 1 = 0 \/ n - 1 \in 1 .. (n - 1)
      <4>1. \A k \in Nat : k # 0 => k - 1 = 0 \/ k - 1 \in 1 .. (k - 1)
        OBVIOUS
      <4>2. n \in Nat /\ n # 0
        BY <2>2
      <4>3. QED
        BY <4>1, <4>2
    <3>3. QED
      BY <3>1, <3>2, <2>3 DEF StateAfter
  <2>8. Saves(r)
    <3>1. ASSUME NEW i \in 1 .. (n - 1) PROVE r[i].saved = StateAfter(r, i - 1)
      <4>1. s[i].saved = StateAfter(s, i - 1)
        BY <2>2, <2>5 DEF Saves
      <4>2. i - 1 = 0 \/ i - 1 \in 1 .. (n - 1)
        BY <2>2
      <4>3. QED
        BY <4>1, <4>2, <2>2, <2>3 DEF StateAfter
    <3>2. QED
      BY <3>1, <2>3 DEF Saves
  <2>9. Path(r)
    BY <2>2, <2>3, <2>5 DEF Path
  <2>10. Right(t)'
    BY <2>3, <2>6, <2>7, <2>8, <2>9 DEF Saves, Path, StateAfter
  <2>11. ASSUME NEW u \in Thread, u # t PROVE Right(u)'
    BY <2>11, <2>1, <1>a, <1>c DEF LocksTypeOK
  <2>12. QED
    BY <2>4, <2>10, <2>11 DEF LockInv
<1>5. ASSUME NEW t \in Thread, NEW i \in DOMAIN guards[t], DropWrongGuard(t, i)
      PROVE  LockInv'
  BY <1>5, <1>a, <1>c DEF DropWrongGuard, LockInv, LocksTypeOK
<1>6. ASSUME NEW t \in Thread, NEW k \in DOMAIN guards[t], DowngradeGuard(t, k)
      PROVE  LockInv'
  <2> DEFINE s == guards[t]
             r == [guards[t] EXCEPT ![k].mode = "read"]
  <2>1. /\ guards' = [guards EXCEPT ![t] = r]
        /\ wants' = wants /\ lockState' = lockState /\ wants[t] = NotWaiting
    BY <1>6, <1>a DEF DowngradeGuard, Running, LocksTypeOK
  <2>2. s \in Seq(Guard) /\ s[k] \in Guard
    BY <1>a DEF LocksTypeOK
  <2>3. r = [s EXCEPT ![k] = [s[k] EXCEPT !.mode = "read"]] /\ [s[k] EXCEPT !.mode = "read"] \in Guard
    BY <2>2 DEF Guard
  <2>4. r \in Seq(Guard) /\ Len(r) = Len(s)
    BY <2>2, <2>3
  <2>5. ASSUME NEW i \in DOMAIN s
        PROVE  r[i].lock = s[i].lock /\ r[i].saved = s[i].saved
    BY <2>2, <2>3 DEF Guard
  <2>6. LocksTypeOK'
    BY <2>1, <2>4, <1>a DEF LocksTypeOK
  <2>7. LockChain(t) = s /\ LockChain(t)' = r
    BY <2>1, <1>a DEF LockChain, LocksTypeOK
  <2>8. Len(s) \in Nat /\ DOMAIN s = 1 .. Len(s) /\ DOMAIN r = 1 .. Len(s)
    BY <2>2, <2>4
  <2>9. ASSUME NEW i \in 0 .. Len(s) PROVE StateAfter(r, i) = StateAfter(s, i)
    BY <2>5, <2>8 DEF StateAfter
  <2>10. lockState'[t] = StateAfter(r, Len(r))
    <3>1. lockState[t] = StateAfter(s, Len(s))
      BY <2>7, <1>a
    <3>2. Len(s) \in 0 .. Len(s)
      BY <2>8
    <3>3. StateAfter(r, Len(s)) = StateAfter(s, Len(s))
      BY <3>2, <2>9
    <3>4. QED
      BY <3>1, <3>3, <2>1, <2>4
  <2> HIDE DEF s, r
  <2>11. Saves(r)
    <3>1. ASSUME NEW i \in 1 .. Len(s) PROVE r[i].saved = StateAfter(r, i - 1)
      <4>1. s[i].saved = StateAfter(s, i - 1)
        BY <2>7, <2>8, <1>a DEF Saves
      <4>2. i - 1 \in 0 .. Len(s)
        BY <2>8
      <4>3. QED
        BY <4>1, <4>2, <2>5, <2>8, <2>9
    <3>2. QED
      BY <3>1, <2>8 DEF Saves
  <2>12. Path(r)
    <3>1. ASSUME NEW i \in 1 .. (Len(s) - 1)
          PROVE  RankOf[r[i + 1].lock] \in Followers[RankOf[r[i].lock]]
      <4>1. RankOf[s[i + 1].lock] \in Followers[RankOf[s[i].lock]]
        BY <2>7, <1>a DEF Path
      <4>2. i \in DOMAIN s /\ i + 1 \in DOMAIN s
        BY <2>8
      <4>3. QED
        BY <4>1, <4>2, <2>5
    <3>2. QED
      BY <3>1, <2>4 DEF Path
  <2>13. Right(t)'
    BY <2>7, <2>10, <2>11, <2>12 DEF Saves, Path, StateAfter
  <2>14. ASSUME NEW u \in Thread, u # t PROVE Right(u)'
    BY <2>14, <2>1, <1>a, <1>c DEF LocksTypeOK
  <2>15. QED
    BY <2>6, <2>13, <2>14 DEF LockInv
<1>7. CASE UNCHANGED lockVars
  BY <1>7, <1>a, <1>c DEF lockVars, LockInv, LocksTypeOK
<1>8. QED
  BY <1>1, <1>2, <1>3, <1>4, <1>5, <1>6, <1>7 DEF LocksNext

(* What every thread of a set holds and wants has a last rank, whose       *)
(* holder would have to want a later one.                                  *)
LEMMA PathsProgress == LockInv => AlwaysProgress
<1> SUFFICES ASSUME LockInv, NEW D \in SUBSET Thread, D # {},
                    \A t \in D : WaitsFor(t) \cap D # {}
             PROVE  FALSE
  BY DEF AlwaysProgress
<1> USE RankAssumption
<1>1. ASSUME NEW t \in D
      PROVE  /\ guards[t] \in Seq(Guard) /\ wants[t] \in Guard
             /\ wants[t] # NotWaiting
             /\ LockChain(t) = Append(guards[t], wants[t]) /\ Path(LockChain(t))
  <2>1. wants[t] # NotWaiting
    BY DEF WaitsFor
  <2>2. guards[t] \in Seq(Guard) /\ wants[t] \in Guard
    BY <2>1 DEF LockInv, LocksTypeOK
  <2>3. LockChain(t) = Append(guards[t], wants[t])
    BY <2>1 DEF LockChain
  <2>4. Path(LockChain(t))
    BY DEF LockInv
  <2>5. QED
    BY <2>1, <2>2, <2>3, <2>4
<1> DEFINE T == {r \in Rank : \E t \in D : \E i \in 1 .. Len(LockChain(t)) : r = RankOf[LockChain(t)[i].lock]}
<1>2. ASSUME NEW t \in D
      PROVE  /\ Len(LockChain(t)) = Len(guards[t]) + 1 /\ Len(guards[t]) \in Nat
             /\ LockChain(t)[Len(guards[t]) + 1] = wants[t]
             /\ \A i \in 1 .. Len(guards[t]) : LockChain(t)[i] = guards[t][i]
             /\ \A i \in 1 .. Len(LockChain(t)) : LockChain(t)[i].lock \in Lock
  <2>1. guards[t] \in Seq(Guard) /\ wants[t] \in Guard
    BY <1>1
  <2>2. /\ Len(Append(guards[t], wants[t])) = Len(guards[t]) + 1 /\ Len(guards[t]) \in Nat
        /\ Append(guards[t], wants[t])[Len(guards[t]) + 1] = wants[t]
        /\ \A i \in 1 .. Len(guards[t]) : Append(guards[t], wants[t])[i] = guards[t][i]
    BY <2>1
  <2>3. ASSUME NEW i \in 1 .. (Len(guards[t]) + 1)
        PROVE  Append(guards[t], wants[t])[i] \in Guard
    BY <2>1
  <2>4. ASSUME NEW g \in Guard PROVE g.lock \in Lock
    BY DEF Guard
  <2>5. DEFINE n == Len(guards[t])
               c == Append(guards[t], wants[t])
  <2>6. LockChain(t) = c
    BY <1>1
  <2>7. HIDE DEF n, c
  <2>8. /\ Len(c) = n + 1 /\ n \in Nat /\ c[n + 1] = wants[t]
        /\ \A i \in 1 .. n : c[i] = guards[t][i]
    BY <2>2 DEF n, c
  <2>9. \A i \in 1 .. (n + 1) : c[i].lock \in Lock
    BY <2>3, <2>4 DEF n, c
  <2>10. QED
    BY <2>6, <2>8, <2>9 DEF n
<1>3. ASSUME NEW t \in D, NEW i \in 1 .. Len(LockChain(t))
      PROVE  RankOf[LockChain(t)[i].lock] \in T
  BY <1>2
<1>4. T # {}
  <2>1. PICK t \in D : TRUE
    OBVIOUS
  <2>2. 1 \in 1 .. Len(LockChain(t))
    <3>1. Len(guards[t]) \in Nat /\ Len(LockChain(t)) = Len(guards[t]) + 1
      BY <1>2
    <3>2. \A n \in Nat : 1 \in 1 .. (n + 1)
      OBVIOUS
    <3>3. QED
      BY <3>1, <3>2
  <2>3. QED
    BY <2>2, <1>3
<1>5. PICK r \in T : Followers[r] \cap T = {}
  BY <1>4
<1>6. ASSUME NEW h \in D, NEW i \in 1 .. Len(guards[h]), RankOf[guards[h][i].lock] = r
      PROVE  FALSE
  <2>1. i \in 1 .. (Len(LockChain(h)) - 1) /\ i + 1 \in 1 .. Len(LockChain(h))
    BY <1>2
  <2>2. Path(LockChain(h))
    BY <1>1
  <2>3. RankOf[LockChain(h)[i + 1].lock] \in Followers[RankOf[LockChain(h)[i].lock]]
    BY <2>1, <2>2 DEF Path
  <2>4. LockChain(h)[i] = guards[h][i]
    BY <1>2
  <2>5. RankOf[LockChain(h)[i + 1].lock] \in Followers[r]
    BY <2>3, <2>4, <1>6
  <2>6. RankOf[LockChain(h)[i + 1].lock] \in T
    BY <2>1, <1>3
  <2>7. QED
    BY <2>5, <2>6, <1>5
<1>7. PICK t \in D : \E i \in 1 .. Len(LockChain(t)) : r = RankOf[LockChain(t)[i].lock]
  BY <1>5
<1>8. PICK i \in 1 .. Len(LockChain(t)) : r = RankOf[LockChain(t)[i].lock]
  BY <1>7
<1>9. CASE i \in 1 .. Len(guards[t])
  BY <1>2, <1>6, <1>8, <1>9
<1>10. CASE i = Len(guards[t]) + 1
  <2>1. r = RankOf[wants[t].lock]
    BY <1>2, <1>8, <1>10
  <2>2. ASSUME NEW h \in D, NEW w \in D, wants[w].lock = wants[t].lock, HoldsAgainst(h, wants[w])
        PROVE  FALSE
    <3>1. PICK j \in DOMAIN guards[h] : guards[h][j].lock = wants[w].lock
      BY <2>2 DEF HoldsAgainst
    <3>2. j \in 1 .. Len(guards[h])
      BY <3>1, <1>1
    <3>3. QED
      BY <3>1, <3>2, <2>1, <2>2, <1>6
  <2>3. PICK u \in D : HoldsAgainst(u, wants[t]) \/ QueuedAgainst(u, wants[t])
    BY DEF WaitsFor
  <2>4. CASE HoldsAgainst(u, wants[t])
    BY <2>2, <2>4
  <2>5. CASE QueuedAgainst(u, wants[t])
    <3>1. wants[u].lock = wants[t].lock /\ wants[u].mode = "write"
      BY <2>5 DEF QueuedAgainst
    <3>2. PICK h \in D : HoldsAgainst(h, wants[u]) \/ QueuedAgainst(h, wants[u])
      BY DEF WaitsFor
    <3>3. HoldsAgainst(h, wants[u])
      BY <3>1, <3>2 DEF QueuedAgainst
    <3>4. QED
      BY <3>1, <3>3, <2>2
  <2>6. QED
    BY <2>3, <2>4, <2>5
<1>11. QED
  BY <1>2, <1>8, <1>9, <1>10

(* Each thread's guards, with the lock it waits for, are a path through    *)
(* the ranks, and LOCK_STATE is its end: dropping the newest guard always  *)
(* passes the check of release.                                            *)
THEOREM LockPaths == LocksSpec => []LockInv
<1>1. LocksInit => LockInv
  BY LocksInitInv
<1>2. LockInv /\ [LocksNext]_lockVars => LockInv'
  BY LocksNextInv
<1>3. QED
  BY <1>1, <1>2, PTL DEF LocksSpec

(* Threads whose locks pass the checks of acquire never wait for each      *)
(* other in a circle, however many threads, locks and ranks there are.     *)
THEOREM RankedLocksProgress == LocksSpec => []AlwaysProgress
<1>1. LocksSpec => []LockInv
  BY LockPaths
<1>2. LockInv => AlwaysProgress
  BY PathsProgress
<1>3. QED
  BY <1>1, <1>2, PTL

--------------------------------------------------------------------------------
(* The initialization tracker: ranges in order, with gaps between them *)

Smaller == {p \in Nat \X Nat : p[1] < p[2]}

(* Every nonempty set of numbers has a least one. *)
LEMMA HasLeast ==
  ASSUME NEW S, S \subseteq Nat, S # {}
  PROVE  \E m \in S : \A k \in S : m <= k
<1>1. Smaller = OpToRel(<, Nat)
  BY DEF Smaller, OpToRel
<1>2. IsWellFoundedOn(Smaller, Nat)
  BY <1>1, NatLessThanWellFounded
<1>3. PICK m \in S : \A k \in S : ~(<<k, m>> \in Smaller)
  BY <1>2, WFMin
<1>4. \A k \in S : ~(k < m) /\ k \in Nat /\ m \in Nat
  BY <1>3 DEF Smaller
<1>5. QED
  BY <1>4

(* One that is bounded has a greatest one. *)
LEMMA HasGreatest ==
  ASSUME NEW S, S \subseteq Nat, S # {}, NEW n \in Nat, \A k \in S : k <= n
  PROVE  \E m \in S : \A k \in S : k <= m
<1>1. DEFINE U == {u \in Nat : \A k \in S : k <= u}
<1>2. PICK m \in U : \A u \in U : m <= u
  BY HasLeast
<1>3. CASE m \in S
  BY <1>2, <1>3
<1>4. CASE m \notin S
  <2>1. \A k \in S : k < m /\ k \in Nat
    BY <1>2, <1>4
  <2>2. m # 0 /\ m \in Nat
    <3>1. PICK k \in S : TRUE
      OBVIOUS
    <3>2. QED
      BY <2>1, <3>1, <1>2
  <2>3. m - 1 \in U
    BY <2>1, <2>2
  <2>4. QED
    BY <2>3, <1>2, <2>2
<1>5. QED
  BY <1>3, <1>4

(* A set of positions that has all those before its own, from some first   *)
(* one, is told by its size: what partition_point counts.                  *)
LEMMA Prefix ==
  ASSUME NEW a \in Nat, NEW n \in Nat, NEW S, S \subseteq (a + 1)..n,
         \A i \in S : \A j \in (a + 1)..i : j \in S
  PROVE  /\ Cardinality(S) \in Nat
         /\ S = (a + 1)..(a + Cardinality(S))
         /\ a <= n => a + Cardinality(S) <= n
<1>1. DEFINE T == {j \in Nat : j >= a /\ j + 1 \notin S}
<1>2. (IF n >= a THEN n ELSE a) \in T
  OBVIOUS
<1>3. PICK m \in T : \A j \in T : m <= j
  BY <1>2, HasLeast
<1>4. S = (a + 1)..m
  <2>1. ASSUME NEW i \in S PROVE i \in (a + 1)..m
    <3>1. i \in (a + 1)..n /\ m \in Nat /\ m >= a
      BY <1>3
    <3>2. m + 1 <= i => m + 1 \in (a + 1)..i
      BY <3>1
    <3>3. m + 1 \notin S
      BY <1>3
    <3>4. QED
      BY <3>1, <3>2, <3>3
  <2>2. ASSUME NEW i \in (a + 1)..m, i \notin S PROVE FALSE
    <3>1. i - 1 \in T
      BY <2>2
    <3>2. QED
      BY <3>1, <1>3
  <2>3. QED
    BY <2>1, <2>2
<1>5. Cardinality(S) = m - a
  <2>1. m \in Nat /\ m >= a
    BY <1>3
  <2>2. Cardinality((a + 1)..m) = IF a + 1 > m THEN 0 ELSE m - (a + 1) + 1
    BY <2>1, FS_Interval
  <2>3. QED
    BY <2>1, <2>2, <1>4
<1>6. m \in Nat /\ m >= a /\ (a <= n => m <= n)
  BY <1>2, <1>3
<1>7. QED
  BY <1>4, <1>5, <1>6

(* A list with the places from f to l replaced. *)
Replaced(rs, f, l, mid) == SubSeq(rs, 1, f - 1) \o mid \o SubSeq(rs, l + 1, Len(rs))

LEMMA Spliced ==
  ASSUME NEW T, NEW rs \in Seq(T), NEW mid \in Seq(T),
         NEW f \in 1..(Len(rs) + 1), NEW l \in (f - 1)..Len(rs)
  PROVE  LET r == Replaced(rs, f, l, mid) IN
         /\ r \in Seq(T)
         /\ Len(r) = f - 1 + Len(mid) + Len(rs) - l
         /\ \A i \in 1..(f - 1) : r[i] = rs[i]
         /\ \A i \in 1..Len(mid) : r[f - 1 + i] = mid[i]
         /\ \A i \in (l + 1)..Len(rs) : r[f - 1 + Len(mid) + i - l] = rs[i]
         /\ \A i \in DOMAIN r :
               \/ i < f
               \/ i >= f /\ i < f + Len(mid)
               \/ i >= f + Len(mid) /\ i - (f - 1 + Len(mid)) + l \in (l + 1)..Len(rs)
<1>1. DEFINE A == SubSeq(rs, 1, f - 1)
             B == SubSeq(rs, l + 1, Len(rs))
             r == Replaced(rs, f, l, mid)
<1>2. Len(rs) \in Nat /\ Len(mid) \in Nat /\ f \in Int /\ l \in Int
      /\ 1 <= f /\ f - 1 <= l /\ l <= Len(rs)
  OBVIOUS
<1>3. A \in Seq(T) /\ Len(A) = f - 1 /\ \A i \in 1..(f - 1) : A[i] = rs[i]
  <2>1. \A i \in 1..(f - 1) : rs[i] \in T
    BY <1>2
  <2>2. QED
    BY <1>2, <2>1
<1>4. B \in Seq(T) /\ Len(B) = Len(rs) - l /\ \A i \in 1..(Len(rs) - l) : B[i] = rs[l + i]
  <2>1. \A i \in (l + 1)..Len(rs) : rs[i] \in T
    BY <1>2
  <2>2. QED
    BY <1>2, <2>1
<1>5. HIDE DEF A, B
<1>6. DEFINE C == A \o mid
<1>7. C \in Seq(T) /\ Len(C) = Len(A) + Len(mid)
      /\ (\A i \in 1..Len(A) : C[i] = A[i])
      /\ (\A i \in 1..Len(mid) : C[Len(A) + i] = mid[i])
  <2>1. /\ C \in Seq(T)
        /\ Len(C) = Len(A) + Len(mid)
        /\ \A i \in 1..(Len(A) + Len(mid)) :
              C[i] = IF i <= Len(A) THEN A[i] ELSE mid[i - Len(A)]
    BY <1>3, ConcatProperties
  <2>2. Len(A) \in Nat
    BY <1>3
  <2>3. HIDE DEF C
  <2>4. ASSUME NEW i \in 1..Len(A) PROVE C[i] = A[i]
    BY <2>1, <2>2, <1>2
  <2>5. ASSUME NEW i \in 1..Len(mid) PROVE C[Len(A) + i] = mid[i]
    <3>1. Len(A) + i \in 1..(Len(A) + Len(mid)) /\ ~(Len(A) + i <= Len(A))
          /\ (Len(A) + i) - Len(A) = i
      BY <2>2, <1>2
    <3>2. QED
      BY <2>1, <3>1
  <2>6. QED
    BY <2>1, <2>4, <2>5
<1>8. r = C \o B
  BY DEF A, B, Replaced
<1>9. HIDE DEF C, r
<1>10. r \in Seq(T) /\ Len(r) = Len(C) + Len(B)
      /\ (\A i \in 1..Len(C) : r[i] = C[i])
      /\ (\A i \in 1..Len(B) : r[Len(C) + i] = B[i])
  <2>1. /\ r \in Seq(T)
        /\ Len(r) = Len(C) + Len(B)
        /\ \A i \in 1..(Len(C) + Len(B)) :
              r[i] = IF i <= Len(C) THEN C[i] ELSE B[i - Len(C)]
    <3>1. C \in Seq(T) /\ B \in Seq(T)
      BY <1>4, <1>7
    <3>2. /\ C \o B \in Seq(T)
          /\ Len(C \o B) = Len(C) + Len(B)
          /\ \A i \in 1..(Len(C) + Len(B)) :
                (C \o B)[i] = IF i <= Len(C) THEN C[i] ELSE B[i - Len(C)]
      BY <3>1, ConcatProperties
    <3>3. QED
      BY <3>2, <1>8
  <2>2. Len(C) \in Nat /\ Len(B) \in Nat
    BY <1>4, <1>7
  <2>3. ASSUME NEW i \in 1..Len(C) PROVE r[i] = C[i]
    BY <2>1, <2>2
  <2>4. ASSUME NEW i \in 1..Len(B) PROVE r[Len(C) + i] = B[i]
    <3>1. Len(C) + i \in 1..(Len(C) + Len(B)) /\ ~(Len(C) + i <= Len(C))
          /\ (Len(C) + i) - Len(C) = i
      BY <2>2
    <3>2. QED
      BY <2>1, <3>1
  <2>5. QED
    BY <2>1, <2>3, <2>4
<1>11. Len(C) = f - 1 + Len(mid) /\ Len(r) = f - 1 + Len(mid) + Len(rs) - l
  BY <1>2, <1>3, <1>4, <1>7, <1>10
<1>12. /\ \A i \in 1..(f - 1) : r[i] = rs[i]
       /\ \A i \in 1..Len(mid) : r[f - 1 + i] = mid[i]
  <2>1. ASSUME NEW i \in 1..(f - 1) PROVE r[i] = rs[i]
    <3>1. Len(A) = f - 1 /\ Len(C) = f - 1 + Len(mid)
      BY <1>3, <1>11
    <3>2. i \in 1..Len(A) /\ i \in 1..Len(C)
      BY <1>2, <3>1
    <3>3. QED
      BY <3>2, <1>3, <1>7, <1>10
  <2>2. ASSUME NEW i \in 1..Len(mid) PROVE r[f - 1 + i] = mid[i]
    <3>1. Len(A) = f - 1 /\ Len(C) = f - 1 + Len(mid)
      BY <1>3, <1>11
    <3>2. Len(A) + i = f - 1 + i /\ Len(A) + i \in 1..Len(C)
      BY <1>2, <3>1
    <3>3. QED
      BY <3>2, <1>7, <1>10
  <2>3. QED
    BY <2>1, <2>2
<1>13. ASSUME NEW i \in (l + 1)..Len(rs) PROVE r[f - 1 + Len(mid) + i - l] = rs[i]
  <2>1. i - l \in 1..Len(B) /\ B[i - l] = rs[i]
    BY <1>2, <1>4
  <2>2. r[Len(C) + (i - l)] = B[i - l]
    BY <2>1, <1>10
  <2>3. Len(C) + (i - l) = f - 1 + Len(mid) + i - l
    BY <1>2, <1>11
  <2>4. QED
    BY <2>1, <2>2, <2>3
<1>14. ASSUME NEW i \in 1..Len(r)
       PROVE  \/ i < f
              \/ i >= f /\ i < f + Len(mid)
              \/ i >= f + Len(mid) /\ i - (f - 1 + Len(mid)) + l \in (l + 1)..Len(rs)
  <2>1. Len(r) \in Nat
    BY <1>10
  <2>2. i \in Int /\ i <= Len(r)
    BY <2>1
  <2>3. Len(r) = f - 1 + Len(mid) + Len(rs) - l
    BY <1>11
  <2>4. QED
    BY <1>2, <2>2, <2>3
<1>15. DOMAIN r = 1..Len(r)
  BY <1>10
<1>16. QED
  BY <1>10, <1>11, <1>12, <1>13, <1>14, <1>15 DEF r

Ranges == {r \in Nat \X Nat : r[1] < r[2] /\ r[2] <= Layers}

(* The ranges are in order, and no two of them touch: discard would extend *)
(* the first of two that do over the other.                                *)
Spaced(rs) == \A i, j \in DOMAIN rs : i < j => rs[i][2] < rs[j][1]
Apart(rs) == \A a, b \in DOMAIN rs : a # b => LayersOf(rs[a]) \cap LayersOf(rs[b]) = {}

RangesType ==
    /\ mips \in [0..(Mips - 1) -> Seq(Ranges)]
    /\ unwritten \in [0..(Mips - 1) -> SUBSET Nat]
    /\ disordered \in BOOLEAN

RangesInv ==
    /\ RangesType
    /\ \A i \in DOMAIN mips : Covered(mips[i]) = unwritten[i] /\ Apart(mips[i])
    /\ disordered \/ \A i \in DOMAIN mips : Spaced(mips[i])

LEMMA RangeFields ==
  ASSUME NEW rs \in Seq(Ranges), NEW i \in DOMAIN rs
  PROVE  /\ rs[i] \in Ranges
         /\ rs[i] = <<rs[i][1], rs[i][2]>>
         /\ rs[i][1] \in Nat /\ rs[i][2] \in Nat
         /\ rs[i][1] < rs[i][2] /\ rs[i][2] <= Layers
<1>1. rs[i] \in Ranges
  OBVIOUS
<1>2. QED
  BY <1>1 DEF Ranges

LEMMA SpacedApart ==
  ASSUME NEW rs \in Seq(Ranges), Spaced(rs)
  PROVE  Apart(rs) /\ Sorted(rs)
<1>1. DOMAIN rs = 1..Len(rs) /\ Len(rs) \in Nat
  OBVIOUS
<1>2. ASSUME NEW a \in DOMAIN rs, NEW b \in DOMAIN rs, a < b
      PROVE  LayersOf(rs[a]) \cap LayersOf(rs[b]) = {}
  <2>1. rs[a][2] < rs[b][1]
    BY <1>2 DEF Spaced
  <2>2. QED
    BY <2>1, RangeFields DEF LayersOf
<1>3. Apart(rs)
  <2>1. SUFFICES ASSUME NEW a \in DOMAIN rs, NEW b \in DOMAIN rs, a # b
                 PROVE  LayersOf(rs[a]) \cap LayersOf(rs[b]) = {}
    BY DEF Apart
  <2>2. a < b \/ b < a
    BY <1>1, <2>1
  <2>3. QED
    BY <2>2, <1>2
<1>4. ASSUME NEW i \in 1..(Len(rs) - 1) PROVE rs[i][2] <= rs[i + 1][1]
  <2>1. i \in DOMAIN rs /\ i + 1 \in DOMAIN rs /\ i < i + 1
    BY <1>1
  <2>2. rs[i][2] < rs[i + 1][1]
    BY <2>1 DEF Spaced
  <2>3. QED
    BY <2>1, <2>2, RangeFields
<1>5. QED
  BY <1>3, <1>4, RangeFields DEF Sorted

(* partition_point of a list in order.                                     *)
LEMMA CutAt ==
  ASSUME NEW rs \in Seq(Ranges), Spaced(rs), NEW v \in Int
  PROVE  LET k == Cardinality({i \in DOMAIN rs : rs[i][2] <= v})
         IN  k \in 0..Len(rs) /\ \A i \in DOMAIN rs : rs[i][2] <= v <=> i <= k
<1>1. DEFINE S == {i \in DOMAIN rs : rs[i][2] <= v}
<1>2. DOMAIN rs = 1..Len(rs) /\ Len(rs) \in Nat
  OBVIOUS
<1>3. ASSUME NEW i \in S, NEW j \in 1..i PROVE j \in S
  <2>1. i \in DOMAIN rs /\ j \in DOMAIN rs /\ j <= i
    BY <1>2
  <2>2. CASE j = i
    BY <2>2
  <2>3. CASE j < i
    <3>1. rs[j][2] < rs[i][1]
      BY <2>1, <2>3 DEF Spaced
    <3>2. QED
      BY <2>1, <3>1, RangeFields
  <2>4. QED
    BY <2>1, <2>2, <2>3, <1>2
<1>4. S \subseteq (0 + 1)..Len(rs)
  BY <1>2
<1>5. \A i \in S : \A j \in (0 + 1)..i : j \in S
  BY <1>3
<1>6. /\ Cardinality(S) \in Nat
      /\ S = (0 + 1)..(0 + Cardinality(S))
      /\ 0 + Cardinality(S) <= Len(rs)
  <2>1. HIDE DEF S
  <2>2. QED
    <3>1. \A a \in Nat :
             S \subseteq (a + 1)..Len(rs) /\ (\A i \in S : \A j \in (a + 1)..i : j \in S)
             => /\ Cardinality(S) \in Nat
                /\ S = (a + 1)..(a + Cardinality(S))
                /\ a <= Len(rs) => a + Cardinality(S) <= Len(rs)
      BY <1>2, Prefix
    <3>2. QED
      BY <1>2, <1>4, <1>5, <3>1
<1>7. \A i \in DOMAIN rs : i \in S <=> i <= Cardinality(S)
  <2>1. HIDE DEF S
  <2>2. QED
    BY <1>2, <1>6
<1>8. QED
  BY <1>2, <1>6, <1>7

LEMMA QueryFields ==
  ASSUME NEW n \in Nat, NEW q \in Query(n)
  PROVE  /\ q = <<q[1], q[2]>> /\ q[1] \in Nat /\ q[2] \in Nat
         /\ q[1] < q[2] /\ q[2] <= n
  BY DEF Query

LEMMA Touched ==
  ASSUME NEW rs \in Seq(Ranges), Spaced(rs), NEW q \in Query(Layers)
  PROVE  /\ Before(rs, q) \in 0..Len(rs)
         /\ Upto(rs, q) \in Before(rs, q)..Len(rs)
         /\ \A i \in DOMAIN rs : rs[i][2] <= q[1] <=> i <= Before(rs, q)
         /\ \A i \in DOMAIN rs : i > Before(rs, q) => (rs[i][1] < q[2] <=> i <= Upto(rs, q))
<1>1. DOMAIN rs = 1..Len(rs) /\ Len(rs) \in Nat /\ q[1] \in Nat /\ q[2] \in Nat
  BY QueryFields, InitRangesAssumption
<1>2. Before(rs, q) \in 0..Len(rs) /\ \A i \in DOMAIN rs : rs[i][2] <= q[1] <=> i <= Before(rs, q)
  <2>1. q[1] \in Int
    BY <1>1
  <2>2. LET k == Cardinality({i \in DOMAIN rs : rs[i][2] <= q[1]})
        IN  k \in 0..Len(rs) /\ \A i \in DOMAIN rs : rs[i][2] <= q[1] <=> i <= k
    BY <2>1, CutAt
  <2>3. QED
    BY <2>2 DEF Before
<1>3. DEFINE b == Before(rs, q)
             S == {i \in (b + 1)..Len(rs) : \A j \in (b + 1)..i : rs[j][1] < q[2]}
<1>4. b \in Nat /\ b <= Len(rs)
  BY <1>1, <1>2
<1>5. Upto(rs, q) = b + Cardinality(S)
  BY DEF Upto
<1>6. /\ S \subseteq (b + 1)..Len(rs)
      /\ \A i \in S : \A j \in (b + 1)..i : j \in S
  <2>1. HIDE DEF b
  <2>2. QED
    BY <1>1, <1>4
<1>7. /\ Cardinality(S) \in Nat
      /\ S = (b + 1)..(b + Cardinality(S))
      /\ b + Cardinality(S) <= Len(rs)
  <2>1. HIDE DEF b, S
  <2>2. QED
    BY <1>1, <1>4, <1>6, Prefix
<1>8. ASSUME NEW i \in DOMAIN rs, i > b PROVE rs[i][1] < q[2] <=> i \in S
  <2>1. ASSUME rs[i][1] < q[2], NEW j \in (b + 1)..i PROVE rs[j][1] < q[2]
    <3>1. HIDE DEF b
    <3>2. j \in DOMAIN rs /\ j <= i
      BY <1>1, <1>4
    <3>3. CASE j < i
      <4>1. rs[j][2] < rs[i][1]
        BY <3>2, <3>3 DEF Spaced
      <4>2. QED
        BY <2>1, <3>2, <4>1, <1>1, RangeFields
    <3>4. QED
      BY <1>1, <3>2, <3>3, <2>1
  <2>2. i \in (b + 1)..Len(rs) /\ i \in (b + 1)..i
    <3>1. HIDE DEF b
    <3>2. QED
      BY <1>1, <1>4, <1>8
  <2>3. QED
    BY <2>1, <2>2
<1>9. \A i \in DOMAIN rs : i > b => (rs[i][1] < q[2] <=> i <= b + Cardinality(S))
  <2>1. HIDE DEF S, b
  <2>2. QED
    BY <1>1, <1>4, <1>7, <1>8
<1>10. QED
  <2>1. HIDE DEF S
  <2>2. b + Cardinality(S) \in b..Len(rs)
    <3>1. HIDE DEF b
    <3>2. QED
      BY <1>1, <1>4, <1>7
  <2>3. QED
    BY <1>2, <1>5, <1>9, <2>2

LEMMA CoveredIs ==
  ASSUME NEW rs, NEW x
  PROVE  x \in Covered(rs) <=> \E i \in DOMAIN rs : x \in LayersOf(rs[i])
  BY DEF Covered

LEMMA ReplacedCovers ==
  ASSUME NEW rs \in Seq(Ranges), NEW mid \in Seq(Ranges),
         NEW f \in 1..(Len(rs) + 1), NEW l \in (f - 1)..Len(rs), NEW x
  PROVE  x \in Covered(Replaced(rs, f, l, mid)) <=>
            \/ \E i \in DOMAIN rs : (i < f \/ i > l) /\ x \in LayersOf(rs[i])
            \/ x \in Covered(mid)
<1>1. DEFINE r == Replaced(rs, f, l, mid)
             m == f - 1 + Len(mid)
<1>2. /\ r \in Seq(Ranges)
      /\ Len(r) = f - 1 + Len(mid) + Len(rs) - l
      /\ \A i \in 1..(f - 1) : r[i] = rs[i]
      /\ \A i \in 1..Len(mid) : r[f - 1 + i] = mid[i]
      /\ \A i \in (l + 1)..Len(rs) : r[f - 1 + Len(mid) + i - l] = rs[i]
  <2>1. LET s == Replaced(rs, f, l, mid) IN
         /\ s \in Seq(Ranges)
         /\ Len(s) = f - 1 + Len(mid) + Len(rs) - l
         /\ \A i \in 1..(f - 1) : s[i] = rs[i]
         /\ \A i \in 1..Len(mid) : s[f - 1 + i] = mid[i]
         /\ \A i \in (l + 1)..Len(rs) : s[f - 1 + Len(mid) + i - l] = rs[i]
         /\ \A i \in DOMAIN s :
               \/ i < f
               \/ i >= f /\ i < f + Len(mid)
               \/ i >= f + Len(mid) /\ i - (f - 1 + Len(mid)) + l \in (l + 1)..Len(rs)
    BY Spliced, Zenon
  <2>2. QED
    BY <2>1, Zenon
<1>3. /\ DOMAIN r = 1..Len(r) /\ DOMAIN rs = 1..Len(rs) /\ DOMAIN mid = 1..Len(mid)
      /\ Len(rs) \in Nat /\ Len(mid) \in Nat /\ f \in Int /\ l \in Int
      /\ 1 <= f /\ f - 1 <= l /\ l <= Len(rs)
  BY <1>2
<1>4. HIDE DEF r
<1>5. ASSUME NEW i \in DOMAIN r, x \in LayersOf(r[i])
      PROVE  \/ \E k \in DOMAIN rs : (k < f \/ k > l) /\ x \in LayersOf(rs[k])
             \/ x \in Covered(mid)
  <2>1. i \in Int /\ 1 <= i /\ i <= f - 1 + Len(mid) + Len(rs) - l
    <3>1. Len(r) \in Nat
      BY <1>2
    <3>2. i \in Int /\ 1 <= i /\ i <= Len(r)
      BY <3>1, <1>3
    <3>3. QED
      BY <3>2, <1>2
  <2>2. CASE i < f
    <3>1. i \in 1..(f - 1) /\ i \in DOMAIN rs
      BY <1>3, <2>1, <2>2
    <3>2. r[i] = rs[i]
      BY <3>1, <1>2
    <3>3. QED
      BY <3>1, <3>2, <1>5, <2>2
  <2>3. CASE i >= f /\ i <= m
    <3>1. i - (f - 1) \in 1..Len(mid) /\ f - 1 + (i - (f - 1)) = i
      BY <1>3, <2>1, <2>3
    <3>2. r[i] = mid[i - (f - 1)]
      BY <3>1, <1>2
    <3>3. QED
      BY <3>1, <3>2, <1>3, <1>5, CoveredIs
  <2>4. CASE i > m
    <3>1. DEFINE k == i - m + l
    <3>2. k \in (l + 1)..Len(rs) /\ f - 1 + Len(mid) + k - l = i
      BY <1>3, <2>1, <2>4
    <3>3. k \in DOMAIN rs /\ k > l
      BY <3>2, <1>3
    <3>4. HIDE DEF k
    <3>5. r[f - 1 + Len(mid) + k - l] = rs[k]
      BY <3>2, <1>2
    <3>6. r[i] = rs[k]
      BY <3>5, <3>2
    <3>7. QED
      BY <3>3, <3>6, <1>5
  <2>5. i < f \/ (i >= f /\ i <= m) \/ i > m
    BY <1>3, <2>1
  <2>6. QED
    BY <2>2, <2>3, <2>4, <2>5
<1>6. ASSUME NEW k \in DOMAIN rs, k < f \/ k > l, x \in LayersOf(rs[k])
      PROVE  \E i \in DOMAIN r : x \in LayersOf(r[i])
  <2>1. CASE k < f
    <3>1. k \in 1..(f - 1) /\ k \in 1..(f - 1 + Len(mid) + Len(rs) - l)
      BY <1>3, <2>1
    <3>2. k \in DOMAIN r /\ r[k] = rs[k]
      BY <3>1, <1>2, <1>3
    <3>3. QED
      BY <3>2, <1>6
  <2>2. CASE k > l
    <3>1. DEFINE i == f - 1 + Len(mid) + k - l
    <3>2. k \in (l + 1)..Len(rs) /\ i \in 1..(f - 1 + Len(mid) + Len(rs) - l)
      BY <1>3, <2>2
    <3>3. i \in DOMAIN r /\ r[i] = rs[k]
      BY <3>2, <1>2, <1>3
    <3>4. QED
      BY <3>3, <1>6
  <2>3. QED
    BY <1>6, <2>1, <2>2
<1>7. ASSUME NEW j \in DOMAIN mid, x \in LayersOf(mid[j])
      PROVE  \E i \in DOMAIN r : x \in LayersOf(r[i])
  <2>1. j \in 1..Len(mid) /\ f - 1 + j \in 1..(f - 1 + Len(mid) + Len(rs) - l)
    BY <1>3
  <2>2. f - 1 + j \in DOMAIN r /\ r[f - 1 + j] = mid[j]
    BY <2>1, <1>2, <1>3
  <2>3. QED
    BY <2>2, <1>7
<1>8. x \in Covered(r) <=> \/ \E i \in DOMAIN rs : (i < f \/ i > l) /\ x \in LayersOf(rs[i])
                           \/ x \in Covered(mid)
  BY <1>5, <1>6, <1>7, CoveredIs
<1>9. QED
  BY <1>8 DEF r

LEMMA ReplacedSpaced ==
  ASSUME NEW rs \in Seq(Ranges), NEW mid \in Seq(Ranges), Spaced(rs), Spaced(mid),
         NEW f \in 1..(Len(rs) + 1), NEW l \in (f - 1)..Len(rs),
         \A i \in DOMAIN rs, j \in DOMAIN mid :
            (i < f => rs[i][2] < mid[j][1]) /\ (i > l => mid[j][2] < rs[i][1])
  PROVE  Replaced(rs, f, l, mid) \in Seq(Ranges) /\ Spaced(Replaced(rs, f, l, mid))
<1>1. DEFINE r == Replaced(rs, f, l, mid)
             m == f - 1 + Len(mid)
<1>2. /\ r \in Seq(Ranges)
      /\ Len(r) = f - 1 + Len(mid) + Len(rs) - l
      /\ \A i \in 1..(f - 1) : r[i] = rs[i]
      /\ \A i \in 1..Len(mid) : r[f - 1 + i] = mid[i]
      /\ \A i \in (l + 1)..Len(rs) : r[f - 1 + Len(mid) + i - l] = rs[i]
  <2>1. LET s == Replaced(rs, f, l, mid) IN
         /\ s \in Seq(Ranges)
         /\ Len(s) = f - 1 + Len(mid) + Len(rs) - l
         /\ \A i \in 1..(f - 1) : s[i] = rs[i]
         /\ \A i \in 1..Len(mid) : s[f - 1 + i] = mid[i]
         /\ \A i \in (l + 1)..Len(rs) : s[f - 1 + Len(mid) + i - l] = rs[i]
         /\ \A i \in DOMAIN s :
               \/ i < f
               \/ i >= f /\ i < f + Len(mid)
               \/ i >= f + Len(mid) /\ i - (f - 1 + Len(mid)) + l \in (l + 1)..Len(rs)
    BY Spliced, Zenon
  <2>2. QED
    BY <2>1, Zenon
<1>3. /\ DOMAIN r = 1..Len(r) /\ DOMAIN rs = 1..Len(rs) /\ DOMAIN mid = 1..Len(mid)
      /\ Len(rs) \in Nat /\ Len(mid) \in Nat /\ f \in Int /\ l \in Int
      /\ 1 <= f /\ f - 1 <= l /\ l <= Len(rs)
  BY <1>2
<1>4. HIDE DEF r
<1>5. ASSUME NEW i \in DOMAIN r
      PROVE  /\ i \in Int
             /\ \/ i < f /\ i \in DOMAIN rs /\ r[i] = rs[i]
                \/ i >= f /\ i <= m /\ i - (f - 1) \in DOMAIN mid /\ r[i] = mid[i - (f - 1)]
                \/ i > m /\ i - m + l \in DOMAIN rs /\ i - m + l > l /\ r[i] = rs[i - m + l]
  <2>1. i \in Int /\ 1 <= i /\ i <= f - 1 + Len(mid) + Len(rs) - l
    <3>1. Len(r) \in Nat
      BY <1>2
    <3>2. i \in Int /\ 1 <= i /\ i <= Len(r)
      BY <3>1, <1>3
    <3>3. QED
      BY <3>2, <1>2
  <2>2. CASE i < f
    <3>1. i \in 1..(f - 1) /\ i \in DOMAIN rs
      BY <1>3, <2>1, <2>2
    <3>2. QED
      BY <3>1, <1>2, <2>1, <2>2
  <2>3. CASE i >= f /\ i <= m
    <3>1. i - (f - 1) \in 1..Len(mid) /\ f - 1 + (i - (f - 1)) = i
      BY <1>3, <2>1, <2>3
    <3>2. r[i] = mid[i - (f - 1)]
      BY <3>1, <1>2
    <3>3. QED
      BY <3>1, <3>2, <1>3, <2>1, <2>3
  <2>4. CASE i > m
    <3>1. DEFINE k == i - m + l
    <3>2. k \in (l + 1)..Len(rs) /\ f - 1 + Len(mid) + k - l = i
      BY <1>3, <2>1, <2>4
    <3>3. k \in DOMAIN rs /\ k > l
      BY <3>2, <1>3
    <3>4. r[i] = rs[k]
      <4>1. HIDE DEF k
      <4>2. r[f - 1 + Len(mid) + k - l] = rs[k]
        BY <3>2, <1>2
      <4>3. QED
        BY <4>2, <3>2
    <3>5. QED
      BY <3>3, <3>4, <2>1, <2>4
  <2>5. i < f \/ (i >= f /\ i <= m) \/ i > m
    BY <1>3, <2>1
  <2>6. QED
    BY <2>2, <2>3, <2>4, <2>5
<1>6. ASSUME NEW i \in DOMAIN r, NEW j \in DOMAIN r, i < j
      PROVE  r[i][2] < r[j][1]
  <2>0. i \in Int /\ j \in Int /\ m \in Int
    BY <1>3, <1>5
  <2>1. CASE i < f /\ j < f
    BY <1>3, <1>5, <1>6, <2>0, <2>1 DEF Spaced
  <2>2. CASE i < f /\ j >= f /\ j <= m
    <3>1. r[i] = rs[i] /\ i \in DOMAIN rs
      BY <1>3, <1>5, <2>0, <2>2
    <3>2. r[j] = mid[j - (f - 1)] /\ j - (f - 1) \in DOMAIN mid
      BY <1>3, <1>5, <2>0, <2>2
    <3>3. QED
      BY <3>1, <3>2, <2>2
  <2>3. CASE i < f /\ j > m
    <3>0. ~(i >= f) /\ ~(i > m)
      BY <1>3, <2>0, <2>3
    <3>1. r[i] = rs[i] /\ i \in DOMAIN rs
      BY <1>5, <3>0
    <3>2. r[j] = rs[j - m + l] /\ j - m + l \in DOMAIN rs /\ j - m + l > l
      BY <1>3, <1>5, <2>0, <2>3
    <3>3. i < j - m + l
      BY <3>2, <2>0, <2>3, <1>3
    <3>4. QED
      BY <3>1, <3>2, <3>3 DEF Spaced
  <2>4. CASE i >= f /\ i <= m /\ j <= m
    <3>1. r[i] = mid[i - (f - 1)] /\ i - (f - 1) \in DOMAIN mid
      BY <1>3, <1>5, <2>0, <2>4
    <3>2. r[j] = mid[j - (f - 1)] /\ j - (f - 1) \in DOMAIN mid
      BY <1>3, <1>5, <1>6, <2>0, <2>4
    <3>3. i - (f - 1) < j - (f - 1)
      BY <2>0, <1>3, <1>6
    <3>4. QED
      BY <3>1, <3>2, <3>3 DEF Spaced
  <2>5. CASE i >= f /\ i <= m /\ j > m
    <3>1. r[i] = mid[i - (f - 1)] /\ i - (f - 1) \in DOMAIN mid
      BY <1>3, <1>5, <2>0, <2>5
    <3>2. r[j] = rs[j - m + l] /\ j - m + l \in DOMAIN rs /\ j - m + l > l
      <4>1. j > m /\ j \in DOMAIN r
        BY <2>0, <2>5
      <4>2. r[j] = rs[j - m + l]
        BY <4>1, <1>3, <1>5
      <4>3. j - m + l \in DOMAIN rs /\ j - m + l > l
        BY <4>1, <1>3, <1>5
      <4>4. QED
        BY <4>2, <4>3
    <3>3. QED
      BY <3>1, <3>2
  <2>6. CASE i > m
    <3>1. r[i] = rs[i - m + l] /\ i - m + l \in DOMAIN rs
      BY <1>3, <1>5, <2>0, <2>6
    <3>2. r[j] = rs[j - m + l] /\ j - m + l \in DOMAIN rs
      <4>1. j > m /\ j \in DOMAIN r
        BY <2>0, <2>6, <1>3, <1>6
      <4>2. QED
        BY <4>1, <1>3, <1>5
    <3>3. i - m + l < j - m + l
      BY <2>0, <1>3, <1>6
    <3>4. QED
      BY <3>1, <3>2, <3>3 DEF Spaced
  <2>7. QED
    BY <1>3, <1>6, <2>0, <2>1, <2>2, <2>3, <2>4, <2>5, <2>6
<1>7. Spaced(r)
  BY <1>6 DEF Spaced
<1>8. QED
  BY <1>2, <1>7 DEF r

LEMMA Joined ==
  ASSUME NEW x, NEW y
  PROVE  /\ <<>> \o <<>> = <<>> /\ <<x>> \o <<>> = <<x>>
         /\ <<>> \o <<y>> = <<y>> /\ <<x>> \o <<y>> = <<x, y>>
<1>1. DEFINE S == {x, y}
             c == <<x>> \o <<y>>
<1>2. <<x>> \in Seq(S) /\ <<y>> \in Seq(S) /\ <<x, y>> \in Seq(S)
  OBVIOUS
<1>3. /\ c \in Seq(S)
      /\ Len(c) = Len(<<x>>) + Len(<<y>>)
      /\ \A i \in 1..(Len(<<x>>) + Len(<<y>>)) :
            c[i] = IF i <= Len(<<x>>) THEN <<x>>[i] ELSE <<y>>[i - Len(<<x>>)]
  BY <1>2, ConcatProperties
<1>4. Len(<<x>>) = 1 /\ Len(<<y>>) = 1 /\ Len(<<x, y>>) = 2
  OBVIOUS
<1>5. HIDE DEF c
<1>6. c[1] = x /\ c[2] = y /\ Len(c) = 2
  BY <1>3, <1>4
<1>7. \A i \in 1..2 : c[i] = <<x, y>>[i]
  BY <1>6
<1>8. c = <<x, y>>
  BY <1>2, <1>3, <1>4, <1>6, <1>7, SeqEqual
<1>9. <<>> \o <<>> = <<>>
  OBVIOUS
<1>10. <<x>> \o <<>> = <<x>>
  OBVIOUS
<1>11. <<>> \o <<y>> = <<y>>
  OBVIOUS
<1>12. QED
  BY <1>8, <1>9, <1>10, <1>11 DEF c

LEMMA DrainedIs ==
  ASSUME NEW rs \in Seq(Ranges), Spaced(rs), NEW q \in Query(Layers)
  PROVE  /\ Drained(rs, q) \in Seq(Ranges) /\ Spaced(Drained(rs, q))
         /\ Covered(Drained(rs, q)) = Covered(rs) \ LayersOf(q)
<1>1. DEFINE b == Before(rs, q)
             first == b + 1
             u == Upto(rs, q)
             a == rs[first][1]
             z == rs[u][2]
             left == IF a >= q[1] THEN <<>> ELSE <<<<a, q[1]>>>>
             right == IF z <= q[2] THEN <<>> ELSE <<<<q[2], z>>>>
             mid == left \o right
<1>2. /\ b \in 0..Len(rs) /\ u \in b..Len(rs)
      /\ \A i \in DOMAIN rs : rs[i][2] <= q[1] <=> i <= b
      /\ \A i \in DOMAIN rs : i > b => (rs[i][1] < q[2] <=> i <= u)
  BY Touched
<1>3. /\ DOMAIN rs = 1..Len(rs) /\ Len(rs) \in Nat /\ Layers \in Nat
      /\ q[1] \in Nat /\ q[2] \in Nat /\ q[1] < q[2] /\ q[2] <= Layers
  BY QueryFields, InitRangesAssumption
<1>4. Drained(rs, q) = IF u < first THEN rs
                       ELSE SubSeq(rs, 1, first - 1) \o left \o right
                               \o SubSeq(rs, u + 1, Len(rs))
  BY DEF Drained
<1>5. b \in Nat /\ u \in Nat /\ b <= u /\ u <= Len(rs) /\ first = b + 1
  BY <1>2, <1>3
<1> HIDE DEF b, first, u
<1>6. CASE u < first
  <2>1. \A i \in DOMAIN rs : rs[i][2] <= q[1] \/ rs[i][1] >= q[2]
    <3>1. SUFFICES ASSUME NEW i \in DOMAIN rs PROVE rs[i][2] <= q[1] \/ rs[i][1] >= q[2]
      OBVIOUS
    <3>2. rs[i][1] \in Nat /\ i \in Int
      BY <1>3, RangeFields
    <3>3. i <= b \/ i > u
      BY <3>2, <1>5, <1>6
    <3>4. QED
      BY <1>2, <1>3, <1>5, <3>2, <3>3
  <2>2. \A i \in DOMAIN rs : LayersOf(rs[i]) \cap LayersOf(q) = {}
    <3>1. SUFFICES ASSUME NEW i \in DOMAIN rs PROVE LayersOf(rs[i]) \cap LayersOf(q) = {}
      OBVIOUS
    <3>2. rs[i][1] \in Nat /\ rs[i][2] \in Nat
      BY RangeFields
    <3>3. QED
      BY <2>1, <3>2, <1>3 DEF LayersOf
  <2>3. Covered(rs) \cap LayersOf(q) = {}
    BY <2>2, CoveredIs
  <2>4. QED
    BY <1>4, <1>6, <2>3
<1>7. CASE u >= first
  <2>1. first \in DOMAIN rs /\ u \in DOMAIN rs
    BY <1>3, <1>5, <1>7
  <2>2. /\ a \in Nat /\ z \in Nat /\ a < q[2] /\ z > q[1] /\ z <= Layers
        /\ rs[first] \in Ranges /\ rs[u] \in Ranges
    <3>1. a \in Nat /\ z \in Nat /\ z <= Layers /\ rs[first] \in Ranges /\ rs[u] \in Ranges
      BY <2>1, RangeFields
    <3>2. first > b /\ first <= u /\ ~(u <= b)
      BY <1>5, <1>7
    <3>3. QED
      BY <3>1, <3>2, <2>1, <1>2, <1>3
  <2>3. HIDE DEF a, z
  <2>4. /\ a < q[1] => <<a, q[1]>> \in Ranges
        /\ q[2] < z => <<q[2], z>> \in Ranges
    BY <2>2, <1>3 DEF Ranges
  <2>5. left \in Seq(Ranges) /\ right \in Seq(Ranges)
    BY <2>2, <2>4, <1>3
  <2>6. /\ mid \in Seq(Ranges)
        /\ \A j \in DOMAIN mid :
              \/ a < q[1] /\ mid[j] = <<a, q[1]>>
              \/ q[2] < z /\ mid[j] = <<q[2], z>>
        /\ a < q[1] => \E j \in DOMAIN mid : mid[j] = <<a, q[1]>>
        /\ q[2] < z => \E j \in DOMAIN mid : mid[j] = <<q[2], z>>
        /\ \A i, j \in DOMAIN mid : i < j => mid[i] = <<a, q[1]>> /\ mid[j] = <<q[2], z>>
    <3>1. DEFINE p == <<a, q[1]>>
                 s == <<q[2], z>>
    <3>2. (a < q[1] => p \in Ranges) /\ (q[2] < z => s \in Ranges)
      BY <2>4
    <3>3. \/ a >= q[1] /\ z <= q[2] /\ mid = <<>>
          \/ a < q[1] /\ z <= q[2] /\ mid = <<p>>
          \/ a >= q[1] /\ q[2] < z /\ mid = <<s>>
          \/ a < q[1] /\ q[2] < z /\ mid = <<p, s>>
      <4>1. HIDE DEF p, s
      <4>2. /\ a >= q[1] \/ a < q[1]
            /\ z <= q[2] \/ q[2] < z
        BY <2>2, <1>3
      <4>3. /\ left = IF a >= q[1] THEN <<>> ELSE <<p>>
            /\ right = IF z <= q[2] THEN <<>> ELSE <<s>>
        BY DEF p, s
      <4>4. ~(a >= q[1] /\ a < q[1]) /\ ~(z <= q[2] /\ q[2] < z)
        BY <2>2, <1>3
      <4>5. HIDE DEF left, right
      <4>6. QED
        BY <4>2, <4>3, <4>4, Joined
    <3>4. HIDE DEF p, s, mid
    <3>5. ~(a >= q[1] /\ a < q[1]) /\ ~(z <= q[2] /\ q[2] < z)
      BY <2>2, <1>3
    <3>6. /\ mid \in Seq(Ranges)
          /\ \A j \in DOMAIN mid : (a < q[1] /\ mid[j] = p) \/ (q[2] < z /\ mid[j] = s)
          /\ a < q[1] => \E j \in DOMAIN mid : mid[j] = p
          /\ q[2] < z => \E j \in DOMAIN mid : mid[j] = s
          /\ \A i, j \in DOMAIN mid : i < j => mid[i] = p /\ mid[j] = s
      <4>1. CASE a >= q[1] /\ z <= q[2] /\ mid = <<>>
        BY <4>1, <3>5
      <4>2. CASE a < q[1] /\ z <= q[2] /\ mid = <<p>>
        BY <4>2, <3>5, <3>2
      <4>3. CASE a >= q[1] /\ q[2] < z /\ mid = <<s>>
        BY <4>3, <3>5, <3>2
      <4>4. CASE a < q[1] /\ q[2] < z /\ mid = <<p, s>>
        BY <4>4, <3>5, <3>2
      <4>5. QED
        BY <3>3, <4>1, <4>2, <4>3, <4>4
    <3>7. QED
      BY <3>6 DEF p, s
  <2>7. Drained(rs, q) = Replaced(rs, first, u, mid)
    <3>1. Drained(rs, q) = ((SubSeq(rs, 1, first - 1) \o left) \o right)
                              \o SubSeq(rs, u + 1, Len(rs))
      <4>1. ~(u < first)
        BY <1>5, <1>7
      <4>2. HIDE DEF left, right
      <4>3. QED
        BY <1>4, <4>1
    <3>2. SubSeq(rs, 1, first - 1) \in Seq(Ranges)
      <4>1. first - 1 = b /\ \A i \in 1..b : rs[i] \in Ranges
        BY <1>3, <1>5
      <4>2. QED
        BY <4>1, <1>5, SubSeqProperties
    <3>3. (SubSeq(rs, 1, first - 1) \o left) \o right = SubSeq(rs, 1, first - 1) \o mid
      <4>1. DEFINE h == SubSeq(rs, 1, first - 1)
      <4>2. h \in Seq(Ranges)
        BY <3>2
      <4>3. HIDE DEF left, right, h
      <4>4. (h \o left) \o right = h \o (left \o right)
        BY <4>2, <2>5, ConcatAssociative
      <4>5. QED
        BY <4>4 DEF h
    <3>4. HIDE DEF left, right, mid
    <3>5. Replaced(rs, first, u, mid)
             = (SubSeq(rs, 1, first - 1) \o mid) \o SubSeq(rs, u + 1, Len(rs))
      BY DEF Replaced
    <3>6. QED
      BY <3>1, <3>3, <3>5
  <2>8. HIDE DEF mid
  <2>9. first \in 1..(Len(rs) + 1) /\ u \in (first - 1)..Len(rs)
    BY <1>3, <1>5
  <2>10. Spaced(mid)
    BY <2>6, <1>3 DEF Spaced
  <2>11. \A i \in DOMAIN rs : /\ i < first => rs[i][2] < a
                              /\ i > u => z < rs[i][1]
    BY <2>1, <1>3, <1>5 DEF Spaced, a, z
  <2>12. ASSUME NEW i \in DOMAIN rs, NEW j \in DOMAIN mid
         PROVE  (i < first => rs[i][2] < mid[j][1]) /\ (i > u => mid[j][2] < rs[i][1])
    <3>1. i \in Int /\ rs[i][2] \in Nat /\ rs[i][1] \in Nat
      BY <1>3, RangeFields
    <3>2. \/ a < q[1] /\ mid[j][1] = a /\ mid[j][2] = q[1]
          \/ q[2] < z /\ mid[j][1] = q[2] /\ mid[j][2] = z
      BY <2>6
    <3>3. QED
      BY <3>1, <3>2, <2>2, <2>11, <1>3
  <2>13. Drained(rs, q) \in Seq(Ranges) /\ Spaced(Drained(rs, q))
    <3>1. mid \in Seq(Ranges)
      BY <2>6
    <3>2. Replaced(rs, first, u, mid) \in Seq(Ranges) /\ Spaced(Replaced(rs, first, u, mid))
      BY <3>1, <2>9, <2>10, <2>12, ReplacedSpaced
    <3>3. QED
      BY <3>2, <2>7
  <2>14. ASSUME NEW x PROVE x \in Covered(Drained(rs, q)) <=> x \in Covered(rs) \ LayersOf(q)
    <3>1. x \in Covered(Drained(rs, q)) <=>
             \/ \E i \in DOMAIN rs : (i < first \/ i > u) /\ x \in LayersOf(rs[i])
             \/ x \in Covered(mid)
      <4>1. mid \in Seq(Ranges)
        BY <2>6
      <4>2. x \in Covered(Replaced(rs, first, u, mid)) <=>
             \/ \E i \in DOMAIN rs : (i < first \/ i > u) /\ x \in LayersOf(rs[i])
             \/ x \in Covered(mid)
        BY <4>1, <2>9, ReplacedCovers
      <4>3. QED
        BY <4>2, <2>7
    <3>2. x \in Covered(mid) <=> \/ a < q[1] /\ x \in a..(q[1] - 1)
                                 \/ q[2] < z /\ x \in q[2]..(z - 1)
      <4>1. <<a, q[1]>>[1] = a /\ <<a, q[1]>>[2] = q[1] /\ <<q[2], z>>[1] = q[2] /\ <<q[2], z>>[2] = z
        OBVIOUS
      <4>2. QED
        BY <2>6, <4>1, CoveredIs DEF LayersOf
    <3>3. ASSUME NEW i \in DOMAIN rs, i < first \/ i > u, x \in LayersOf(rs[i])
          PROVE  x \in Covered(rs) \ LayersOf(q)
      <4>1. rs[i][1] \in Nat /\ rs[i][2] \in Nat /\ i \in Int
        BY <1>3, RangeFields
      <4>2. rs[i][2] <= q[1] \/ rs[i][1] >= q[2]
        BY <4>1, <3>3, <1>2, <1>3, <1>5
      <4>3. QED
        BY <4>1, <4>2, <3>3, <1>3, CoveredIs DEF LayersOf
    <3>4. ASSUME a < q[1], x \in a..(q[1] - 1) PROVE x \in Covered(rs) \ LayersOf(q)
      <4>1. q[1] < rs[first][2] /\ rs[first][2] \in Nat
        BY <2>1, <1>2, <1>3, <1>5, RangeFields
      <4>2. x \in LayersOf(rs[first])
        BY <4>1, <3>4, <2>2, <1>3 DEF LayersOf, a
      <4>3. x \notin LayersOf(q)
        BY <3>4, <2>2, <1>3 DEF LayersOf
      <4>4. QED
        BY <2>1, <4>2, <4>3, CoveredIs
    <3>5. ASSUME q[2] < z, x \in q[2]..(z - 1) PROVE x \in Covered(rs) \ LayersOf(q)
      <4>1. rs[u][1] < q[2] /\ rs[u][1] \in Nat
        <5>1. u > b
          BY <1>5, <1>7
        <5>2. QED
          BY <2>1, <5>1, <1>2, <1>3, <1>5, RangeFields
      <4>2. x \in LayersOf(rs[u])
        BY <4>1, <3>5, <2>2, <1>3 DEF LayersOf, z
      <4>3. x \notin LayersOf(q)
        BY <3>5, <2>2, <1>3 DEF LayersOf
      <4>4. QED
        BY <2>1, <4>2, <4>3, CoveredIs
    <3>6. ASSUME NEW i \in DOMAIN rs, x \in LayersOf(rs[i]), x \notin LayersOf(q),
                 ~(i < first \/ i > u)
          PROVE  (a < q[1] /\ x \in a..(q[1] - 1)) \/ (q[2] < z /\ x \in q[2]..(z - 1))
      <4>1. /\ i \in Int /\ rs[i][1] \in Nat /\ rs[i][2] \in Nat
            /\ x \in Nat /\ rs[i][1] <= x /\ x < rs[i][2]
        BY <3>6, <1>3, RangeFields DEF LayersOf
      <4>2. first <= i /\ i <= u
        BY <4>1, <3>6, <1>5
      <4>3. a <= rs[i][1] /\ rs[i][2] <= z
        <5>1. i = first \/ a <= rs[i][1]
          <6>1. SUFFICES ASSUME first < i PROVE rs[first][2] < rs[i][1]
            BY <2>1, <4>1, <4>2, <1>5, RangeFields DEF a
          <6>2. QED
            BY <2>1, <6>1 DEF Spaced
        <5>2. i = u \/ rs[i][2] <= z
          <6>1. SUFFICES ASSUME i < u PROVE rs[i][2] < rs[u][1]
            BY <2>1, <4>1, <4>2, <1>5, RangeFields DEF z
          <6>2. QED
            BY <2>1, <6>1 DEF Spaced
        <5>3. QED
          BY <5>1, <5>2, <4>1 DEF a, z
      <4>4. x < q[1] \/ x >= q[2]
        BY <3>6, <4>1, <1>3 DEF LayersOf
      <4>5. QED
        BY <4>1, <4>3, <4>4, <2>2, <1>3
    <3>7. QED
      BY <3>1, <3>2, <3>3, <3>4, <3>5, <3>6, CoveredIs
  <2>15. QED
    BY <2>13, <2>14
<1>8. QED
  BY <1>5, <1>6, <1>7

(* A list with one range replaced by a wider one that keeps the distance.  *)
LEMMA WidenedIs ==
  ASSUME NEW rs \in Seq(Ranges), Spaced(rs), NEW at \in DOMAIN rs, NEW r \in Ranges,
         NEW pos \in Nat, LayersOf(r) = LayersOf(rs[at]) \cup {pos},
         \A i \in DOMAIN rs : /\ i < at => rs[i][2] < r[1]
                              /\ i > at => r[2] < rs[i][1]
  PROVE  /\ [rs EXCEPT ![at] = r] \in Seq(Ranges) /\ Spaced([rs EXCEPT ![at] = r])
         /\ Covered([rs EXCEPT ![at] = r]) = Covered(rs) \cup {pos}
<1>1. DEFINE w == [rs EXCEPT ![at] = r]
<1>2. /\ w \in Seq(Ranges) /\ DOMAIN w = DOMAIN rs /\ w[at] = r
      /\ \A i \in DOMAIN rs : i # at => w[i] = rs[i]
  OBVIOUS
<1>3. DOMAIN rs = 1..Len(rs) /\ Len(rs) \in Nat
  OBVIOUS
<1>4. HIDE DEF w
<1>5. ASSUME NEW i \in DOMAIN rs, NEW j \in DOMAIN rs, i < j PROVE w[i][2] < w[j][1]
  <2>1. CASE i # at /\ j # at
    BY <1>2, <1>5, <2>1 DEF Spaced
  <2>2. CASE i = at
    BY <1>2, <1>3, <1>5, <2>2
  <2>3. CASE j = at
    BY <1>2, <1>3, <1>5, <2>3
  <2>4. QED
    BY <2>1, <2>2, <2>3
<1>6. Spaced(w)
  BY <1>2, <1>5 DEF Spaced
<1>7. Covered(w) = Covered(rs) \cup {pos}
  <2>1. ASSUME NEW x PROVE x \in Covered(w) <=> x \in Covered(rs) \cup {pos}
    <3>1. x \in Covered(w) <=> \E i \in DOMAIN rs : x \in LayersOf(w[i])
      BY <1>2, CoveredIs
    <3>2. x \in Covered(rs) <=> \E i \in DOMAIN rs : x \in LayersOf(rs[i])
      BY CoveredIs
    <3>3. \A i \in DOMAIN rs : x \in LayersOf(w[i]) <=>
             x \in LayersOf(rs[i]) \/ (i = at /\ x = pos)
      BY <1>2
    <3>4. QED
      BY <3>1, <3>2, <3>3
  <2>2. QED
    BY <2>1
<1>8. QED
  BY <1>2, <1>6, <1>7 DEF w

(* A range of its own at the end of the list.                              *)
LEMMA AloneIs ==
  ASSUME NEW rs \in Seq(Ranges), Spaced(rs), NEW pos \in 0..(Layers - 1),
         \A i \in DOMAIN rs : rs[i][2] < pos \/ rs[i][1] > pos + 1
  PROVE  LET w == Append(rs, <<pos, pos + 1>>) IN
         /\ w \in Seq(Ranges) /\ Apart(w)
         /\ Covered(w) = Covered(rs) \cup {pos}
         /\ Sorted(w) => Spaced(w)
<1>1. DEFINE r == <<pos, pos + 1>>
             w == Append(rs, r)
             n == Len(rs) + 1
<1>2. r \in Ranges /\ pos \in Nat
  BY InitRangesAssumption DEF Ranges
<1>3. r[1] = pos /\ r[2] = pos + 1
  OBVIOUS
<1>4. LayersOf(r) = {pos}
  BY <1>2, <1>3 DEF LayersOf
<1>5. HIDE DEF r
<1>6. /\ w \in Seq(Ranges) /\ DOMAIN w = 1..n /\ w[n] = r
      /\ \A i \in 1..Len(rs) : w[i] = rs[i]
      /\ DOMAIN rs = 1..Len(rs) /\ Len(rs) \in Nat /\ Len(w) = n
  BY <1>2
<1>7. HIDE DEF w
<1>8. \A i \in 1..n : i \in 1..Len(rs) \/ i = n
  BY <1>6
<1>9. ASSUME NEW i \in DOMAIN rs PROVE LayersOf(rs[i]) \cap LayersOf(r) = {}
  <2>1. rs[i][1] \in Nat /\ rs[i][2] \in Nat
    BY RangeFields
  <2>2. pos \notin LayersOf(rs[i])
    BY <2>1, <1>2 DEF LayersOf
  <2>3. QED
    BY <2>2, <1>4
<1>10. Apart(w)
  <2>1. Apart(rs)
    BY SpacedApart
  <2>2. SUFFICES ASSUME NEW a \in DOMAIN w, NEW b \in DOMAIN w, a # b
                 PROVE  LayersOf(w[a]) \cap LayersOf(w[b]) = {}
    BY DEF Apart
  <2>3. CASE a \in 1..Len(rs) /\ b \in 1..Len(rs)
    BY <2>1, <2>2, <2>3, <1>6 DEF Apart
  <2>4. CASE a = n /\ b \in 1..Len(rs)
    BY <2>4, <1>6, <1>9
  <2>5. CASE b = n /\ a \in 1..Len(rs)
    BY <2>5, <1>6, <1>9
  <2>6. QED
    BY <2>2, <2>3, <2>4, <2>5, <1>6, <1>8
<1>11. Covered(w) = Covered(rs) \cup {pos}
  <2>1. ASSUME NEW x PROVE x \in Covered(w) <=> x \in Covered(rs) \cup {pos}
    <3>1. x \in Covered(w) <=> \E i \in DOMAIN w : x \in LayersOf(w[i])
      BY CoveredIs
    <3>2. x \in Covered(rs) <=> \E i \in DOMAIN rs : x \in LayersOf(rs[i])
      BY CoveredIs
    <3>3. n \in DOMAIN w /\ \A i \in DOMAIN rs : i \in DOMAIN w
      BY <1>6
    <3>4. QED
      BY <3>1, <3>2, <3>3, <1>4, <1>6, <1>8
  <2>2. QED
    BY <2>1
<1>12. ASSUME Sorted(w) PROVE Spaced(w)
  <2>1. SUFFICES ASSUME NEW i \in DOMAIN w, NEW j \in DOMAIN w, i < j
                 PROVE  w[i][2] < w[j][1]
    BY DEF Spaced
  <2>2. CASE j \in 1..Len(rs)
    <3>1. i \in 1..Len(rs)
      BY <2>1, <2>2, <1>6
    <3>2. QED
      BY <2>1, <2>2, <3>1, <1>6 DEF Spaced
  <2>3. CASE j = n
    <3>1. i \in 1..Len(rs) /\ Len(rs) \in DOMAIN rs /\ Len(rs) \in 1..(Len(w) - 1)
      BY <2>1, <2>3, <1>6
    <3>2. w[Len(rs)][2] <= w[Len(rs) + 1][1]
      BY <3>1, <1>12 DEF Sorted
    <3>3. rs[Len(rs)][2] <= pos
      BY <3>1, <3>2, <1>3, <1>6
    <3>4. rs[Len(rs)][1] \in Nat /\ rs[Len(rs)][2] \in Nat /\ rs[Len(rs)][1] < rs[Len(rs)][2]
      BY <3>1, RangeFields
    <3>5. rs[Len(rs)][2] < pos
      BY <3>1, <3>3, <3>4, <1>2
    <3>6. i = Len(rs) \/ rs[i][2] < rs[Len(rs)][1]
      <4>1. i = Len(rs) \/ i < Len(rs)
        BY <3>1, <1>6
      <4>2. QED
        BY <4>1, <3>1, <1>6 DEF Spaced
    <3>7. rs[i][2] \in Nat
      BY <3>1, <1>6, RangeFields
    <3>8. QED
      BY <3>1, <3>4, <3>5, <3>6, <3>7, <2>3, <1>2, <1>3, <1>6
  <2>4. QED
    BY <2>1, <2>2, <2>3, <1>6, <1>8
<1>13. QED
  BY <1>6, <1>10, <1>11, <1>12 DEF w, r

LEMMA MergedIs ==
  ASSUME NEW rs \in Seq(Ranges), Spaced(rs), NEW at \in DOMAIN rs, NEW l \in DOMAIN rs,
         at < l /\ l <= at + 1, NEW pos \in Nat, rs[at][2] = pos, rs[l][1] = pos + 1
  PROVE  LET w == Replaced(rs, at, l, <<<<rs[at][1], rs[l][2]>>>>) IN
         w \in Seq(Ranges) /\ Spaced(w) /\ Covered(w) = Covered(rs) \cup {pos}
<1>1. DEFINE r == <<rs[at][1], rs[l][2]>>
             mid == <<r>>
             w == Replaced(rs, at, l, mid)
<1>2. /\ rs[at][1] \in Nat /\ rs[l][2] \in Nat /\ rs[at][1] < pos /\ pos + 1 < rs[l][2]
      /\ rs[l][2] <= Layers
  BY RangeFields
<1>3. r \in Ranges /\ r[1] = rs[at][1] /\ r[2] = rs[l][2]
  BY <1>2, InitRangesAssumption DEF Ranges
<1>4. HIDE DEF r
<1>5. mid \in Seq(Ranges) /\ DOMAIN mid = {1} /\ mid[1] = r
  BY <1>3
<1>6. HIDE DEF mid
<1>7. /\ DOMAIN rs = 1..Len(rs) /\ Len(rs) \in Nat
      /\ at \in 1..(Len(rs) + 1) /\ l \in (at - 1)..Len(rs)
  OBVIOUS
<1>8. Spaced(mid)
  BY <1>5 DEF Spaced
<1>9. ASSUME NEW i \in DOMAIN rs, NEW j \in DOMAIN mid
      PROVE  (i < at => rs[i][2] < mid[j][1]) /\ (i > l => mid[j][2] < rs[i][1])
  BY <1>3, <1>5 DEF Spaced
<1>10. w \in Seq(Ranges) /\ Spaced(w)
  BY <1>5, <1>7, <1>8, <1>9, ReplacedSpaced
<1>11. ASSUME NEW x PROVE x \in Covered(w) <=> x \in Covered(rs) \cup {pos}
  <2>1. x \in Covered(w) <=> \/ \E i \in DOMAIN rs : (i < at \/ i > l) /\ x \in LayersOf(rs[i])
                             \/ x \in Covered(mid)
    BY <1>5, <1>7, ReplacedCovers
  <2>2. x \in Covered(mid) <=> x \in LayersOf(r)
    BY <1>5, CoveredIs
  <2>3. x \in LayersOf(r) <=> x \in LayersOf(rs[at]) \/ x \in LayersOf(rs[l]) \/ x = pos
    BY <1>2, <1>3 DEF LayersOf
  <2>4. \A i \in DOMAIN rs : i < at \/ i = at \/ i = l \/ i > l
    BY <1>7
  <2>5. x \in Covered(rs) <=> \E i \in DOMAIN rs : x \in LayersOf(rs[i])
    BY CoveredIs
  <2>6. HIDE DEF w
  <2>7. QED
    BY <2>1, <2>2, <2>3, <2>4, <2>5
<1>12. Covered(w) = Covered(rs) \cup {pos}
  <2>1. HIDE DEF w
  <2>2. QED
    BY <1>11
<1>13. QED
  BY <1>10, <1>12 DEF w, mid, r

LEMMA DiscardedIs ==
  ASSUME NEW rs \in Seq(Ranges), Spaced(rs), NEW pos \in 0..(Layers - 1)
  PROVE  /\ Discarded(rs, pos) \in Seq(Ranges) /\ Apart(Discarded(rs, pos))
         /\ Covered(Discarded(rs, pos)) = Covered(rs) \cup {pos}
         /\ Sorted(Discarded(rs, pos)) => Spaced(Discarded(rs, pos))
<1>1. DEFINE d == Discarded(rs, pos)
             Right(w) == /\ w \in Seq(Ranges) /\ Apart(w)
                         /\ Covered(w) = Covered(rs) \cup {pos}
                         /\ Sorted(w) => Spaced(w)
             k == Cardinality({i \in DOMAIN rs : rs[i][2] < pos})
             at == k + 1
             r == rs[at]
<1>2. SUFFICES Right(d)
  OBVIOUS
<1>3. ASSUME NEW w \in Seq(Ranges), Spaced(w), Covered(w) = Covered(rs) \cup {pos}
      PROVE  Right(w)
  BY <1>3, SpacedApart
<1>4. pos \in Nat /\ DOMAIN rs = 1..Len(rs) /\ Len(rs) \in Nat /\ pos + 1 <= Layers
      /\ Layers \in Nat
  BY InitRangesAssumption
<1>5. k \in 0..Len(rs) /\ \A i \in DOMAIN rs : rs[i][2] < pos <=> i <= k
  <2>1. \A i \in DOMAIN rs : rs[i][2] < pos <=> rs[i][2] <= pos - 1
    <3>1. SUFFICES ASSUME NEW i \in DOMAIN rs PROVE rs[i][2] < pos <=> rs[i][2] <= pos - 1
      OBVIOUS
    <3>2. rs[i][2] \in Nat
      BY RangeFields
    <3>3. QED
      BY <3>2, <1>4
  <2>2. {i \in DOMAIN rs : rs[i][2] < pos} = {i \in DOMAIN rs : rs[i][2] <= pos - 1}
    BY <2>1
  <2>3. pos - 1 \in Int
    BY <1>4
  <2>4. LET c == Cardinality({i \in DOMAIN rs : rs[i][2] <= pos - 1})
        IN  c \in 0..Len(rs) /\ \A i \in DOMAIN rs : rs[i][2] <= pos - 1 <=> i <= c
    BY <2>3, CutAt, Zenon
  <2>5. QED
    BY <2>1, <2>2, <2>4
<1>6. d = IF at > Len(rs) THEN Append(rs, <<pos, pos + 1>>)
          ELSE IF r[2] = pos THEN
            IF at < Len(rs) /\ rs[at + 1][1] = pos + 1
              THEN SubSeq(rs, 1, at - 1) \o <<<<r[1], rs[at + 1][2]>>>>
                       \o SubSeq(rs, at + 2, Len(rs))
              ELSE [rs EXCEPT ![at] = <<r[1], pos + 1>>]
          ELSE IF r[1] = pos + 1 THEN [rs EXCEPT ![at] = <<pos, r[2]>>]
          ELSE IF r[1] > pos THEN Append(rs, <<pos, pos + 1>>)
          ELSE rs
  BY DEF Discarded
<1>7. at \in Nat /\ at \in 1..(Len(rs) + 1) /\ k = at - 1
  BY <1>4, <1>5
<1>8. \A i \in DOMAIN rs : i < at => rs[i][2] < pos
  <2>1. \A i \in DOMAIN rs : i < at => i <= k
    <3>1. HIDE DEF k
    <3>2. QED
      BY <1>4, <1>5
  <2>2. QED
    BY <2>1, <1>5
<1>9. ~(at > Len(rs)) => at \in DOMAIN rs /\ ~(r[2] < pos)
  <2>1. ~(at <= k)
    <3>1. HIDE DEF k
    <3>2. QED
      BY <1>4, <1>5
  <2>2. ~(at > Len(rs)) => at \in DOMAIN rs
    BY <1>4, <1>7
  <2>3. QED
    BY <2>1, <2>2, <1>5
<1>10. HIDE DEF k, d, at
<1>11. CASE at > Len(rs)
  <2>1. \A i \in DOMAIN rs : rs[i][2] < pos \/ rs[i][1] > pos + 1
    BY <1>4, <1>7, <1>8, <1>11
  <2>2. Right(Append(rs, <<pos, pos + 1>>))
    BY <2>1, AloneIs
  <2>3. QED
    BY <2>2, <1>6, <1>11
<1>12. CASE ~(at > Len(rs))
  <2>1. at \in DOMAIN rs /\ r \in Ranges /\ r[1] \in Nat /\ r[2] \in Nat /\ r[1] < r[2]
        /\ r[2] <= Layers /\ pos <= r[2] /\ r = <<r[1], r[2]>>
    BY <1>4, <1>9, <1>12, RangeFields
  <2>2. \A i \in DOMAIN rs : i > at => r[2] < rs[i][1]
    BY <2>1 DEF Spaced
  <2>3. CASE r[2] = pos /\ at < Len(rs) /\ rs[at + 1][1] = pos + 1
    <3>1. PICK l \in DOMAIN rs : l = at + 1 /\ l + 1 = at + 2
      BY <1>4, <1>7, <2>3
    <3>2. DEFINE mid == <<<<r[1], rs[l][2]>>>>
    <3>3. d = SubSeq(rs, 1, at - 1) \o mid \o SubSeq(rs, l + 1, Len(rs))
      BY <1>6, <1>12, <2>3, <3>1
    <3>4. d = Replaced(rs, at, l, mid)
      <4>1. HIDE DEF mid
      <4>2. QED
        BY <3>3 DEF Replaced
    <3>5. rs[l][1] = pos + 1
      BY <3>1, <2>3
    <3>6. /\ Replaced(rs, at, l, mid) \in Seq(Ranges) /\ Spaced(Replaced(rs, at, l, mid))
          /\ Covered(Replaced(rs, at, l, mid)) = Covered(rs) \cup {pos}
      <4>1. rs[at][2] = pos /\ pos \in Nat /\ at < l /\ l <= at + 1 /\ at \in DOMAIN rs
        BY <1>4, <1>7, <2>1, <2>3, <3>1
      <4>2. LET w == Replaced(rs, at, l, <<<<rs[at][1], rs[l][2]>>>>) IN
            w \in Seq(Ranges) /\ Spaced(w) /\ Covered(w) = Covered(rs) \cup {pos}
        BY <4>1, <3>5, MergedIs
      <4>3. QED
        BY <4>2, Zenon
    <3>7. QED
      BY <3>4, <3>6, <1>3
  <2>4. CASE r[2] = pos /\ ~(at < Len(rs) /\ rs[at + 1][1] = pos + 1)
    <3>1. DEFINE w == <<r[1], pos + 1>>
    <3>2. w \in Ranges /\ w[1] = r[1] /\ w[2] = pos + 1
      BY <2>1, <2>4, <1>4 DEF Ranges
    <3>3. LayersOf(w) = LayersOf(rs[at]) \cup {pos}
      BY <2>1, <2>4, <3>2, <1>4 DEF LayersOf
    <3>4. \A i \in DOMAIN rs : i < at => rs[i][2] < w[1]
      BY <2>1, <3>2 DEF Spaced
    <3>5. ASSUME NEW i \in DOMAIN rs, i > at PROVE w[2] < rs[i][1]
      <4>1. pos < rs[i][1] /\ rs[i][1] \in Nat
        BY <2>2, <2>4, <3>5, RangeFields
      <4>2. at + 1 \in DOMAIN rs /\ at < Len(rs)
        BY <3>5, <1>4, <1>7
      <4>3. pos < rs[at + 1][1] /\ rs[at + 1][1] \in Nat /\ rs[at + 1][1] # pos + 1
        BY <4>2, <2>2, <2>4, <1>7, RangeFields
      <4>4. i = at + 1 \/ rs[at + 1][2] < rs[i][1]
        <5>1. i = at + 1 \/ at + 1 < i
          BY <3>5, <1>4, <1>7
        <5>2. QED
          BY <5>1, <4>2 DEF Spaced
      <4>5. rs[at + 1][1] < rs[at + 1][2] /\ rs[at + 1][2] \in Nat
        BY <4>2, RangeFields
      <4>6. pos + 1 < rs[i][1]
        <5>1. rs[i][1] \in Nat /\ pos \in Nat
          BY <3>5, <1>4, RangeFields
        <5>2. pos + 1 < rs[at + 1][1]
          BY <4>3, <5>1
        <5>3. CASE i = at + 1
          BY <5>2, <5>3
        <5>4. CASE rs[at + 1][2] < rs[i][1]
          BY <5>1, <5>2, <5>4, <4>3, <4>5
        <5>5. QED
          BY <5>3, <5>4, <4>4
      <4>7. QED
        BY <4>6, <3>2
    <3>6. d = [rs EXCEPT ![at] = w]
      BY <1>6, <1>12, <2>4
    <3>7. HIDE DEF w
    <3>8. /\ [rs EXCEPT ![at] = w] \in Seq(Ranges) /\ Spaced([rs EXCEPT ![at] = w])
          /\ Covered([rs EXCEPT ![at] = w]) = Covered(rs) \cup {pos}
      <4>1. at \in DOMAIN rs /\ w \in Ranges /\ pos \in Nat
        BY <1>4, <2>1, <3>2
      <4>2. \A i \in DOMAIN rs : /\ i < at => rs[i][2] < w[1]
                                 /\ i > at => w[2] < rs[i][1]
        BY <3>4, <3>5
      <4>3. QED
        BY <4>1, <3>3, <4>2, WidenedIs, Zenon
    <3>9. QED
      BY <3>6, <3>8, <1>3
  <2>5. CASE r[2] # pos /\ r[1] = pos + 1
    <3>1. DEFINE w == <<pos, r[2]>>
    <3>2. w \in Ranges /\ w[1] = pos /\ w[2] = r[2]
      BY <2>1, <2>5, <1>4 DEF Ranges
    <3>3. LayersOf(w) = LayersOf(rs[at]) \cup {pos}
      BY <2>1, <2>5, <3>2, <1>4 DEF LayersOf
    <3>4. d = [rs EXCEPT ![at] = w]
      BY <1>6, <1>12, <2>5
    <3>5. HIDE DEF w
    <3>6. \A i \in DOMAIN rs : /\ i < at => rs[i][2] < w[1]
                               /\ i > at => w[2] < rs[i][1]
      <4>1. \A i \in DOMAIN rs : i < at => rs[i][2] < w[1]
        BY <1>8, <3>2
      <4>2. \A i \in DOMAIN rs : i > at => w[2] < rs[i][1]
        BY <2>2, <3>2
      <4>3. QED
        BY <4>1, <4>2
    <3>7. /\ [rs EXCEPT ![at] = w] \in Seq(Ranges) /\ Spaced([rs EXCEPT ![at] = w])
          /\ Covered([rs EXCEPT ![at] = w]) = Covered(rs) \cup {pos}
      <4>1. at \in DOMAIN rs /\ w \in Ranges /\ pos \in Nat
        BY <1>4, <2>1, <3>2
      <4>2. QED
        BY <4>1, <3>3, <3>6, WidenedIs, Zenon
    <3>8. QED
      BY <3>4, <3>7, <1>3
  <2>6. CASE r[2] # pos /\ r[1] # pos + 1 /\ r[1] > pos
    <3>1. r[1] > pos + 1
      BY <2>1, <2>6, <1>4
    <3>2. ASSUME NEW i \in DOMAIN rs PROVE rs[i][2] < pos \/ rs[i][1] > pos + 1
      <4>1. i < at \/ i = at \/ i > at
        BY <1>4, <1>7
      <4>2. rs[i][1] \in Nat
        BY RangeFields
      <4>3. QED
        BY <4>1, <4>2, <3>1, <1>4, <1>8, <2>1, <2>2
    <3>3. Right(Append(rs, <<pos, pos + 1>>))
      BY <3>2, AloneIs
    <3>4. QED
      BY <3>3, <1>6, <1>12, <2>6
  <2>7. CASE r[2] # pos /\ r[1] # pos + 1 /\ ~(r[1] > pos)
    <3>1. d = rs
      BY <1>6, <1>12, <2>7
    <3>2. pos \in LayersOf(rs[at])
      BY <2>1, <2>7, <1>4 DEF LayersOf
    <3>3. pos \in Covered(rs)
      BY <2>1, <3>2, CoveredIs
    <3>4. QED
      BY <3>1, <3>3, <1>3
  <2>8. QED
    BY <2>3, <2>4, <2>5, <2>6, <2>7
<1>13. QED
  BY <1>11, <1>12

LEMMA RangesBegin == RangesInit => RangesInv
<1>1. SUFFICES ASSUME RangesInit PROVE RangesInv
  OBVIOUS
<1>2. DEFINE r == <<0, Layers>>
             rs == <<r>>
<1>3. Layers \in Nat /\ 0 < Layers
  BY InitRangesAssumption
<1>4. r \in Ranges /\ LayersOf(r) = 0..(Layers - 1) /\ r[1] = 0
  BY <1>3 DEF Ranges, LayersOf
<1>5. mips = [i \in 0..(Mips - 1) |-> rs] /\ unwritten = [i \in 0..(Mips - 1) |-> 0..(Layers - 1)]
      /\ disordered = FALSE
  BY <1>1 DEF RangesInit
<1>6. HIDE DEF r
<1>7. rs \in Seq(Ranges) /\ DOMAIN rs = {1} /\ rs[1] = r
  BY <1>4
<1>8. HIDE DEF rs
<1>9. Spaced(rs) /\ Apart(rs)
  BY <1>7 DEF Spaced, Apart
<1>10. Covered(rs) = 0..(Layers - 1)
  <2>1. \A x : x \in Covered(rs) <=> x \in LayersOf(r)
    BY <1>7, CoveredIs
  <2>2. QED
    BY <2>1, <1>4
<1>11. 0..(Layers - 1) \in SUBSET Nat
  BY <1>3
<1>12. RangesType
  BY <1>5, <1>7, <1>11 DEF RangesType
<1>13. QED
  BY <1>5, <1>9, <1>10, <1>12 DEF RangesInv

LEMMA InitializeKeeps ==
  ASSUME RangesInv, NEW m \in Query(Mips), NEW q \in Query(Layers), InitializeRange(m, q)
  PROVE  RangesInv'
<1>1. /\ RangesType /\ disordered = FALSE /\ disordered' = FALSE
      /\ DOMAIN mips = 0..(Mips - 1)
      /\ mips' = [i \in DOMAIN mips |->
                    IF i \in LayersOf(m) THEN Drained(mips[i], q) ELSE mips[i]]
      /\ unwritten' = [i \in DOMAIN mips |->
                    IF i \in LayersOf(m) THEN unwritten[i] \ LayersOf(q) ELSE unwritten[i]]
  BY DEF RangesInv, RangesType, InitializeRange
<1>2. ASSUME NEW i \in DOMAIN mips
      PROVE  /\ mips'[i] \in Seq(Ranges) /\ Spaced(mips'[i]) /\ Apart(mips'[i])
             /\ Covered(mips'[i]) = unwritten'[i]
             /\ unwritten'[i] \in SUBSET Nat
  <2>1. mips[i] \in Seq(Ranges) /\ unwritten[i] \in SUBSET Nat
    BY <1>1 DEF RangesType
  <2>2. Covered(mips[i]) = unwritten[i] /\ Spaced(mips[i])
    BY <1>1 DEF RangesInv
  <2>3. /\ Drained(mips[i], q) \in Seq(Ranges) /\ Spaced(Drained(mips[i], q))
        /\ Covered(Drained(mips[i], q)) = Covered(mips[i]) \ LayersOf(q)
    BY <2>1, <2>2, DrainedIs
  <2>4. mips'[i] = (IF i \in LayersOf(m) THEN Drained(mips[i], q) ELSE mips[i])
        /\ unwritten'[i] = (IF i \in LayersOf(m) THEN unwritten[i] \ LayersOf(q) ELSE unwritten[i])
    BY <1>1
  <2>5. mips'[i] \in Seq(Ranges) /\ Spaced(mips'[i]) /\ Covered(mips'[i]) = unwritten'[i]
        /\ unwritten'[i] \in SUBSET Nat
    BY <2>1, <2>2, <2>3, <2>4
  <2>6. QED
    BY <2>5, SpacedApart
<1>3. RangesType'
  <2>1. mips' \in [0..(Mips - 1) -> Seq(Ranges)] /\ unwritten' \in [0..(Mips - 1) -> SUBSET Nat]
    BY <1>1, <1>2
  <2>2. QED
    BY <2>1, <1>1 DEF RangesType
<1>4. DOMAIN mips' = DOMAIN mips
  BY <1>1
<1>5. QED
  BY <1>2, <1>3, <1>4 DEF RangesInv

LEMMA DiscardKeeps ==
  ASSUME RangesInv, NEW k \in 0..(Mips - 1), NEW pos \in 0..(Layers - 1), DiscardLayer(k, pos)
  PROVE  RangesInv'
<1>1. /\ RangesType /\ disordered = FALSE /\ k \in DOMAIN mips
      /\ DOMAIN mips = 0..(Mips - 1) /\ DOMAIN unwritten = 0..(Mips - 1)
      /\ mips' = [mips EXCEPT ![k] = Discarded(mips[k], pos)]
      /\ unwritten' = [unwritten EXCEPT ![k] = unwritten[k] \cup {pos}]
      /\ disordered' = ~Sorted(mips'[k])
  BY DEF RangesInv, RangesType, DiscardLayer
<1>2. pos \in Nat
  BY InitRangesAssumption
<1>3. /\ mips'[k] = Discarded(mips[k], pos) /\ unwritten'[k] = unwritten[k] \cup {pos}
      /\ \A i \in DOMAIN mips : i # k => mips'[i] = mips[i] /\ unwritten'[i] = unwritten[i]
      /\ DOMAIN mips' = DOMAIN mips
  BY <1>1
<1>4. ASSUME NEW i \in DOMAIN mips
      PROVE  /\ mips[i] \in Seq(Ranges) /\ unwritten[i] \in SUBSET Nat
             /\ Covered(mips[i]) = unwritten[i] /\ Spaced(mips[i]) /\ Apart(mips[i])
  BY <1>1 DEF RangesInv, RangesType
<1>5. /\ Discarded(mips[k], pos) \in Seq(Ranges) /\ Apart(Discarded(mips[k], pos))
      /\ Covered(Discarded(mips[k], pos)) = Covered(mips[k]) \cup {pos}
      /\ Sorted(Discarded(mips[k], pos)) => Spaced(Discarded(mips[k], pos))
  BY <1>1, <1>4, DiscardedIs
<1>6. ASSUME NEW i \in DOMAIN mips
      PROVE  /\ mips'[i] \in Seq(Ranges) /\ Apart(mips'[i])
             /\ Covered(mips'[i]) = unwritten'[i]
             /\ unwritten'[i] \in SUBSET Nat
             /\ Sorted(mips'[k]) => Spaced(mips'[i])
  <2>1. CASE i = k
    BY <2>1, <1>1, <1>2, <1>3, <1>4, <1>5
  <2>2. CASE i # k
    BY <2>2, <1>3, <1>4
  <2>3. QED
    BY <2>1, <2>2
<1>7. RangesType'
  <2>1. mips' \in [0..(Mips - 1) -> Seq(Ranges)] /\ unwritten' \in [0..(Mips - 1) -> SUBSET Nat]
    BY <1>1, <1>6
  <2>2. disordered' \in BOOLEAN
    BY <1>1 DEF Sorted
  <2>3. QED
    BY <2>1, <2>2 DEF RangesType
<1>8. QED
  BY <1>1, <1>3, <1>6, <1>7 DEF RangesInv

(* The invariant of the tracker: each level's ranges are in order, apart   *)
(* from each other, and of the layers that nothing has written.            *)
THEOREM RangesKept == RangesSpec => []RangesInv
<1>1. RangesInv /\ [RangesNext]_rangesVars => RangesInv'
  <2>1. SUFFICES ASSUME RangesInv, [RangesNext]_rangesVars PROVE RangesInv'
    OBVIOUS
  <2>2. CASE UNCHANGED rangesVars
    BY <2>1, <2>2 DEF rangesVars, RangesInv, RangesType
  <2>3. CASE \E m \in Query(Mips), q \in Query(Layers) : InitializeRange(m, q)
    BY <2>1, <2>3, InitializeKeeps
  <2>4. CASE \E i \in 0..(Mips - 1), pos \in 0..(Layers - 1) : DiscardLayer(i, pos)
    BY <2>1, <2>4, DiscardKeeps
  <2>5. QED
    BY <2>1, <2>2, <2>3, <2>4 DEF RangesNext
<1>2. QED
  BY <1>1, RangesBegin, PTL DEF RangesSpec

(* The ranges of each level are the layers that nothing has written, each  *)
(* once, after any initializations and discards, whatever the sizes.       *)
THEOREM RangesTrue == RangesSpec => []RangesExact
<1>1. RangesInv => RangesExact
  <2>1. SUFFICES ASSUME RangesInv PROVE RangesExact
    OBVIOUS
  <2>2. \A i \in DOMAIN mips : mips[i] \in Seq(Ranges)
    BY <2>1 DEF RangesInv, RangesType
  <2>3. \A i \in DOMAIN mips : disordered \/ Sorted(mips[i])
    BY <2>1, <2>2, SpacedApart DEF RangesInv
  <2>4. QED
    BY <2>1, <2>3 DEF RangesInv, RangesExact, Apart
<1>2. QED
  BY <1>1, RangesKept, PTL

LEMMA DueIn ==
  ASSUME NEW rs \in Seq(Ranges), Spaced(rs), NEW q \in Query(Layers),
         NEW x \in Covered(rs) \cap LayersOf(q)
  PROVE  /\ x \in Nat /\ q[1] <= x /\ x < q[2]
         /\ \E i \in DOMAIN rs : /\ i > Before(rs, q) /\ i <= Upto(rs, q)
                                 /\ rs[i][1] <= x /\ x < rs[i][2]
<1>1. /\ DOMAIN rs = 1..Len(rs) /\ Len(rs) \in Nat /\ q[1] \in Nat /\ q[2] \in Nat
      /\ q[1] < q[2]
  BY QueryFields, InitRangesAssumption
<1>2. PICK i \in DOMAIN rs : x \in LayersOf(rs[i])
  BY CoveredIs
<1>3. rs[i][1] \in Nat /\ rs[i][2] \in Nat
  BY RangeFields
<1>4. x \in Nat /\ q[1] <= x /\ x < q[2] /\ rs[i][1] <= x /\ x < rs[i][2]
  BY <1>1, <1>2, <1>3 DEF LayersOf
<1>5. ~(rs[i][2] <= q[1]) /\ rs[i][1] < q[2]
  BY <1>1, <1>3, <1>4
<1>6. i > Before(rs, q) /\ i <= Upto(rs, q)
  BY <1>1, <1>5, Touched
<1>7. QED
  BY <1>4, <1>6

LEMMA CheckIs ==
  ASSUME NEW rs \in Seq(Ranges), Spaced(rs), NEW q \in Query(Layers)
  PROVE  LET due == Covered(rs) \cap LayersOf(q)
             c == Check(rs, q)
         IN  /\ c = <<>> <=> due = {}
             /\ c # <<>> => /\ c[1] \in due /\ due \subseteq LayersOf(c)
                            /\ LayersOf(c) \subseteq LayersOf(q)
                            /\ c[1] \in Nat /\ c[2] \in Nat /\ c[2] <= Layers
<1>1. DEFINE due == Covered(rs) \cap LayersOf(q)
             c == Check(rs, q)
             b == Before(rs, q)
             first == b + 1
             start == Greater(rs[first][1], q[1])
<1>2. /\ DOMAIN rs = 1..Len(rs) /\ Len(rs) \in Nat /\ q[1] \in Nat /\ q[2] \in Nat
      /\ q[1] < q[2] /\ q[2] <= Layers /\ Layers \in Nat
  BY QueryFields, InitRangesAssumption
<1>3. b \in 0..Len(rs) /\ \A i \in DOMAIN rs : rs[i][2] <= q[1] <=> i <= b
  BY Touched
<1>4. \A x \in due : /\ x \in Nat /\ q[1] <= x /\ x < q[2]
                     /\ \E i \in DOMAIN rs : i > b /\ rs[i][1] <= x /\ x < rs[i][2]
  BY DueIn
<1>5. c = IF first > Len(rs) \/ rs[first][1] >= q[2] THEN <<>>
          ELSE IF first < Len(rs) /\ rs[first + 1][1] < q[2] THEN <<start, q[2]>>
          ELSE <<start, Lesser(rs[first][2], q[2])>>
  BY DEF Check
<1>6. b \in Nat /\ b <= Len(rs) /\ first = b + 1 /\ first \in Nat
  BY <1>2, <1>3
<1> HIDE DEF b, c, first
<1>7. CASE first > Len(rs)
  <2>1. due = {}
    BY <1>2, <1>4, <1>6, <1>7
  <2>2. QED
    BY <2>1, <1>5, <1>7 DEF c
<1>8. CASE ~(first > Len(rs)) /\ rs[first][1] >= q[2]
  <2>1. first \in DOMAIN rs /\ rs[first][1] \in Nat
    BY <1>2, <1>6, <1>8, RangeFields
  <2>2. ASSUME NEW i \in DOMAIN rs, i > b PROVE rs[i][1] >= q[2]
    <3>1. i = first \/ first < i
      BY <1>2, <1>6, <2>2
    <3>2. i = first \/ rs[first][2] < rs[i][1]
      BY <2>1, <3>1 DEF Spaced
    <3>3. rs[i][1] \in Nat /\ rs[first][2] \in Nat /\ rs[first][1] < rs[first][2]
      BY <2>1, RangeFields
    <3>4. QED
      BY <3>2, <3>3, <2>1, <1>2, <1>8
  <2>3. due = {}
    <3>1. SUFFICES ASSUME NEW x \in due PROVE FALSE
      OBVIOUS
    <3>2. PICK i \in DOMAIN rs : i > b /\ rs[i][1] <= x /\ x < q[2] /\ x \in Nat
      BY <1>4
    <3>3. rs[i][1] \in Nat /\ rs[i][1] >= q[2]
      BY <3>2, <2>2, RangeFields
    <3>4. QED
      BY <3>2, <3>3, <1>2
  <2>4. QED
    BY <2>3, <1>5, <1>8 DEF c
<1>9. CASE ~(first > Len(rs)) /\ ~(rs[first][1] >= q[2])
  <2>1. /\ first \in DOMAIN rs /\ rs[first][1] \in Nat /\ rs[first][2] \in Nat
        /\ rs[first][1] < rs[first][2]
    BY <1>2, <1>6, <1>9, RangeFields
  <2>2. q[1] < rs[first][2] /\ rs[first][1] < q[2]
    BY <2>1, <1>2, <1>3, <1>6, <1>9
  <2>3. /\ start \in Nat /\ start >= q[1] /\ start >= rs[first][1]
        /\ start < rs[first][2] /\ start < q[2]
        /\ start = q[1] \/ start = rs[first][1]
    BY <2>1, <2>2, <1>2 DEF Greater
  <2>4. DEFINE end == IF first < Len(rs) /\ rs[first + 1][1] < q[2] THEN q[2]
                      ELSE Lesser(rs[first][2], q[2])
  <2>5. c = <<start, end>>
    BY <1>5, <1>9
  <2>6. end \in Nat /\ end <= q[2]
    BY <2>1, <1>2 DEF Lesser
  <2>7. start \in due
    <3>1. start \in LayersOf(rs[first]) /\ start \in LayersOf(q)
      BY <2>1, <2>3, <1>2 DEF LayersOf
    <3>2. QED
      BY <3>1, <2>1, CoveredIs
  <2>8. ASSUME NEW x \in due PROVE start <= x /\ x < end
    <3>1. x \in Nat /\ q[1] <= x /\ x < q[2]
      BY <1>4
    <3>2. PICK i \in DOMAIN rs : i > b /\ rs[i][1] <= x /\ x < rs[i][2]
      BY <1>4
    <3>3. rs[i][1] \in Nat /\ rs[i][2] \in Nat /\ i \in Nat
      BY <1>2, RangeFields
    <3>4. i = first \/ first < i
      BY <1>6, <3>2, <3>3
    <3>5. i = first \/ rs[first][2] < rs[i][1]
      BY <2>1, <3>4 DEF Spaced
    <3>6. start <= x
      BY <2>1, <2>3, <3>1, <3>2, <3>3, <3>5, <1>2
    <3>7. x < end
      <4>1. CASE i = first
        BY <4>1, <2>1, <3>1, <3>2, <1>2 DEF Lesser
      <4>2. CASE first < i
        <5>1. first + 1 \in DOMAIN rs /\ first < Len(rs)
          BY <4>2, <3>3, <1>2, <1>6
        <5>2. i = first + 1 \/ first + 1 < i
          BY <4>2, <3>3, <1>6
        <5>3. i = first + 1 \/ rs[first + 1][2] < rs[i][1]
          BY <5>1, <5>2 DEF Spaced
        <5>4. /\ rs[first + 1][1] \in Nat /\ rs[first + 1][2] \in Nat
              /\ rs[first + 1][1] < rs[first + 1][2]
          BY <5>1, RangeFields
        <5>5. rs[first + 1][1] < q[2]
          BY <5>3, <5>4, <3>1, <3>2, <3>3, <1>2
        <5>6. QED
          BY <5>1, <5>5, <3>1
      <4>3. QED
        BY <3>4, <4>1, <4>2
    <3>8. QED
      BY <3>6, <3>7
  <2>9. HIDE DEF start, end
  <2>10. c[1] = start /\ c[2] = end /\ c # <<>>
    BY <2>5
  <2>11. due \subseteq LayersOf(c) /\ LayersOf(c) \subseteq LayersOf(q)
    BY <2>3, <2>6, <2>8, <2>10, <1>2, <1>4 DEF LayersOf
  <2>12. c[1] \in due /\ c[1] \in Nat /\ c[2] \in Nat /\ c[2] <= Layers
    BY <2>3, <2>6, <2>7, <2>10, <1>2
  <2>13. QED
    BY <2>10, <2>11, <2>12 DEF c
<1>10. QED
  BY <1>7, <1>8, <1>9

LEMMA PiecesAre ==
  ASSUME NEW rs \in Seq(Ranges), Spaced(rs), NEW q \in Query(Layers)
  PROVE  Covered(Pieces(rs, q)) = Covered(rs) \cap LayersOf(q) /\ Sorted(Pieces(rs, q))
<1>1. DEFINE p == Pieces(rs, q)
             b == Before(rs, q)
             u == Upto(rs, q)
             Low(i) == Greater(rs[b + i][1], q[1])
             High(i) == Lesser(rs[b + i][2], q[2])
<1>2. /\ DOMAIN rs = 1..Len(rs) /\ Len(rs) \in Nat /\ q[1] \in Nat /\ q[2] \in Nat
      /\ q[1] < q[2]
  BY QueryFields, InitRangesAssumption
<1>3. /\ b \in 0..Len(rs) /\ u \in b..Len(rs)
      /\ \A i \in DOMAIN rs : rs[i][2] <= q[1] <=> i <= b
      /\ \A i \in DOMAIN rs : i > b => (rs[i][1] < q[2] <=> i <= u)
  BY Touched
<1>4. p = [i \in 1..(u - b) |-> <<Low(i), High(i)>>]
  BY DEF Pieces
<1>5. b \in Nat /\ u \in Nat /\ b <= u /\ u <= Len(rs) /\ u - b \in Nat
  BY <1>2, <1>3
<1>6. HIDE DEF p, b, u
<1>7. DOMAIN p = 1..(u - b) /\ Len(p) = u - b
  BY <1>4, <1>5
<1>8. ASSUME NEW i \in DOMAIN p
      PROVE  /\ p[i][1] = Low(i) /\ p[i][2] = High(i) /\ i \in Int
             /\ b + i \in DOMAIN rs /\ Low(i) \in Nat /\ High(i) \in Nat /\ Low(i) < High(i)
             /\ Low(i) >= rs[b + i][1] /\ Low(i) >= q[1]
             /\ High(i) <= rs[b + i][2] /\ High(i) <= q[2]
             /\ Low(i) = rs[b + i][1] \/ Low(i) = q[1]
             /\ High(i) = rs[b + i][2] \/ High(i) = q[2]
  <2>1. i \in Int /\ b + i \in DOMAIN rs /\ b + i > b /\ b + i <= u
    BY <1>2, <1>5, <1>7
  <2>2. rs[b + i][1] \in Nat /\ rs[b + i][2] \in Nat /\ rs[b + i][1] < rs[b + i][2]
    BY <2>1, RangeFields
  <2>3. rs[b + i][1] < q[2] /\ q[1] < rs[b + i][2]
    BY <2>1, <2>2, <1>2, <1>3, <1>5
  <2>4. p[i][1] = Low(i) /\ p[i][2] = High(i)
    BY <1>4, <1>7
  <2>5. QED
    BY <2>1, <2>2, <2>3, <2>4, <1>2 DEF Greater, Lesser
<1>9. HIDE DEF Low, High
<1>10. Sorted(p)
  <2>1. \A i \in DOMAIN p : p[i][1] < p[i][2]
    BY <1>8
  <2>2. ASSUME NEW i \in 1..(Len(p) - 1) PROVE p[i][2] <= p[i + 1][1]
    <3>1. i \in DOMAIN p /\ i + 1 \in DOMAIN p /\ i \in Int
      BY <1>5, <1>7
    <3>2. b + i \in DOMAIN rs /\ b + (i + 1) \in DOMAIN rs
      BY <3>1, <1>8
    <3>3. b + i < b + (i + 1)
      BY <3>1, <1>5
    <3>4. rs[b + i][2] < rs[b + (i + 1)][1]
      BY <3>2, <3>3 DEF Spaced
    <3>5. rs[b + i][2] \in Nat /\ rs[b + (i + 1)][1] \in Nat
      BY <3>2, RangeFields
    <3>6. High(i) <= rs[b + i][2] /\ Low(i + 1) >= rs[b + (i + 1)][1]
          /\ High(i) \in Nat /\ Low(i + 1) \in Nat
      BY <3>1, <1>8
    <3>7. High(i) <= Low(i + 1)
      BY <3>4, <3>5, <3>6
    <3>8. QED
      BY <3>1, <3>7, <1>8
  <2>3. QED
    BY <2>1, <2>2 DEF Sorted
<1>11. ASSUME NEW i \in DOMAIN p, NEW x \in LayersOf(p[i])
       PROVE  x \in Covered(rs) \cap LayersOf(q)
  <2>1. /\ b + i \in DOMAIN rs /\ rs[b + i][1] \in Nat /\ rs[b + i][2] \in Nat
    BY <1>8, RangeFields
  <2>2. x \in Int /\ Low(i) <= x /\ x < High(i)
    BY <1>8 DEF LayersOf
  <2>3. x \in LayersOf(rs[b + i]) /\ x \in LayersOf(q)
    <3>1. /\ Low(i) >= rs[b + i][1] /\ Low(i) >= q[1] /\ High(i) <= rs[b + i][2]
          /\ High(i) <= q[2] /\ Low(i) \in Nat /\ High(i) \in Nat
      BY <1>8
    <3>2. q[1] \in Nat /\ q[2] \in Nat
      BY <1>2
    <3>3. DEFINE a == rs[b + i][1]
                 z == rs[b + i][2]
    <3>4. a \in Nat /\ z \in Nat
      BY <2>1
    <3>5. HIDE DEF Low, High
    <3>6. a <= x /\ x < z /\ q[1] <= x /\ x < q[2] /\ x \in Int
      BY <2>1, <2>2, <3>1, <3>2
    <3>7. HIDE DEF a, z
    <3>8. x \in a..(z - 1) /\ x \in q[1]..(q[2] - 1)
      BY <3>2, <3>4, <3>6
    <3>9. QED
      BY <3>8 DEF LayersOf, a, z
  <2>4. QED
    BY <2>1, <2>3, CoveredIs
<1>12. ASSUME NEW x \in Covered(rs) \cap LayersOf(q)
       PROVE  \E i \in DOMAIN p : x \in LayersOf(p[i])
  <2>1. x \in Nat /\ q[1] <= x /\ x < q[2]
    BY DueIn
  <2>2. PICK k \in DOMAIN rs : k > b /\ k <= u /\ rs[k][1] <= x /\ x < rs[k][2]
    BY DueIn DEF b, u
  <2>3. PICK i \in DOMAIN p : b + i = k
    <3>1. k \in Nat /\ k - b \in DOMAIN p /\ b + (k - b) = k
      BY <2>2, <1>2, <1>5, <1>7
    <3>2. QED
      BY <3>1
  <2>4. Low(i) <= x /\ x < High(i) /\ Low(i) \in Nat /\ High(i) \in Nat
    BY <2>1, <2>2, <2>3, <1>8
  <2>5. x \in LayersOf(p[i])
    BY <2>1, <2>4, <1>8 DEF LayersOf
  <2>6. QED
    BY <2>5
<1>13. Covered(p) = Covered(rs) \cap LayersOf(q)
  BY <1>11, <1>12, CoveredIs
<1>14. QED
  BY <1>10, <1>13 DEF p

(* The first and the last level, and layer, that check_action answers with. *)
LEMMA Extremes ==
  ASSUME NEW S, S \subseteq Nat, S # {}, NEW n \in Nat, \A k \in S : k <= n
  PROVE  LET least == CHOOSE x \in S : \A y \in S : x <= y
             greatest == CHOOSE x \in S : \A y \in S : x >= y
         IN  \A k \in S : least <= k /\ k <= greatest /\ least \in Nat /\ greatest \in Nat
<1>1. \E x \in S : \A y \in S : x <= y
  BY HasLeast
<1>2. \E x \in S : \A y \in S : x >= y
  <2>1. PICK x \in S : \A y \in S : y <= x
    BY HasGreatest
  <2>2. QED
    BY <2>1
<1>3. DEFINE least == CHOOSE x \in S : \A y \in S : x <= y
             greatest == CHOOSE x \in S : \A y \in S : x >= y
<1>4. least \in S /\ \A y \in S : least <= y
  BY <1>1
<1>5. greatest \in S /\ \A y \in S : greatest >= y
  BY <1>2
<1>6. HIDE DEF least, greatest
<1>7. \A k \in S : least <= k /\ k <= greatest /\ least \in Nat /\ greatest \in Nat
  BY <1>4, <1>5
<1>8. QED
  BY <1>7 DEF least, greatest

LEMMA ActionCovers ==
  ASSUME RangesInv, ~disordered, NEW m \in Query(Mips), NEW q \in Query(Layers),
         NEW i \in LayersOf(m), NEW x \in unwritten[i] \cap LayersOf(q)
  PROVE  LET a == CheckAction(m, q)
         IN  a # <<>> /\ i \in LayersOf(a[1]) /\ x \in LayersOf(a[2])
<1>1. DEFINE found == {k \in LayersOf(m) : Check(mips[k], q) # <<>>}
             starts == {Check(mips[k], q)[1] : k \in found}
             ends == {Check(mips[k], q)[2] : k \in found}
             least(S) == CHOOSE y \in S : \A z \in S : y <= z
             greatest(S) == CHOOSE y \in S : \A z \in S : y >= z
<1>2. /\ m[1] \in Nat /\ m[2] \in Nat /\ m[1] < m[2] /\ m[2] <= Mips
      /\ Mips \in Nat /\ Layers \in Nat
  BY QueryFields, InitRangesAssumption
<1>3. LayersOf(m) \subseteq 0..(Mips - 1) /\ LayersOf(m) \subseteq Nat /\ \A k \in LayersOf(m) : k <= Mips
  BY <1>2 DEF LayersOf
<1>4. ASSUME NEW k \in LayersOf(m)
      PROVE  /\ k \in DOMAIN mips /\ mips[k] \in Seq(Ranges)
             /\ Spaced(mips[k]) /\ Covered(mips[k]) = unwritten[k]
  BY <1>3 DEF RangesInv, RangesType
<1>5. ASSUME NEW k \in LayersOf(m)
      PROVE  LET due == Covered(mips[k]) \cap LayersOf(q)
                 c == Check(mips[k], q)
             IN  /\ c = <<>> <=> due = {}
                 /\ c # <<>> => /\ c[1] \in due /\ due \subseteq LayersOf(c)
                                /\ LayersOf(c) \subseteq LayersOf(q)
                                /\ c[1] \in Nat /\ c[2] \in Nat /\ c[2] <= Layers
  BY <1>4, CheckIs
<1>6. i \in found /\ x \in LayersOf(Check(mips[i], q))
  BY <1>4, <1>5
<1>7. \A k \in found : Check(mips[k], q)[1] \in Nat /\ Check(mips[k], q)[2] \in Nat
                       /\ Check(mips[k], q)[2] <= Layers
  BY <1>5
<1>8. \A k \in found : Check(mips[k], q)[1] <= Layers
  <2>1. SUFFICES ASSUME NEW k \in found PROVE Check(mips[k], q)[1] <= Layers
    OBVIOUS
  <2>2. Check(mips[k], q)[1] \in LayersOf(q)
    BY <1>5
  <2>3. q[1] \in Nat /\ q[2] \in Nat /\ q[2] <= Layers
    BY <1>2, QueryFields
  <2>4. QED
    BY <2>2, <2>3, <1>2 DEF LayersOf
<1>9. LET a == CheckAction(m, q) IN a = <<<<least(found), greatest(found) + 1>>,
                                          <<least(starts), greatest(ends)>>>>
  BY <1>6 DEF CheckAction
<1>10. /\ found \subseteq Nat /\ found # {} /\ \A k \in found : k <= Mips
       /\ starts \subseteq Nat /\ starts # {} /\ \A k \in starts : k <= Layers
       /\ ends \subseteq Nat /\ ends # {} /\ \A k \in ends : k <= Layers
       /\ Check(mips[i], q)[1] \in starts /\ Check(mips[i], q)[2] \in ends
  BY <1>3, <1>6, <1>7, <1>8
<1>11. HIDE DEF found, starts, ends
<1>12. least(found) <= i /\ i <= greatest(found) /\ least(found) \in Nat /\ greatest(found) \in Nat
  BY <1>2, <1>6, <1>10, Extremes
<1>13. /\ least(starts) <= Check(mips[i], q)[1] /\ least(starts) \in Nat
       /\ Check(mips[i], q)[2] <= greatest(ends) /\ greatest(ends) \in Nat
  BY <1>2, <1>10, Extremes
<1>14. HIDE DEF least, greatest
<1>15. DEFINE a == CheckAction(m, q)
<1>16. /\ a # <<>> /\ a[1][1] = least(found) /\ a[1][2] = greatest(found) + 1
       /\ a[2][1] = least(starts) /\ a[2][2] = greatest(ends)
  BY <1>9
<1>17. Check(mips[i], q)[1] \in Nat /\ Check(mips[i], q)[2] \in Nat
  BY <1>6, <1>7
<1>18. x \in Int /\ Check(mips[i], q)[1] <= x /\ x < Check(mips[i], q)[2]
  BY <1>6, <1>17 DEF LayersOf
<1>19. HIDE DEF a
<1>20. i \in Nat
  BY <1>3
<1>21. i \in LayersOf(a[1])
  BY <1>12, <1>16, <1>20 DEF LayersOf
<1>22. x \in LayersOf(a[2])
  BY <1>13, <1>16, <1>17, <1>18 DEF LayersOf
<1>23. QED
  BY <1>16, <1>21, <1>22 DEF a

(* check, drain and check_action answer every query right while the lists  *)
(* are in order.                                                           *)
THEOREM QueriesAnswered == RangesSpec => []AnswersRight
<1>1. RangesInv => AnswersRight
  <2>1. SUFFICES ASSUME RangesInv, ~disordered, NEW q \in Query(Layers)
                 PROVE  /\ \A i \in DOMAIN mips :
                              LET due == unwritten[i] \cap LayersOf(q)
                                  c == Check(mips[i], q)
                                  p == Pieces(mips[i], q)
                              IN  /\ c = <<>> <=> due = {}
                                  /\ c # <<>> => /\ c[1] \in due /\ due \subseteq LayersOf(c)
                                                 /\ LayersOf(c) \subseteq LayersOf(q)
                                  /\ Covered(p) = due /\ Sorted(p)
                        /\ \A m \in Query(Mips) :
                              LET a == CheckAction(m, q)
                              IN  \A i \in LayersOf(m) : \A x \in unwritten[i] \cap LayersOf(q) :
                                      a # <<>> /\ i \in LayersOf(a[1]) /\ x \in LayersOf(a[2])
    BY DEF AnswersRight
  <2>2. ASSUME NEW i \in DOMAIN mips
        PROVE  LET due == unwritten[i] \cap LayersOf(q)
                   c == Check(mips[i], q)
                   p == Pieces(mips[i], q)
               IN  /\ c = <<>> <=> due = {}
                   /\ c # <<>> => /\ c[1] \in due /\ due \subseteq LayersOf(c)
                                  /\ LayersOf(c) \subseteq LayersOf(q)
                   /\ Covered(p) = due /\ Sorted(p)
    <3>1. mips[i] \in Seq(Ranges) /\ Spaced(mips[i]) /\ Covered(mips[i]) = unwritten[i]
      BY <2>1 DEF RangesInv, RangesType
    <3>2. QED
      BY <3>1, CheckIs, PiecesAre
  <2>3. QED
    BY <2>1, <2>2, ActionCovers
<1>2. QED
  BY <1>1, RangesKept, PTL

--------------------------------------------------------------------------------
(* The order of the global declarations *)

(* Frames of dfs, the references each has passed, and the path they make   *)

Frames == [decl : Decl, dep : Nat \ {0}]
Errors == {"RecursiveDeclaration", "CyclicDeclaration"}

IndexType ==
    /\ refs \in [Decl -> Seq(Name)]
    /\ root \in 1..(Decls + 1)
    /\ dfsCalls \in Seq(Frames)
    /\ visited \subseteq Decl /\ tempVisited \subseteq Decl
    /\ path \in Seq(Decl) /\ out \in Seq(Decl)
    /\ result \in {"running", "Ok", "Redefinition"} \cup Errors

(* What has come out comes after what it uses, once.                       *)
OutInv ==
    /\ \A i \in DOMAIN out : Uses(out[i]) \subseteq {out[j] : j \in 1..(i - 1)}
    /\ visited = {out[i] : i \in DOMAIN out}
    /\ \A i, j \in DOMAIN out : i # j => out[i] # out[j]

(* The calls in progress are of the declarations marked, each by a         *)
(* reference of the one that calls it, with all earlier references passed. *)
Passed(f) == \A k \in DOMAIN refs[f.decl] : k < f.dep => Resolved(refs[f.decl][k]) \subseteq visited
Follows(f, d) == f.dep \in DOMAIN refs[f.decl] /\ d \in Resolved(refs[f.decl][f.dep])
CallsInv ==
    /\ tempVisited = {dfsCalls[i].decl : i \in DOMAIN dfsCalls}
    /\ \A i, j \in DOMAIN dfsCalls : i # j => dfsCalls[i].decl # dfsCalls[j].decl
    /\ visited \cap tempVisited = {}
    /\ \A i \in DOMAIN dfsCalls : Passed(dfsCalls[i])
    /\ \A i \in 1..(Len(dfsCalls) - 1) : Follows(dfsCalls[i], dfsCalls[i + 1].decl)
    /\ 1..(root - 1) \subseteq visited \cup tempVisited

(* The path is the declarations of the calls, from the second.             *)
PathInv ==
    /\ dfsCalls = <<>> => path = <<>>
    /\ dfsCalls # <<>> => /\ Len(path) = Len(dfsCalls) - 1
                          /\ \A i \in DOMAIN path : path[i] = dfsCalls[i + 1].decl

CycleFound ==
    /\ \A i \in 1..(Len(Chain) - 1) : Chain[i + 1] \in Uses(Chain[i])
    /\ \E i \in 1..(Len(Chain) - 1) :
          /\ Chain[i] = Chain[Len(Chain)]
          /\ result = "RecursiveDeclaration" <=> i = Len(Chain) - 1

IndexInv ==
    /\ IndexType /\ OutInv
    /\ result = "running" => CallsInv /\ PathInv /\ ~Redefined
    /\ result = "Ok" => visited = Decl
    /\ result \in Errors => CycleFound

LEMMA ReferencesSeq == References \subseteq Seq(Name)
<1>1. SUFFICES ASSUME NEW s \in References PROVE s \in Seq(Name)
  OBVIOUS
<1>2. PICK n \in 0..Names : s \in [1..n -> Name]
  BY <1>1, Zenon DEF References
<1>3. n \in Nat
  BY <1>2, GlobalIndexAssumption
<1>4. QED
  BY <1>2, <1>3, SeqDef

LEMMA IndexBegins == IndexInit => IndexInv
<1>1. SUFFICES ASSUME IndexInit PROVE IndexInv
  OBVIOUS
<1>2. /\ refs \in [Decl -> References] /\ root = 1 /\ dfsCalls = <<>> /\ path = <<>> /\ out = <<>>
      /\ visited = {} /\ tempVisited = {}
      /\ result = IF Redefined THEN "Redefinition" ELSE "running"
  BY <1>1 DEF IndexInit
<1>3. refs \in [Decl -> Seq(Name)]
  BY <1>2, ReferencesSeq
<1>4. IndexType
  BY <1>2, <1>3, GlobalIndexAssumption DEF IndexType
<1>5. OutInv
  BY <1>2 DEF OutInv
<1>6. CallsInv /\ PathInv
  BY <1>2 DEF CallsInv, PathInv
<1>7. QED
  BY <1>2, <1>4, <1>5, <1>6 DEF IndexInv, Errors

(* A list without its last.                                                *)
LEMMA FrontIs ==
  ASSUME NEW T, NEW s \in Seq(T), s # <<>>
  PROVE  LET f == SubSeq(s, 1, Len(s) - 1) IN
         /\ f \in Seq(T) /\ Len(f) = Len(s) - 1 /\ DOMAIN f = 1..(Len(s) - 1)
         /\ \A i \in 1..(Len(s) - 1) : f[i] = s[i]
         /\ Len(s) \in Nat \ {0} /\ DOMAIN s = 1..Len(s) /\ Len(s) \in DOMAIN s
<1>1. Len(s) \in Nat /\ Len(s) # 0 /\ DOMAIN s = 1..Len(s)
  OBVIOUS
<1>2. \A i \in 1..(Len(s) - 1) : s[i] \in T
  BY <1>1
<1>3. QED
  BY <1>1, <1>2, SubSeqProperties

(* A name that no two declarations share is of at most one.                *)
LEMMA OneResolved ==
  ASSUME ~Redefined, NEW n, NEW d \in Resolved(n)
  PROVE  Resolved(n) = {d}
  BY DEF Redefined, Resolved

(* The same call, at its next reference.                                   *)
LEMMA Advances ==
  ASSUME NEW s \in Seq(Frames), s # <<>>
  PROVE  LET r == NextReference(s) IN
         /\ r \in Seq(Frames) /\ Len(r) = Len(s) /\ DOMAIN r = DOMAIN s
         /\ \A i \in DOMAIN s : /\ r[i].decl = s[i].decl
                                /\ i # Len(s) => r[i] = s[i]
         /\ r[Len(s)].dep = s[Len(s)].dep + 1
<1>1. Len(s) \in Nat /\ Len(s) \in DOMAIN s /\ DOMAIN s = 1..Len(s)
  OBVIOUS
<1>2. s[Len(s)] \in Frames
  BY <1>1
<1>3. [s[Len(s)] EXCEPT !.dep = s[Len(s)].dep + 1] \in Frames
  BY <1>2 DEF Frames
<1>4. NextReference(s) = [s EXCEPT ![Len(s)] = [s[Len(s)] EXCEPT !.dep = s[Len(s)].dep + 1]]
  BY DEF NextReference
<1>5. QED
  BY <1>1, <1>2, <1>3, <1>4 DEF Frames

(* The current reference is passed when what it names is visited.          *)
LEMMA PassKeeps ==
  ASSUME IndexInv, result = "running", AtReference, Resolved(Reference) \subseteq visited,
         dfsCalls' = NextReference(dfsCalls),
         UNCHANGED <<nameOf, refs, root, visited, tempVisited, path, out, result>>
  PROVE  IndexInv'
<1>1. /\ IndexType /\ OutInv /\ CallsInv /\ PathInv /\ ~Redefined
      /\ dfsCalls \in Seq(Frames) /\ dfsCalls # <<>>
  BY DEF IndexInv, IndexType, AtReference
<1>2. /\ dfsCalls' \in Seq(Frames) /\ Len(dfsCalls') = Len(dfsCalls)
      /\ DOMAIN dfsCalls' = DOMAIN dfsCalls
      /\ \A i \in DOMAIN dfsCalls : /\ dfsCalls'[i].decl = dfsCalls[i].decl
                                    /\ i # Len(dfsCalls) => dfsCalls'[i] = dfsCalls[i]
      /\ dfsCalls'[Len(dfsCalls)].dep = Current.dep + 1
  BY <1>1, Advances DEF Current
<1>3. /\ DOMAIN dfsCalls = 1..Len(dfsCalls) /\ Len(dfsCalls) \in Nat /\ Len(dfsCalls) # 0
      /\ Current \in Frames /\ Current = dfsCalls[Len(dfsCalls)]
  BY <1>1 DEF Current
<1>4. \A d : Uses(d)' = Uses(d)
  BY DEF Uses, Resolved, Globals
<1>5. \A n : Resolved(n)' = Resolved(n)
  BY DEF Resolved, Globals
<1>6. Redefined' = Redefined
  BY DEF Redefined, Globals
<1>7. IndexType'
  BY <1>1, <1>2 DEF IndexType
<1>8. OutInv'
  BY <1>1, <1>4 DEF OutInv
<1>9. ASSUME NEW i \in DOMAIN dfsCalls PROVE Passed(dfsCalls[i])'
  <2>1. Passed(dfsCalls[i])
    BY <1>1 DEF CallsInv
  <2>2. CASE i # Len(dfsCalls)
    BY <2>1, <2>2, <1>2, <1>5 DEF Passed
  <2>3. CASE i = Len(dfsCalls)
    <3>1. SUFFICES ASSUME NEW k \in DOMAIN refs[Current.decl], k < Current.dep + 1
                   PROVE  Resolved(refs[Current.decl][k]) \subseteq visited
      BY <2>3, <1>2, <1>3, <1>5 DEF Passed
    <3>2. k \in Int /\ Current.dep \in Int
      <4>1. refs[Current.decl] \in Seq(Name)
        BY <1>1, <1>3 DEF IndexType, Frames
      <4>2. QED
        BY <4>1, <1>3 DEF Frames
    <3>3. k < Current.dep \/ k = Current.dep
      BY <3>1, <3>2
    <3>4. QED
      BY <2>1, <2>3, <3>1, <3>3, <1>3 DEF Passed, Reference
  <2>4. QED
    BY <2>2, <2>3
<1>10. ASSUME NEW i \in 1..(Len(dfsCalls) - 1)
       PROVE  Follows(dfsCalls[i], dfsCalls[i + 1].decl)'
  <2>1. i \in DOMAIN dfsCalls /\ i # Len(dfsCalls) /\ i + 1 \in DOMAIN dfsCalls
    <3>1. DEFINE n == Len(dfsCalls)
    <3>2. n \in Nat /\ i \in 1..(n - 1) /\ DOMAIN dfsCalls = 1..n
      BY <1>3
    <3>3. HIDE DEF n
    <3>4. i \in 1..n /\ i # n /\ i + 1 \in 1..n
      BY <3>2
    <3>5. QED
      BY <3>2, <3>4 DEF n
  <2>2. Follows(dfsCalls[i], dfsCalls[i + 1].decl)
    BY <1>1 DEF CallsInv
  <2>3. dfsCalls'[i] = dfsCalls[i] /\ dfsCalls'[i + 1].decl = dfsCalls[i + 1].decl
    BY <2>1, <1>2
  <2>4. QED
    BY <2>2, <2>3, <1>5 DEF Follows
<1>11. CallsInv'
  <2>1. tempVisited' = {dfsCalls'[i].decl : i \in DOMAIN dfsCalls'}
    BY <1>1, <1>2 DEF CallsInv
  <2>2. \A i, j \in DOMAIN dfsCalls' : i # j => dfsCalls'[i].decl # dfsCalls'[j].decl
    BY <1>1, <1>2 DEF CallsInv
  <2>3. (visited \cap tempVisited = {})' /\ (1..(root - 1) \subseteq visited \cup tempVisited)'
    BY <1>1 DEF CallsInv
  <2>4. QED
    BY <2>1, <2>2, <2>3, <1>2, <1>9, <1>10 DEF CallsInv
<1>12. PathInv'
  <2>1. dfsCalls' # <<>>
    BY <1>2, <1>3
  <2>2. ASSUME NEW i \in DOMAIN path PROVE path[i] = dfsCalls'[i + 1].decl
    <3>1. i + 1 \in DOMAIN dfsCalls
      BY <1>1, <1>3 DEF PathInv, IndexType
    <3>2. QED
      BY <3>1, <1>1, <1>2 DEF PathInv
  <2>3. QED
    BY <2>1, <2>2, <1>1, <1>2 DEF PathInv
<1>13. QED
  BY <1>1, <1>6, <1>7, <1>8, <1>11, <1>12 DEF IndexInv, Errors

LEMMA RootKeeps ==
  ASSUME IndexInv, NextRoot
  PROVE  IndexInv'
<1>1. /\ IndexType /\ OutInv /\ CallsInv /\ PathInv /\ ~Redefined
      /\ result = "running" /\ dfsCalls = <<>> /\ path = <<>> /\ root <= Decls
      /\ tempVisited = {}
  BY DEF IndexInv, NextRoot, CallsInv, PathInv
<1>2. /\ root' = root + 1
      /\ UNCHANGED <<nameOf, refs, visited, path, out, result>>
      /\ \/ root \in visited /\ dfsCalls' = <<>> /\ tempVisited' = {}
         \/ root \notin visited /\ dfsCalls' = <<Frame(root)>> /\ tempVisited' = {root}
  BY <1>1 DEF NextRoot
<1>3. root \in Nat /\ 1 <= root /\ Decls \in Nat /\ root \in Decl
  BY <1>1, GlobalIndexAssumption DEF IndexType, Decl
<1>4. Frame(root) \in Frames /\ Frame(root).dep = 1 /\ Frame(root).decl = root
  BY <1>3 DEF Frame, Frames
<1>5. \A n : Resolved(n)' = Resolved(n)
  BY <1>2 DEF Resolved, Globals
<1>6. IndexType'
  <2>1. root' \in 1..(Decls + 1)
    BY <1>1, <1>2, <1>3
  <2>2. dfsCalls' \in Seq(Frames) /\ tempVisited' \subseteq Decl
    <3>1. <<>> \in Seq(Frames) /\ <<Frame(root)>> \in Seq(Frames)
      BY <1>4
    <3>2. QED
      BY <3>1, <1>2, <1>3
  <2>3. QED
    BY <2>1, <2>2, <1>1, <1>2 DEF IndexType
<1>7. OutInv' /\ ~Redefined'
  BY <1>1, <1>2 DEF OutInv, Uses, Resolved, Globals, Redefined
<1>8. CallsInv'
  <2>1. \A k \in 1..root : k \in 1..(root - 1) \/ k = root
    BY <1>3
  <2>2. root' - 1 = root
    BY <1>2, <1>3
  <2>3. (1..(root - 1) \subseteq visited \cup tempVisited)'
    BY <2>1, <2>2, <1>1, <1>2 DEF CallsInv
  <2>4. CASE dfsCalls' = <<>> /\ tempVisited' = {}
    BY <2>3, <2>4 DEF CallsInv
  <2>5. CASE root \notin visited /\ dfsCalls' = <<Frame(root)>> /\ tempVisited' = {root}
    <3>1. /\ DOMAIN dfsCalls' = {1} /\ Len(dfsCalls') = 1 /\ dfsCalls'[1].decl = root
          /\ dfsCalls'[1].dep = 1
      BY <2>5, <1>4
    <3>2. \A k \in DOMAIN refs'[root] : ~(k < 1)
      BY <1>2, <1>3, <1>6 DEF IndexType
    <3>3. Passed(dfsCalls[1])'
      BY <3>1, <3>2 DEF Passed
    <3>4. tempVisited' = {dfsCalls'[i].decl : i \in DOMAIN dfsCalls'}
      BY <3>1, <2>5
    <3>5. QED
      BY <3>1, <3>3, <3>4, <2>3, <2>5, <1>2 DEF CallsInv
  <2>6. QED
    BY <1>2, <2>4, <2>5
<1>9. PathInv'
  <2>1. path' = <<>> /\ DOMAIN path' = {} /\ Len(path') = 0
    BY <1>1, <1>2
  <2>2. dfsCalls' # <<>> => Len(dfsCalls') = 1
    BY <1>2
  <2>3. QED
    BY <2>1, <2>2 DEF PathInv
<1>10. QED
  BY <1>1, <1>2, <1>6, <1>7, <1>8, <1>9 DEF IndexInv, Errors

LEMMA SolvedKeeps ==
  ASSUME IndexInv, Solved
  PROVE  IndexInv'
<1>1. /\ IndexType /\ OutInv /\ CallsInv /\ dfsCalls = <<>> /\ root > Decls
      /\ tempVisited = {}
      /\ result' = "Ok"
      /\ UNCHANGED <<nameOf, refs, root, dfsCalls, visited, tempVisited, path, out>>
  BY DEF IndexInv, Solved, CallsInv
<1>2. root = Decls + 1 /\ Decls \in Nat
  BY <1>1, GlobalIndexAssumption DEF IndexType
<1>3. visited = Decl
  <2>1. root - 1 = Decls
    BY <1>2
  <2>2. 1..Decls \subseteq visited
    BY <2>1, <1>1 DEF CallsInv
  <2>3. QED
    BY <2>2, <1>1 DEF IndexType, Decl
<1>4. IndexType'
  BY <1>1 DEF IndexType
<1>5. OutInv'
  BY <1>1 DEF OutInv, Uses, Resolved, Globals
<1>6. QED
  BY <1>1, <1>3, <1>4, <1>5 DEF IndexInv, Errors, Decl

LEMMA DescendKeeps ==
  ASSUME IndexInv, Descend
  PROVE  IndexInv'
<1>1. PICK d \in Resolved(Reference) :
         /\ d \notin tempVisited /\ d \notin visited
         /\ path' = Append(path, d)
         /\ dfsCalls' = Append(dfsCalls, Frame(d))
         /\ tempVisited' = tempVisited \union {d}
  BY DEF Descend
<1>2. /\ IndexType /\ OutInv /\ CallsInv /\ PathInv /\ ~Redefined
      /\ AtReference /\ result = "running"
      /\ UNCHANGED <<nameOf, refs, root, visited, out, result>>
  BY DEF IndexInv, Descend, AtReference
<1>3. DEFINE n == Len(dfsCalls)
<1>4. /\ dfsCalls \in Seq(Frames) /\ n \in Nat /\ n # 0 /\ DOMAIN dfsCalls = 1..n
      /\ path \in Seq(Decl)
  BY <1>2 DEF IndexType, AtReference
<1>5. d \in Decl /\ Frame(d) \in Frames /\ Frame(d).decl = d /\ Frame(d).dep = 1
  BY <1>1 DEF Resolved, Globals, Frame, Frames
<1>6. /\ dfsCalls' \in Seq(Frames) /\ Len(dfsCalls') = n + 1 /\ DOMAIN dfsCalls' = 1..(n + 1)
      /\ \A i \in 1..n : dfsCalls'[i] = dfsCalls[i]
      /\ dfsCalls'[n + 1] = Frame(d)
  BY <1>1, <1>4, <1>5
<1>7. \A m : Resolved(m)' = Resolved(m)
  BY <1>2 DEF Resolved, Globals
<1>8. \A i \in 1..(n + 1) : i \in 1..n \/ i = n + 1
  BY <1>4
<1>9. Follows(Current, d)
  <2>1. Current \in Frames
    BY <1>4 DEF Current
  <2>2. refs[Current.decl] \in Seq(Name) /\ Current.dep \in Nat /\ Current.dep # 0
    BY <2>1, <1>2 DEF IndexType, Frames
  <2>3. Current.dep \in DOMAIN refs[Current.decl]
    BY <2>2, <1>2 DEF AtReference
  <2>4. QED
    BY <2>3, <1>1 DEF Follows, Reference
<1>10. HIDE DEF n
<1>11. IndexType'
  <2>1. path' \in Seq(Decl) /\ tempVisited' \subseteq Decl
    BY <1>1, <1>2, <1>4, <1>5 DEF IndexType
  <2>2. QED
    BY <2>1, <1>2, <1>6 DEF IndexType
<1>12. OutInv' /\ ~Redefined'
  BY <1>2 DEF OutInv, Uses, Resolved, Globals, Redefined
<1>13. CallsInv'
  <2>1. tempVisited' = {dfsCalls'[i].decl : i \in DOMAIN dfsCalls'}
    <3>1. tempVisited = {dfsCalls[i].decl : i \in 1..n}
      BY <1>2, <1>4 DEF CallsInv
    <3>2. n + 1 \in 1..(n + 1) /\ \A i \in 1..n : i \in 1..(n + 1)
      BY <1>4
    <3>3. QED
      BY <3>1, <3>2, <1>1, <1>5, <1>6, <1>8
  <2>2. ASSUME NEW i \in 1..n, NEW j \in 1..n, i # j PROVE dfsCalls[i].decl # dfsCalls[j].decl
    BY <2>2, <1>2, <1>4 DEF CallsInv
  <2>3. ASSUME NEW i \in 1..n PROVE dfsCalls[i].decl # d /\ i # n + 1
    <3>1. dfsCalls[i].decl \in tempVisited
      BY <1>2, <1>4 DEF CallsInv
    <3>2. QED
      BY <3>1, <1>1, <1>4
  <2>4. \A i, j \in 1..(n + 1) : i # j => dfsCalls'[i].decl # dfsCalls'[j].decl
    <3>1. SUFFICES ASSUME NEW i \in 1..(n + 1), NEW j \in 1..(n + 1), i # j
                   PROVE  dfsCalls'[i].decl # dfsCalls'[j].decl
      OBVIOUS
    <3>2. CASE i \in 1..n /\ j \in 1..n
      BY <3>1, <3>2, <2>2, <1>6
    <3>3. CASE i \in 1..n /\ j = n + 1
      BY <3>3, <2>3, <1>5, <1>6
    <3>4. CASE i = n + 1 /\ j \in 1..n
      BY <3>4, <2>3, <1>5, <1>6
    <3>5. QED
      BY <3>1, <3>2, <3>3, <3>4, <1>8
  <2>5. (visited \cap tempVisited = {})'
    BY <1>1, <1>2 DEF CallsInv
  <2>6. (1..(root - 1) \subseteq visited \cup tempVisited)'
    BY <1>1, <1>2 DEF CallsInv
  <2>7. ASSUME NEW i \in 1..(n + 1) PROVE Passed(dfsCalls[i])'
    <3>1. CASE i \in 1..n
      <4>1. Passed(dfsCalls[i])
        BY <3>1, <1>2, <1>4 DEF CallsInv
      <4>2. QED
        BY <3>1, <4>1, <1>2, <1>6, <1>7 DEF Passed
    <3>2. CASE i = n + 1
      <4>1. refs'[d] \in Seq(Name)
        BY <1>5, <1>11 DEF IndexType
      <4>2. \A k \in DOMAIN refs'[d] : ~(k < 1)
        BY <4>1
      <4>3. QED
        BY <3>2, <4>2, <1>5, <1>6 DEF Passed
    <3>3. QED
      BY <3>1, <3>2, <1>8
  <2>8. ASSUME NEW i \in 1..n PROVE Follows(dfsCalls[i], dfsCalls[i + 1].decl)'
    <3>1. CASE i = n
      <4>1. Follows(dfsCalls[i], d)
        BY <3>1, <1>9 DEF Current, n
      <4>2. dfsCalls'[i] = dfsCalls[i] /\ dfsCalls'[i + 1].decl = d
        BY <3>1, <1>4, <1>5, <1>6
      <4>3. QED
        BY <4>1, <4>2, <1>2, <1>7 DEF Follows
    <3>2. CASE i # n
      <4>1. i \in 1..(n - 1) /\ i + 1 \in 1..n
        BY <3>2, <1>4
      <4>2. Follows(dfsCalls[i], dfsCalls[i + 1].decl)
        BY <4>1, <1>2 DEF CallsInv, n
      <4>3. dfsCalls'[i] = dfsCalls[i] /\ dfsCalls'[i + 1] = dfsCalls[i + 1]
        BY <4>1, <1>6
      <4>4. QED
        BY <4>2, <4>3, <1>2, <1>7 DEF Follows
    <3>3. QED
      BY <3>1, <3>2
  <2>9. Len(dfsCalls') - 1 = n /\ DOMAIN dfsCalls' = 1..(n + 1)
    BY <1>4, <1>6
  <2>10. \A i \in DOMAIN dfsCalls' : Passed(dfsCalls[i])'
    BY <2>7, <2>9
  <2>11. \A i \in 1..(Len(dfsCalls') - 1) : Follows(dfsCalls[i], dfsCalls[i + 1].decl)'
    BY <2>8, <2>9
  <2>12. \A i, j \in DOMAIN dfsCalls' : i # j => dfsCalls'[i].decl # dfsCalls'[j].decl
    BY <2>4, <2>9
  <2>13. QED
    BY <2>1, <2>5, <2>6, <2>10, <2>11, <2>12 DEF CallsInv
<1>14. PathInv'
  <2>1. Len(path) = n - 1 /\ \A i \in DOMAIN path : path[i] = dfsCalls[i + 1].decl
    BY <1>2, <1>4 DEF PathInv, n
  <2>2. /\ Len(path') = n /\ DOMAIN path' = 1..n /\ path'[n] = d
        /\ \A i \in 1..(n - 1) : path'[i] = path[i]
    BY <2>1, <1>1, <1>4, <1>5
  <2>3. ASSUME NEW i \in 1..n PROVE path'[i] = dfsCalls'[i + 1].decl
    <3>1. CASE i = n
      BY <3>1, <2>2, <1>5, <1>6
    <3>2. CASE i # n
      <4>1. i \in 1..(n - 1) /\ i \in DOMAIN path /\ i + 1 \in 1..n
        BY <3>2, <2>1, <1>4
      <4>2. QED
        BY <4>1, <2>1, <2>2, <1>6
    <3>3. QED
      BY <3>1, <3>2
  <2>4. n + 1 - 1 = n /\ dfsCalls' # <<>>
    BY <1>4, <1>6
  <2>5. QED
    BY <2>2, <2>3, <2>4, <1>6 DEF PathInv
<1>15. QED
  BY <1>2, <1>11, <1>12, <1>13, <1>14 DEF IndexInv, Errors

LEMMA CycleKeeps ==
  ASSUME IndexInv, FindCycle
  PROVE  IndexInv'
<1>1. PICK d \in Resolved(Reference) \cap tempVisited :
         /\ path' = Append(path, d)
         /\ result' = IF d = Current.decl THEN "RecursiveDeclaration" ELSE "CyclicDeclaration"
  BY DEF FindCycle
<1>2. /\ IndexType /\ OutInv /\ CallsInv /\ PathInv /\ AtReference
      /\ UNCHANGED <<nameOf, refs, root, dfsCalls, visited, tempVisited, out>>
  BY DEF IndexInv, FindCycle, AtReference
<1>3. DEFINE n == Len(dfsCalls)
<1>4. /\ dfsCalls \in Seq(Frames) /\ n \in Nat /\ n # 0 /\ DOMAIN dfsCalls = 1..n
      /\ path \in Seq(Decl) /\ dfsCalls # <<>> /\ d \in Decl
  BY <1>2 DEF IndexType, AtReference
<1>5. /\ Len(path) = n - 1 /\ DOMAIN path = 1..(n - 1)
      /\ \A i \in DOMAIN path : path[i] = dfsCalls[i + 1].decl
  BY <1>2, <1>4 DEF PathInv
<1>6. \A m : Resolved(m)' = Resolved(m) /\ Uses(m)' = Uses(m)
  BY <1>2 DEF Resolved, Globals, Uses
<1>7. Follows(Current, d) /\ Current = dfsCalls[n]
  <2>1. Current \in Frames /\ Current = dfsCalls[n]
    BY <1>4 DEF Current
  <2>2. refs[Current.decl] \in Seq(Name) /\ Current.dep \in Nat /\ Current.dep # 0
    BY <2>1, <1>2 DEF IndexType, Frames
  <2>3. Current.dep \in DOMAIN refs[Current.decl]
    BY <2>2, <1>2 DEF AtReference
  <2>4. QED
    BY <2>1, <2>3, <1>1 DEF Follows, Reference
<1>8. \A f, e : Follows(f, e) => e \in Uses(f.decl)
  BY DEF Follows, Uses
<1>9. \A i \in 1..(n - 1) : Follows(dfsCalls[i], dfsCalls[i + 1].decl)
  BY <1>2 DEF CallsInv
<1>10. \A i, j \in 1..n : i # j => dfsCalls[i].decl # dfsCalls[j].decl
  BY <1>2, <1>4 DEF CallsInv
<1>11. PICK at \in 1..n : d = dfsCalls[at].decl
  BY <1>1, <1>2, <1>4 DEF CallsInv
<1>12. \A i \in 1..n : dfsCalls[i].decl \in Decl
  <2>1. \A i \in 1..n : dfsCalls[i] \in Frames
    BY <1>4
  <2>2. QED
    BY <2>1 DEF Frames
<1>13. HIDE DEF n
<1>14. /\ path' \in Seq(Decl) /\ Len(path') = n /\ path'[n] = d
       /\ \A i \in 1..(n - 1) : path'[i] = path[i]
  BY <1>1, <1>4, <1>5
<1>15. DEFINE h == <<dfsCalls[1].decl>>
              c == h \o path'
<1>16. h \in Seq(Decl) /\ Len(h) = 1 /\ h[1] = dfsCalls[1].decl
  BY <1>4, <1>12
<1>17. HIDE DEF h
<1>18. /\ Len(c) = n + 1 /\ c[1] = dfsCalls[1].decl
       /\ \A i \in 1..n : c[i + 1] = path'[i]
  <2>1. /\ Len(c) = Len(h) + Len(path')
        /\ \A i \in 1..(Len(h) + Len(path')) :
              c[i] = IF i <= Len(h) THEN h[i] ELSE path'[i - Len(h)]
    BY <1>14, <1>16, ConcatProperties
  <2>2. HIDE DEF c
  <2>3. ASSUME NEW i \in 1..n PROVE c[i + 1] = path'[i]
    <3>1. i + 1 \in 1..(1 + n) /\ ~(i + 1 <= 1) /\ (i + 1) - 1 = i
      BY <1>4
    <3>2. QED
      BY <3>1, <2>1, <1>14, <1>16
  <2>4. 1 \in 1..(1 + n) /\ 1 <= 1 /\ 1 + n = n + 1
    BY <1>4
  <2>5. QED
    BY <2>1, <2>3, <2>4, <1>14, <1>16
<1>19. Chain' = c
  BY <1>2 DEF Chain, c, h
<1>20. HIDE DEF c
<1>21. ASSUME NEW i \in 1..n PROVE c[i] = dfsCalls[i].decl
  <2>1. CASE i = 1
    BY <2>1, <1>18
  <2>2. CASE i # 1
    <3>1. i - 1 \in 1..(n - 1) /\ i - 1 \in 1..n /\ (i - 1) + 1 = i
      BY <2>2, <1>4
    <3>2. c[(i - 1) + 1] = path'[i - 1] /\ path'[i - 1] = dfsCalls[(i - 1) + 1].decl
      BY <3>1, <1>5, <1>14, <1>18
    <3>3. QED
      BY <3>1, <3>2
  <2>3. QED
    BY <2>1, <2>2
<1>22. c[n + 1] = d
  BY <1>4, <1>14, <1>18
<1>23. ASSUME NEW i \in 1..n PROVE c[i + 1] \in Uses(c[i])
  <2>1. CASE i = n
    BY <2>1, <1>7, <1>8, <1>21, <1>22
  <2>2. CASE i # n
    <3>1. i \in 1..(n - 1) /\ i + 1 \in 1..n
      BY <2>2, <1>4
    <3>2. QED
      BY <3>1, <1>8, <1>9, <1>21
  <2>3. QED
    BY <2>1, <2>2
<1>24. result' = "RecursiveDeclaration" <=> at = n
  <2>1. n \in 1..n
    BY <1>4
  <2>2. d = Current.decl <=> at = n
    BY <2>1, <1>7, <1>10, <1>11
  <2>3. QED
    BY <2>2, <1>1
<1>25. CycleFound'
  <2>1. Len(c) - 1 = n /\ Len(c) = n + 1
    BY <1>4, <1>18
  <2>2. \A i \in 1..(Len(c) - 1) : c[i + 1] \in Uses(c[i])
    BY <2>1, <1>23
  <2>3. \E i \in 1..(Len(c) - 1) :
          /\ c[i] = c[Len(c)]
          /\ result' = "RecursiveDeclaration" <=> i = Len(c) - 1
    BY <2>1, <1>11, <1>21, <1>22, <1>24
  <2>4. QED
    <3>1. (\A i \in 1..(Len(Chain) - 1) : Chain[i + 1] \in Uses(Chain[i]))'
      <4>1. SUFFICES ASSUME NEW i \in 1..(Len(c) - 1)
                     PROVE  (Chain[i + 1] \in Uses(Chain[i]))'
        BY <1>19
      <4>2. Uses(Chain[i])' = Uses(c[i])
        BY <1>2, <1>19 DEF Uses, Resolved, Globals
      <4>3. QED
        BY <4>2, <2>2, <1>19
    <3>2. (\E i \in 1..(Len(Chain) - 1) :
              /\ Chain[i] = Chain[Len(Chain)]
              /\ result = "RecursiveDeclaration" <=> i = Len(Chain) - 1)'
      BY <2>3, <1>19
    <3>3. QED
      BY <3>1, <3>2 DEF CycleFound
<1>26. result' \in Errors
  BY <1>1 DEF Errors
<1>27. IndexType'
  BY <1>2, <1>14, <1>26 DEF IndexType
<1>28. OutInv'
  BY <1>2, <1>6 DEF OutInv
<1>29. QED
  BY <1>25, <1>26, <1>27, <1>28 DEF IndexInv, Errors

LEMMA LeaveKeeps ==
  ASSUME IndexInv, Leave
  PROVE  IndexInv'
<1>1. /\ IndexType /\ OutInv /\ CallsInv /\ PathInv /\ ~Redefined
      /\ result = "running" /\ dfsCalls # <<>> /\ Current.dep > Len(refs[Current.decl])
      /\ tempVisited' = tempVisited \ {Current.decl}
      /\ out' = Append(out, Current.decl)
      /\ visited' = visited \union {Current.decl}
      /\ dfsCalls' = Returned(Callers)
      /\ path' = IF Callers = <<>> THEN path ELSE PopPath
      /\ UNCHANGED <<nameOf, refs, root, result>>
  BY DEF IndexInv, Leave, Unmarked
<1>2. DEFINE n == Len(dfsCalls)
             d == Current.decl
<1>3. /\ dfsCalls \in Seq(Frames) /\ n \in Nat /\ n # 0 /\ DOMAIN dfsCalls = 1..n
      /\ path \in Seq(Decl) /\ out \in Seq(Decl) /\ visited \subseteq Decl
      /\ tempVisited \subseteq Decl
  BY <1>1 DEF IndexType
<1>4. /\ Callers \in Seq(Frames) /\ Len(Callers) = n - 1 /\ DOMAIN Callers = 1..(n - 1)
      /\ \A i \in 1..(n - 1) : Callers[i] = dfsCalls[i]
  BY <1>1, <1>3, FrontIs DEF Callers
<1>5. Current = dfsCalls[n] /\ Current \in Frames /\ d \in Decl /\ Current.dep \in Nat
  <2>1. Current = dfsCalls[n] /\ n \in DOMAIN dfsCalls
    BY <1>3 DEF Current
  <2>2. Current \in Frames
    BY <2>1, <1>3
  <2>3. QED
    BY <2>1, <2>2 DEF Frames
<1>6. \A m : Resolved(m)' = Resolved(m) /\ Uses(m)' = Uses(m)
  BY <1>1 DEF Resolved, Globals, Uses
<1>7. Uses(d) \subseteq visited
  <2>1. refs[d] \in Seq(Name)
    BY <1>1, <1>5 DEF IndexType
  <2>2. \A k \in DOMAIN refs[d] : k < Current.dep
    BY <2>1, <1>1, <1>5
  <2>3. Passed(Current)
    <3>1. \A i \in DOMAIN dfsCalls : Passed(dfsCalls[i])
      BY <1>1 DEF CallsInv
    <3>2. n \in DOMAIN dfsCalls
      BY <1>3
    <3>3. QED
      BY <3>1, <3>2, <1>5
  <2>4. QED
    BY <2>2, <2>3 DEF Passed, Uses
<1>8. d \in tempVisited /\ d \notin visited
  <2>1. /\ tempVisited = {dfsCalls[i].decl : i \in DOMAIN dfsCalls}
        /\ visited \cap tempVisited = {}
    BY <1>1 DEF CallsInv
  <2>2. n \in DOMAIN dfsCalls
    BY <1>3
  <2>3. QED
    BY <2>1, <2>2, <1>5
<1>9. \A i, j \in 1..n : i # j => dfsCalls[i].decl # dfsCalls[j].decl
  BY <1>1, <1>3 DEF CallsInv
<1>10. /\ dfsCalls' \in Seq(Frames) /\ Len(dfsCalls') = n - 1 /\ DOMAIN dfsCalls' = 1..(n - 1)
       /\ \A i \in 1..(n - 1) : /\ dfsCalls'[i].decl = dfsCalls[i].decl
                                /\ i # n - 1 => dfsCalls'[i] = dfsCalls[i]
       /\ n # 1 => dfsCalls'[n - 1].dep = dfsCalls[n - 1].dep + 1
       /\ Callers = <<>> <=> n = 1
  <2>1. Callers = <<>> <=> n = 1
    <3>1. Callers = <<>> <=> Len(Callers) = 0
      BY <1>4
    <3>2. QED
      BY <3>1, <1>3, <1>4
  <2>2. CASE n = 1
    <3>1. dfsCalls' = <<>>
      BY <2>1, <2>2, <1>1 DEF Returned
    <3>2. QED
      BY <3>1, <2>1, <2>2
  <2>3. CASE n # 1
    <3>1. dfsCalls' = NextReference(Callers) /\ Callers # <<>>
      BY <2>1, <2>3, <1>1 DEF Returned
    <3>2. /\ NextReference(Callers) \in Seq(Frames) /\ Len(NextReference(Callers)) = Len(Callers)
          /\ DOMAIN NextReference(Callers) = DOMAIN Callers
          /\ \A i \in DOMAIN Callers :
                /\ NextReference(Callers)[i].decl = Callers[i].decl
                /\ i # Len(Callers) => NextReference(Callers)[i] = Callers[i]
          /\ NextReference(Callers)[Len(Callers)].dep = Callers[Len(Callers)].dep + 1
      BY <3>1, <1>4, Advances
    <3>3. n - 1 \in 1..(n - 1)
      BY <2>3, <1>3
    <3>4. QED
      BY <2>1, <2>3, <3>1, <3>2, <3>3, <1>4
  <2>4. QED
    BY <2>2, <2>3
<1>11. HIDE DEF n, d
<1>12. IndexType'
  <2>1. out' \in Seq(Decl) /\ visited' \subseteq Decl /\ tempVisited' \subseteq Decl
    BY <1>1, <1>3, <1>5 DEF d
  <2>2. path' \in Seq(Decl)
    <3>1. CASE path = <<>>
      <4>1. PopPath = <<>>
        BY <3>1 DEF PopPath
      <4>2. QED
        BY <4>1, <3>1, <1>1, <1>3
    <3>2. CASE path # <<>>
      BY <3>2, <1>1, <1>3, FrontIs DEF PopPath
    <3>3. QED
      BY <3>1, <3>2
  <2>3. QED
    BY <2>1, <2>2, <1>1, <1>10 DEF IndexType
<1>13. OutInv'
  <2>1. DEFINE m == Len(out)
  <2>2. /\ m \in Nat /\ DOMAIN out = 1..m /\ DOMAIN out' = 1..(m + 1)
        /\ out'[m + 1] = d /\ \A i \in 1..m : out'[i] = out[i]
    BY <1>1, <1>3, <1>5 DEF d
  <2>3. HIDE DEF m
  <2>4. \A i \in 1..(m + 1) : i \in 1..m \/ i = m + 1
    BY <2>2
  <2>5. ASSUME NEW i \in 1..(m + 1)
        PROVE  Uses(out'[i]) \subseteq {out'[j] : j \in 1..(i - 1)}
    <3>1. CASE i \in 1..m
      <4>1. Uses(out[i]) \subseteq {out[j] : j \in 1..(i - 1)}
        BY <3>1, <2>2, <1>1 DEF OutInv
      <4>2. \A j \in 1..(i - 1) : out'[j] = out[j]
        BY <3>1, <2>2
      <4>3. QED
        BY <3>1, <4>1, <4>2, <2>2
    <3>2. CASE i = m + 1
      <4>1. visited = {out[j] : j \in 1..m}
        BY <2>2, <1>1 DEF OutInv
      <4>2. i - 1 = m
        BY <3>2, <2>2
      <4>3. QED
        BY <3>2, <4>1, <4>2, <2>2, <1>7
    <3>3. QED
      BY <3>1, <3>2, <2>4
  <2>6. visited' = {out'[i] : i \in 1..(m + 1)}
    <3>1. visited = {out[j] : j \in 1..m}
      BY <2>2, <1>1 DEF OutInv
    <3>2. m + 1 \in 1..(m + 1) /\ \A i \in 1..m : i \in 1..(m + 1)
      BY <2>2
    <3>3. visited' = visited \cup {d}
      BY <1>1 DEF d
    <3>4. QED
      BY <3>1, <3>2, <3>3, <2>2, <2>4
  <2>7. ASSUME NEW i \in 1..m PROVE out[i] # d
    BY <2>2, <1>1, <1>8 DEF OutInv
  <2>8. ASSUME NEW i \in 1..(m + 1), NEW j \in 1..(m + 1), i # j PROVE out'[i] # out'[j]
    <3>1. CASE i \in 1..m /\ j \in 1..m
      BY <3>1, <2>2, <2>8, <1>1 DEF OutInv
    <3>2. CASE i \in 1..m /\ j = m + 1
      BY <3>2, <2>2, <2>7
    <3>3. CASE i = m + 1 /\ j \in 1..m
      BY <3>3, <2>2, <2>7
    <3>4. QED
      BY <3>1, <3>2, <3>3, <2>4, <2>8
  <2>9. QED
    BY <2>2, <2>5, <2>6, <2>8, <1>6 DEF OutInv
<1>14. \A i \in 1..n : i \in 1..(n - 1) \/ i = n
  BY <1>3
<1>15. visited' = visited \cup {d} /\ tempVisited' = tempVisited \ {d}
  BY <1>1 DEF d
<1>16. dfsCalls[n].decl = d
  BY <1>5 DEF d
<1>17. n \in 1..n /\ \A i \in 1..(n - 1) : i \in 1..n /\ i # n
  BY <1>3
<1>18. CallsInv'
  <2>1. tempVisited' = {dfsCalls'[i].decl : i \in DOMAIN dfsCalls'}
    <3>1. tempVisited = {dfsCalls[i].decl : i \in 1..n}
      BY <1>1, <1>3 DEF CallsInv
    <3>2. \A i \in 1..(n - 1) : dfsCalls[i].decl # d
      BY <1>9, <1>16, <1>17
    <3>3. QED
      BY <3>1, <3>2, <1>10, <1>14, <1>15, <1>16, <1>17
  <2>2. \A i, j \in DOMAIN dfsCalls' : i # j => dfsCalls'[i].decl # dfsCalls'[j].decl
    BY <1>9, <1>10, <1>17
  <2>3. (visited \cap tempVisited = {})'
    BY <1>1, <1>15 DEF CallsInv
  <2>4. (1..(root - 1) \subseteq visited \cup tempVisited)'
    BY <1>1, <1>15 DEF CallsInv
  <2>5. ASSUME NEW i \in 1..(n - 1) PROVE Passed(dfsCalls[i])'
    <3>1. Passed(dfsCalls[i])
      BY <1>1, <1>3, <1>17 DEF CallsInv
    <3>2. CASE i # n - 1
      BY <3>1, <3>2, <1>1, <1>6, <1>10 DEF Passed
    <3>3. CASE i = n - 1
      <4>1. Follows(dfsCalls[i], dfsCalls[i + 1].decl) /\ i + 1 = n
        BY <3>3, <1>1, <1>3 DEF CallsInv, n
      <4>2. d \in Resolved(refs[dfsCalls[i].decl][dfsCalls[i].dep])
        BY <4>1, <1>16 DEF Follows
      <4>3. Resolved(refs[dfsCalls[i].decl][dfsCalls[i].dep]) = {d}
        BY <4>2, <1>1, OneResolved
      <4>4. /\ dfsCalls'[i].decl = dfsCalls[i].decl /\ dfsCalls'[i].dep = dfsCalls[i].dep + 1
            /\ dfsCalls[i] \in Frames
        BY <3>3, <1>3, <1>10, <1>17
      <4>5. dfsCalls[i].dep \in Nat /\ refs[dfsCalls[i].decl] \in Seq(Name)
        BY <4>4, <1>1 DEF Frames, IndexType
      <4>6. SUFFICES ASSUME NEW k \in DOMAIN refs[dfsCalls[i].decl], k < dfsCalls[i].dep + 1
                     PROVE  Resolved(refs[dfsCalls[i].decl][k]) \subseteq visited'
        BY <4>4, <1>1, <1>6 DEF Passed
      <4>7. k < dfsCalls[i].dep \/ k = dfsCalls[i].dep
        BY <4>5, <4>6
      <4>8. QED
        BY <3>1, <4>3, <4>6, <4>7, <1>15 DEF Passed
    <3>4. QED
      BY <3>2, <3>3
  <2>6. ASSUME NEW i \in 1..(n - 1 - 1) PROVE Follows(dfsCalls[i], dfsCalls[i + 1].decl)'
    <3>1. i \in 1..(n - 1) /\ i + 1 \in 1..(n - 1) /\ i # n - 1
      BY <1>3
    <3>2. Follows(dfsCalls[i], dfsCalls[i + 1].decl)
      BY <3>1, <1>1 DEF CallsInv, n
    <3>3. dfsCalls'[i] = dfsCalls[i] /\ dfsCalls'[i + 1].decl = dfsCalls[i + 1].decl
      BY <3>1, <1>10
    <3>4. QED
      BY <3>2, <3>3, <1>1, <1>6 DEF Follows
  <2>7. \A i \in DOMAIN dfsCalls' : Passed(dfsCalls[i])'
    BY <2>5, <1>10
  <2>8. \A i \in 1..(Len(dfsCalls') - 1) : Follows(dfsCalls[i], dfsCalls[i + 1].decl)'
    BY <2>6, <1>10
  <2>9. QED
    BY <2>1, <2>2, <2>3, <2>4, <2>7, <2>8 DEF CallsInv
<1>19. PathInv'
  <2>1. Len(path) = n - 1 /\ DOMAIN path = 1..(n - 1)
        /\ \A i \in DOMAIN path : path[i] = dfsCalls[i + 1].decl
    BY <1>1, <1>3 DEF PathInv, n
  <2>2. CASE n = 1
    <3>1. path' = <<>>
      <4>1. path' = path /\ Len(path) = 0
        BY <2>1, <2>2, <1>1, <1>10
      <4>2. QED
        BY <4>1, <1>3
    <3>2. dfsCalls' = <<>>
      <4>1. Len(dfsCalls') = 0
        BY <2>2, <1>10
      <4>2. QED
        BY <4>1, <1>10
    <3>3. QED
      BY <3>1, <3>2 DEF PathInv
  <2>3. CASE n # 1
    <3>1. path' = PopPath /\ path # <<>>
      BY <2>1, <2>3, <1>1, <1>3, <1>10
    <3>2. /\ Len(path') = Len(path) - 1 /\ DOMAIN path' = 1..(Len(path) - 1)
          /\ \A i \in 1..(Len(path) - 1) : path'[i] = path[i]
      BY <3>1, <1>3, FrontIs DEF PopPath
    <3>3. Len(path) - 1 = n - 2 /\ Len(path') = n - 2 /\ Len(dfsCalls') - 1 = n - 2
      BY <3>2, <2>1, <1>3, <1>10
    <3>4. ASSUME NEW i \in DOMAIN path' PROVE path'[i] = dfsCalls'[i + 1].decl
      <4>1. i \in 1..(n - 2) /\ i \in 1..(Len(path) - 1)
        BY <3>2, <3>3
      <4>2. i \in DOMAIN path /\ i + 1 \in 1..(n - 1)
        BY <4>1, <2>1, <1>3
      <4>3. QED
        BY <4>1, <4>2, <3>2, <2>1, <1>10
    <3>5. dfsCalls' # <<>>
      BY <2>3, <1>3, <1>10
    <3>6. QED
      BY <3>3, <3>4, <3>5 DEF PathInv
  <2>4. QED
    BY <2>2, <2>3
<1>20. ~Redefined'
  BY <1>1 DEF Redefined, Globals
<1>21. QED
  BY <1>1, <1>12, <1>13, <1>18, <1>19, <1>20 DEF IndexInv, Errors

LEMMA IndexSteps ==
  ASSUME IndexInv, [IndexNext]_indexVars
  PROVE  IndexInv'
<1>1. CASE UNCHANGED indexVars
  <2>1. UNCHANGED <<nameOf, refs, root, dfsCalls, visited, tempVisited, path, out, result>>
    BY <1>1 DEF indexVars
  <2>2. \A d : Resolved(d)' = Resolved(d) /\ Uses(d)' = Uses(d)
    BY <2>1 DEF Uses, Resolved, Globals
  <2>3. OutInv' = OutInv /\ IndexType' = IndexType /\ PathInv' = PathInv
    BY <2>1, <2>2 DEF OutInv, IndexType, PathInv
  <2>4. CallsInv' = CallsInv
    <3>1. \A f : Passed(f)' = Passed(f)
      BY <2>1, <2>2 DEF Passed
    <3>2. \A f, d : Follows(f, d)' = Follows(f, d)
      BY <2>1, <2>2 DEF Follows
    <3>3. \A i : Passed(dfsCalls[i])' = Passed(dfsCalls[i])
      BY <2>1, <2>2 DEF Passed
    <3>4. \A i : Follows(dfsCalls[i], dfsCalls[i + 1].decl)' = Follows(dfsCalls[i], dfsCalls[i + 1].decl)
      BY <2>1, <2>2 DEF Follows
    <3>5. (\A i \in DOMAIN dfsCalls : Passed(dfsCalls[i]))' = (\A i \in DOMAIN dfsCalls : Passed(dfsCalls[i]))
      BY <2>1, <3>3
    <3>6. (\A i \in 1..(Len(dfsCalls) - 1) : Follows(dfsCalls[i], dfsCalls[i + 1].decl))'
            = (\A i \in 1..(Len(dfsCalls) - 1) : Follows(dfsCalls[i], dfsCalls[i + 1].decl))
      BY <2>1, <3>4
    <3>7. QED
      BY <2>1, <3>5, <3>6 DEF CallsInv
  <2>5. CycleFound' = CycleFound
    <3>1. Chain' = Chain
      BY <2>1 DEF Chain
    <3>2. \A i : Uses(Chain[i])' = Uses(Chain[i])
      BY <2>1, <3>1 DEF Uses, Resolved, Globals
    <3>3. QED
      BY <2>1, <3>1, <3>2 DEF CycleFound
  <2>6. Redefined' = Redefined
    BY <2>1 DEF Redefined, Globals
  <2>7. QED
    BY <2>1, <2>3, <2>4, <2>5, <2>6 DEF IndexInv, Errors
<1>2. CASE SkipUnresolved
  <2>1. Resolved(Reference) \subseteq visited /\ result = "running" /\ AtReference
    BY <1>2 DEF SkipUnresolved, AtReference
  <2>2. QED
    BY <2>1, <1>2, PassKeeps DEF SkipUnresolved
<1>3. CASE SkipVisited
  <2>1. AtReference /\ result = "running" /\ ~Redefined
    BY <1>3 DEF SkipVisited, AtReference, IndexInv
  <2>2. PICK d \in Resolved(Reference) : d \in visited
    BY <1>3 DEF SkipVisited
  <2>3. Resolved(Reference) = {d}
    BY <2>1, <2>2, OneResolved
  <2>4. QED
    BY <2>1, <2>2, <2>3, <1>3, PassKeeps DEF SkipVisited
<1>4. QED
  BY <1>1, <1>2, <1>3, RootKeeps, SolvedKeeps, DescendKeeps, CycleKeeps, LeaveKeeps DEF IndexNext

(* The invariant of the search: what is visited is what has come out, each *)
(* after what it uses, and the calls in progress are a path of references. *)
THEOREM IndexKept == IndexSpec => []IndexInv
<1>1. IndexInv /\ [IndexNext]_indexVars => IndexInv'
  BY IndexSteps
<1>2. QED
  BY <1>1, IndexBegins, PTL DEF IndexSpec

(* What Within builds: the declarations used in n + 1 references or fewer. *)
First == [d \in Decl |-> Uses(d)]
Further(f) == [d \in Decl |-> f[d] \union UNION {Uses(e) : e \in f[d]}]
Steps(g, n) ==
    /\ g = [i \in 0..n |-> g[i]]
    /\ g[0] = First
    /\ \A i \in 1..n : g[i] = Further(g[i - 1])

LEMMA StepsExist == \A n \in Nat : \E g : Steps(g, n)
<1>1. DEFINE B == {n \in Nat : ~ \E g : Steps(g, n)}
<1>2. SUFFICES ASSUME B # {} PROVE FALSE
  OBVIOUS
<1>3. PICK m \in B : \A k \in B : m <= k
  BY <1>2, HasLeast
<1>4. m # 0
  <2>1. Steps([i \in 0..0 |-> First], 0)
    BY DEF Steps
  <2>2. QED
    BY <2>1, <1>3
<1>5. m \in Nat /\ m - 1 \in Nat /\ m - 1 \notin B
  BY <1>3, <1>4
<1>6. PICK g : Steps(g, m - 1)
  BY <1>5
<1>7. DEFINE p == m - 1
             h == [i \in 0..m |-> IF i = m THEN Further(g[p]) ELSE g[i]]
<1>8. /\ p \in Nat /\ m = p + 1 /\ g[0] = First /\ \A i \in 1..p : g[i] = Further(g[i - 1])
  <2>1. p \in Nat /\ m = p + 1
    BY <1>5
  <2>2. Steps(g, p)
    BY <1>6
  <2>3. HIDE DEF p
  <2>4. QED
    BY <2>1, <2>2 DEF Steps
<1>9. HIDE DEF p
<1>10. h[0] = First
  BY <1>8
<1>11. ASSUME NEW i \in 1..m PROVE h[i] = Further(h[i - 1])
  <2>1. i - 1 \in 0..m /\ i - 1 # m /\ i \in 0..m
    BY <1>8
  <2>2. h[i - 1] = g[i - 1]
    BY <2>1
  <2>3. CASE i = m
    <3>1. i - 1 = p
      BY <2>3, <1>8
    <3>2. QED
      BY <3>1, <2>1, <2>2, <2>3
  <2>4. CASE i # m
    <3>1. i \in 1..p
      BY <2>4, <1>8
    <3>2. QED
      BY <3>1, <2>1, <2>2, <2>4, <1>8
  <2>5. QED
    BY <2>3, <2>4
<1>12. h = [i \in 0..m |-> h[i]]
  BY Zenon
<1>13. HIDE DEF h
<1>14. Steps(h, m)
  BY <1>10, <1>11, <1>12 DEF Steps
<1>15. QED
  BY <1>14, <1>3

(* They agree as far as both go. *)
LEMMA StepsAgree ==
  ASSUME NEW n \in Nat, NEW m \in Nat, NEW g, NEW h, Steps(g, n), Steps(h, m)
  PROVE  \A i \in Nat : i <= n /\ i <= m => g[i] = h[i]
<1>1. DEFINE B == {i \in Nat : i <= n /\ i <= m /\ g[i] # h[i]}
<1>2. SUFFICES ASSUME B # {} PROVE FALSE
  OBVIOUS
<1>3. PICK i \in B : \A k \in B : i <= k
  BY <1>2, HasLeast
<1>4. i \in Nat /\ i <= n /\ i <= m /\ g[i] # h[i]
  BY <1>3
<1>5. i # 0
  BY <1>4 DEF Steps
<1>6. i - 1 \in Nat /\ i - 1 <= n /\ i - 1 <= m /\ i \in 1..n /\ i \in 1..m
  BY <1>4, <1>5
<1>7. g[i - 1] = h[i - 1]
  BY <1>3, <1>6
<1>8. g[i] = Further(g[i - 1]) /\ h[i] = Further(h[i - 1])
  BY <1>6 DEF Steps
<1>9. QED
  BY <1>4, <1>7, <1>8

LEMMA WithinIs ==
  /\ Within[0] = First
  /\ \A n \in Nat : n # 0 => Within[n] = Further(Within[n - 1])
<1>1. DEFINE G(n) == CHOOSE g : Steps(g, n)
             W == [n \in Nat |-> G(n)[n]]
             Is(w) == w = [n \in Nat |->
                             IF n = 0 THEN [d \in Decl |-> Uses(d)]
                             ELSE [d \in Decl |-> w[n - 1][d] \union UNION {Uses(e) : e \in w[n - 1][d]}]]
<1>2. \A n \in Nat : Steps(G(n), n)
  BY StepsExist
<1>3. W[0] = First
  <2>1. Steps(G(0), 0)
    BY <1>2
  <2>2. QED
    BY <2>1 DEF Steps
<1>4. ASSUME NEW n \in Nat, n # 0 PROVE W[n] = Further(W[n - 1])
  <2>1. n - 1 \in Nat /\ n \in 1..n /\ n - 1 <= n - 1 /\ n - 1 <= n
    BY <1>4
  <2>2. Steps(G(n), n) /\ Steps(G(n - 1), n - 1)
    BY <2>1, <1>2
  <2>3. G(n)[n] = Further(G(n)[n - 1])
    BY <2>1, <2>2 DEF Steps
  <2>4. G(n)[n - 1] = G(n - 1)[n - 1]
    <3>1. HIDE DEF G
    <3>2. QED
      BY <2>1, <2>2, StepsAgree
  <2>5. QED
    BY <2>1, <2>3, <2>4
<1>5. Is(W)
  <2>1. HIDE DEF W
  <2>2. W = [n \in Nat |-> W[n]]
    BY DEF W
  <2>3. \A n \in Nat : W[n] = IF n = 0 THEN First ELSE Further(W[n - 1])
    BY <1>3, <1>4
  <2>4. W = [n \in Nat |-> IF n = 0 THEN First ELSE Further(W[n - 1])]
    BY <2>2, <2>3
  <2>5. QED
    BY <2>4, Zenon DEF First, Further
<1>6. Within = CHOOSE w : Is(w)
  BY Zenon DEF Within
<1>7. Is(Within)
  <2>1. HIDE DEF Is
  <2>2. QED
    BY <1>5, <1>6, Zenon
<1>8. \A n \in Nat : Within[n] = IF n = 0 THEN First ELSE Further(Within[n - 1])
  <2>1. Within = [n \in Nat |-> IF n = 0 THEN First ELSE Further(Within[n - 1])]
    BY <1>7, Zenon DEF First, Further
  <2>2. QED
    BY <2>1, Zenon
<1>9. QED
  BY <1>8

(* Nothing is used, however far, before it has come out. *)
LEMMA ReachesEarlier ==
  ASSUME IndexType, OutInv, NEW n \in Nat
  PROVE  \A i \in DOMAIN out : Within[n][out[i]] \subseteq {out[j] : j \in 1..(i - 1)}
<1>1. DEFINE P(k) == \A i \in DOMAIN out : Within[k][out[i]] \subseteq {out[j] : j \in 1..(i - 1)}
             B == {k \in Nat : ~P(k)}
<1>2. out \in Seq(Decl) /\ DOMAIN out = 1..Len(out) /\ Len(out) \in Nat
      /\ \A i \in DOMAIN out : out[i] \in Decl
  BY DEF IndexType
<1>3. SUFFICES ASSUME B # {} PROVE FALSE
  OBVIOUS
<1>4. PICK m \in B : \A k \in B : m <= k
  BY <1>3, HasLeast
<1>5. P(0)
  BY <1>2, WithinIs DEF First, OutInv
<1>6. m \in Nat /\ m # 0 /\ m - 1 \in Nat /\ P(m - 1)
  <2>1. m \in Nat /\ m # 0
    BY <1>4, <1>5
  <2>2. m - 1 \in Nat /\ m - 1 \notin B
    BY <2>1, <1>4
  <2>3. QED
    BY <2>1, <2>2
<1>7. DEFINE p == m - 1
<1>8. Within[m] = Further(Within[p]) /\ P(p)
  BY <1>6, WithinIs
<1>9. HIDE DEF p
<1>10. ASSUME NEW i \in DOMAIN out, NEW e \in Within[m][out[i]]
       PROVE  \E j \in 1..(i - 1) : e = out[j]
  <2>1. e \in Within[p][out[i]] \/ \E u \in Within[p][out[i]] : e \in Uses(u)
    BY <1>2, <1>8, <1>10 DEF Further
  <2>2. CASE e \in Within[p][out[i]]
    BY <2>2, <1>8, <1>10
  <2>3. ASSUME NEW u \in Within[p][out[i]], e \in Uses(u) PROVE \E j \in 1..(i - 1) : e = out[j]
    <3>1. PICK k \in 1..(i - 1) : u = out[k]
      BY <1>8, <2>3
    <3>2. k \in DOMAIN out
      BY <1>2, <3>1
    <3>3. PICK j \in 1..(k - 1) : e = out[j]
      BY <3>1, <3>2, <2>3 DEF OutInv
    <3>4. j \in 1..(i - 1)
      BY <1>2, <3>1, <3>2, <3>3
    <3>5. QED
      BY <3>3, <3>4
  <2>4. QED
    BY <2>1, <2>2, <2>3
<1>11. P(m)
  BY <1>10
<1>12. QED
  BY <1>11, <1>4

LEMMA OkIs ==
  ASSUME IndexInv, result = "Ok"
  PROVE  /\ ~Cyclic
         /\ Len(out) = Decls /\ \A d \in Decl : \E i \in DOMAIN out : out[i] = d
<1>1. IndexType /\ OutInv /\ visited = Decl
  BY DEF IndexInv
<1>2. \A d \in Decl : \E i \in DOMAIN out : out[i] = d
  BY <1>1 DEF OutInv
<1>3. out \in Seq(Decl) /\ DOMAIN out = 1..Len(out) /\ Len(out) \in Nat /\ Decls \in Nat
  BY <1>1, GlobalIndexAssumption DEF IndexType
<1>4. ~Cyclic
  <2>1. SUFFICES ASSUME NEW d \in Decl, d \in Within[Decls][d] PROVE FALSE
    BY DEF Cyclic, Reaches
  <2>2. PICK i \in DOMAIN out : out[i] = d
    BY <1>2
  <2>3. PICK j \in 1..(i - 1) : d = out[j]
    BY <2>1, <2>2, <1>1, <1>3, ReachesEarlier
  <2>4. j \in DOMAIN out /\ i # j
    BY <2>2, <2>3, <1>3
  <2>5. QED
    BY <2>2, <2>3, <2>4, <1>1 DEF OutInv
<1>5. Len(out) = Decls
  <2>1. out \in Bijection(1..Len(out), Decl)
    <3>1. out \in [1..Len(out) -> Decl]
      BY <1>3
    <3>2. \A i, j \in 1..Len(out) : out[i] = out[j] => i = j
      BY <1>1, <1>3 DEF OutInv
    <3>3. \A d \in Decl : \E i \in 1..Len(out) : out[i] = d
      BY <1>2, <1>3
    <3>4. QED
      BY <3>1, <3>2, <3>3, Zenon DEF Bijection, Injection, Surjection, IsInjective
  <2>2. IsFiniteSet(1..Len(out)) /\ Cardinality(1..Len(out)) = Len(out)
    BY <1>3, FS_Interval
  <2>3. IsFiniteSet(Decl) /\ Cardinality(Decl) = Decls
    BY <1>3, FS_Interval DEF Decl
  <2>4. ExistsBijection(1..Len(out), Decl)
    BY <2>1 DEF ExistsBijection
  <2>5. QED
    BY <2>2, <2>3, <2>4, FS_Bijection
<1>6. QED
  BY <1>2, <1>4, <1>5

(* generate's order has every declaration once and after all that it uses, *)
(* and a program it refuses for a cycle has one, at the path it reports.   *)
THEOREM OrderIsSound == IndexSpec => []OrderSound
<1>1. IndexInv => OrderSound
  <2>1. IndexInv => \A i \in DOMAIN out : Uses(out[i]) \subseteq {out[j] : j \in 1..(i - 1)}
    BY DEF IndexInv, OutInv
  <2>2. IndexInv /\ result = "Ok" =>
          /\ ~Cyclic
          /\ Len(out) = Decls /\ \A d \in Decl : \E i \in DOMAIN out : out[i] = d
    BY OkIs
  <2>3. IndexInv /\ result \in {"RecursiveDeclaration", "CyclicDeclaration"} => CycleFound
    BY DEF IndexInv, Errors
  <2>4. QED
    BY <2>1, <2>2, <2>3, Zenon DEF OrderSound, CycleFound
<1>2. QED
  BY <1>1, IndexKept, PTL
================================================================================
