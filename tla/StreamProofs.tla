------------------------------ MODULE StreamProofs ------------------------------
(***************************************************************************)
(* What is proved of CommandStream: outside the gaps the runs with a       *)
(* counterexample are about, every barrier is right, the device's tracker  *)
(* is where the GPU will be, and garbage is always known.                  *)
(*                                                                         *)
(* A command buffer is encoded without knowing when or after what it will  *)
(* run.  What is shown of it is therefore said of every GPU: its commands  *)
(* bring one that is where its tracker starts to where its tracker ends    *)
(* (Tracks), and leave garbage only where it was, in what is not           *)
(* overwritten first, or in what they discarded (Sound).  A submit puts in *)
(* front of it what makes the GPU such a one, and the two invariants about *)
(* the whole stream, Kept and Watched, follow step by step.                *)
(***************************************************************************)
EXTENDS CommandStream, FiniteSetTheorems, SequenceTheorems, WellFoundedInduction, TLAPS

--------------------------------------------------------------------------------
(* Folds.  FoldLeft over a sequence is a recursive function over sets of       *)
(* indices; its value at 1..n is the last of the accumulators h[0], ..., h[n]  *)
(* that follow one another.  Apply names the functions that are folded, since  *)
(* a lemma cannot take an operator for its parameter.                          *)

(* Every nonempty set of numbers has a least one. *)
Smaller == {p \in Nat \X Nat : p[1] < p[2]}
(* Such a set has a least element: induction, as the absence of a least        *)
(* counterexample.                                                             *)
LEMMA HasLeast ==
  ASSUME NEW S, S \subseteq Nat, S # {}
  PROVE  \E m \in S : \A k \in S : m <= k
<1>1. Smaller = OpToRel(<, Nat)
  BY DEF Smaller, OpToRel
<1>2. IsWellFoundedOn(Smaller, Nat)
  BY <1>1, NatLessThanWellFounded
<1>3. PICK m \in S : \A k \in S : ~(<<k, m>> \in Smaller)
  BY <1>2, WFMin
<1>4. \A k \in S : ~(k < m) /\ k \in Nat /\ m \in Nat
  BY <1>3 DEF Smaller
<1>5. QED
  BY <1>4

Ran(g, o) == IF o.op = "barrier" THEN Transitioned(g, o) ELSE Worked(g, o)

Apply(f, acc, x) ==
    CASE f.op = "run" -> Ran(acc, x)
      [] f.op = "clear" -> Cleared(acc, CellKey[x], {x})
      [] f.op = "buffers" -> Cleared(acc, x, {c \in f.cells : CellKey[c] = x})
      [] f.op = "dispatch" -> Dispatched(acc, x, f.cells)
      [] f.op = "encode" -> EncodeCommand(acc, x, f.cells)
      [] f.op = "resolve" -> Drained(acc, x)

Fold(f, base, seq, n, G) ==
    G = [s \in SUBSET (1..n) |->
           IF s = {} THEN base ELSE Apply(f, G[s \ {Max(s)}], seq[Max(s)])]

Follow(f, base, seq, n, h) ==
    h[0] = base /\ \A i \in 1..n : h[i] = Apply(f, h[i - 1], seq[i])

(* Max of a set of indices is its greatest element. *)
LEMMA MaxIs ==
  ASSUME NEW n \in Nat, NEW s \in SUBSET (1..n), s # {}
  PROVE  Max(s) \in s /\ \A x \in s : x <= Max(s)
<1>1. DEFINE U == {u \in Nat : \A x \in s : x <= u}
<1>2. n \in U
  OBVIOUS
<1>3. PICK m \in U : \A u \in U : m <= u
  BY <1>2, HasLeast
<1>4. m \in s
  <2>1. SUFFICES ASSUME m \notin s PROVE FALSE
    OBVIOUS
  <2>2. \A x \in s : x < m /\ x >= 1 /\ x \in Nat
    BY <1>3, <2>1
  <2>3. m - 1 \in U
    <3>1. PICK x \in s : TRUE
      OBVIOUS
    <3>2. m \in Nat /\ m > 0
      BY <3>1, <2>2, <1>3
    <3>3. QED
      BY <3>2, <2>2
  <2>4. QED
    BY <2>3, <1>3
<1>5. \E x \in s : \A y \in s : x >= y
  BY <1>3, <1>4
<1>6. Max(s) \in s /\ \A y \in s : Max(s) >= y
  BY <1>5 DEF Max
<1>7. QED
  BY <1>6

(* The recursive function a fold is defined by exists. *)
LEMMA FoldExists ==
  ASSUME NEW f, NEW base, NEW seq, NEW n \in Nat
  PROVE  \E G : Fold(f, base, seq, n, G)
<1>1. DEFINE B == {m \in Nat : ~ \E G : Fold(f, base, seq, m, G)}
<1>2. SUFFICES ASSUME B # {} PROVE FALSE
  OBVIOUS
<1>3. PICK m \in B : \A k \in B : m <= k
  BY <1>2, HasLeast
<1>4. m # 0
  <2>1. DEFINE G == [s \in SUBSET (1..0) |-> base]
  <2>2. \A s \in SUBSET (1..0) : s = {}
    OBVIOUS
  <2>3. G = [s \in SUBSET (1..0) |->
               IF s = {} THEN base ELSE Apply(f, G[s \ {Max(s)}], seq[Max(s)])]
    BY <2>2
  <2>4. Fold(f, base, seq, 0, G)
    BY <2>3, Zenon DEF Fold
  <2>5. QED
    BY <2>4, <1>3
<1>5. m \in Nat /\ m - 1 \in Nat /\ m - 1 \notin B
  BY <1>3, <1>4
<1>6. DEFINE p == m - 1
<1>7. p \in Nat /\ m = p + 1
  BY <1>5
<1>8. PICK H : Fold(f, base, seq, p, H)
  BY <1>5
<1>9. HIDE DEF p
<1>10. DEFINE G == [s \in SUBSET (1..m) |->
                     IF m \in s THEN Apply(f, H[s \ {m}], seq[m]) ELSE H[s]]
<1>11. \A s \in SUBSET (1..m) : m \notin s => s \in SUBSET (1..p)
  BY <1>7
<1>12. \A s \in SUBSET (1..p) : m \notin s /\ s \in SUBSET (1..m)
  BY <1>7
<1>13. \A s \in SUBSET (1..p) :
          H[s] = IF s = {} THEN base ELSE Apply(f, H[s \ {Max(s)}], seq[Max(s)])
  BY <1>8, Zenon DEF Fold
<1>14. ASSUME NEW s \in SUBSET (1..m)
       PROVE  G[s] = IF s = {} THEN base ELSE Apply(f, G[s \ {Max(s)}], seq[Max(s)])
  <2>1. CASE m \in s
    <3>1. s # {} /\ Max(s) \in s /\ \A x \in s : x <= Max(s)
      BY <2>1, <1>5, MaxIs
    <3>2. Max(s) = m
      <4>1. DEFINE x == Max(s)
      <4>2. x \in 1..m /\ m <= x
        BY <3>1, <2>1
      <4>3. HIDE DEF x
      <4>4. x = m
        BY <4>2, <1>5
      <4>5. QED
        BY <4>4 DEF x
    <3>3. s \ {m} \in SUBSET (1..m) /\ m \notin s \ {m}
      OBVIOUS
    <3>4. G[s \ {m}] = H[s \ {m}]
      BY <3>3
    <3>5. G[s] = Apply(f, H[s \ {m}], seq[m])
      BY <2>1
    <3>6. QED
      BY <3>1, <3>2, <3>4, <3>5
  <2>2. CASE m \notin s
    <3>1. s \in SUBSET (1..p) /\ s \ {Max(s)} \in SUBSET (1..p)
      BY <2>2, <1>11
    <3>2. G[s] = H[s] /\ G[s \ {Max(s)}] = H[s \ {Max(s)}]
      BY <3>1, <1>12, <2>2
    <3>3. QED
      BY <3>1, <3>2, <1>13
  <2>3. QED
    BY <2>1, <2>2
<1>15. G = [s \in SUBSET (1..m) |-> G[s]]
  BY Zenon
<1>16. HIDE DEF G
<1>17. Fold(f, base, seq, m, G)
  BY <1>14, <1>15 DEF Fold
<1>18. QED
  BY <1>17, <1>3

(* Its values at 1..0, 1..1, ... follow one another. *)
LEMMA FoldFollows ==
  ASSUME NEW f, NEW base, NEW seq, NEW n \in Nat, NEW G, Fold(f, base, seq, n, G)
  PROVE  \E h : Follow(f, base, seq, n, h) /\ h[n] = G[1..n]
<1>1. \A s \in SUBSET (1..n) :
          G[s] = IF s = {} THEN base ELSE Apply(f, G[s \ {Max(s)}], seq[Max(s)])
  BY Zenon DEF Fold
<1>2. DEFINE h == [i \in 0..n |-> G[1..i]]
<1>3. h[0] = base
  <2>1. 1..0 = {} /\ 0 \in 0..n
    OBVIOUS
  <2>2. QED
    BY <2>1, <1>1
<1>4. ASSUME NEW i \in 1..n PROVE h[i] = Apply(f, h[i - 1], seq[i])
  <2>1. /\ 1..i \in SUBSET (1..n) /\ 1..i # {} /\ i \in 1..i
        /\ i \in 0..n /\ i - 1 \in 0..n /\ i \in Nat
    OBVIOUS
  <2>2. Max(1..i) = i
    <3>1. Max(1..i) \in 1..i /\ \A x \in 1..i : x <= Max(1..i)
      BY <2>1, MaxIs
    <3>2. QED
      BY <3>1, <2>1
  <2>3. (1..i) \ {i} = 1..(i - 1)
    OBVIOUS
  <2>4. h[i] = G[1..i] /\ h[i - 1] = G[1..(i - 1)]
    BY <2>1
  <2>5. QED
    BY <2>1, <2>2, <2>3, <2>4, <1>1
<1>5. h[n] = G[1..n]
  BY n \in 0..n
<1>6. HIDE DEF h
<1>7. QED
  BY <1>3, <1>4, <1>5 DEF Follow

(* Two runs of accumulators from the same base are the same. *)
LEMMA FollowsAgree ==
  ASSUME NEW f, NEW base, NEW seq, NEW n \in Nat, NEW g, NEW h,
         Follow(f, base, seq, n, g), Follow(f, base, seq, n, h)
  PROVE  \A i \in 0..n : g[i] = h[i]
<1>1. DEFINE B == {i \in Nat : i <= n /\ g[i] # h[i]}
<1>2. SUFFICES ASSUME B # {} PROVE FALSE
  OBVIOUS
<1>3. PICK i \in B : \A k \in B : i <= k
  BY <1>2, HasLeast
<1>4. i \in Nat /\ i <= n /\ g[i] # h[i] /\ i # 0
  BY <1>3 DEF Follow
<1>5. i - 1 \in Nat /\ i - 1 <= n /\ i \in 1..n /\ i - 1 \notin B
  BY <1>3, <1>4
<1>6. g[i - 1] = h[i - 1]
  BY <1>5
<1>7. QED
  BY <1>4, <1>5, <1>6 DEF Follow

(* Running raw commands. *)
Run == [op |-> "run"]

RunFold(g, ops, n, G) ==
  G = [s \in SUBSET (1..n) |-> IF s = {} THEN g ELSE Ran(G[s \ {Max(s)}], ops[Max(s)])]

(* Execute is the last of the states the raw commands take the GPU through. *)
LEMMA RunFolds ==
  ASSUME NEW g, NEW ops, NEW n \in Nat, DOMAIN ops = 1..n
  PROVE  \E h : Follow(Run, g, ops, n, h) /\ h[n] = Execute(g, ops)
<1>1. Execute(g, ops) = (CHOOSE G : RunFold(g, ops, n, G))[1..n]
  BY Zenon DEF Execute, FoldLeft, MapThenFoldSet, RunFold, Ran
<1>2. \A a, x : Apply(Run, a, x) = Ran(a, x)
  BY DEF Apply, Run
<1>3. \A G : RunFold(g, ops, n, G) <=> Fold(Run, g, ops, n, G)
  BY <1>2, Zenon DEF RunFold, Fold
<1>4. DEFINE F == CHOOSE G : RunFold(g, ops, n, G)
<1>5. RunFold(g, ops, n, F)
  BY <1>3, FoldExists
<1>6. Fold(Run, g, ops, n, F) /\ Execute(g, ops) = F[1..n]
  BY <1>1, <1>3, <1>5
<1>7. HIDE DEF F
<1>8. QED
  BY <1>6, FoldFollows

--------------------------------------------------------------------------------
(* What the accumulators of a fold keep, and the GPU's steps.                  *)

(* What holds of the base, and from one accumulator to the next, holds of      *)
(* each.                                                                       *)
LEMMA FollowHolds ==
  ASSUME NEW f, NEW base, NEW seq, NEW n \in Nat, NEW h, Follow(f, base, seq, n, h),
         NEW P, base \in P[0],
         \A i \in 1..n : \A a \in P[i - 1] : Apply(f, a, seq[i]) \in P[i]
  PROVE  \A i \in 0..n : h[i] \in P[i]
<1>1. DEFINE B == {i \in Nat : i <= n /\ h[i] \notin P[i]}
<1>2. SUFFICES ASSUME B # {} PROVE FALSE
  OBVIOUS
<1>3. PICK i \in B : \A k \in B : i <= k
  BY <1>2, HasLeast
<1>4. i \in Nat /\ i <= n /\ h[i] \notin P[i] /\ i # 0
  BY <1>3 DEF Follow
<1>5. i - 1 \in Nat /\ i - 1 <= n /\ i \in 1..n /\ i - 1 \notin B
  BY <1>3, <1>4
<1>6. h[i - 1] \in P[i - 1]
  BY <1>5
<1>7. QED
  BY <1>4, <1>5, <1>6 DEF Follow

(* A set every step stays in holds the last accumulator. *)
LEMMA FollowStays ==
  ASSUME NEW f, NEW base, NEW seq, NEW n \in Nat, NEW h, Follow(f, base, seq, n, h),
         NEW S, base \in S, \A i \in 1..n : \A a \in S : Apply(f, a, seq[i]) \in S
  PROVE  h[n] \in S
<1>1. DEFINE P == [i \in 0..n |-> S]
<1>2. base \in P[0] /\ \A i \in 1..n : \A a \in P[i - 1] : Apply(f, a, seq[i]) \in P[i]
  <2>1. \A i \in 1..n : i \in 0..n /\ i - 1 \in 0..n
    OBVIOUS
  <2>2. QED
    BY <2>1
<1>3. HIDE DEF P
<1>4. h[n] \in P[n]
  BY <1>2, FollowHolds
<1>5. QED
  BY <1>4 DEF P

(* The first accumulators are those of the first elements. *)
LEMMA FollowPart ==
  ASSUME NEW f, NEW base, NEW seq, NEW n \in Nat, NEW h, Follow(f, base, seq, n, h),
         NEW m \in 0..n, NEW s, \A i \in 1..m : s[i] = seq[i]
  PROVE  Follow(f, base, s, m, h)
<1>1. \A i \in 1..m : i \in 1..n
  OBVIOUS
<1>2. QED
  BY <1>1 DEF Follow

(* The last ones are those of the last elements, from where the first ended. *)
LEMMA FollowShift ==
  ASSUME NEW f, NEW base, NEW seq, NEW n \in Nat, NEW h, Follow(f, base, seq, n, h),
         NEW m \in 0..n, NEW s, \A i \in 1..(n - m) : s[i] = seq[m + i],
         NEW k, \A i \in 0..(n - m) : k[i] = h[m + i]
  PROVE  Follow(f, h[m], s, n - m, k)
<1>1. k[0] = h[m]
  BY 0 \in 0..(n - m) /\ m + 0 = m
<1>2. ASSUME NEW i \in 1..(n - m) PROVE k[i] = Apply(f, k[i - 1], s[i])
  <2>1. i \in 0..(n - m) /\ i - 1 \in 0..(n - m) /\ m + i \in 1..n /\ m + (i - 1) = m + i - 1
    OBVIOUS
  <2>2. h[m + i] = Apply(f, h[m + i - 1], seq[m + i])
    BY <2>1 DEF Follow
  <2>3. k[i] = h[m + i] /\ k[i - 1] = h[m + i - 1]
    BY <2>1
  <2>4. QED
    BY <2>2, <2>3, <1>2
<1>3. QED
  BY <1>1, <1>2 DEF Follow

(* What can happen to the GPU, and what it can be told. *)
Contents == {"garbage", "zero", "queued", "computed"}
GpuStates == [state : [Key -> State], touched : SUBSET Key, mem : [Cell -> Contents],
              seen : SUBSET (Cell \X Contents), wrong : BOOLEAN]
BarrierOps == [op : {"barrier"}, key : Key, from : State, to : State]
WorkOps == [op : {"work"}, use : [Key -> State], reads : SUBSET Cell, writes : SUBSET Cell,
            partial : SUBSET Cell, drops : SUBSET Cell, value : Contents]
RawOps == BarrierOps \cup WorkOps

(* What a barrier does to the GPU. *)
LEMMA RanBarrier ==
  ASSUME NEW g \in GpuStates, NEW o \in BarrierOps
  PROVE  /\ Ran(g, o) \in GpuStates
         /\ Ran(g, o).wrong = (g.wrong \/ g.state[o.key] # o.from)
         /\ Ran(g, o).state = [g.state EXCEPT ![o.key] = o.to]
         /\ Ran(g, o).touched = g.touched \ {o.key}
         /\ Ran(g, o).mem = g.mem /\ Ran(g, o).seen = g.seen
<1>1. Ran(g, o) = Transitioned(g, o)
  BY DEF Ran, BarrierOps
<1>2. DEFINE w == (g.wrong \/ g.state[o.key] # o.from)
             s == [g.state EXCEPT ![o.key] = o.to]
             t == g.touched \ {o.key}
<1>3. w \in BOOLEAN /\ s \in [Key -> State] /\ t \in SUBSET Key
  BY DEF GpuStates, BarrierOps
<1>4. Transitioned(g, o) = [g EXCEPT !.wrong = w, !.state = s, !.touched = t]
  BY DEF Transitioned, GpuStates
<1>5. HIDE DEF w, s, t
<1>6. /\ Transitioned(g, o) \in GpuStates /\ Transitioned(g, o).wrong = w
      /\ Transitioned(g, o).state = s /\ Transitioned(g, o).touched = t
      /\ Transitioned(g, o).mem = g.mem /\ Transitioned(g, o).seen = g.seen
  BY <1>3, <1>4 DEF GpuStates
<1>7. QED
  BY <1>1, <1>6 DEF w, s, t

(* What a piece of work does to the GPU. *)
LEMMA RanWork ==
  ASSUME NEW g \in GpuStates, NEW o \in WorkOps
  PROVE  /\ Ran(g, o) \in GpuStates
         /\ Ran(g, o).wrong = (g.wrong \/ Misused(g, o.use))
         /\ Ran(g, o).state = g.state
         /\ Ran(g, o).touched = g.touched \cup {k \in Key : o.use[k] # {}}
         /\ Ran(g, o).mem = [c \in Cell |->
                                IF c \in o.drops THEN "garbage"
                                ELSE IF c \in o.writes THEN o.value
                                ELSE IF c \in o.partial /\ g.mem[c] # "garbage" THEN o.value
                                ELSE g.mem[c]]
         /\ Ran(g, o).seen = g.seen \cup {<<c, g.mem[c]>> : c \in o.reads}
<1>1. Ran(g, o) = Worked(g, o)
  BY DEF Ran, WorkOps
<1>2. Misused(g, o.use) \in BOOLEAN
  BY DEF Misused
<1>3. DEFINE m == [c \in Cell |->
                    IF c \in o.drops THEN "garbage"
                    ELSE IF c \in o.writes THEN o.value
                    ELSE IF c \in o.partial /\ g.mem[c] # "garbage" THEN o.value
                    ELSE g.mem[c]]
             n == g.seen \cup {<<c, g.mem[c]>> : c \in o.reads}
             t == g.touched \cup {k \in Key : o.use[k] # {}}
             w == g.wrong \/ Misused(g, o.use)
<1>4. m \in [Cell -> Contents]
  BY DEF GpuStates, WorkOps, Contents
<1>5. n \in SUBSET (Cell \X Contents)
  BY DEF GpuStates, WorkOps
<1>6. t \in SUBSET Key /\ w \in BOOLEAN
  BY <1>2 DEF GpuStates
<1>7. Worked(g, o) = [g EXCEPT !.wrong = w, !.touched = t, !.seen = n, !.mem = m]
  BY DEF Worked
<1>8. HIDE DEF m, n, t, w
<1>9. /\ Worked(g, o) \in GpuStates /\ Worked(g, o).wrong = w /\ Worked(g, o).touched = t
      /\ Worked(g, o).seen = n /\ Worked(g, o).mem = m /\ Worked(g, o).state = g.state
  BY <1>4, <1>5, <1>6, <1>7 DEF GpuStates
<1>10. QED
  BY <1>1, <1>9 DEF m, n, t, w

(* Nothing to run changes nothing. *)
LEMMA RunEmpty == ASSUME NEW g PROVE Execute(g, <<>>) = g
<1>1. DOMAIN <<>> = 1..0 /\ 0 \in Nat
  OBVIOUS
<1>2. PICK h : Follow(Run, g, <<>>, 0, h) /\ h[0] = Execute(g, <<>>)
  BY <1>1, RunFolds
<1>3. QED
  BY <1>2 DEF Follow

(* Two lists run one after the other. *)
LEMMA RunJoined ==
  ASSUME NEW T, NEW g, NEW a \in Seq(T), NEW b \in Seq(T)
  PROVE  Execute(g, a \o b) = Execute(Execute(g, a), b)
<1>1. DEFINE m == Len(a)
             l == Len(b)
             s == a \o b
             n == m + l
<1>2. /\ m \in Nat /\ l \in Nat /\ n \in Nat /\ m \in 0..n /\ n - m = l
      /\ DOMAIN a = 1..m /\ DOMAIN b = 1..l
  OBVIOUS
<1>3. /\ DOMAIN s = 1..n
      /\ \A i \in 1..m : a[i] = s[i]
      /\ \A i \in 1..l : b[i] = s[m + i]
  <2>1. /\ s \in Seq(T) /\ Len(s) = n
        /\ \A i \in 1..n : s[i] = IF i <= m THEN a[i] ELSE b[i - m]
    BY ConcatProperties
  <2>2. HIDE DEF m, l, s
  <2>3. \A i \in 1..l : m + i \in 1..n /\ ~(m + i <= m) /\ (m + i) - m = i
    BY <1>2
  <2>4. \A i \in 1..m : i \in 1..n /\ i <= m
    BY <1>2
  <2>5. QED
    BY <2>1, <2>3, <2>4
<1>4. HIDE DEF m, l, s, n
<1>5. PICK h : Follow(Run, g, s, n, h) /\ h[n] = Execute(g, s)
  BY <1>2, <1>3, RunFolds
<1>6. PICK u : Follow(Run, g, a, m, u) /\ u[m] = Execute(g, a)
  BY <1>2, RunFolds
<1>7. Follow(Run, g, a, m, h)
  BY <1>2, <1>3, <1>5, FollowPart
<1>8. h[m] = Execute(g, a)
  <2>1. m \in 0..m /\ m \in Nat
    BY <1>2
  <2>2. Follow(Run, g, a, m, u)
    BY <1>6
  <2>3. \A i \in 0..m : u[i] = h[i]
    BY <2>1, <2>2, <1>7, FollowsAgree
  <2>4. QED
    BY <2>1, <2>3, <1>6
<1>9. PICK v : Follow(Run, h[m], b, l, v) /\ v[l] = Execute(h[m], b)
  BY <1>2, RunFolds
<1>10. DEFINE k == [i \in 0..l |-> h[m + i]]
<1>11. Follow(Run, h[m], b, l, k)
  <2>1. m \in 0..n /\ n \in Nat /\ Follow(Run, g, s, n, h)
    BY <1>2, <1>5
  <2>2. /\ \A i \in 1..(n - m) : b[i] = s[m + i]
        /\ \A i \in 0..(n - m) : k[i] = h[m + i]
    BY <1>2, <1>3
  <2>3. HIDE DEF k
  <2>4. Follow(Run, h[m], b, n - m, k)
    BY <2>1, <2>2, FollowShift
  <2>5. QED
    BY <2>4, <1>2
<1>13. v[l] = h[m + l]
  <2>1. l \in 0..l /\ l \in Nat /\ k[l] = h[m + l]
    BY <1>2
  <2>2. HIDE DEF k
  <2>3. Follow(Run, h[m], b, l, v)
    BY <1>9
  <2>4. \A i \in 0..l : v[i] = k[i]
    BY <2>1, <2>3, <1>11, FollowsAgree
  <2>5. QED
    BY <2>1, <2>4
<1>14. QED
  BY <1>5, <1>8, <1>9, <1>13 DEF n, s

(* One raw command runs as itself. *)
LEMMA RunOne == ASSUME NEW g, NEW o PROVE Execute(g, <<o>>) = Ran(g, o)
<1>1. DOMAIN <<o>> = 1..1 /\ 1 \in Nat /\ 1 \in 1..1 /\ <<o>>[1] = o
  OBVIOUS
<1>2. PICK h : Follow(Run, g, <<o>>, 1, h) /\ h[1] = Execute(g, <<o>>)
  BY <1>1, RunFolds
<1>3. h[1] = Apply(Run, g, o)
  <2>1. 1 - 1 = 0
    OBVIOUS
  <2>2. QED
    BY <1>1, <1>2, <2>1 DEF Follow
<1>4. Apply(Run, g, o) = Ran(g, o)
  BY DEF Apply, Run
<1>5. QED
  BY <1>2, <1>3, <1>4

(* What runs leaves the GPU in one of its states. *)
LEMMA RunTypes ==
  ASSUME NEW g \in GpuStates, NEW ops \in Seq(RawOps)
  PROVE  Execute(g, ops) \in GpuStates
<1>1. DOMAIN ops = 1..Len(ops) /\ Len(ops) \in Nat
  OBVIOUS
<1>2. PICK h : Follow(Run, g, ops, Len(ops), h) /\ h[Len(ops)] = Execute(g, ops)
  BY <1>1, RunFolds
<1>3. \A a : \A x : Apply(Run, a, x) = Ran(a, x)
  BY DEF Apply, Run
<1>4. ASSUME NEW i \in 1..Len(ops), NEW a \in GpuStates
      PROVE  Apply(Run, a, ops[i]) \in GpuStates
  <2>1. ops[i] \in RawOps
    BY <1>1
  <2>2. ops[i] \in BarrierOps \/ ops[i] \in WorkOps
    BY <2>1 DEF RawOps
  <2>3. Ran(a, ops[i]) \in GpuStates
    BY <2>2, RanBarrier, RanWork
  <2>4. QED
    BY <2>3, <1>3
<1>5. Len(ops) \in Nat /\ Follow(Run, g, ops, Len(ops), h)
  BY <1>1, <1>2
<1>6. \A i \in 1..Len(ops) : \A a \in GpuStates : Apply(Run, a, ops[i]) \in GpuStates
  BY <1>4
<1>7. h[Len(ops)] \in GpuStates
  BY <1>5, <1>6, FollowStays
<1>8. QED
  BY <1>7, <1>2

--------------------------------------------------------------------------------
(* Barriers: what is emitted, and what running it does.                        *)

(* A finite set in a sequence, each element once. *)
LEMMA SetSequence ==
  ASSUME NEW S, IsFiniteSet(S)
  PROVE  /\ SetToSeq(S) \in Seq(S)
         /\ \A i \in 1..Len(SetToSeq(S)) : \A j \in 1..Len(SetToSeq(S)) :
               SetToSeq(S)[i] = SetToSeq(S)[j] => i = j
         /\ \A x \in S : \E i \in 1..Len(SetToSeq(S)) : SetToSeq(S)[i] = x
<1>1. DEFINE n == Cardinality(S)
             q == SetToSeq(S)
<1>2. n \in Nat /\ ExistsBijection(1..n, S)
  BY FS_CardinalityType
<1>3. PICK b \in [1..n -> S] : IsInjective(b)
  BY <1>2 DEF ExistsBijection, Bijection, Injection
<1>4. q \in [1..n -> S] /\ IsInjective(q)
  BY <1>3 DEF SetToSeq
<1>5. HIDE DEF q
<1>6. IsFiniteSet(1..n) /\ Cardinality(1..n) = n
  <2>1. n = IF 1 > n THEN 0 ELSE n - 1 + 1
    BY <1>2
  <2>2. 1 \in Int /\ n \in Int
    BY <1>2
  <2>3. HIDE DEF n
  <2>4. QED
    BY <2>1, <2>2, FS_Interval
<1>7. q \in Injection(1..n, S)
  BY <1>4 DEF Injection
<1>8. q \in Surjection(1..n, S)
  BY <1>6, <1>7, FS_Injection
<1>9. q \in Seq(S) /\ Len(q) = n
  BY <1>4, <1>2
<1>10. \A x \in S : \E i \in 1..n : q[i] = x
  BY <1>8 DEF Surjection
<1>11. \A i \in 1..n : \A j \in 1..n : q[i] = q[j] => i = j
  BY <1>4 DEF IsInjective
<1>12. QED
  BY <1>9, <1>10, <1>11 DEF q

Moves(current, new, k) ==
    current[k] # {} /\ new[k] # {} /\ ~SkipBarrier(current[k], new[k])

(* The barriers between two trackers' states: one for each key that must move. *)
LEMMA BarrierList ==
  ASSUME NEW current \in [Key -> State], NEW new \in [Key -> State]
  PROVE  /\ Barriers(current, new) \in Seq(BarrierOps)
         /\ \A i \in 1..Len(Barriers(current, new)) :
               /\ Barriers(current, new)[i].key \in Key
               /\ Moves(current, new, Barriers(current, new)[i].key)
               /\ Barriers(current, new)[i].from = current[Barriers(current, new)[i].key]
               /\ Barriers(current, new)[i].to = new[Barriers(current, new)[i].key]
         /\ \A i \in 1..Len(Barriers(current, new)) : \A j \in 1..Len(Barriers(current, new)) :
               Barriers(current, new)[i].key = Barriers(current, new)[j].key => i = j
         /\ \A k \in Key : Moves(current, new, k) =>
               \E i \in 1..Len(Barriers(current, new)) : Barriers(current, new)[i].key = k
<1>1. DEFINE J == {k \in Key : Moves(current, new, k)}
             f == [k \in J |-> Barrier(k, current[k], new[k])]
             T == {Barrier(k, current[k], new[k]) : k \in J}
             q == SetToSeq(T)
<1>2. Barriers(current, new) = q
  BY DEF Barriers, Moves
<1>3. IsFiniteSet(J)
  BY ResourceAssumption, FS_Subset
<1>4. f \in Surjection(J, T)
  BY DEF Surjection
<1>5. IsFiniteSet(T)
  BY <1>3, <1>4, FS_Surjection
<1>6. \A t \in T : /\ t.key \in J /\ t \in BarrierOps
                   /\ t = Barrier(t.key, current[t.key], new[t.key])
                   /\ t.from = current[t.key] /\ t.to = new[t.key]
  BY DEF Barrier, BarrierOps
<1>7. \A k \in J : /\ Barrier(k, current[k], new[k]) \in T
                   /\ Barrier(k, current[k], new[k]).key = k
  BY DEF Barrier
<1>8. \A k \in Key : k \in J <=> Moves(current, new, k)
  OBVIOUS
<1>9. J \subseteq Key
  OBVIOUS
<1>10. HIDE DEF J, T, f
<1>11. /\ q \in Seq(T)
       /\ \A i \in 1..Len(q) : \A j \in 1..Len(q) : q[i] = q[j] => i = j
       /\ \A x \in T : \E i \in 1..Len(q) : q[i] = x
  BY <1>5, SetSequence
<1>12. HIDE DEF q
<1>13. Len(q) \in Nat /\ \A i \in 1..Len(q) : q[i] \in T
  BY <1>11
<1>14. \A i \in 1..Len(q) : \A j \in 1..Len(q) : q[i].key = q[j].key => i = j
  <2>1. TAKE i \in 1..Len(q)
  <2>2. TAKE j \in 1..Len(q)
  <2>3. HAVE q[i].key = q[j].key
  <2>4. q[i] = q[j]
    BY <1>6, <1>13, <2>3
  <2>5. QED
    BY <2>4, <1>11
<1>15. \A k \in Key : Moves(current, new, k) => \E i \in 1..Len(q) : q[i].key = k
  BY <1>7, <1>8, <1>11
<1>16. \A i \in 1..Len(q) : /\ q[i].key \in Key /\ Moves(current, new, q[i].key)
                            /\ q[i].from = current[q[i].key] /\ q[i].to = new[q[i].key]
  BY <1>6, <1>8, <1>9, <1>13
<1>17. q \in Seq(BarrierOps)
  BY <1>6, <1>13, <1>11
<1>18. QED
  BY <1>2, <1>14, <1>15, <1>16, <1>17

(* What running the barriers between two states does: nothing is wrong if the GPU  *)
(* is where the first says, and it is then where the second says.                  *)
LEMMA RunBarriers ==
  ASSUME NEW current \in [Key -> State], NEW new \in [Key -> State], NEW g \in GpuStates,
         \A k \in Key : current[k] # {} /\ new[k] # {} => g.state[k] = current[k],
         NEW h, h = Execute(g, Barriers(current, new))
  PROVE  /\ h \in GpuStates /\ h.wrong = g.wrong /\ h.mem = g.mem
         /\ \A k \in Key : Moves(current, new, k) => h.state[k] = new[k] /\ k \notin h.touched
         /\ \A k \in Key : ~Moves(current, new, k) =>
               h.state[k] = g.state[k] /\ (k \in h.touched <=> k \in g.touched)
<1>1. DEFINE q == Barriers(current, new)
             n == Len(q)
<1>2. /\ q \in Seq(BarrierOps)
      /\ \A i \in 1..n : /\ q[i].key \in Key /\ Moves(current, new, q[i].key)
                         /\ q[i].from = current[q[i].key] /\ q[i].to = new[q[i].key]
      /\ \A i \in 1..n : \A j \in 1..n : q[i].key = q[j].key => i = j
      /\ \A k \in Key : Moves(current, new, k) => \E i \in 1..n : q[i].key = k
  BY BarrierList
<1>3. h = Execute(g, q)
  OBVIOUS
<1>4. HIDE DEF q
<1>5. n \in Nat /\ DOMAIN q = 1..n /\ \A i \in 1..n : q[i] \in BarrierOps
  BY <1>2
<1>6. PICK u : Follow(Run, g, q, n, u) /\ u[n] = h
  BY <1>3, <1>5, RunFolds
<1>7. DEFINE Done(i) == {k \in Key : \E j \in 1..i : q[j].key = k}
             At(i) == {a \in GpuStates :
                         /\ a.wrong = g.wrong /\ a.mem = g.mem
                         /\ \A k \in Done(i) : a.state[k] = new[k] /\ k \notin a.touched
                         /\ \A k \in Key \ Done(i) :
                               a.state[k] = g.state[k] /\ (k \in a.touched <=> k \in g.touched)}
             P == [i \in 0..n |-> At(i)]
<1>8. g \in P[0]
  <2>1. 0 \in 0..n /\ 1..0 = {}
    BY <1>5
  <2>2. Done(0) = {}
    BY <2>1
  <2>3. g \in At(0)
    BY <2>2
  <2>4. QED
    BY <2>1, <2>3
<1>9. ASSUME NEW i \in 1..n, NEW a \in P[i - 1]
      PROVE  Apply(Run, a, q[i]) \in P[i]
  <2>1. i \in 0..n /\ i - 1 \in 0..n /\ i \in 1..i /\ i \in Nat
    BY <1>5
  <2>2. a \in At(i - 1)
    BY <2>1, <1>9
  <2>3. DEFINE o == q[i]
               b == Ran(a, o)
  <2>4. o \in BarrierOps /\ o.key \in Key /\ Moves(current, new, o.key)
        /\ o.from = current[o.key] /\ o.to = new[o.key]
    BY <1>2, <1>5
  <2>5. o.key \notin Done(i - 1)
    <3>1. ASSUME NEW j \in 1..(i - 1), q[j].key = o.key PROVE FALSE
      <4>1. j \in 1..n /\ j # i
        BY <2>1
      <4>2. QED
        BY <4>1, <3>1, <1>2
    <3>2. QED
      BY <3>1
  <2>6. Done(i) = Done(i - 1) \cup {o.key}
    <3>1. 1..i = (1..(i - 1)) \cup {i}
      BY <2>1
    <3>2. QED
      BY <3>1, <2>4
  <2>7. /\ b \in GpuStates
        /\ b.wrong = (a.wrong \/ a.state[o.key] # o.from)
        /\ b.state = [a.state EXCEPT ![o.key] = o.to]
        /\ b.touched = a.touched \ {o.key}
        /\ b.mem = a.mem
    <3>1. a \in GpuStates /\ o \in BarrierOps
      BY <2>2, <2>4
    <3>2. HIDE DEF o, At
    <3>3. QED
      BY <3>1, RanBarrier
  <2>8. current[o.key] # {} /\ new[o.key] # {}
    BY <2>4 DEF Moves
  <2>9. Apply(Run, a, o) = b
    BY DEF Apply, Run
  <2>10. a.state[o.key] = o.from
    <3>1. o.key \in Key \ Done(i - 1)
      BY <2>4, <2>5
    <3>2. a.state[o.key] = g.state[o.key]
      BY <2>2, <3>1
    <3>3. HIDE DEF o, At
    <3>4. g.state[o.key] = current[o.key]
      BY <2>4, <2>8
    <3>5. QED
      BY <3>2, <3>4, <2>4
  <2>11. a.state \in [Key -> State] /\ a.wrong \in BOOLEAN
    BY <2>2 DEF GpuStates
  <2>12. HIDE DEF b, o
  <2>13. b.wrong = g.wrong /\ b.mem = g.mem
    BY <2>2, <2>7, <2>10, <2>11
  <2>14. ASSUME NEW k \in Done(i) PROVE b.state[k] = new[k] /\ k \notin b.touched
    <3>1. CASE k = o.key
      BY <3>1, <2>7, <2>4, <2>11
    <3>2. CASE k # o.key
      <4>1. k \in Done(i - 1) /\ k \in Key
        BY <3>2, <2>6
      <4>2. a.state[k] = new[k] /\ k \notin a.touched
        BY <4>1, <2>2
      <4>3. QED
        BY <4>1, <4>2, <3>2, <2>7, <2>11
    <3>3. QED
      BY <3>1, <3>2
  <2>15. ASSUME NEW k \in Key \ Done(i)
         PROVE  b.state[k] = g.state[k] /\ (k \in b.touched <=> k \in g.touched)
    <3>1. k # o.key /\ k \in Key \ Done(i - 1)
      BY <2>6
    <3>2. a.state[k] = g.state[k] /\ (k \in a.touched <=> k \in g.touched)
      BY <3>1, <2>2
    <3>3. QED
      BY <3>1, <3>2, <2>7, <2>11
  <2>16. HIDE DEF Done
  <2>17. b \in At(i)
    BY <2>7, <2>13, <2>14, <2>15
  <2>18. P[i] = At(i)
    BY <2>1
  <2>19. QED
    BY <2>9, <2>17, <2>18 DEF o
<1>10. h \in P[n]
  <2>1. \A i \in 1..n : \A a \in P[i - 1] : Apply(Run, a, q[i]) \in P[i]
    BY <1>9
  <2>2. HIDE DEF P
  <2>3. \A i \in 0..n : u[i] \in P[i]
    BY <1>5, <1>6, <1>8, <2>1, FollowHolds
  <2>4. n \in 0..n
    BY <1>5
  <2>5. QED
    BY <2>3, <2>4, <1>6
<1>11. h \in At(n)
  <2>1. n \in 0..n
    BY <1>5
  <2>2. P[n] = At(n)
    BY <2>1
  <2>3. QED
    BY <2>2, <1>10
<1>12. \A k \in Key : k \in Done(n) <=> Moves(current, new, k)
  BY <1>2
<1>13. QED
  BY <1>11, <1>12

--------------------------------------------------------------------------------
(* Lists of raw commands that bring the GPU from one use to another.           *)

(* What a list of raw commands does to a GPU whose keys are where it expects them: *)
(* nothing is wrong, and it leaves them where it says.                              *)
Brings(first, ops, last) ==
    \A g \in GpuStates :
        /\ ~g.wrong
        /\ \A k \in Key : first[k] # {} =>
              g.state[k] = first[k] /\ (k \in g.touched => first[k] \subseteq Ordered)
        => /\ ~Execute(g, ops).wrong
           /\ \A k \in Key : Execute(g, ops).state[k] = IF last[k] = {} THEN g.state[k]
                                                        ELSE last[k]
           /\ \A k \in Key : first[k] = {} /\ k \in Execute(g, ops).touched => k \in g.touched

(* Both states are of the same keys. *)
Matched(first, last) == \A k \in Key : first[k] = {} <=> last[k] = {}

(* RunJoined, for lists of raw commands. *)
LEMMA RunBoth ==
  \A g : \A x \in Seq(RawOps) : \A y \in Seq(RawOps) :
     Execute(g, x \o y) = Execute(Execute(g, x), y)
<1>1. TAKE g
<1>2. TAKE x \in Seq(RawOps)
<1>3. TAKE y \in Seq(RawOps)
<1>4. QED
  BY RunJoined

(* Barriers are raw commands. *)
LEMMA BarrierTypes ==
  ASSUME NEW current \in [Key -> State], NEW new \in [Key -> State]
  PROVE  Barriers(current, new) \in Seq(RawOps)
<1>1. Barriers(current, new) \in Seq(BarrierOps)
  BY BarrierList
<1>2. QED
  BY <1>1 DEF RawOps

(* Where a GPU is when a tracker says `current`, and commands that start in `first` *)
(* are the next.                                                                    *)
Expects(g, current, first) ==
    /\ ~g.wrong
    /\ \A k \in Key : current[k] # {} /\ first[k] # {} => g.state[k] = current[k]
    /\ \A k \in Key : current[k] = {} /\ first[k] # {} =>
          g.state[k] = first[k] /\ (k \in g.touched => first[k] \subseteq Ordered)

Led(g, first, last, r) ==
    /\ r \in GpuStates /\ ~r.wrong
    /\ \A k \in Key : r.state[k] = IF last[k] = {} THEN g.state[k] ELSE last[k]
    /\ \A k \in Key : first[k] = {} /\ k \in r.touched => k \in g.touched

(* From where barriers lead to where the commands start. *)
LEMMA Meets ==
  ASSUME NEW g \in GpuStates, NEW current \in [Key -> State],
         NEW first \in [Key -> State], NEW last \in [Key -> State],
         Matched(first, last), NEW ops \in Seq(RawOps), Brings(first, ops, last),
         Expects(g, current, first)
  PROVE  Led(g, first, last, Execute(g, Barriers(current, first) \o ops))
<1>0. /\ ~g.wrong
      /\ \A k \in Key : current[k] # {} /\ first[k] # {} => g.state[k] = current[k]
      /\ \A k \in Key : current[k] = {} /\ first[k] # {} =>
            g.state[k] = first[k] /\ (k \in g.touched => first[k] \subseteq Ordered)
  BY DEF Expects
<1>1. DEFINE h == Execute(g, Barriers(current, first))
             r == Execute(g, Barriers(current, first) \o ops)
<1>2. r = Execute(h, ops)
  BY BarrierTypes, RunBoth
<1>3. /\ h \in GpuStates /\ h.wrong = g.wrong
      /\ \A k \in Key : Moves(current, first, k) => h.state[k] = first[k] /\ k \notin h.touched
      /\ \A k \in Key : ~Moves(current, first, k) =>
            h.state[k] = g.state[k] /\ (k \in h.touched <=> k \in g.touched)
  BY <1>0, RunBarriers
<1>4. HIDE DEF h, r
<1>5. ASSUME NEW k \in Key, first[k] # {}
      PROVE  h.state[k] = first[k] /\ (k \in h.touched => first[k] \subseteq Ordered)
  <2>1. CASE Moves(current, first, k)
    BY <2>1, <1>3
  <2>2. CASE ~Moves(current, first, k) /\ current[k] = {}
    BY <2>2, <1>3, <1>5, <1>0
  <2>3. CASE ~Moves(current, first, k) /\ current[k] # {}
    <3>1. current[k] = first[k] /\ current[k] \subseteq Ordered
      BY <2>3, <1>5 DEF Moves, SkipBarrier
    <3>2. QED
      BY <3>1, <2>3, <1>3, <1>5, <1>0
  <2>4. QED
    BY <2>1, <2>2, <2>3
<1>6. /\ ~r.wrong
      /\ \A k \in Key : r.state[k] = IF last[k] = {} THEN h.state[k] ELSE last[k]
      /\ \A k \in Key : first[k] = {} /\ k \in r.touched => k \in h.touched
  BY <1>0, <1>2, <1>3, <1>5, Zenon DEF Brings
<1>7. \A k \in Key : first[k] = {} =>
         h.state[k] = g.state[k] /\ (k \in h.touched <=> k \in g.touched)
  BY <1>3 DEF Moves
<1>8. r \in GpuStates
  BY <1>2, <1>3, RunTypes
<1>9. QED
  BY <1>6, <1>7, <1>8 DEF Matched, Led, r

(* Two lists of commands, with the barriers between them. *)
Starts(start, end, first) == [k \in Key |-> IF end[k] # {} THEN start[k] ELSE first[k]]

(* What brings the GPU to one use, the barriers, and what takes it from there. *)
LEMMA Joined ==
  ASSUME NEW start \in [Key -> State], NEW end \in [Key -> State], Matched(start, end),
         NEW done \in Seq(RawOps), Brings(start, done, end),
         NEW first \in [Key -> State], NEW last \in [Key -> State], Matched(first, last),
         NEW ops \in Seq(RawOps), Brings(first, ops, last)
  PROVE  /\ Brings(Starts(start, end, first), (done \o Barriers(end, first)) \o ops,
                   Updated(end, last))
         /\ Matched(Starts(start, end, first), Updated(end, last))
         /\ (done \o Barriers(end, first)) \o ops \in Seq(RawOps)
<1>1. DEFINE B == Barriers(end, first)
             F == Starts(start, end, first)
             L == Updated(end, last)
             all == (done \o B) \o ops
<1>2. B \in Seq(RawOps) /\ done \o B \in Seq(RawOps) /\ all \in Seq(RawOps)
      /\ B \o ops \in Seq(RawOps)
  BY BarrierTypes, ConcatProperties
<1>3. \A k \in Key : /\ F[k] = IF end[k] # {} THEN start[k] ELSE first[k]
                     /\ L[k] = IF last[k] = {} THEN end[k] ELSE last[k]
  BY DEF Starts, Updated
<1>4. ASSUME NEW g \in GpuStates, ~g.wrong,
             \A k \in Key : F[k] # {} =>
                g.state[k] = F[k] /\ (k \in g.touched => F[k] \subseteq Ordered)
      PROVE  /\ ~Execute(g, all).wrong
             /\ \A k \in Key : Execute(g, all).state[k] = IF L[k] = {} THEN g.state[k]
                                                          ELSE L[k]
             /\ \A k \in Key : F[k] = {} /\ k \in Execute(g, all).touched => k \in g.touched
  <2>1. DEFINE h == Execute(g, done)
               r == Execute(h, B \o ops)
  <2>2. Execute(g, all) = r
    <3>1. all = done \o (B \o ops)
      BY <1>2, ConcatAssociative
    <3>2. Execute(g, done \o (B \o ops)) = r
      <4>1. B \o ops \in Seq(RawOps)
        BY <1>2
      <4>2. HIDE DEF B
      <4>3. QED
        BY <4>1, RunBoth
    <3>3. QED
      BY <3>1, <3>2
  <2>3. /\ ~h.wrong
        /\ \A k \in Key : h.state[k] = IF end[k] = {} THEN g.state[k] ELSE end[k]
        /\ \A k \in Key : start[k] = {} /\ k \in h.touched => k \in g.touched
    <3>1. \A k \in Key : start[k] # {} =>
             g.state[k] = start[k] /\ (k \in g.touched => start[k] \subseteq Ordered)
      <4>1. ASSUME NEW k \in Key, start[k] # {}
            PROVE  g.state[k] = start[k] /\ (k \in g.touched => start[k] \subseteq Ordered)
        <5>1. end[k] # {}
          BY <4>1 DEF Matched
        <5>2. F[k] = start[k]
          BY <5>1, <1>3
        <5>3. HIDE DEF F
        <5>4. QED
          BY <5>2, <4>1, <1>4
      <4>2. QED
        BY <4>1
    <3>2. HIDE DEF h, F
    <3>3. QED
      BY <3>1, <1>4, Zenon DEF Brings, h
  <2>4. h \in GpuStates
    BY RunTypes
  <2>5. \A k \in Key : end[k] = {} /\ first[k] # {} =>
           h.state[k] = first[k] /\ (k \in h.touched => first[k] \subseteq Ordered)
    BY <1>3, <1>4, <2>3 DEF Matched
  <2>6. \A k \in Key : end[k] # {} /\ first[k] # {} => h.state[k] = end[k]
    BY <2>3
  <2>7. HIDE DEF h
  <2>8. /\ ~r.wrong
        /\ \A k \in Key : r.state[k] = IF last[k] = {} THEN h.state[k] ELSE last[k]
        /\ \A k \in Key : first[k] = {} /\ k \in r.touched => k \in h.touched
    <3>1. Expects(h, end, first)
      BY <2>3, <2>5, <2>6 DEF Expects
    <3>2. Led(h, first, last, Execute(h, Barriers(end, first) \o ops))
      BY <3>1, <2>4, Meets
    <3>3. QED
      BY <3>2 DEF Led
  <2>9. HIDE DEF r, F, L, all
  <2>10. \A k \in Key : r.state[k] = IF L[k] = {} THEN g.state[k] ELSE L[k]
    BY <2>3, <2>8, <1>3
  <2>11. \A k \in Key : F[k] = {} /\ k \in r.touched => k \in g.touched
    BY <2>3, <2>8, <1>3 DEF Matched
  <2>12. QED
    BY <2>2, <2>8, <2>10, <2>11
<1>5. Matched(F, L)
  BY <1>3 DEF Matched
<1>6. HIDE DEF F, L, all
<1>7. Brings(F, all, L)
  BY <1>4 DEF Brings
<1>8. QED
  BY <1>2, <1>5, <1>7 DEF F, L, all

(* A piece of work needs what it uses, and leaves it as it was. *)
LEMMA WorkBrings ==
  ASSUME NEW w \in WorkOps
  PROVE  Brings(w.use, <<w>>, w.use) /\ Matched(w.use, w.use) /\ <<w>> \in Seq(RawOps)
<1>1. <<w>> \in Seq(RawOps)
  BY DEF RawOps
<1>2. ASSUME NEW g \in GpuStates, ~g.wrong,
             \A k \in Key : w.use[k] # {} =>
                g.state[k] = w.use[k] /\ (k \in g.touched => w.use[k] \subseteq Ordered)
      PROVE  /\ ~Execute(g, <<w>>).wrong
             /\ \A k \in Key : Execute(g, <<w>>).state[k] =
                                  IF w.use[k] = {} THEN g.state[k] ELSE w.use[k]
             /\ \A k \in Key : w.use[k] = {} /\ k \in Execute(g, <<w>>).touched => k \in g.touched
  <2>1. DEFINE r == Ran(g, w)
  <2>2. Execute(g, <<w>>) = r
    BY RunOne
  <2>3. /\ r.wrong = (g.wrong \/ Misused(g, w.use)) /\ r.state = g.state
        /\ r.touched = g.touched \cup {k \in Key : w.use[k] # {}}
    BY RanWork
  <2>4. HIDE DEF r
  <2>5. ~Misused(g, w.use)
    BY <1>2 DEF Misused
  <2>6. ~r.wrong
    BY <2>3, <2>5, <1>2
  <2>7. QED
    BY <2>2, <2>3, <2>6, <1>2
<1>3. Brings(w.use, <<w>>, w.use)
  BY <1>2 DEF Brings
<1>4. QED
  BY <1>1, <1>3 DEF Matched

--------------------------------------------------------------------------------
(* Trackers.  A command buffer's tells what its commands expect and where      *)
(* they lead; the device's, where everything before leads.                     *)

Trackers == [start : [Key -> State], end : [Key -> State]]
Acts == [cells : SUBSET Cell, kind : {"needs", "implicit"}]
Outs == [tracker : Trackers, ops : Seq(RawOps)]
Encs == [tracker : Trackers, ops : Seq(RawOps), acts : Seq(Acts), drops : SUBSET Cell,
         ok : BOOLEAN]

(* A command buffer's tracker says what its commands expect and where they lead. *)
Tracks(t, ops) == Matched(t.start, t.end) /\ Brings(t.start, ops, t.end)

(* The device's says where a GPU is that has run the commands. *)
Knows(g, t, ops) ==
    /\ t.end \in [Key -> State \ {{}}]
    /\ ~Execute(g, ops).wrong
    /\ \A k \in Key : Execute(g, ops).state[k] = t.end[k]

(* A tracker that comes to know a subresource of a texture it owns gets the right  *)
(* start state for it.                                                             *)
NoSplit(t, first, last) ==
    \A k \in Key : t.end[k] = {} /\ Owns(t, ResourceOf[k]) => first[k] = last[k]

(* A tracker moved on is a tracker, whose end is updated. *)
LEMMA AdvanceTypes ==
  ASSUME NEW t \in Trackers, NEW first \in [Key -> State], NEW last \in [Key -> State]
  PROVE  /\ Advance(t, first, last) \in Trackers
         /\ Advance(t, first, last).end = Updated(t.end, last)
<1>1. t.start \in [Key -> State] /\ t.end \in [Key -> State]
  BY DEF Trackers
<1>2. DEFINE s == [k \in Key |-> IF t.end[k] # {} THEN t.start[k]
                                ELSE IF Owns(t, ResourceOf[k]) THEN last[k]
                                ELSE first[k]]
             e == Updated(t.end, last)
<1>3. s \in [Key -> State]
  BY <1>1
<1>4. e \in [Key -> State]
  BY <1>1 DEF Updated
<1>5. Advance(t, first, last) = [start |-> s, end |-> e]
  BY DEF Advance
<1>6. HIDE DEF s, e
<1>7. Advance(t, first, last) \in Trackers /\ Advance(t, first, last).end = e
  BY <1>3, <1>4, <1>5 DEF Trackers
<1>8. QED
  BY <1>7 DEF e

(* Its start is set where nothing was used before, when no texture is split. *)
LEMMA AdvanceStarts ==
  ASSUME NEW t \in Trackers, NEW first \in [Key -> State], NEW last \in [Key -> State],
         NoSplit(t, first, last)
  PROVE  Advance(t, first, last).start = Starts(t.start, t.end, first)
<1>1. Advance(t, first, last).start =
        [k \in Key |-> IF t.end[k] # {} THEN t.start[k]
                       ELSE IF Owns(t, ResourceOf[k]) THEN last[k] ELSE first[k]]
  BY DEF Advance
<1>2. \A k \in Key : (IF t.end[k] # {} THEN t.start[k]
                      ELSE IF Owns(t, ResourceOf[k]) THEN last[k] ELSE first[k])
                     = IF t.end[k] # {} THEN t.start[k] ELSE first[k]
  BY DEF NoSplit
<1>3. QED
  BY <1>1, <1>2, Zenon DEF Starts

(* A tracker keeps with its commands when both go on, with the barriers        *)
(* between.                                                                    *)
LEMMA TracksOn ==
  ASSUME NEW t \in Trackers, NEW done \in Seq(RawOps), Tracks(t, done),
         NEW first \in [Key -> State], NEW last \in [Key -> State], Matched(first, last),
         NEW ops \in Seq(RawOps), Brings(first, ops, last), NoSplit(t, first, last)
  PROVE  Tracks(Advance(t, first, last), (done \o Barriers(t.end, first)) \o ops)
<1>1. /\ Advance(t, first, last).end = Updated(t.end, last)
      /\ Advance(t, first, last).start = Starts(t.start, t.end, first)
  BY AdvanceTypes, AdvanceStarts
<1>2. /\ t.start \in [Key -> State] /\ t.end \in [Key -> State]
      /\ Matched(t.start, t.end) /\ Brings(t.start, done, t.end)
  BY DEF Trackers, Tracks
<1>3. DEFINE u == t.start
             v == t.end
<1>4. /\ Brings(Starts(u, v, first), (done \o Barriers(v, first)) \o ops, Updated(v, last))
      /\ Matched(Starts(u, v, first), Updated(v, last))
  <2>1. u \in [Key -> State] /\ v \in [Key -> State] /\ Matched(u, v) /\ Brings(u, done, v)
    BY <1>2
  <2>2. HIDE DEF u, v
  <2>3. QED
    BY <2>1, Joined
<1>5. QED
  BY <1>1, <1>4 DEF Tracks

(* So does the device's, which must have started from the GPU's state. *)
LEMMA KnowsOn ==
  ASSUME NEW g \in GpuStates, NEW t \in Trackers, NEW done \in Seq(RawOps),
         Knows(g, t, done),
         NEW first \in [Key -> State], NEW last \in [Key -> State], Matched(first, last),
         NEW ops \in Seq(RawOps), Brings(first, ops, last)
  PROVE  Knows(g, Advance(t, first, last), (done \o Barriers(t.end, first)) \o ops)
<1>1. DEFINE h == Execute(g, done)
             B == Barriers(t.end, first)
             r == Execute(h, B \o ops)
<1>2. t.end \in [Key -> State] /\ t.end \in [Key -> State \ {{}}]
  BY DEF Knows, Trackers
<1>3. h \in GpuStates /\ ~h.wrong /\ \A k \in Key : h.state[k] = t.end[k]
  BY RunTypes DEF Knows
<1>4. B \in Seq(RawOps) /\ B \o ops \in Seq(RawOps)
  BY <1>2, BarrierTypes, ConcatProperties
<1>5. Execute(g, (done \o B) \o ops) = r
  <2>1. HIDE DEF B
  <2>2. (done \o B) \o ops = done \o (B \o ops)
    BY <1>4, ConcatAssociative
  <2>3. DEFINE x == B \o ops
  <2>4. x \in Seq(RawOps) /\ (done \o B) \o ops = done \o x /\ r = Execute(h, x)
    BY <2>2, <1>4
  <2>5. HIDE DEF x
  <2>6. Execute(g, done \o x) = Execute(Execute(g, done), x)
    BY <2>4, RunBoth
  <2>7. QED
    BY <2>4, <2>6
<1>6. \A k \in Key : t.end[k] # {}
  BY <1>2
<1>7. Led(h, first, last, r)
  <2>1. HIDE DEF h
  <2>2. Expects(h, t.end, first)
    BY <1>3, <1>6 DEF Expects
  <2>3. DEFINE v == t.end
  <2>4. v \in [Key -> State] /\ Expects(h, v, first)
    BY <2>2, <1>2
  <2>5. HIDE DEF v
  <2>6. Led(h, first, last, Execute(h, Barriers(v, first) \o ops))
    BY <2>4, <1>3, Meets
  <2>7. QED
    BY <2>6 DEF v
<1>8. Advance(t, first, last).end = Updated(t.end, last)
  BY AdvanceTypes
<1>9. Updated(t.end, last) \in [Key -> State \ {{}}]
  BY <1>2 DEF Updated
<1>10. ~r.wrong /\ \A k \in Key : r.state[k] = Updated(t.end, last)[k]
  <2>1. \A k \in Key : Updated(t.end, last)[k] = IF last[k] = {} THEN t.end[k] ELSE last[k]
    BY DEF Updated
  <2>2. HIDE DEF h, r
  <2>3. QED
    BY <2>1, <1>3, <1>7 DEF Led
<1>11. QED
  BY <1>5, <1>8, <1>9, <1>10 DEF Knows

--------------------------------------------------------------------------------
(* Single commands: barriers, then work; and the clears.                       *)

(* An action on the raw commands and the tracker that grow with them. *)
With(out, t, ops) == [out EXCEPT !.tracker = t, !.ops = ops]

(* The same actions, of an output that is only tracker and commands ... *)
LEMMA WithOut ==
  ASSUME NEW out \in Outs, NEW t \in Trackers, NEW ops \in Seq(RawOps)
  PROVE  /\ With(out, t, ops) \in Outs
         /\ With(out, t, ops).tracker = t /\ With(out, t, ops).ops = ops
BY DEF With, Outs

(* ... and of an encoder, whose other fields stay. *)
LEMMA WithEnc ==
  ASSUME NEW out \in Encs, NEW t \in Trackers, NEW ops \in Seq(RawOps)
  PROVE  /\ With(out, t, ops) \in Encs
         /\ With(out, t, ops).tracker = t /\ With(out, t, ops).ops = ops
         /\ With(out, t, ops).acts = out.acts /\ With(out, t, ops).drops = out.drops
         /\ With(out, t, ops).ok = out.ok
BY DEF With, Encs

(* A use of the resources, with the barriers it needs. *)
Performed(out, w) ==
    With(out, Advance(out.tracker, w.use, w.use),
         (out.ops \o Barriers(out.tracker.end, w.use)) \o <<w>>)

(* The fields of a piece of work. *)
LEMMA UseTypes ==
  ASSUME NEW use \in [Key -> State], NEW reads \in SUBSET Cell, NEW written \in SUBSET Cell,
         NEW partial \in SUBSET Cell, NEW drops \in SUBSET Cell, NEW value \in Contents
  PROVE  /\ Work(use, reads, written, partial, drops, value) \in WorkOps
         /\ Work(use, reads, written, partial, drops, value).use = use
         /\ Work(use, reads, written, partial, drops, value).writes = written
         /\ Work(use, reads, written, partial, drops, value).partial = partial
         /\ Work(use, reads, written, partial, drops, value).drops = drops
         /\ Work(use, reads, written, partial, drops, value).value = value
BY DEF Work, WorkOps

(* A use of some keys is a use. *)
LEMMA OnlyTypes ==
  ASSUME NEW keys \in SUBSET Key, NEW s \in SUBSET Usage
  PROVE  Only(keys, s) \in [Key -> State]
BY DEF Only, State

(* The tracker and the commands of either. *)
LEMMA OutFields ==
  ASSUME NEW out \in Outs \cup Encs
  PROVE  /\ out.tracker \in Trackers /\ out.ops \in Seq(RawOps)
         /\ out.tracker.start \in [Key -> State] /\ out.tracker.end \in [Key -> State]
BY DEF Outs, Encs, Trackers

(* Barriers and then work: the pieces are what they should be. *)
LEMMA PerformedTypes ==
  ASSUME NEW out \in Outs \cup Encs, NEW w \in WorkOps
  PROVE  /\ Advance(out.tracker, w.use, w.use) \in Trackers
         /\ Barriers(out.tracker.end, w.use) \in Seq(RawOps)
         /\ (out.ops \o Barriers(out.tracker.end, w.use)) \o <<w>> \in Seq(RawOps)
         /\ [Moved(out, w.use) EXCEPT !.ops = Append(@, w)] = Performed(out, w)
         /\ w.use \in [Key -> State]
<1>1. w.use \in [Key -> State] /\ w \in RawOps
  BY DEF WorkOps, RawOps
<1>2. out.tracker \in Trackers /\ out.ops \in Seq(RawOps) /\ out.tracker.end \in [Key -> State]
  BY OutFields
<1>3. Advance(out.tracker, w.use, w.use) \in Trackers
  BY <1>1, <1>2, AdvanceTypes
<1>4. DEFINE B == Barriers(out.tracker.end, w.use)
             A == Advance(out.tracker, w.use, w.use)
<1>5. B \in Seq(RawOps)
  BY <1>1, <1>2, BarrierTypes
<1>6. out.ops \o B \in Seq(RawOps) /\ <<w>> \in Seq(RawOps)
  BY <1>1, <1>2, <1>5, ConcatProperties
<1>7. /\ (out.ops \o B) \o <<w>> \in Seq(RawOps)
      /\ Append(out.ops \o B, w) = (out.ops \o B) \o <<w>>
  BY <1>1, <1>6, ConcatProperties, AppendIsConcat
<1>8. [Moved(out, w.use) EXCEPT !.ops = Append(@, w)] = With(out, A, Append(out.ops \o B, w))
  <2>1. Moved(out, w.use) = [out EXCEPT !.tracker = A, !.ops = out.ops \o B]
    BY <1>2 DEF Moved, Outs, Encs
  <2>2. HIDE DEF A, B
  <2>3. QED
    BY <2>1 DEF With, Outs, Encs
<1>9. QED
  BY <1>1, <1>3, <1>5, <1>7, <1>8 DEF Performed

(* What performing work leaves of an output ... *)
LEMMA PerformedOut ==
  ASSUME NEW out \in Outs, NEW w \in WorkOps
  PROVE  /\ Performed(out, w) \in Outs
         /\ Performed(out, w).tracker = Advance(out.tracker, w.use, w.use)
         /\ Performed(out, w).ops = (out.ops \o Barriers(out.tracker.end, w.use)) \o <<w>>
<1>1. DEFINE A == Advance(out.tracker, w.use, w.use)
             O == (out.ops \o Barriers(out.tracker.end, w.use)) \o <<w>>
<1>2. A \in Trackers /\ O \in Seq(RawOps)
  BY PerformedTypes
<1>3. Performed(out, w) = With(out, A, O)
  BY DEF Performed
<1>4. DEFINE P == Performed(out, w)
<1>5. HIDE DEF A, O
<1>6. /\ With(out, A, O) \in Outs /\ With(out, A, O).tracker = A /\ With(out, A, O).ops = O
  BY <1>2, WithOut
<1>7. /\ P \in Outs /\ P.tracker = A /\ P.ops = O
  BY <1>3, <1>6
<1>8. QED
  BY <1>7 DEF A, O

(* ... and of an encoder. *)
LEMMA PerformedEnc ==
  ASSUME NEW out \in Encs, NEW w \in WorkOps
  PROVE  /\ Performed(out, w) \in Encs
         /\ Performed(out, w).tracker = Advance(out.tracker, w.use, w.use)
         /\ Performed(out, w).ops = (out.ops \o Barriers(out.tracker.end, w.use)) \o <<w>>
         /\ Performed(out, w).acts = out.acts /\ Performed(out, w).drops = out.drops
         /\ Performed(out, w).ok = out.ok
<1>1. DEFINE A == Advance(out.tracker, w.use, w.use)
             O == (out.ops \o Barriers(out.tracker.end, w.use)) \o <<w>>
<1>2. A \in Trackers /\ O \in Seq(RawOps)
  BY PerformedTypes
<1>3. Performed(out, w) = With(out, A, O)
  BY DEF Performed
<1>4. DEFINE P == Performed(out, w)
<1>5. HIDE DEF A, O
<1>6. /\ With(out, A, O) \in Encs /\ With(out, A, O).tracker = A /\ With(out, A, O).ops = O
      /\ With(out, A, O).acts = out.acts /\ With(out, A, O).drops = out.drops
      /\ With(out, A, O).ok = out.ok
  BY <1>2, WithEnc
<1>7. /\ P \in Encs /\ P.tracker = A /\ P.ops = O
      /\ P.acts = out.acts /\ P.drops = out.drops /\ P.ok = out.ok
  BY <1>3, <1>6
<1>8. QED
  BY <1>7 DEF A, O

(* Lists are joined in any order. *)
Assoc(s, t, u) == (s \o t) \o u = s \o (t \o u)
Regrouped(pre, a, b, c) == pre \o ((a \o b) \o c) = ((pre \o a) \o b) \o c

LEMMA Associates ==
  ASSUME NEW S PROVE \A s, t, u \in Seq(S) : Assoc(s, t, u)
  BY ConcatAssociative DEF Assoc

LEMMA Prefixed ==
  ASSUME NEW pre \in Seq(RawOps), NEW a \in Seq(RawOps), NEW b \in Seq(RawOps),
         NEW c \in Seq(RawOps)
  PROVE  Regrouped(pre, a, b, c)
<1>1. a \o b \in Seq(RawOps)
  BY ConcatProperties
<1>2. Assoc(pre, a \o b, c)
  BY <1>1, Associates
<1>3. Assoc(pre, a, b)
  BY Associates
<1>4. QED
  BY <1>2, <1>3 DEF Assoc, Regrouped

(* Performed work is tracked (set_single and its barrier, then the command). *)
LEMMA PerformedTracks ==
  ASSUME NEW pre \in Seq(RawOps), NEW out \in Outs \cup Encs, NEW w \in WorkOps,
         Tracks(out.tracker, pre \o out.ops)
  PROVE  Tracks(Performed(out, w).tracker, pre \o Performed(out, w).ops)
<1>1. DEFINE t == out.tracker
             u == w.use
             done == pre \o out.ops
<1>2. t \in Trackers /\ u \in [Key -> State] /\ out.ops \in Seq(RawOps) /\ done \in Seq(RawOps)
      /\ Barriers(t.end, u) \in Seq(RawOps)
  BY OutFields, PerformedTypes, ConcatProperties
<1>3. Brings(u, <<w>>, u) /\ Matched(u, u) /\ <<w>> \in Seq(RawOps)
  BY WorkBrings
<1>4. NoSplit(t, u, u)
  BY DEF NoSplit
<1>5. Tracks(t, done)
  OBVIOUS
<1>6. Tracks(Advance(t, u, u), (done \o Barriers(t.end, u)) \o <<w>>)
  <2>1. HIDE DEF t, u, done
  <2>2. QED
    BY <1>2, <1>3, <1>4, <1>5, TracksOn
<1>7. pre \o ((out.ops \o Barriers(t.end, u)) \o <<w>>) = (done \o Barriers(t.end, u)) \o <<w>>
  <2>1. DEFINE a == out.ops
               b == Barriers(t.end, u)
               c == <<w>>
  <2>2. a \in Seq(RawOps) /\ b \in Seq(RawOps) /\ c \in Seq(RawOps)
    BY <1>2, <1>3
  <2>3. HIDE DEF a, b, c
  <2>4. Regrouped(pre, a, b, c)
    BY <2>2, Prefixed
  <2>5. QED
    BY <2>4 DEF a, b, c, Regrouped
<1>8. /\ Performed(out, w).tracker = Advance(t, u, u)
      /\ Performed(out, w).ops = (out.ops \o Barriers(t.end, u)) \o <<w>>
  BY PerformedOut, PerformedEnc
<1>9. QED
  BY <1>6, <1>7, <1>8

(* The device's tracker knows where performed work leads. *)
LEMMA PerformedKnows ==
  ASSUME NEW g \in GpuStates, NEW out \in Outs, NEW w \in WorkOps,
         Knows(g, out.tracker, out.ops)
  PROVE  Knows(g, Performed(out, w).tracker, Performed(out, w).ops)
<1>1. DEFINE t == out.tracker
             u == w.use
             done == out.ops
<1>2. t \in Trackers /\ u \in [Key -> State] /\ done \in Seq(RawOps)
  BY OutFields, PerformedTypes
<1>3. Brings(u, <<w>>, u) /\ Matched(u, u) /\ <<w>> \in Seq(RawOps)
  BY WorkBrings
<1>4. Knows(g, t, done)
  OBVIOUS
<1>5. Knows(g, Advance(t, u, u), (done \o Barriers(t.end, u)) \o <<w>>)
  <2>1. HIDE DEF t, u, done
  <2>2. QED
    BY <1>2, <1>3, <1>4, KnowsOn
<1>6. QED
  BY <1>5, PerformedOut

(* A clear is such a use. *)
ClearWork(k, cells) == Work(Only({k}, ClearUsage[k]), {}, cells, {}, {}, "zero")

(* A clear is work that writes zeros. *)
LEMMA ClearedIs ==
  ASSUME NEW out \in Outs \cup Encs, NEW k \in Key, NEW cells \in SUBSET Cell
  PROVE  /\ ClearWork(k, cells) \in WorkOps /\ ClearWork(k, cells).writes = cells
         /\ ClearWork(k, cells).value = "zero" /\ ClearWork(k, cells).drops = {}
         /\ ClearWork(k, cells).partial = {}
         /\ Cleared(out, k, cells) = Performed(out, ClearWork(k, cells))
<1>1. Only({k}, ClearUsage[k]) \in [Key -> State]
  BY ClearAssumption, OnlyTypes
<1>2. /\ ClearWork(k, cells) \in WorkOps /\ ClearWork(k, cells).writes = cells
      /\ ClearWork(k, cells).value = "zero" /\ ClearWork(k, cells).drops = {}
      /\ ClearWork(k, cells).partial = {} /\ ClearWork(k, cells).use = Only({k}, ClearUsage[k])
  BY <1>1, UseTypes DEF ClearWork, Contents
<1>3. Cleared(out, k, cells) =
        [Moved(out, ClearWork(k, cells).use) EXCEPT !.ops = Append(@, ClearWork(k, cells))]
  BY <1>2, Zenon DEF Cleared, ClearWork
<1>4. QED
  BY <1>2, <1>3, PerformedTypes

--------------------------------------------------------------------------------
(* The folds of the model, each as a sequence of accumulators.                 *)

CellsOf(k, cells) == {c \in cells : CellKey[c] = k}

ClearAll(base, seq) ==
    FoldLeft(LAMBDA acc, c : Cleared(acc, CellKey[c], {c}), base, seq)
ClearFold(base, seq, n, G) ==
  G = [s \in SUBSET (1..n) |-> IF s = {} THEN base
                              ELSE Cleared(G[s \ {Max(s)}], CellKey[seq[Max(s)]], {seq[Max(s)]})]

(* Clearing the cells of a sequence, *)
LEMMA ClearFolds ==
  ASSUME NEW base, NEW seq, NEW n \in Nat, DOMAIN seq = 1..n
  PROVE  \E h : Follow([op |-> "clear"], base, seq, n, h) /\ h[n] = ClearAll(base, seq)
<1>1. ClearAll(base, seq) = (CHOOSE G : ClearFold(base, seq, n, G))[1..n]
  BY Zenon DEF ClearAll, FoldLeft, MapThenFoldSet, ClearFold
<1>2. \A a, x : Apply([op |-> "clear"], a, x) = Cleared(a, CellKey[x], {x})
  BY DEF Apply
<1>3. \A G : ClearFold(base, seq, n, G) <=> Fold([op |-> "clear"], base, seq, n, G)
  BY <1>2, Zenon DEF ClearFold, Fold
<1>4. DEFINE K == CHOOSE G : ClearFold(base, seq, n, G)
<1>5. ClearFold(base, seq, n, K)
  BY <1>3, FoldExists
<1>6. Fold([op |-> "clear"], base, seq, n, K) /\ ClearAll(base, seq) = K[1..n]
  BY <1>1, <1>3, <1>5
<1>7. HIDE DEF K
<1>8. QED
  BY <1>6, FoldFollows

BufferAll(clear, base, seq) ==
    FoldLeft(LAMBDA acc, k : Cleared(acc, k, {c \in clear : CellKey[c] = k}), base, seq)
BufferFold(clear, base, seq, n, G) ==
  G = [s \in SUBSET (1..n) |-> IF s = {} THEN base
                              ELSE Cleared(G[s \ {Max(s)}], seq[Max(s)], CellsOf(seq[Max(s)], clear))]

(* ... what buffers need cleared, *)
LEMMA BufferFolds ==
  ASSUME NEW clear, NEW base, NEW seq, NEW n \in Nat, DOMAIN seq = 1..n
  PROVE  \E h : /\ Follow([op |-> "buffers", cells |-> clear], base, seq, n, h)
                /\ h[n] = BufferAll(clear, base, seq)
<1>1. BufferAll(clear, base, seq) = (CHOOSE G : BufferFold(clear, base, seq, n, G))[1..n]
  BY Zenon DEF BufferAll, FoldLeft, CellsOf, MapThenFoldSet, BufferFold
<1>2. \A a, x : Apply([op |-> "buffers", cells |-> clear], a, x) = Cleared(a, x, CellsOf(x, clear))
  BY DEF Apply, CellsOf
<1>3. \A G : BufferFold(clear, base, seq, n, G)
              <=> Fold([op |-> "buffers", cells |-> clear], base, seq, n, G)
  BY <1>2, Zenon DEF BufferFold, Fold
<1>4. DEFINE K == CHOOSE G : BufferFold(clear, base, seq, n, G)
<1>5. BufferFold(clear, base, seq, n, K)
  BY <1>3, FoldExists
<1>6. /\ Fold([op |-> "buffers", cells |-> clear], base, seq, n, K)
      /\ BufferAll(clear, base, seq) = K[1..n]
  BY <1>1, <1>3, <1>5
<1>7. HIDE DEF K
<1>8. QED
  BY <1>6, FoldFollows

DispatchAll(unset, base, seq) ==
    FoldLeft(LAMBDA acc, s : Dispatched(acc, s, unset), base, seq)
DispatchFold(unset, base, seq, n, G) ==
  G = [s \in SUBSET (1..n) |-> IF s = {} THEN base
                              ELSE Dispatched(G[s \ {Max(s)}], seq[Max(s)], unset)]

(* ... the dispatches of a compute pass, *)
LEMMA DispatchFolds ==
  ASSUME NEW unset, NEW base, NEW seq, NEW n \in Nat, DOMAIN seq = 1..n
  PROVE  \E h : /\ Follow([op |-> "dispatch", cells |-> unset], base, seq, n, h)
                /\ h[n] = DispatchAll(unset, base, seq)
<1>1. DispatchAll(unset, base, seq) = (CHOOSE G : DispatchFold(unset, base, seq, n, G))[1..n]
  BY Zenon DEF DispatchAll, FoldLeft, MapThenFoldSet, DispatchFold
<1>2. \A a, x : Apply([op |-> "dispatch", cells |-> unset], a, x) = Dispatched(a, x, unset)
  BY DEF Apply
<1>3. \A G : DispatchFold(unset, base, seq, n, G)
              <=> Fold([op |-> "dispatch", cells |-> unset], base, seq, n, G)
  BY <1>2, Zenon DEF DispatchFold, Fold
<1>4. DEFINE K == CHOOSE G : DispatchFold(unset, base, seq, n, G)
<1>5. DispatchFold(unset, base, seq, n, K)
  BY <1>3, FoldExists
<1>6. /\ Fold([op |-> "dispatch", cells |-> unset], base, seq, n, K)
      /\ DispatchAll(unset, base, seq) = K[1..n]
  BY <1>1, <1>3, <1>5
<1>7. HIDE DEF K
<1>8. QED
  BY <1>6, FoldFollows

EncodeAll(unset, base, seq) ==
    FoldLeft(LAMBDA enc, cmd : EncodeCommand(enc, cmd, unset), base, seq)
EncodeFold(unset, base, seq, n, G) ==
  G = [s \in SUBSET (1..n) |-> IF s = {} THEN base
                              ELSE EncodeCommand(G[s \ {Max(s)}], seq[Max(s)], unset)]

(* ... the commands of an encoder, *)
LEMMA EncodeFolds ==
  ASSUME NEW unset, NEW base, NEW seq, NEW n \in Nat, DOMAIN seq = 1..n
  PROVE  \E h : /\ Follow([op |-> "encode", cells |-> unset], base, seq, n, h)
                /\ h[n] = EncodeAll(unset, base, seq)
<1>1. EncodeAll(unset, base, seq) = (CHOOSE G : EncodeFold(unset, base, seq, n, G))[1..n]
  BY Zenon DEF EncodeAll, FoldLeft, MapThenFoldSet, EncodeFold
<1>2. \A a, x : Apply([op |-> "encode", cells |-> unset], a, x) = EncodeCommand(a, x, unset)
  BY DEF Apply
<1>3. \A G : EncodeFold(unset, base, seq, n, G)
              <=> Fold([op |-> "encode", cells |-> unset], base, seq, n, G)
  BY <1>2, Zenon DEF EncodeFold, Fold
<1>4. DEFINE K == CHOOSE G : EncodeFold(unset, base, seq, n, G)
<1>5. EncodeFold(unset, base, seq, n, K)
  BY <1>3, FoldExists
<1>6. /\ Fold([op |-> "encode", cells |-> unset], base, seq, n, K)
      /\ EncodeAll(unset, base, seq) = K[1..n]
  BY <1>1, <1>3, <1>5
<1>7. HIDE DEF K
<1>8. QED
  BY <1>6, FoldFollows

ResolveAll(base, seq) == FoldLeft(Drained, base, seq)
ResolveFold(base, seq, n, G) ==
  G = [s \in SUBSET (1..n) |-> IF s = {} THEN base
                              ELSE Drained(G[s \ {Max(s)}], seq[Max(s)])]

(* ... and the initialization actions at a submit. *)
LEMMA ResolveFolds ==
  ASSUME NEW base, NEW seq, NEW n \in Nat, DOMAIN seq = 1..n
  PROVE  \E h : Follow([op |-> "resolve"], base, seq, n, h) /\ h[n] = ResolveAll(base, seq)
<1>1. ResolveAll(base, seq) = (CHOOSE G : ResolveFold(base, seq, n, G))[1..n]
  BY Zenon DEF ResolveAll, FoldLeft, MapThenFoldSet, ResolveFold
<1>2. \A a, x : Apply([op |-> "resolve"], a, x) = Drained(a, x)
  BY DEF Apply
<1>3. \A G : ResolveFold(base, seq, n, G) <=> Fold([op |-> "resolve"], base, seq, n, G)
  BY <1>2, Zenon DEF ResolveFold, Fold
<1>4. DEFINE K == CHOOSE G : ResolveFold(base, seq, n, G)
<1>5. ResolveFold(base, seq, n, K)
  BY <1>3, FoldExists
<1>6. Fold([op |-> "resolve"], base, seq, n, K) /\ ResolveAll(base, seq) = K[1..n]
  BY <1>1, <1>3, <1>5
<1>7. HIDE DEF K
<1>8. QED
  BY <1>6, FoldFollows

--------------------------------------------------------------------------------
(* Clearing what memory needs it.                                              *)

(* What every clear preserves, clearing a set of textures or buffers does. *)
LEMMA ClearedStays ==
  ASSUME NEW cells \in SUBSET Cell, NEW S, NEW out \in S,
         \A a \in S : \A c \in cells : Cleared(a, CellKey[c], {c}) \in S
  PROVE  TexturesCleared(out, cells) \in S
<1>1. DEFINE q == SetToSeq(cells)
             n == Len(q)
<1>2. IsFiniteSet(cells)
  BY CellAssumption, FS_Subset
<1>3. q \in Seq(cells)
  BY <1>2, SetSequence
<1>4. TexturesCleared(out, cells) = ClearAll(out, q)
  BY Zenon DEF TexturesCleared, ClearAll
<1>5. HIDE DEF q
<1>6. n \in Nat /\ DOMAIN q = 1..n /\ \A i \in 1..n : q[i] \in cells
  BY <1>3
<1>7. PICK h : Follow([op |-> "clear"], out, q, n, h) /\ h[n] = ClearAll(out, q)
  BY <1>6, ClearFolds
<1>8. \A i \in 1..n : \A a \in S : Apply([op |-> "clear"], a, q[i]) \in S
  <2>1. \A a, x : Apply([op |-> "clear"], a, x) = Cleared(a, CellKey[x], {x})
    BY DEF Apply
  <2>2. QED
    BY <2>1, <1>6
<1>9. DEFINE F == [op |-> "clear"]
<1>10. Follow(F, out, q, n, h) /\ \A i \in 1..n : \A a \in S : Apply(F, a, q[i]) \in S
  BY <1>7, <1>8
<1>11. HIDE DEF F, n
<1>12. h[n] \in S
  BY <1>6, <1>10, FollowStays
<1>13. QED
  BY <1>4, <1>7, <1>12

(* The buffers to clear are finitely many keys. *)
LEMMA NeedyTypes ==
  ASSUME NEW acts \in Seq(Acts)
  PROVE  NeedyBuffers(acts) \in SUBSET Key /\ IsFiniteSet(NeedyBuffers(acts))
<1>1. NeedyBuffers(acts) \in SUBSET Key
  BY CellAssumption DEF NeedyBuffers, KeysOf, BufferCells
<1>2. QED
  BY <1>1, ResourceAssumption, FS_Subset

(* What every clear keeps, clearing the buffers keeps. *)
LEMMA BuffersStay ==
  ASSUME NEW acts \in Seq(Acts), NEW clear \in SUBSET Cell, NEW S, NEW out \in S,
         \A a \in S : \A k \in NeedyBuffers(acts) : Cleared(a, k, CellsOf(k, clear)) \in S
  PROVE  BuffersInitialized(out, acts, clear) \in S
<1>1. DEFINE T == NeedyBuffers(acts)
             q == SetToSeq(T)
             n == Len(q)
             F == [op |-> "buffers", cells |-> clear]
<1>2. IsFiniteSet(T)
  BY NeedyTypes
<1>3. q \in Seq(T)
  <2>1. HIDE DEF T
  <2>2. QED
    BY <1>2, SetSequence
<1>4. BuffersInitialized(out, acts, clear) = BufferAll(clear, out, q)
  BY Zenon DEF BuffersInitialized, BufferAll
<1>5. \A a \in S : \A k \in T : Cleared(a, k, CellsOf(k, clear)) \in S
  OBVIOUS
<1>6. \A a, x : Apply(F, a, x) = Cleared(a, x, CellsOf(x, clear))
  BY DEF Apply, CellsOf
<1>7. HIDE DEF q, T
<1>8. n \in Nat /\ DOMAIN q = 1..n /\ \A i \in 1..n : q[i] \in T
  BY <1>3
<1>9. PICK h : Follow(F, out, q, n, h) /\ h[n] = BufferAll(clear, out, q)
  BY <1>8, BufferFolds
<1>10. \A i \in 1..n : \A a \in S : Apply(F, a, q[i]) \in S
  BY <1>5, <1>6, <1>8
<1>11. HIDE DEF F, n
<1>12. h[n] \in S
  BY <1>8, <1>9, <1>10, FollowStays
<1>13. QED
  BY <1>4, <1>9, <1>12

(* The commands of an encoder, with those `pre` that come before. *)
LEMMA ClearedTracks ==
  ASSUME NEW pre \in Seq(RawOps), NEW enc \in Encs, Tracks(enc.tracker, pre \o enc.ops),
         NEW cells \in SUBSET Cell
  PROVE  /\ TexturesCleared(enc, cells) \in Encs
         /\ TexturesCleared(enc, cells).acts = enc.acts
         /\ TexturesCleared(enc, cells).drops = enc.drops
         /\ TexturesCleared(enc, cells).ok = enc.ok
         /\ Tracks(TexturesCleared(enc, cells).tracker,
                   pre \o TexturesCleared(enc, cells).ops)
<1>1. DEFINE S == {a \in Encs : /\ a.acts = enc.acts /\ a.drops = enc.drops /\ a.ok = enc.ok
                                /\ Tracks(a.tracker, pre \o a.ops)}
<1>2. enc \in S
  OBVIOUS
<1>3. ASSUME NEW a \in S, NEW c \in cells PROVE Cleared(a, CellKey[c], {c}) \in S
  <2>1. a \in Encs /\ a \in Outs \cup Encs /\ CellKey[c] \in Key /\ {c} \in SUBSET Cell
    BY CellAssumption
  <2>2. DEFINE w == ClearWork(CellKey[c], {c})
               r == Performed(a, w)
  <2>3. w \in WorkOps /\ Cleared(a, CellKey[c], {c}) = r
    BY <2>1, ClearedIs
  <2>4. HIDE DEF w
  <2>5. r \in Encs /\ r.acts = a.acts /\ r.drops = a.drops /\ r.ok = a.ok
    BY <2>1, <2>3, PerformedEnc
  <2>6. Tracks(a.tracker, pre \o a.ops)
    BY <1>3
  <2>7. Tracks(r.tracker, pre \o r.ops)
    BY <2>1, <2>3, <2>6, PerformedTracks
  <2>8. HIDE DEF r
  <2>9. QED
    BY <2>3, <2>5, <2>7
<1>4. HIDE DEF S
<1>5. TexturesCleared(enc, cells) \in S
  BY <1>2, <1>3, ClearedStays
<1>6. QED
  BY <1>5 DEF S

(* The device's tracker, with a GPU that runs what was baked. *)
KnowingOuts(g) == {a \in Outs : Knows(g, a.tracker, a.ops)}

(* A clear before a command buffer keeps the device's tracker right, *)
LEMMA ClearKnows ==
  ASSUME NEW g \in GpuStates, NEW a \in KnowingOuts(g), NEW k \in Key,
         NEW cells \in SUBSET Cell
  PROVE  Cleared(a, k, cells) \in KnowingOuts(g)
<1>1. a \in Outs /\ a \in Outs \cup Encs /\ Knows(g, a.tracker, a.ops)
  BY DEF KnowingOuts
<1>2. DEFINE w == ClearWork(k, cells)
             r == Performed(a, w)
<1>3. w \in WorkOps /\ Cleared(a, k, cells) = r
  BY <1>1, ClearedIs
<1>4. HIDE DEF w
<1>5. r \in Outs
  BY <1>1, <1>3, PerformedOut
<1>6. Knows(g, r.tracker, r.ops)
  BY <1>1, <1>3, PerformedKnows
<1>7. QED
  BY <1>3, <1>5, <1>6 DEF KnowingOuts

(* ... so do the clears of textures, *)
LEMMA TexturesKnow ==
  ASSUME NEW g \in GpuStates, NEW out \in KnowingOuts(g), NEW cells \in SUBSET Cell
  PROVE  TexturesCleared(out, cells) \in KnowingOuts(g)
<1>1. \A a \in KnowingOuts(g) : \A c \in cells : Cleared(a, CellKey[c], {c}) \in KnowingOuts(g)
  <2>1. \A c \in cells : CellKey[c] \in Key /\ {c} \in SUBSET Cell
    BY CellAssumption
  <2>2. QED
    BY <2>1, ClearKnows
<1>2. QED
  BY <1>1, ClearedStays

(* ... and those of buffers. *)
LEMMA BuffersKnow ==
  ASSUME NEW g \in GpuStates, NEW out \in KnowingOuts(g), NEW acts \in Seq(Acts),
         NEW clear \in SUBSET Cell
  PROVE  BuffersInitialized(out, acts, clear) \in KnowingOuts(g)
<1>1. ASSUME NEW a \in KnowingOuts(g), NEW k \in NeedyBuffers(acts)
      PROVE  Cleared(a, k, CellsOf(k, clear)) \in KnowingOuts(g)
  <2>1. k \in Key
    BY NeedyTypes
  <2>2. CellsOf(k, clear) \in SUBSET Cell
    BY DEF CellsOf
  <2>3. QED
    BY <2>1, <2>2, ClearKnows
<1>2. QED
  BY <1>1, BuffersStay

--------------------------------------------------------------------------------
(* Encoding keeps the tracker with the commands: transfers.                    *)

(* A compute pass uses a subresource of a texture that has others in one way only. *)
OneWay(cmd) ==
    cmd.type = "compute" =>
        \A i, j \in DOMAIN cmd.steps, k \in Key :
            /\ cmd.steps[i].use[k] # {} /\ cmd.steps[j].use[k] # {}
            /\ \E l \in Key : l # k /\ ResourceOf[l] = ResourceOf[k]
            => cmd.steps[i].use[k] = cmd.steps[j].use[k]

Kinds == {"needs", "implicit"}

Registered(enc, cells, r) ==
    /\ r \in Encs /\ r.tracker = enc.tracker /\ r.ops = enc.ops /\ r.ok = enc.ok
    /\ r.drops = enc.drops \ cells

(* Registering actions changes nothing but actions and discards. *)
LEMMA RegisterTypes ==
  ASSUME NEW enc \in Encs, NEW cells \in SUBSET Cell, NEW kind \in Kinds,
         NEW unset \in SUBSET Cell
  PROVE  Registered(enc, cells, Register(enc, cells, kind, unset))
<1>1. DEFINE stale == cells \cap unset
             again == IF kind = "needs" THEN cells \cap enc.drops ELSE {}
             a == IF stale = {} THEN <<>> ELSE <<[cells |-> stale, kind |-> kind]>>
             b == IF again = {} THEN <<>> ELSE <<[cells |-> again, kind |-> "implicit"]>>
             acts == (enc.acts \o a) \o b
             drops == enc.drops \ cells
<1>2. Register(enc, cells, kind, unset) = [enc EXCEPT !.acts = acts, !.drops = drops]
  <2>1. Register(enc, cells, kind, unset) = [enc EXCEPT !.acts = @ \o a \o b, !.drops = @ \ cells]
    BY Zenon DEF Register
  <2>2. HIDE DEF a, b
  <2>3. QED
    BY <2>1 DEF Encs
<1>3. stale \in SUBSET Cell /\ again \in SUBSET Cell /\ drops \in SUBSET Cell
  BY DEF Encs
<1>4. a \in Seq(Acts) /\ b \in Seq(Acts)
  <2>1. HIDE DEF stale, again
  <2>2. /\ [cells |-> stale, kind |-> kind] \in Acts
        /\ [cells |-> again, kind |-> "implicit"] \in Acts
    BY <1>3 DEF Acts, Kinds
  <2>3. QED
    BY <2>2
<1>5. enc.acts \in Seq(Acts)
  BY DEF Encs
<1>6. acts \in Seq(Acts)
  <2>1. HIDE DEF a, b
  <2>2. enc.acts \o a \in Seq(Acts)
    BY <1>4, <1>5, ConcatProperties
  <2>3. QED
    BY <2>2, <1>4, ConcatProperties
<1>7. drops = enc.drops \ cells
  OBVIOUS
<1>8. HIDE DEF acts, drops
<1>9. QED
  BY <1>2, <1>3, <1>6, <1>7 DEF Encs, Registered

(* The fields of a step. *)
LEMMA StepTypes ==
  ASSUME NEW s \in Steps
  PROVE  /\ s.use \in [Key -> State]
         /\ s.reads \in SUBSET Cell /\ s.writes \in SUBSET Cell /\ s.partial \in SUBSET Cell
         /\ Needs(s) \in SUBSET Cell
BY DEF Steps, Needs, State

(* The fields of a command. *)
LEMMA CommandSteps ==
  ASSUME NEW cmd \in Commands
  PROVE  /\ cmd.steps \in Seq(Steps) /\ cmd.target \in SUBSET Cell
         /\ cmd.load \in BOOLEAN /\ cmd.store \in BOOLEAN
         /\ Len(cmd.steps) \in Nat /\ DOMAIN cmd.steps = 1..Len(cmd.steps)
         /\ \A i \in DOMAIN cmd.steps : cmd.steps[i] \in Steps
         /\ cmd.type = "transfer" => 1 \in DOMAIN cmd.steps
         /\ cmd.type \in {"transfer", "compute", "render"}
<1>1. /\ cmd.steps \in Seq(Steps) /\ cmd.target \in SUBSET Cell
      /\ cmd.load \in BOOLEAN /\ cmd.store \in BOOLEAN
      /\ cmd.type \in {"transfer", "compute", "render"}
      /\ cmd.type = "transfer" => cmd.steps # <<>>
  BY DEF Commands
<1>2. DEFINE q == cmd.steps
<1>3. q \in Seq(Steps)
  BY <1>1
<1>4. HIDE DEF q
<1>5. Len(q) \in Nat /\ DOMAIN q = 1..Len(q) /\ \A i \in DOMAIN q : q[i] \in Steps
  BY <1>3
<1>6. q # <<>> => 1 \in DOMAIN q
  BY <1>3, <1>5
<1>7. QED
  BY <1>1, <1>5, <1>6 DEF q

TrackedEncs == {a \in Encs : Tracks(a.tracker, a.ops)}

(* Clearing discarded textures inside a command buffer is tracked. *)
LEMMA ClearedTracked ==
  ASSUME NEW enc \in TrackedEncs, NEW cells \in SUBSET Cell
  PROVE  /\ TexturesCleared(enc, cells) \in TrackedEncs
         /\ TexturesCleared(enc, cells).acts = enc.acts
         /\ TexturesCleared(enc, cells).drops = enc.drops
         /\ TexturesCleared(enc, cells).ok = enc.ok
<1>1. enc \in Encs /\ enc.ops \in Seq(RawOps) /\ Tracks(enc.tracker, enc.ops)
  BY DEF TrackedEncs, Encs
<1>2. DEFINE r == TexturesCleared(enc, cells)
             z == <<>>
<1>3. z \in Seq(RawOps) /\ z \o enc.ops = enc.ops
  BY <1>1, ConcatEmptySeq
<1>4. /\ r \in Encs /\ r.acts = enc.acts /\ r.drops = enc.drops /\ r.ok = enc.ok
      /\ Tracks(r.tracker, z \o r.ops)
  <2>1. Tracks(enc.tracker, z \o enc.ops)
    BY <1>1, <1>3
  <2>2. HIDE DEF z
  <2>3. QED
    BY <2>1, <1>1, <1>3, ClearedTracks
<1>5. r.ops \in Seq(RawOps)
  BY <1>4 DEF Encs
<1>6. z \o r.ops = r.ops
  BY <1>5, ConcatEmptySeq
<1>7. QED
  BY <1>4, <1>6 DEF TrackedEncs

(* So is work. *)
LEMMA PerformedTracked ==
  ASSUME NEW enc \in TrackedEncs, NEW w \in WorkOps
  PROVE  Performed(enc, w) \in TrackedEncs
<1>1. /\ enc \in Encs /\ enc \in Outs \cup Encs /\ enc.ops \in Seq(RawOps)
      /\ Tracks(enc.tracker, enc.ops)
  BY DEF TrackedEncs, Encs
<1>2. DEFINE r == Performed(enc, w)
             z == <<>>
<1>3. z \in Seq(RawOps) /\ z \o enc.ops = enc.ops
  BY <1>1, ConcatEmptySeq
<1>4. r \in Encs
  BY <1>1, PerformedEnc
<1>5. Tracks(r.tracker, z \o r.ops)
  <2>1. Tracks(enc.tracker, z \o enc.ops)
    BY <1>1, <1>3
  <2>2. HIDE DEF z
  <2>3. QED
    BY <2>1, <1>1, <1>3, PerformedTracks
<1>6. r.ops \in Seq(RawOps)
  BY <1>4 DEF Encs
<1>7. z \o r.ops = r.ops
  BY <1>6, ConcatEmptySeq
<1>8. QED
  BY <1>4, <1>5, <1>7 DEF TrackedEncs

(* Registering leaves what is tracked alone. *)
LEMMA RegisterTracked ==
  ASSUME NEW enc \in TrackedEncs, NEW cells \in SUBSET Cell,
         NEW kind \in Kinds, NEW unset \in SUBSET Cell
  PROVE  Register(enc, cells, kind, unset) \in TrackedEncs
<1>1. enc \in Encs
  BY DEF TrackedEncs
<1>2. Registered(enc, cells, Register(enc, cells, kind, unset))
  BY <1>1, RegisterTypes
<1>3. Tracks(enc.tracker, enc.ops)
  BY DEF TrackedEncs
<1>4. QED
  BY <1>2, <1>3 DEF TrackedEncs, Registered

(* The work of a transfer or a dispatch. *)
StepWork(s) == Work(s.use, s.reads, s.writes, s.partial, {}, "computed")

(* A step's work. *)
LEMMA StepWorks ==
  ASSUME NEW s \in Steps
  PROVE  /\ StepWork(s) \in WorkOps /\ StepWork(s).use = s.use
         /\ StepWork(s).writes = s.writes /\ StepWork(s).partial = s.partial
         /\ StepWork(s).drops = {} /\ StepWork(s).value = "computed"
BY StepTypes, UseTypes DEF StepWork, Contents

(* What a transfer registers. *)
TransferKnown(enc, s, unset) ==
    Register(Register(TexturesCleared(enc, Discarded(enc, Needs(s))),
                      Needs(s), "needs", unset),
             s.writes, "implicit", unset)

(* A transfer clears and registers, then performs its work. *)
LEMMA TransferredIs ==
  ASSUME NEW enc \in TrackedEncs, NEW cmd \in Commands, cmd.type = "transfer",
         NEW unset \in SUBSET Cell
  PROVE  /\ TransferKnown(enc, cmd.steps[1], unset) \in TrackedEncs
         /\ Transferred(enc, cmd, unset) =
               Performed(TransferKnown(enc, cmd.steps[1], unset), StepWork(cmd.steps[1]))
<1>1. DEFINE s == cmd.steps[1]
             known == TransferKnown(enc, s, unset)
             w == StepWork(s)
<1>2. s \in Steps
  BY CommandSteps
<1>3. /\ Needs(s) \in SUBSET Cell /\ s.writes \in SUBSET Cell
      /\ Discarded(enc, Needs(s)) \in SUBSET Cell
  BY <1>2, StepTypes DEF Discarded
<1>4. known \in TrackedEncs
  <2>1. HIDE DEF s
  <2>2. TexturesCleared(enc, Discarded(enc, Needs(s))) \in TrackedEncs
    BY <1>3, ClearedTracked
  <2>3. Register(TexturesCleared(enc, Discarded(enc, Needs(s))), Needs(s), "needs", unset)
          \in TrackedEncs
    BY <1>3, <2>2, RegisterTracked DEF Kinds
  <2>4. QED
    BY <1>3, <2>3, RegisterTracked DEF TransferKnown, Kinds
<1>5. w \in WorkOps /\ w.use = s.use
  BY <1>2, StepWorks
<1>6. Transferred(enc, cmd, unset) = [Moved(known, s.use) EXCEPT !.ops = Append(@, w)]
  BY Zenon DEF Transferred, TransferKnown, StepWork
<1>7. known \in Outs \cup Encs
  BY <1>4 DEF TrackedEncs
<1>8. HIDE DEF known, w
<1>9. [Moved(known, w.use) EXCEPT !.ops = Append(@, w)] = Performed(known, w)
  BY <1>5, <1>7, PerformedTypes
<1>10. QED
  BY <1>4, <1>5, <1>6, <1>9 DEF known, w

(* A transfer is tracked. *)
LEMMA TransferredTracked ==
  ASSUME NEW enc \in TrackedEncs, NEW cmd \in Commands, cmd.type = "transfer",
         NEW unset \in SUBSET Cell
  PROVE  Transferred(enc, cmd, unset) \in TrackedEncs
<1>1. cmd.steps[1] \in Steps
  BY CommandSteps
<1>2. StepWork(cmd.steps[1]) \in WorkOps
  BY <1>1, StepWorks
<1>3. DEFINE known == TransferKnown(enc, cmd.steps[1], unset)
             w == StepWork(cmd.steps[1])
<1>4. known \in TrackedEncs /\ Transferred(enc, cmd, unset) = Performed(known, w)
  BY TransferredIs
<1>5. HIDE DEF known, w
<1>6. QED
  BY <1>4, <1>2, PerformedTracked DEF w

--------------------------------------------------------------------------------
(* ... the end of a pass,                                                      *)

(* The end of a pass. *)
LEMMA EmptiedTypes ==
  ASSUME NEW enc \in Encs
  PROVE  /\ [enc EXCEPT !.ops = <<>>] \in Encs
         /\ [enc EXCEPT !.ops = <<>>].tracker = enc.tracker
         /\ [enc EXCEPT !.ops = <<>>].ops = <<>>
         /\ [enc EXCEPT !.ops = <<>>].acts = enc.acts
         /\ [enc EXCEPT !.ops = <<>>].drops = enc.drops
         /\ [enc EXCEPT !.ops = <<>>].ok = enc.ok
<1>1. DEFINE z == <<>>
<1>2. z \in Seq(RawOps)
  OBVIOUS
<1>3. HIDE DEF z
<1>4. /\ [enc EXCEPT !.ops = z] \in Encs
      /\ [enc EXCEPT !.ops = z].tracker = enc.tracker
      /\ [enc EXCEPT !.ops = z].ops = z
      /\ [enc EXCEPT !.ops = z].acts = enc.acts
      /\ [enc EXCEPT !.ops = z].drops = enc.drops
      /\ [enc EXCEPT !.ops = z].ok = enc.ok
  BY <1>2 DEF Encs
<1>5. QED
  BY <1>4 DEF z

Transit(enc, fixups) == TexturesCleared([enc EXCEPT !.ops = <<>>], fixups)

Ended(enc, pass, first, last, fixups, r) ==
    /\ r \in Encs
    /\ r.acts = enc.acts /\ r.drops = enc.drops /\ r.ok = enc.ok
    /\ r.ops = ((enc.ops \o Transit(enc, fixups).ops)
                  \o Barriers(Transit(enc, fixups).tracker.end, first)) \o pass
    /\ r.tracker = Advance(Transit(enc, fixups).tracker, first, last)

(* The clears before a pass (fixup_discarded_surfaces) are tracked. *)
LEMMA TransitTracks ==
  ASSUME NEW enc \in TrackedEncs, NEW fixups \in SUBSET Cell
  PROVE  /\ Transit(enc, fixups) \in Encs
         /\ Transit(enc, fixups).acts = enc.acts
         /\ Transit(enc, fixups).drops = enc.drops
         /\ Transit(enc, fixups).ok = enc.ok
         /\ Tracks(Transit(enc, fixups).tracker, enc.ops \o Transit(enc, fixups).ops)
<1>1. DEFINE e == [enc EXCEPT !.ops = <<>>]
             pre == enc.ops
<1>2. enc \in Encs /\ pre \in Seq(RawOps) /\ Tracks(enc.tracker, pre)
  BY DEF TrackedEncs, Encs
<1>3. /\ e \in Encs /\ e.tracker = enc.tracker /\ e.ops = <<>>
      /\ e.acts = enc.acts /\ e.drops = enc.drops /\ e.ok = enc.ok
  BY <1>2, EmptiedTypes
<1>4. Transit(enc, fixups) = TexturesCleared(e, fixups)
  BY DEF Transit
<1>5. HIDE DEF e, pre
<1>6. pre \o e.ops = pre
  BY <1>2, <1>3, ConcatEmptySeq
<1>7. Tracks(e.tracker, pre \o e.ops)
  BY <1>2, <1>3, <1>6
<1>8. /\ TexturesCleared(e, fixups) \in Encs
      /\ TexturesCleared(e, fixups).acts = e.acts
      /\ TexturesCleared(e, fixups).drops = e.drops
      /\ TexturesCleared(e, fixups).ok = e.ok
      /\ Tracks(TexturesCleared(e, fixups).tracker, pre \o TexturesCleared(e, fixups).ops)
  BY <1>2, <1>3, <1>7, ClearedTracks
<1>9. QED
  BY <1>3, <1>4, <1>8 DEF pre

(* Ending a pass: the clears, the barriers to its first uses, the pass. *)
LEMMA PassEndedIs ==
  ASSUME NEW enc \in TrackedEncs, NEW fixups \in SUBSET Cell,
         NEW pass \in Seq(RawOps), NEW first \in [Key -> State], NEW last \in [Key -> State]
  PROVE  Ended(enc, pass, first, last, fixups, PassEnded(enc, pass, first, last, fixups))
<1>1. DEFINE t == Transit(enc, fixups)
             A == Advance(t.tracker, first, last)
             B == Barriers(t.tracker.end, first)
             O == ((enc.ops \o t.ops) \o B) \o pass
<1>2. /\ t \in Encs /\ t.acts = enc.acts /\ t.drops = enc.drops /\ t.ok = enc.ok
      /\ enc.ops \in Seq(RawOps)
  BY TransitTracks DEF TrackedEncs, Encs
<1>3. t.ops \in Seq(RawOps) /\ t.tracker \in Trackers /\ t.tracker.end \in [Key -> State]
  BY <1>2 DEF Encs, Trackers
<1>4. A \in Trackers /\ B \in Seq(RawOps)
  <2>1. HIDE DEF t
  <2>2. QED
    BY <1>3, AdvanceTypes, BarrierTypes
<1>5. O \in Seq(RawOps)
  <2>1. HIDE DEF t, B
  <2>2. enc.ops \o t.ops \in Seq(RawOps)
    BY <1>2, <1>3, ConcatProperties
  <2>3. (enc.ops \o t.ops) \o B \in Seq(RawOps)
    BY <2>2, <1>4, ConcatProperties
  <2>4. QED
    BY <2>3, ConcatProperties
<1>6. PassEnded(enc, pass, first, last, fixups) = With(t, A, O)
  <2>1. PassEnded(enc, pass, first, last, fixups) =
          [t EXCEPT !.tracker = Advance(@, first, last), !.ops = enc.ops \o @ \o B \o pass]
    BY Zenon DEF PassEnded, Transit
  <2>2. HIDE DEF t, B
  <2>3. QED
    BY <2>1, <1>2, Zenon DEF With, Encs
<1>7. HIDE DEF A, O
<1>8. /\ With(t, A, O) \in Encs
      /\ With(t, A, O).tracker = A /\ With(t, A, O).ops = O
      /\ With(t, A, O).acts = t.acts /\ With(t, A, O).drops = t.drops
      /\ With(t, A, O).ok = t.ok
  <2>1. HIDE DEF t
  <2>2. QED
    BY <1>2, <1>4, <1>5, WithEnc
<1>9. QED
  BY <1>2, <1>6, <1>8 DEF Ended, A, O

(* A pass whose own tracker is right is tracked once it is inserted. *)
LEMMA PassEndedTracked ==
  ASSUME NEW enc \in TrackedEncs, NEW fixups \in SUBSET Cell,
         NEW pass \in Seq(RawOps), NEW first \in [Key -> State], NEW last \in [Key -> State],
         Matched(first, last), Brings(first, pass, last),
         \A t \in Trackers : NoSplit(t, first, last)
  PROVE  PassEnded(enc, pass, first, last, fixups) \in TrackedEncs
<1>1. DEFINE t == Transit(enc, fixups)
             r == PassEnded(enc, pass, first, last, fixups)
             done == enc.ops \o t.ops
<1>2. Ended(enc, pass, first, last, fixups, r)
  BY PassEndedIs
<1>3. t \in Encs /\ Tracks(t.tracker, done) /\ enc.ops \in Seq(RawOps)
  BY TransitTracks DEF TrackedEncs, Encs
<1>4. t.tracker \in Trackers /\ t.ops \in Seq(RawOps)
  BY <1>3 DEF Encs
<1>5. done \in Seq(RawOps)
  <2>1. HIDE DEF t
  <2>2. QED
    BY <1>3, <1>4, ConcatProperties
<1>6. r \in Encs /\ r.ops = (done \o Barriers(t.tracker.end, first)) \o pass
      /\ r.tracker = Advance(t.tracker, first, last)
  BY <1>2 DEF Ended
<1>7. HIDE DEF t, done, r
<1>8. DEFINE k == t.tracker
<1>9. k \in Trackers /\ NoSplit(k, first, last) /\ Tracks(k, done)
  BY <1>3, <1>4
<1>10. HIDE DEF k
<1>11. Tracks(Advance(k, first, last), (done \o Barriers(k.end, first)) \o pass)
  BY <1>5, <1>9, TracksOn
<1>12. Tracks(r.tracker, r.ops)
  BY <1>6, <1>11 DEF k
<1>13. r \in TrackedEncs
  BY <1>6, <1>12 DEF TrackedEncs
<1>14. QED
  BY <1>13 DEF r

--------------------------------------------------------------------------------
(* ... compute passes,                                                         *)

(* A compute pass. *)
PassRecs == [tracker : Trackers, ops : Seq(RawOps), fixups : SUBSET Cell, enc : Encs]

Given(cmd, s) ==
    \A k \in Key : s[k] # {} => \E i \in DOMAIN cmd.steps : s[k] = cmd.steps[i].use[k]

PassStart(enc) == [tracker |-> EmptyTracker, ops |-> <<>>, fixups |-> {}, enc |-> enc]
PassOf(enc, cmd, unset) == DispatchAll(unset, PassStart(enc), cmd.steps)

ComputePass(cmd) ==
    {p \in PassRecs : /\ p.enc \in TrackedEncs /\ Tracks(p.tracker, p.ops)
                      /\ Given(cmd, p.tracker.start) /\ Given(cmd, p.tracker.end)}

(* A dispatch performs its step in the pass and registers its actions. *)
LEMMA DispatchedIs ==
  ASSUME NEW p \in PassRecs, NEW s \in Steps, NEW unset \in SUBSET Cell
  PROVE  Dispatched(p, s, unset) =
           [tracker |-> Performed([tracker |-> p.tracker, ops |-> p.ops], StepWork(s)).tracker,
            ops |-> Performed([tracker |-> p.tracker, ops |-> p.ops], StepWork(s)).ops,
            fixups |-> p.fixups \cup Discarded(p.enc, Needs(s)),
            enc |-> Register(p.enc, Needs(s), "needs", unset)]
<1>1. DEFINE out == [tracker |-> p.tracker, ops |-> p.ops]
             w == StepWork(s)
             m == Moved(out, s.use)
<1>2. out \in Outs /\ out \in Outs \cup Encs
  BY DEF PassRecs, Outs
<1>3. w \in WorkOps /\ w.use = s.use
  BY StepWorks
<1>4. Dispatched(p, s, unset) =
        [tracker |-> m.tracker, ops |-> Append(m.ops, w),
         fixups |-> p.fixups \cup Discarded(p.enc, Needs(s)),
         enc |-> Register(p.enc, Needs(s), "needs", unset)]
  BY Zenon DEF Dispatched, StepWork
<1>5. [Moved(out, w.use) EXCEPT !.ops = Append(@, w)] = Performed(out, w)
  <2>1. HIDE DEF out, w
  <2>2. QED
    BY <1>2, <1>3, PerformedTypes
<1>6. [m EXCEPT !.ops = Append(@, w)] = Performed(out, w)
  BY <1>3, <1>5
<1>7. m = [out EXCEPT !.tracker = Advance(@, s.use, s.use),
                      !.ops = @ \o Barriers(out.tracker.end, s.use)]
  BY Zenon DEF Moved
<1>8. [m EXCEPT !.ops = Append(@, w)].tracker = m.tracker
      /\ [m EXCEPT !.ops = Append(@, w)].ops = Append(m.ops, w)
  <2>1. DEFINE A == Advance(out.tracker, s.use, s.use)
               B == out.ops \o Barriers(out.tracker.end, s.use)
  <2>2. m = [tracker |-> A, ops |-> B]
    BY <1>7
  <2>3. HIDE DEF m, A, B, w, out
  <2>4. QED
    BY <2>2
<1>9. m.tracker = Performed(out, w).tracker /\ Append(m.ops, w) = Performed(out, w).ops
  BY <1>6, <1>8
<1>10. HIDE DEF m
<1>11. QED
  BY <1>4, <1>9

(* A pass's tracker holds uses of its steps only. *)
LEMMA GivenOn ==
  ASSUME NEW cmd \in Commands, NEW t \in Trackers, Given(cmd, t.start), Given(cmd, t.end),
         NEW i \in DOMAIN cmd.steps, NEW use, use = cmd.steps[i].use, use \in [Key -> State]
  PROVE  Given(cmd, Advance(t, use, use).start) /\ Given(cmd, Advance(t, use, use).end)
<1>1. \A k \in Key : \/ Advance(t, use, use).start[k] = t.start[k]
                     \/ Advance(t, use, use).start[k] = use[k]
  BY DEF Advance
<1>2. \A k \in Key : \/ Advance(t, use, use).end[k] = t.end[k]
                     \/ Advance(t, use, use).end[k] = use[k]
  BY DEF Advance, Updated
<1>3. \A k \in Key : use[k] # {} => \E j \in DOMAIN cmd.steps : use[k] = cmd.steps[j].use[k]
  OBVIOUS
<1>4. QED
  BY <1>1, <1>2, <1>3 DEF Given

(* A pass starts right, *)
LEMMA PassStarts ==
  ASSUME NEW enc \in TrackedEncs, NEW cmd \in Commands
  PROVE  PassStart(enc) \in ComputePass(cmd)
<1>1. EmptyTracker \in Trackers
  BY DEF EmptyTracker, Trackers, Unused, State
<1>2. <<>> \in Seq(RawOps)
  OBVIOUS
<1>3. enc \in Encs
  BY DEF TrackedEncs
<1>4. DEFINE z == <<>>
             e == EmptyTracker
             p == PassStart(enc)
<1>5. p.tracker = e /\ p.ops = z /\ p.enc = enc /\ p \in PassRecs
  <2>1. p = [tracker |-> e, ops |-> z, fixups |-> {}, enc |-> enc]
    BY DEF PassStart
  <2>2. z \in Seq(RawOps) /\ e \in Trackers
    BY <1>1, <1>2
  <2>3. HIDE DEF z, e, p
  <2>4. QED
    BY <2>1, <2>2, <1>3 DEF PassRecs
<1>6. \A k \in Key : e.start[k] = {} /\ e.end[k] = {}
  BY DEF EmptyTracker, Unused
<1>7. Given(cmd, e.start) /\ Given(cmd, e.end) /\ Matched(e.start, e.end)
  BY <1>6 DEF Given, Matched
<1>8. \A g : Execute(g, z) = g
  BY RunEmpty
<1>9. Brings(e.start, z, e.end)
  <2>1. HIDE DEF z
  <2>2. QED
    BY <1>6, <1>8 DEF Brings
<1>10. HIDE DEF z, e, p
<1>11. p \in ComputePass(cmd)
  BY <1>5, <1>7, <1>9 DEF ComputePass, Tracks
<1>12. QED
  BY <1>11 DEF p

(* ... a dispatch keeps it right, *)
LEMMA DispatchedTracked ==
  ASSUME NEW cmd \in Commands, NEW p \in ComputePass(cmd), NEW i \in DOMAIN cmd.steps,
         NEW unset \in SUBSET Cell
  PROVE  Dispatched(p, cmd.steps[i], unset) \in ComputePass(cmd)
<1>1. DEFINE s == cmd.steps[i]
             out == [tracker |-> p.tracker, ops |-> p.ops]
             w == StepWork(s)
             r == Performed(out, w)
             d == Dispatched(p, s, unset)
             n == Register(p.enc, Needs(s), "needs", unset)
             x == p.fixups \cup Discarded(p.enc, Needs(s))
<1>2. s \in Steps
  BY CommandSteps
<1>3. /\ p \in PassRecs /\ p.enc \in TrackedEncs /\ Tracks(p.tracker, p.ops)
      /\ Given(cmd, p.tracker.start) /\ Given(cmd, p.tracker.end)
  BY DEF ComputePass
<1>4. p.tracker \in Trackers /\ p.ops \in Seq(RawOps) /\ p.fixups \in SUBSET Cell
  BY <1>3 DEF PassRecs
<1>5. out \in Outs /\ out \in Outs \cup Encs /\ out.tracker = p.tracker /\ out.ops = p.ops
  BY <1>4 DEF Outs
<1>6. Needs(s) \in SUBSET Cell /\ s.use \in [Key -> State] /\ w \in WorkOps /\ w.use = s.use
  BY <1>2, StepTypes, StepWorks
<1>7. d = [tracker |-> r.tracker, ops |-> r.ops, fixups |-> x, enc |-> n]
  <2>1. HIDE DEF s
  <2>2. QED
    BY <1>2, <1>3, DispatchedIs
<1>8. n \in TrackedEncs /\ n \in Encs
  <2>1. HIDE DEF s
  <2>2. Register(p.enc, Needs(s), "needs", unset) \in TrackedEncs
    BY <1>3, <1>6, RegisterTracked DEF Kinds
  <2>3. QED
    BY <2>2 DEF TrackedEncs
<1>9. x \in SUBSET Cell
  BY <1>4, <1>6 DEF Discarded
<1>10. r \in Outs /\ r.tracker = Advance(p.tracker, s.use, s.use)
  <2>1. HIDE DEF out, w
  <2>2. r \in Outs /\ r.tracker = Advance(out.tracker, w.use, w.use)
    BY <1>5, <1>6, PerformedOut
  <2>3. QED
    BY <2>2, <1>5, <1>6
<1>11. Tracks(r.tracker, r.ops)
  <2>1. DEFINE z == <<>>
  <2>2. z \in Seq(RawOps) /\ z \o out.ops = out.ops
    BY <1>4, <1>5, ConcatEmptySeq
  <2>3. Tracks(out.tracker, z \o out.ops)
    BY <1>3, <1>5, <2>2
  <2>4. Tracks(r.tracker, z \o r.ops)
    <3>1. HIDE DEF z, out, w
    <3>2. QED
      BY <1>5, <1>6, <2>2, <2>3, PerformedTracks
  <2>5. r.ops \in Seq(RawOps)
    BY <1>10 DEF Outs
  <2>6. z \o r.ops = r.ops
    BY <2>5, ConcatEmptySeq
  <2>7. QED
    BY <2>4, <2>6
<1>12. Given(cmd, r.tracker.start) /\ Given(cmd, r.tracker.end)
  <2>1. DEFINE t == p.tracker
               u == s.use
  <2>2. t \in Trackers /\ Given(cmd, t.start) /\ Given(cmd, t.end)
        /\ u = cmd.steps[i].use /\ u \in [Key -> State]
    BY <1>3, <1>4, <1>6
  <2>3. HIDE DEF t, u
  <2>4. Given(cmd, Advance(t, u, u).start) /\ Given(cmd, Advance(t, u, u).end)
    BY <2>2, GivenOn
  <2>5. QED
    BY <1>10, <2>4 DEF t, u
<1>13. r.tracker \in Trackers /\ r.ops \in Seq(RawOps)
  BY <1>10 DEF Outs
<1>14. HIDE DEF r, n, x, d
<1>15. d \in PassRecs /\ d.enc = n /\ d.tracker = r.tracker /\ d.ops = r.ops
  BY <1>7, <1>8, <1>9, <1>13 DEF PassRecs
<1>16. d \in ComputePass(cmd)
  BY <1>8, <1>11, <1>12, <1>15 DEF ComputePass
<1>17. QED
  BY <1>16 DEF d

--------------------------------------------------------------------------------
(* ... render passes, and every command.                                       *)

(* ... and so do all of them. *)
LEMMA PassTracked ==
  ASSUME NEW enc \in TrackedEncs, NEW cmd \in Commands, NEW unset \in SUBSET Cell
  PROVE  PassOf(enc, cmd, unset) \in ComputePass(cmd)
<1>1. DEFINE q == cmd.steps
             n == Len(q)
             F == [op |-> "dispatch", cells |-> unset]
             S == ComputePass(cmd)
             b == PassStart(enc)
<1>2. n \in Nat /\ DOMAIN q = 1..n
  BY CommandSteps
<1>3. \A a, x : Apply(F, a, x) = Dispatched(a, x, unset)
  BY DEF Apply
<1>4. PICK h : Follow(F, b, q, n, h) /\ h[n] = DispatchAll(unset, b, q)
  <2>1. HIDE DEF q, n, b
  <2>2. QED
    BY <1>2, DispatchFolds
<1>5. \A i \in 1..n : \A a \in S : Apply(F, a, q[i]) \in S
  <2>1. ASSUME NEW i \in 1..n, NEW a \in S PROVE Apply(F, a, q[i]) \in S
    <3>1. i \in DOMAIN cmd.steps
      BY <1>2
    <3>2. Dispatched(a, cmd.steps[i], unset) \in S
      BY <3>1, DispatchedTracked
    <3>3. QED
      BY <3>2, <1>3
  <2>2. QED
    BY <2>1
<1>6. b \in S
  BY PassStarts
<1>7. PassOf(enc, cmd, unset) = DispatchAll(unset, b, q)
  BY DEF PassOf
<1>8. HIDE DEF F, n, q, b, S
<1>9. h[n] \in S
  BY <1>2, <1>4, <1>5, <1>6, FollowStays
<1>10. QED
  BY <1>4, <1>7, <1>9 DEF S

ComputedIs(enc, cmd, unset) ==
    IF \E i \in DOMAIN cmd.steps : Conflict(<<cmd.steps[i].use>>)
      THEN [enc EXCEPT !.ok = FALSE]
      ELSE PassEnded(PassOf(enc, cmd, unset).enc, PassOf(enc, cmd, unset).ops,
                     PassOf(enc, cmd, unset).tracker.start,
                     PassOf(enc, cmd, unset).tracker.end, PassOf(enc, cmd, unset).fixups)

(* The model's compute pass, in the names of this module. *)
LEMMA ComputedSame ==
  ASSUME NEW enc, NEW cmd, NEW unset
  PROVE  Computed(enc, cmd, unset) = ComputedIs(enc, cmd, unset)
BY Zenon DEF Computed, ComputedIs, PassOf, PassStart, DispatchAll

(* A refused command leaves what is tracked alone. *)
LEMMA Refused ==
  ASSUME NEW enc \in TrackedEncs
  PROVE  [enc EXCEPT !.ok = FALSE] \in TrackedEncs
<1>1. enc \in Encs /\ Tracks(enc.tracker, enc.ops)
  BY DEF TrackedEncs
<1>2. /\ [enc EXCEPT !.ok = FALSE] \in Encs /\ [enc EXCEPT !.ok = FALSE].tracker = enc.tracker
      /\ [enc EXCEPT !.ok = FALSE].ops = enc.ops
  BY <1>1 DEF Encs
<1>3. QED
  BY <1>1, <1>2 DEF TrackedEncs

(* A compute pass is tracked. *)
LEMMA ComputedTracked ==
  ASSUME NEW enc \in TrackedEncs, NEW cmd \in Commands, cmd.type = "compute",
         NEW unset \in SUBSET Cell, OneWay(cmd)
  PROVE  Computed(enc, cmd, unset) \in TrackedEncs
<1>1. DEFINE p == PassOf(enc, cmd, unset)
<1>2. p \in ComputePass(cmd)
  BY PassTracked
<1>3. Computed(enc, cmd, unset) =
        IF \E i \in DOMAIN cmd.steps : Conflict(<<cmd.steps[i].use>>)
          THEN [enc EXCEPT !.ok = FALSE]
          ELSE PassEnded(p.enc, p.ops, p.tracker.start, p.tracker.end, p.fixups)
  BY ComputedSame, Zenon DEF ComputedIs
<1>4. HIDE DEF p
<1>5. /\ p \in PassRecs /\ p.enc \in TrackedEncs /\ Tracks(p.tracker, p.ops)
      /\ Given(cmd, p.tracker.start) /\ Given(cmd, p.tracker.end)
  BY <1>2 DEF ComputePass
<1>6. p.tracker \in Trackers /\ p.ops \in Seq(RawOps) /\ p.fixups \in SUBSET Cell
  BY <1>5 DEF PassRecs
<1>7. DEFINE f == p.tracker.start
             l == p.tracker.end
<1>8. f \in [Key -> State] /\ l \in [Key -> State]
  BY <1>6 DEF Trackers
<1>9. Matched(f, l) /\ Brings(f, p.ops, l) /\ Given(cmd, f) /\ Given(cmd, l)
  BY <1>5 DEF Tracks
<1>10. HIDE DEF f, l
<1>11. ASSUME NEW t \in Trackers PROVE NoSplit(t, f, l)
  <2>1. ASSUME NEW k \in Key, t.end[k] = {}, Owns(t, ResourceOf[k]) PROVE f[k] = l[k]
    <3>1. \E j \in Key : j # k /\ ResourceOf[j] = ResourceOf[k]
      BY <2>1 DEF Owns
    <3>2. CASE f[k] = {}
      BY <3>2, <1>9 DEF Matched
    <3>3. CASE f[k] # {}
      <4>1. l[k] # {}
        BY <3>3, <1>9 DEF Matched
      <4>2. PICK i \in DOMAIN cmd.steps : f[k] = cmd.steps[i].use[k]
        BY <3>3, <1>9 DEF Given
      <4>3. PICK j \in DOMAIN cmd.steps : l[k] = cmd.steps[j].use[k]
        BY <4>1, <1>9 DEF Given
      <4>4. cmd.steps[i].use[k] = cmd.steps[j].use[k]
        BY <3>1, <3>3, <4>1, <4>2, <4>3 DEF OneWay
      <4>5. QED
        BY <4>2, <4>3, <4>4
    <3>4. QED
      BY <3>2, <3>3
  <2>2. QED
    BY <2>1 DEF NoSplit
<1>12. PassEnded(p.enc, p.ops, f, l, p.fixups) \in TrackedEncs
  <2>1. DEFINE e == p.enc
               o == p.ops
               x == p.fixups
  <2>2. e \in TrackedEncs /\ o \in Seq(RawOps) /\ x \in SUBSET Cell /\ Brings(f, o, l)
    BY <1>5, <1>6, <1>9
  <2>3. HIDE DEF e, o, x
  <2>4. \A t \in Trackers : NoSplit(t, f, l)
    BY <1>11
  <2>5. PassEnded(e, o, f, l, x) \in TrackedEncs
    BY <1>8, <1>9, <2>2, <2>4, PassEndedTracked
  <2>6. QED
    BY <2>5 DEF e, o, x
<1>13. [enc EXCEPT !.ok = FALSE] \in TrackedEncs
  BY Refused
<1>14. QED
  BY <1>3, <1>12, <1>13 DEF f, l

(* A render pass. *)
StepReads(cmd) == UNION {cmd.steps[i].reads : i \in DOMAIN cmd.steps}
StepPartial(cmd) == UNION {cmd.steps[i].partial : i \in DOMAIN cmd.steps}
Scope(cmd) == Merged(ScopeUses(cmd))
Loaded(cmd) == IF cmd.load THEN cmd.target ELSE {}
PassWork(cmd) ==
    Work(Scope(cmd), StepReads(cmd) \cup Loaded(cmd), IF cmd.load THEN {} ELSE cmd.target,
         StepPartial(cmd) \cup Loaded(cmd), IF cmd.store THEN {} ELSE cmd.target, "computed")
Attached(enc, cmd, unset) ==
    IF cmd.load THEN Register(enc, cmd.target, "needs", unset)
    ELSE IF cmd.store THEN Register(enc, cmd.target, "implicit", unset)
    ELSE enc
Stored(enc, cmd, unset) ==
    IF cmd.store THEN Attached(enc, cmd, unset)
    ELSE [Attached(enc, cmd, unset) EXCEPT !.drops = @ \cup cmd.target]
Drawn(enc, cmd, unset) ==
    Register(Stored(enc, cmd, unset), StepReads(cmd) \cup StepPartial(cmd), "needs", unset)
PassFixups(enc, cmd, unset) ==
    Discarded(enc, Loaded(cmd))
    \cup Discarded(Stored(enc, cmd, unset), StepReads(cmd) \cup StepPartial(cmd))

RenderedIs(enc, cmd, unset) ==
    IF Conflict(ScopeUses(cmd)) THEN [enc EXCEPT !.ok = FALSE]
    ELSE PassEnded(Drawn(enc, cmd, unset), <<PassWork(cmd)>>, Scope(cmd), Scope(cmd),
                   PassFixups(enc, cmd, unset))

(* The model's render pass, in the names of this module. *)
LEMMA RenderedSame ==
  ASSUME NEW enc, NEW cmd, NEW unset
  PROVE  Rendered(enc, cmd, unset) = RenderedIs(enc, cmd, unset)
BY Zenon DEF Rendered, RenderedIs, Drawn, PassWork, Scope, PassFixups, Stored, Attached,
             Loaded, StepReads, StepPartial, Over

(* A render pass is one piece of work, in the scope's merged uses. *)
LEMMA PassWorks ==
  ASSUME NEW cmd \in Commands
  PROVE  /\ StepReads(cmd) \in SUBSET Cell /\ StepPartial(cmd) \in SUBSET Cell
         /\ Scope(cmd) \in [Key -> State]
         /\ PassWork(cmd) \in WorkOps /\ PassWork(cmd).use = Scope(cmd)
         /\ PassWork(cmd).writes = (IF cmd.load THEN {} ELSE cmd.target)
         /\ PassWork(cmd).partial = StepPartial(cmd) \cup Loaded(cmd)
         /\ PassWork(cmd).drops = (IF cmd.store THEN {} ELSE cmd.target)
         /\ PassWork(cmd).value = "computed"
<1>1. /\ \A i \in DOMAIN cmd.steps : cmd.steps[i] \in Steps
      /\ DOMAIN cmd.steps = 1..Len(cmd.steps) /\ Len(cmd.steps) \in Nat
      /\ cmd.target \in SUBSET Cell
  BY CommandSteps
<1>2. StepReads(cmd) \in SUBSET Cell /\ StepPartial(cmd) \in SUBSET Cell
  BY <1>1, StepTypes DEF StepReads, StepPartial
<1>3. DEFINE n == Len(cmd.steps)
             u == [i \in DOMAIN cmd.steps |-> cmd.steps[i].use]
             t == TargetUse(cmd)
<1>4. n \in Nat /\ u \in [1..n -> [Key -> State]]
  BY <1>1, StepTypes
<1>5. u \in Seq([Key -> State])
  BY <1>4
<1>6. t \in [Key -> State]
  <2>1. KeysOf(cmd.target) \in SUBSET Key
    BY <1>1, CellAssumption DEF KeysOf
  <2>2. QED
    BY <2>1, OnlyTypes, ClearAssumption, OrderAssumption DEF TargetUse
<1>7. ScopeUses(cmd) = Append(u, t)
  BY DEF ScopeUses
<1>8. ScopeUses(cmd) \in Seq([Key -> State])
  <2>1. HIDE DEF u, t
  <2>2. QED
    BY <1>5, <1>6, <1>7
<1>9. \A i \in DOMAIN ScopeUses(cmd) : ScopeUses(cmd)[i] \in [Key -> State]
  BY <1>8
<1>10. Scope(cmd) \in [Key -> State]
  <2>1. \A k \in Key : UNION {ScopeUses(cmd)[i][k] : i \in DOMAIN ScopeUses(cmd)} \in State
    BY <1>9 DEF State
  <2>2. QED
    BY <2>1 DEF Scope, Merged
<1>11. Loaded(cmd) \in SUBSET Cell
  BY <1>1 DEF Loaded
<1>12. DEFINE r == StepReads(cmd) \cup Loaded(cmd)
              a == IF cmd.load THEN {} ELSE cmd.target
              b == StepPartial(cmd) \cup Loaded(cmd)
              d == IF cmd.store THEN {} ELSE cmd.target
              v == "computed"
<1>13. /\ r \in SUBSET Cell /\ a \in SUBSET Cell /\ b \in SUBSET Cell /\ d \in SUBSET Cell
       /\ v \in Contents
  BY <1>1, <1>2, <1>11 DEF Contents
<1>14. PassWork(cmd) = Work(Scope(cmd), r, a, b, d, v)
  BY DEF PassWork
<1>15. HIDE DEF r, a, b, d, v
<1>16. /\ PassWork(cmd) \in WorkOps /\ PassWork(cmd).use = Scope(cmd)
       /\ PassWork(cmd).writes = a /\ PassWork(cmd).partial = b
       /\ PassWork(cmd).drops = d /\ PassWork(cmd).value = v
  BY <1>10, <1>13, <1>14, UseTypes
<1>17. QED
  BY <1>2, <1>10, <1>16 DEF r, a, b, d, v

(* A render pass is tracked. *)
LEMMA RenderedTracked ==
  ASSUME NEW enc \in TrackedEncs, NEW cmd \in Commands, NEW unset \in SUBSET Cell
  PROVE  Rendered(enc, cmd, unset) \in TrackedEncs
<1>1. /\ StepReads(cmd) \in SUBSET Cell /\ StepPartial(cmd) \in SUBSET Cell
      /\ Scope(cmd) \in [Key -> State] /\ PassWork(cmd) \in WorkOps
      /\ PassWork(cmd).use = Scope(cmd)
  BY PassWorks
<1>2. cmd.target \in SUBSET Cell
  BY CommandSteps
<1>3. Attached(enc, cmd, unset) \in TrackedEncs
  BY <1>2, RegisterTracked DEF Attached, Kinds
<1>4. \A e \in TrackedEncs : \A d \in SUBSET Cell : [e EXCEPT !.drops = @ \cup d] \in TrackedEncs
  <2>1. ASSUME NEW e \in TrackedEncs, NEW d \in SUBSET Cell
        PROVE  [e EXCEPT !.drops = @ \cup d] \in TrackedEncs
    <3>1. e \in Encs /\ Tracks(e.tracker, e.ops)
      BY DEF TrackedEncs
    <3>2. /\ [e EXCEPT !.drops = @ \cup d] \in Encs
          /\ [e EXCEPT !.drops = @ \cup d].tracker = e.tracker
          /\ [e EXCEPT !.drops = @ \cup d].ops = e.ops
      BY <3>1 DEF Encs
    <3>3. QED
      BY <3>1, <3>2 DEF TrackedEncs
  <2>2. QED
    BY <2>1
<1>5. Stored(enc, cmd, unset) \in TrackedEncs
  BY <1>2, <1>3, <1>4 DEF Stored
<1>6. StepReads(cmd) \cup StepPartial(cmd) \in SUBSET Cell
  BY <1>1
<1>7. Drawn(enc, cmd, unset) \in TrackedEncs
  BY <1>5, <1>6, RegisterTracked DEF Drawn, Kinds
<1>8. Stored(enc, cmd, unset) \in Encs /\ enc \in Encs
  BY <1>5 DEF TrackedEncs
<1>9. PassFixups(enc, cmd, unset) \in SUBSET Cell
  BY <1>8, <1>2 DEF PassFixups, Discarded, Encs
<1>10. DEFINE w == PassWork(cmd)
              u == Scope(cmd)
              e == Drawn(enc, cmd, unset)
              x == PassFixups(enc, cmd, unset)
              o == <<w>>
<1>11. o \in Seq(RawOps) /\ Brings(u, o, u) /\ Matched(u, u)
  BY <1>1, WorkBrings
<1>12. \A t \in Trackers : NoSplit(t, u, u)
  BY DEF NoSplit
<1>13. u \in [Key -> State] /\ e \in TrackedEncs /\ x \in SUBSET Cell
  BY <1>1, <1>7, <1>9
<1>14. PassEnded(e, o, u, u, x) \in TrackedEncs
  <2>1. HIDE DEF w, u, e, x, o
  <2>2. QED
    BY <1>11, <1>12, <1>13, PassEndedTracked
<1>15. [enc EXCEPT !.ok = FALSE] \in TrackedEncs
  BY Refused
<1>16. Rendered(enc, cmd, unset) =
         IF Conflict(ScopeUses(cmd)) THEN [enc EXCEPT !.ok = FALSE] ELSE PassEnded(e, o, u, u, x)
  BY RenderedSame, Zenon DEF RenderedIs
<1>17. QED
  BY <1>14, <1>15, <1>16

(* Every command is tracked. *)
LEMMA EncodeTracked ==
  ASSUME NEW enc \in TrackedEncs, NEW cmd \in Commands, OneWay(cmd), NEW unset \in SUBSET Cell
  PROVE  EncodeCommand(enc, cmd, unset) \in TrackedEncs
<1>1. enc.ok \in BOOLEAN /\ cmd.type \in {"transfer", "compute", "render"}
  BY CommandSteps DEF TrackedEncs, Encs
<1>2. CASE ~enc.ok
  BY <1>2 DEF EncodeCommand
<1>3. CASE enc.ok /\ cmd.type = "transfer"
  <2>1. EncodeCommand(enc, cmd, unset) = Transferred(enc, cmd, unset)
    BY <1>3 DEF EncodeCommand
  <2>2. QED
    BY <1>3, <2>1, TransferredTracked
<1>4. CASE enc.ok /\ cmd.type = "compute"
  <2>1. EncodeCommand(enc, cmd, unset) = Computed(enc, cmd, unset)
    BY <1>4 DEF EncodeCommand
  <2>2. QED
    BY <1>4, <2>1, ComputedTracked
<1>5. CASE enc.ok /\ cmd.type = "render"
  <2>1. EncodeCommand(enc, cmd, unset) = Rendered(enc, cmd, unset)
    BY <1>5 DEF EncodeCommand
  <2>2. QED
    BY <1>5, <2>1, RenderedTracked
<1>6. QED
  BY <1>1, <1>2, <1>3, <1>4, <1>5

--------------------------------------------------------------------------------
(* Baking: what submit puts in front of a command buffer.                      *)

(* An encoder with nothing in it. *)
LEMMA FreshTracked ==
  /\ Fresh \in TrackedEncs /\ Fresh.drops = {} /\ Fresh.acts = <<>> /\ Fresh.ops = <<>>
  /\ Fresh.ok
<1>1. EmptyTracker \in Trackers
  BY DEF EmptyTracker, Trackers, Unused, State
<1>2. DEFINE z == <<>>
             e == EmptyTracker
             d == {}
             b == TRUE
<1>3. z \in Seq(RawOps) /\ z \in Seq(Acts) /\ d \in SUBSET Cell /\ b \in BOOLEAN /\ e \in Trackers
  BY <1>1
<1>4. Fresh = [tracker |-> e, ops |-> z, acts |-> z, drops |-> d, ok |-> b]
  BY DEF Fresh
<1>5. \A k \in Key : e.start[k] = {} /\ e.end[k] = {}
  BY DEF EmptyTracker, Unused
<1>6. \A g : Execute(g, z) = g
  BY RunEmpty
<1>7. Tracks(e, z)
  <2>1. HIDE DEF z, e
  <2>2. QED
    BY <1>5, <1>6 DEF Brings, Matched, Tracks
<1>8. /\ Fresh \in Encs /\ Fresh.tracker = e /\ Fresh.ops = z /\ Fresh.drops = d
      /\ Fresh.acts = z /\ Fresh.ok = b
  <2>1. HIDE DEF z, e, d, b
  <2>2. QED
    BY <1>3, <1>4 DEF Encs
<1>9. QED
  BY <1>7, <1>8 DEF TrackedEncs

(* A command buffer's tracker is right once its commands are encoded. *)
LEMMA EncodesTracked ==
  ASSUME NEW cmds \in Seq(Commands), \A i \in DOMAIN cmds : OneWay(cmds[i]),
         NEW unset \in SUBSET Cell
  PROVE  EncodeCommands(cmds, unset) \in TrackedEncs
<1>1. DEFINE n == Len(cmds)
             F == [op |-> "encode", cells |-> unset]
             b == Fresh
<1>2. n \in Nat /\ DOMAIN cmds = 1..n /\ \A i \in 1..n : cmds[i] \in Commands /\ OneWay(cmds[i])
  OBVIOUS
<1>3. EncodeCommands(cmds, unset) = EncodeAll(unset, b, cmds)
  BY Zenon DEF EncodeCommands, EncodeAll
<1>4. b \in TrackedEncs
  BY FreshTracked
<1>5. HIDE DEF n, b
<1>6. PICK h : Follow(F, b, cmds, n, h) /\ h[n] = EncodeAll(unset, b, cmds)
  BY <1>2, EncodeFolds
<1>7. \A a, x : Apply(F, a, x) = EncodeCommand(a, x, unset)
  BY DEF Apply
<1>8. HIDE DEF F
<1>9. \A i \in 1..n : \A a \in TrackedEncs : Apply(F, a, cmds[i]) \in TrackedEncs
  BY <1>2, <1>7, EncodeTracked
<1>10. h[n] \in TrackedEncs
  BY <1>2, <1>4, <1>6, <1>9, FollowStays
<1>11. QED
  BY <1>3, <1>6, <1>10

(* What is left to clear, and what is left uninitialized. *)
Resolutions == [clear : SUBSET Cell, uninit : SUBSET Cell]

(* What is resolved at a submit is sets of cells. *)
LEMMA ResolvedTypes ==
  ASSUME NEW acts \in Seq(Acts), NEW unset \in SUBSET Cell
  PROVE  Resolved(acts, unset) \in Resolutions
<1>1. DEFINE n == Len(acts)
             F == [op |-> "resolve"]
             b == [clear |-> {}, uninit |-> unset]
<1>2. n \in Nat /\ DOMAIN acts = 1..n /\ \A i \in 1..n : acts[i] \in Acts
  OBVIOUS
<1>3. Resolved(acts, unset) = ResolveAll(b, acts)
  BY Zenon DEF Resolved, ResolveAll
<1>4. b \in Resolutions
  BY DEF Resolutions
<1>5. HIDE DEF n, b
<1>6. PICK h : Follow(F, b, acts, n, h) /\ h[n] = ResolveAll(b, acts)
  BY <1>2, ResolveFolds
<1>7. \A a, x : Apply(F, a, x) = Drained(a, x)
  BY DEF Apply
<1>8. HIDE DEF F
<1>9. \A i \in 1..n : \A a \in Resolutions : Apply(F, a, acts[i]) \in Resolutions
  <2>1. \A a \in Resolutions : \A x \in Acts : Drained(a, x) \in Resolutions
    BY DEF Drained, Resolutions, Acts
  <2>2. QED
    BY <1>2, <1>7, <2>1
<1>10. h[n] \in Resolutions
  BY <1>2, <1>4, <1>6, <1>9, FollowStays
<1>11. QED
  BY <1>3, <1>6, <1>10

(* What a submit does for a command buffer before the buffer's own commands. *)
Prepared(enc, t, unset) ==
    TexturesCleared(BuffersInitialized([tracker |-> t, ops |-> <<>>], enc.acts,
                                       Resolved(enc.acts, unset).clear),
                    Resolved(enc.acts, unset).clear \ BufferCells)

BakedRight(g, r) ==
    /\ r.tracker \in Trackers /\ r.ops \in Seq(RawOps) /\ r.uninit \in SUBSET Cell
    /\ Knows(g, r.tracker, r.ops)

(* A baked command buffer: the clears, the barriers, its own commands. *)
LEMMA BakedIs ==
  ASSUME NEW enc, NEW t, NEW unset
  PROVE  /\ Baked(enc, t, unset).tracker =
               FromDevice(Prepared(enc, t, unset), enc.tracker).tracker
         /\ Baked(enc, t, unset).ops =
               FromDevice(Prepared(enc, t, unset), enc.tracker).ops \o enc.ops
         /\ Baked(enc, t, unset).uninit = StillUninit(enc, Resolved(enc.acts, unset).uninit)
<1>1. DEFINE p == FromDevice(Prepared(enc, t, unset), enc.tracker)
             u == StillUninit(enc, Resolved(enc.acts, unset).uninit)
             k == p.tracker
             o == p.ops \o enc.ops
             b == Baked(enc, t, unset)
<1>2. b = [tracker |-> k, ops |-> o, uninit |-> u]
  BY Zenon DEF Baked, Prepared
<1>3. HIDE DEF p, u, k, o, b
<1>4. b.tracker = k /\ b.ops = o /\ b.uninit = u
  BY <1>2
<1>5. QED
  BY <1>4 DEF p, u, k, o, b

(* The device's tracker is right after the clears, *)
LEMMA PreparedKnows ==
  ASSUME NEW g \in GpuStates, NEW t \in Trackers, Knows(g, t, <<>>), NEW acts \in Seq(Acts),
         NEW enc, enc.acts = acts, NEW unset \in SUBSET Cell
  PROVE  Prepared(enc, t, unset) \in KnowingOuts(g)
<1>1. DEFINE z == <<>>
             o == [tracker |-> t, ops |-> z]
             r == Resolved(acts, unset)
<1>2. r.clear \in SUBSET Cell
  BY ResolvedTypes DEF Resolutions
<1>3. z \in Seq(RawOps) /\ Knows(g, t, z)
  OBVIOUS
<1>4. o \in KnowingOuts(g)
  <2>1. HIDE DEF z
  <2>2. o \in Outs /\ o.tracker = t /\ o.ops = z
    BY <1>3 DEF Outs
  <2>3. QED
    BY <1>3, <2>2 DEF KnowingOuts
<1>5. Prepared(enc, t, unset) =
        TexturesCleared(BuffersInitialized(o, acts, r.clear), r.clear \ BufferCells)
  BY DEF Prepared
<1>6. HIDE DEF o, r
<1>7. BuffersInitialized(o, acts, r.clear) \in KnowingOuts(g)
  BY <1>2, <1>4, BuffersKnow
<1>8. r.clear \ BufferCells \in SUBSET Cell
  BY <1>2
<1>9. QED
  BY <1>5, <1>7, <1>8, TexturesKnow

(* ... and moves on with the barriers to the command buffer's start: *)
LEMMA FromDeviceIs ==
  ASSUME NEW out \in Outs, NEW t \in Trackers
  PROVE  /\ FromDevice(out, t).tracker = Advance(out.tracker, t.start, t.end)
         /\ FromDevice(out, t).ops = out.ops \o Barriers(out.tracker.end, t.start)
<1>1. DEFINE A == Advance(out.tracker, t.start, t.end)
             B == out.ops \o Barriers(out.tracker.end, t.start)
<1>2. FromDevice(out, t) = [out EXCEPT !.tracker = A, !.ops = B]
  BY DEF FromDevice
<1>3. HIDE DEF A, B
<1>4. FromDevice(out, t).tracker = A /\ FromDevice(out, t).ops = B
  BY <1>2 DEF Outs
<1>5. QED
  BY <1>4 DEF A, B

(* ... a baked command buffer is right for a GPU that is where the device      *)
(* says.                                                                       *)
LEMMA BakedTracks ==
  ASSUME NEW g \in GpuStates, NEW t \in Trackers, Knows(g, t, <<>>),
         NEW enc \in TrackedEncs, NEW unset \in SUBSET Cell
  PROVE  BakedRight(g, Baked(enc, t, unset))
<1>1. DEFINE p == Prepared(enc, t, unset)
             r == Baked(enc, t, unset)
             f == enc.tracker.start
             l == enc.tracker.end
<1>2. /\ enc.acts \in Seq(Acts) /\ enc.ops \in Seq(RawOps) /\ enc.drops \in SUBSET Cell
      /\ enc.tracker \in Trackers /\ f \in [Key -> State] /\ l \in [Key -> State]
      /\ Matched(f, l) /\ Brings(f, enc.ops, l)
  BY DEF TrackedEncs, Encs, Trackers, Tracks
<1>3. p \in KnowingOuts(g)
  <2>1. DEFINE acts == enc.acts
  <2>2. acts \in Seq(Acts) /\ enc.acts = acts
    BY <1>2
  <2>3. HIDE DEF acts
  <2>4. QED
    BY <2>2, PreparedKnows
<1>4. p \in Outs /\ Knows(g, p.tracker, p.ops)
  BY <1>3 DEF KnowingOuts
<1>5. /\ p.tracker \in Trackers /\ p.ops \in Seq(RawOps)
      /\ p.tracker.end \in [Key -> State]
  BY <1>4 DEF Outs, Trackers
<1>6. /\ r.tracker = Advance(p.tracker, f, l)
      /\ r.ops = (p.ops \o Barriers(p.tracker.end, f)) \o enc.ops
      /\ r.uninit = StillUninit(enc, Resolved(enc.acts, unset).uninit)
  <2>1. /\ r.tracker = FromDevice(p, enc.tracker).tracker
        /\ r.ops = FromDevice(p, enc.tracker).ops \o enc.ops
        /\ r.uninit = StillUninit(enc, Resolved(enc.acts, unset).uninit)
    BY BakedIs
  <2>2. /\ FromDevice(p, enc.tracker).tracker = Advance(p.tracker, f, l)
        /\ FromDevice(p, enc.tracker).ops = p.ops \o Barriers(p.tracker.end, f)
    <3>1. enc.tracker \in Trackers
      BY <1>2
    <3>2. HIDE DEF p
    <3>3. QED
      BY <3>1, <1>4, FromDeviceIs
  <2>3. HIDE DEF p, r, f, l
  <2>4. QED
    BY <2>1, <2>2
<1>7. HIDE DEF p, r, f, l
<1>8. r.tracker \in Trackers
  BY <1>2, <1>5, <1>6, AdvanceTypes
<1>9. Barriers(p.tracker.end, f) \in Seq(RawOps)
  BY <1>2, <1>5, BarrierTypes
<1>10. r.ops \in Seq(RawOps)
  BY <1>2, <1>5, <1>6, <1>9
<1>11. r.uninit \in SUBSET Cell
  <2>1. Resolved(enc.acts, unset).uninit \in SUBSET Cell
    BY <1>2, ResolvedTypes DEF Resolutions
  <2>2. QED
    BY <2>1, <1>2, <1>6 DEF StillUninit
<1>12. Knows(g, r.tracker, r.ops)
  <2>1. DEFINE s == p.tracker
               done == p.ops
               ops == enc.ops
  <2>2. /\ s \in Trackers /\ done \in Seq(RawOps) /\ Knows(g, s, done) /\ ops \in Seq(RawOps)
        /\ Brings(f, ops, l)
    BY <1>2, <1>4, <1>5
  <2>3. r.tracker = Advance(s, f, l) /\ r.ops = (done \o Barriers(s.end, f)) \o ops
    BY <1>6
  <2>4. HIDE DEF s, done, ops
  <2>5. Knows(g, Advance(s, f, l), (done \o Barriers(s.end, f)) \o ops)
    BY <1>2, <2>2, KnowsOn
  <2>6. QED
    BY <2>3, <2>5
<1>13. BakedRight(g, r)
  BY <1>8, <1>10, <1>11, <1>12 DEF BakedRight
<1>14. QED
  BY <1>13 DEF r

--------------------------------------------------------------------------------
(* What the GPU has read does not matter to what it does next.                 *)

(* What a submission reads is forgotten before the next: it changes nothing else. *)
Alike(a, b) ==
    /\ a \in GpuStates /\ b \in GpuStates
    /\ a.state = b.state /\ a.touched = b.touched /\ a.mem = b.mem /\ a.wrong = b.wrong

(* GPUs alike but for what was read stay alike, *)
LEMMA RanAlike ==
  ASSUME NEW a, NEW b, Alike(a, b), NEW o \in RawOps
  PROVE  Alike(Ran(a, o), Ran(b, o))
<1>1. /\ a \in GpuStates /\ b \in GpuStates
      /\ a.state = b.state /\ a.touched = b.touched /\ a.mem = b.mem /\ a.wrong = b.wrong
  BY DEF Alike
<1>2. o \in BarrierOps \/ o \in WorkOps
  BY DEF RawOps
<1>3. CASE o \in BarrierOps
  <2>1. /\ Ran(a, o) \in GpuStates
        /\ Ran(a, o).wrong = (a.wrong \/ a.state[o.key] # o.from)
        /\ Ran(a, o).state = [a.state EXCEPT ![o.key] = o.to]
        /\ Ran(a, o).touched = a.touched \ {o.key}
        /\ Ran(a, o).mem = a.mem
    BY <1>1, <1>3, RanBarrier
  <2>2. /\ Ran(b, o) \in GpuStates
        /\ Ran(b, o).wrong = (b.wrong \/ b.state[o.key] # o.from)
        /\ Ran(b, o).state = [b.state EXCEPT ![o.key] = o.to]
        /\ Ran(b, o).touched = b.touched \ {o.key}
        /\ Ran(b, o).mem = b.mem
    BY <1>1, <1>3, RanBarrier
  <2>3. QED
    BY <1>1, <2>1, <2>2 DEF Alike
<1>4. CASE o \in WorkOps
  <2>1. Misused(a, o.use) = Misused(b, o.use)
    BY <1>1 DEF Misused
  <2>2. /\ Ran(a, o) \in GpuStates
        /\ Ran(a, o).wrong = (a.wrong \/ Misused(a, o.use))
        /\ Ran(a, o).state = a.state
        /\ Ran(a, o).touched = a.touched \cup {k \in Key : o.use[k] # {}}
        /\ Ran(a, o).mem = [c \in Cell |->
                                IF c \in o.drops THEN "garbage"
                                ELSE IF c \in o.writes THEN o.value
                                ELSE IF c \in o.partial /\ a.mem[c] # "garbage" THEN o.value
                                ELSE a.mem[c]]
    BY <1>1, <1>4, RanWork
  <2>3. /\ Ran(b, o) \in GpuStates
        /\ Ran(b, o).wrong = (b.wrong \/ Misused(b, o.use))
        /\ Ran(b, o).state = b.state
        /\ Ran(b, o).touched = b.touched \cup {k \in Key : o.use[k] # {}}
        /\ Ran(b, o).mem = [c \in Cell |->
                                IF c \in o.drops THEN "garbage"
                                ELSE IF c \in o.writes THEN o.value
                                ELSE IF c \in o.partial /\ b.mem[c] # "garbage" THEN o.value
                                ELSE b.mem[c]]
    BY <1>1, <1>4, RanWork
  <2>4. Ran(a, o).mem = Ran(b, o).mem
    BY <1>1, <2>2, <2>3
  <2>5. Ran(a, o).wrong = Ran(b, o).wrong
    BY <1>1, <2>1, <2>2, <2>3
  <2>6. QED
    BY <1>1, <2>2, <2>3, <2>4, <2>5 DEF Alike
<1>5. QED
  BY <1>2, <1>3, <1>4

(* ... whatever runs; *)
LEMMA RunAlike ==
  ASSUME NEW a, NEW b, Alike(a, b), NEW ops \in Seq(RawOps)
  PROVE  Alike(Execute(a, ops), Execute(b, ops))
<1>1. DEFINE n == Len(ops)
<1>2. n \in Nat /\ DOMAIN ops = 1..n /\ \A i \in 1..n : ops[i] \in RawOps
  OBVIOUS
<1>3. PICK h : Follow(Run, a, ops, n, h) /\ h[n] = Execute(a, ops)
  BY <1>2, RunFolds
<1>4. PICK k : Follow(Run, b, ops, n, k) /\ k[n] = Execute(b, ops)
  BY <1>2, RunFolds
<1>5. HIDE DEF n
<1>6. DEFINE P == [i \in 0..n |-> {x \in GpuStates : Alike(x, k[i])}]
<1>7. a \in P[0]
  BY <1>2, <1>4 DEF Alike, Follow
<1>8. \A x, o : Apply(Run, x, o) = Ran(x, o)
  BY DEF Apply, Run
<1>9. \A i \in 1..n : \A x \in P[i - 1] : Apply(Run, x, ops[i]) \in P[i]
  <2>1. ASSUME NEW i \in 1..n, NEW x \in P[i - 1] PROVE Apply(Run, x, ops[i]) \in P[i]
    <3>1. i \in 0..n /\ i - 1 \in 0..n
      BY <1>2
    <3>2. Alike(x, k[i - 1])
      BY <3>1
    <3>3. k[i] = Ran(k[i - 1], ops[i])
      BY <1>4, <1>8 DEF Follow
    <3>4. Alike(Ran(x, ops[i]), k[i])
      BY <1>2, <3>2, <3>3, RanAlike
    <3>5. Ran(x, ops[i]) \in GpuStates
      BY <3>4 DEF Alike
    <3>6. QED
      BY <1>8, <3>1, <3>4, <3>5
  <2>2. QED
    BY <2>1
<1>10. P[n] = {x \in GpuStates : Alike(x, k[n])}
  BY <1>2
<1>11. h[n] \in P[n]
  <2>1. HIDE DEF P
  <2>2. \A i \in 0..n : h[i] \in P[i]
    BY <1>2, <1>3, <1>7, <1>9, FollowHolds
  <2>3. QED
    BY <1>2, <2>2
<1>12. QED
  BY <1>3, <1>4, <1>10, <1>11

(* ... so what was read can be forgotten. *)
LEMMA RunUnseen ==
  ASSUME NEW g \in GpuStates, NEW ops \in Seq(RawOps)
  PROVE  Alike(Execute([g EXCEPT !.seen = {}], ops), Execute(g, ops))
<1>1. DEFINE x == [g EXCEPT !.seen = {}]
<1>2. Alike(x, g)
  BY DEF Alike, GpuStates
<1>3. HIDE DEF x
<1>4. Alike(Execute(x, ops), Execute(g, ops))
  BY <1>2, RunAlike
<1>5. QED
  BY <1>4 DEF x

(* A write of the queue. *)
LEMMA MovedIs ==
  ASSUME NEW out \in Outs, NEW w \in WorkOps
  PROVE  /\ Moved(out, w.use).tracker = Performed(out, w).tracker
         /\ Append(Moved(out, w.use).ops, w) = Performed(out, w).ops
<1>1. DEFINE A == Advance(out.tracker, w.use, w.use)
             B == out.ops \o Barriers(out.tracker.end, w.use)
<1>2. Moved(out, w.use) = [out EXCEPT !.tracker = A, !.ops = B]
  BY DEF Moved
<1>3. B \in Seq(RawOps)
  <2>1. w.use \in [Key -> State]
    BY PerformedTypes
  <2>2. out.ops \in Seq(RawOps) /\ out.tracker.end \in [Key -> State]
    BY OutFields
  <2>3. Barriers(out.tracker.end, w.use) \in Seq(RawOps)
    BY <2>1, <2>2, BarrierTypes
  <2>4. QED
    BY <2>2, <2>3
<1>4. Performed(out, w).tracker = A /\ Performed(out, w).ops = B \o <<w>>
  BY PerformedOut
<1>5. HIDE DEF A, B
<1>6. Moved(out, w.use).tracker = A /\ Moved(out, w.use).ops = B
  BY <1>2 DEF Outs
<1>7. Append(B, w) = B \o <<w>>
  <2>1. w \in RawOps
    BY DEF RawOps
  <2>2. QED
    BY <1>3, <2>1
<1>8. QED
  BY <1>4, <1>6, <1>7

--------------------------------------------------------------------------------
(* The inductive invariant Kept: the device's tracker is where the GPU will be. *)

(* A compute pass does not use a subresource of a texture in two ways: what the    *)
(* tracker makes of that is among the known gaps.                                  *)
SplitFree == \A s \in Script : \A i \in DOMAIN s : OneWay(s[i])
(* No command buffer is carried twice by a submit. *)
Distinct == \A b \in Batch : \A i \in DOMAIN b : \A j \in DOMAIN b : b[i] = b[j] => i = j
(* The paths left out are the ones the runs with a counterexample are about. *)
Scoped == ~FailAfterBake /\ ~RejectedWrites /\ ~ConcurrentWrites /\ SplitFree /\ Distinct

Stages == {"recording", "ready", "invalid", "spent"}
Batches == [open : BOOLEAN, todo : Seq(Encoder), taken : Seq(Encoder \X Stages),
            baked : Seq(RawOps), failed : BOOLEAN]

Typed ==
    /\ stage \in [Encoder -> Stages]
    /\ commands \in [Encoder -> Script \cup {<<>>}]
    /\ encoded \in [Encoder -> TrackedEncs]
    /\ device \in Trackers
    /\ uninit \in SUBSET Cell
    /\ pending \in Seq(RawOps)
    /\ writes \in 0..MaxWrites
    /\ batch \in Batches
    /\ gpu \in GpuStates

(* A submit fails at its first command buffer or not at all. *)
InOrder ==
    /\ ~batch.open => batch = NoBatch
    /\ batch.taken = <<>> => batch.baked = <<>>
    /\ batch.failed => batch.baked = <<>>
    /\ \A i \in DOMAIN batch.todo : \A j \in DOMAIN batch.todo :
          batch.todo[i] = batch.todo[j] => i = j
    /\ \A i \in DOMAIN batch.todo : stage[batch.todo[i]] # "recording"
    /\ batch.open /\ ~batch.failed =>
          \/ \A i \in DOMAIN batch.todo : stage[batch.todo[i]] = "ready"
          \/ batch.taken = <<>> /\ batch.todo # <<>> /\ stage[Head(batch.todo)] # "ready"

Known == ~gpu.wrong /\ Knows(gpu, device, pending \o batch.baked)

Kept == Typed /\ InOrder /\ Known

(* At the start the device knows the GPU's state. *)
LEMMA KeptInit == Init => Kept
<1>1. SUFFICES ASSUME Init PROVE Kept
  OBVIOUS
<1>2. DEFINE d == [start |-> Unused, end |-> [k \in Key |-> Uninitialized]]
             g == [state |-> [k \in Key |-> Uninitialized], touched |-> {},
                   mem |-> [c \in Cell |-> "garbage"], seen |-> {}, wrong |-> FALSE]
             z == <<>>
<1>3. device = d /\ gpu = g /\ pending = z /\ batch = NoBatch /\ uninit = Cell
  BY <1>1 DEF Init
<1>4. d \in Trackers /\ d.end \in [Key -> State \ {{}}]
  BY DEF Trackers, Unused, State, Uninitialized
<1>5. g \in GpuStates
  BY DEF GpuStates, Contents, State, Uninitialized
<1>6. ~g.wrong /\ \A k \in Key : g.state[k] = d.end[k]
  OBVIOUS
<1>7. NoBatch \in Batches /\ NoBatch.todo = z /\ NoBatch.taken = z /\ NoBatch.baked = z
      /\ NoBatch.open = FALSE /\ NoBatch.failed = FALSE
  BY DEF NoBatch, Batches
<1>8. z \o z = z /\ z \in Seq(RawOps)
  OBVIOUS
<1>9. Execute(g, z) = g
  BY RunEmpty
<1>10. stage \in [Encoder -> Stages] /\ commands \in [Encoder -> Script \cup {<<>>}]
       /\ writes \in 0..MaxWrites
  BY <1>1, StreamAssumption DEF Init, Stages
<1>11. encoded \in [Encoder -> TrackedEncs]
  BY <1>1, FreshTracked DEF Init
<1>12. InOrder
  BY <1>3, <1>7 DEF InOrder
<1>13. HIDE DEF d, g, z
<1>14. Known
  BY <1>3, <1>4, <1>6, <1>7, <1>8, <1>9 DEF Known, Knows
<1>15. Typed
  BY <1>3, <1>4, <1>5, <1>7, <1>8, <1>10, <1>11 DEF Typed
<1>16. QED
  BY <1>12, <1>14, <1>15 DEF Kept

(* finish, which only encodes. *)
LEMMA FinishKeeps ==
  ASSUME Scoped, Kept, NEW e \in Encoder, NEW cmds \in Script, Finish(e, cmds)
  PROVE  Kept'
<1>1. DEFINE enc == EncodeCommands(cmds, uninit)
<1>2. /\ stage[e] = "recording"
      /\ stage' = [stage EXCEPT ![e] = IF enc.ok THEN "ready" ELSE "invalid"]
      /\ encoded' = [encoded EXCEPT ![e] = IF enc.ok THEN enc ELSE Fresh]
      /\ commands' = [commands EXCEPT ![e] = IF enc.ok THEN cmds ELSE <<>>]
      /\ UNCHANGED <<device, uninit, pending, writes, batch, gpu>>
  BY DEF Finish
<1>3. /\ Typed /\ InOrder /\ Known
  BY DEF Kept
<1>4. enc \in TrackedEncs
  <2>1. cmds \in Seq(Commands) /\ \A i \in DOMAIN cmds : OneWay(cmds[i])
    BY StreamAssumption DEF Scoped, SplitFree
  <2>2. QED
    BY <2>1, <1>3, EncodesTracked DEF Typed
<1>5. HIDE DEF enc
<1>6. encoded' \in [Encoder -> TrackedEncs]
  BY <1>2, <1>3, <1>4, FreshTracked DEF Typed
<1>7. stage' \in [Encoder -> Stages] /\ commands' \in [Encoder -> Script \cup {<<>>}]
  BY <1>2, <1>3 DEF Typed, Stages
<1>8. Typed'
  BY <1>2, <1>3, <1>6, <1>7 DEF Typed
<1>9. \A i \in DOMAIN batch.todo : stage'[batch.todo[i]] = stage[batch.todo[i]]
  BY <1>2, <1>3 DEF InOrder, Typed
<1>10. batch \in Batches /\ batch' = batch
  BY <1>2, <1>3 DEF Typed
<1>11. batch.todo # <<>> => 1 \in DOMAIN batch.todo /\ Head(batch.todo) = batch.todo[1]
  BY <1>10 DEF Batches
<1>12. InOrder'
  BY <1>3, <1>9, <1>10, <1>11 DEF InOrder
<1>13. Known'
  BY <1>2, <1>3 DEF Known
<1>14. QED
  BY <1>8, <1>12, <1>13 DEF Kept

(* A write: nothing is baked while the queue may be written to. *)
Written(w) ==
    TexturesCleared([tracker |-> device, ops |-> pending],
                    IF w.whole THEN {} ELSE w.cells \cap uninit)
Copied(w) ==
    Work(Only({w.key}, {"COPY_DST"}), {}, IF w.whole THEN w.cells ELSE {},
         IF w.whole THEN {} ELSE w.cells, {}, "queued")

(* The work of a write. *)
LEMMA WriteTypes ==
  ASSUME Kept, NEW w \in Write
  PROVE  /\ w.cells \in SUBSET Cell /\ Copied(w) \in WorkOps
         /\ Copied(w).use = Only({w.key}, {"COPY_DST"})
         /\ Copied(w).writes = (IF w.whole THEN w.cells ELSE {})
         /\ Copied(w).partial = (IF w.whole THEN {} ELSE w.cells)
         /\ Copied(w).drops = {} /\ Copied(w).value = "queued"
<1>1. w.key \in Key /\ w.cells \in SUBSET Cell /\ w.whole \in BOOLEAN
  BY StreamAssumption
<1>2. DEFINE u == Only({w.key}, {"COPY_DST"})
             a == IF w.whole THEN w.cells ELSE {}
             b == IF w.whole THEN {} ELSE w.cells
             z == {}
             v == "queued"
<1>3. u \in [Key -> State]
  BY <1>1, OnlyTypes, ClearAssumption
<1>4. a \in SUBSET Cell /\ b \in SUBSET Cell /\ z \in SUBSET Cell /\ v \in Contents
  BY <1>1 DEF Contents
<1>5. Copied(w) = Work(u, z, a, b, z, v)
  BY DEF Copied
<1>6. HIDE DEF u, a, b, z, v
<1>7. /\ Copied(w) \in WorkOps /\ Copied(w).use = u /\ Copied(w).writes = a
      /\ Copied(w).partial = b /\ Copied(w).drops = z /\ Copied(w).value = v
  BY <1>3, <1>4, <1>5, UseTypes
<1>8. QED
  BY <1>1, <1>7 DEF u, a, b, z, v

(* A write performs its clears and its copy, on the device's tracker. *)
LEMMA WriteIs ==
  ASSUME Kept, NEW w \in Write, QueueWrite(w), Scoped
  PROVE  /\ Written(w) \in KnowingOuts(gpu)
         /\ device' = Performed(Written(w), Copied(w)).tracker
         /\ pending' = Performed(Written(w), Copied(w)).ops
         /\ Performed(Written(w), Copied(w)) \in KnowingOuts(gpu)
         /\ batch.baked = <<>> /\ writes' \in 0..MaxWrites
<1>1. /\ Typed /\ InOrder /\ Known /\ ~ConcurrentWrites
  BY DEF Kept, Scoped
<1>2. /\ w.cells \in SUBSET Cell /\ Copied(w) \in WorkOps
      /\ Copied(w).use = Only({w.key}, {"COPY_DST"})
  BY WriteTypes
<1>3. batch.taken = <<>> /\ writes < MaxWrites /\ writes' = writes + 1
  BY <1>1 DEF QueueWrite
<1>4. batch.baked = <<>> /\ pending \o batch.baked = pending
  BY <1>1, <1>3 DEF InOrder, Typed
<1>5. DEFINE o == [tracker |-> device, ops |-> pending]
             c == IF w.whole THEN {} ELSE w.cells \cap uninit
             t == Written(w)
             k == Copied(w)
             u == Only({w.key}, {"COPY_DST"})
<1>6. o \in KnowingOuts(gpu) /\ gpu \in GpuStates
  BY <1>1, <1>4 DEF KnowingOuts, Outs, Typed, Known
<1>7. c \in SUBSET Cell
  BY <1>2
<1>8. t = TexturesCleared(o, c)
  BY DEF Written
<1>9. device' = Moved(TexturesCleared(o, c), u).tracker
      /\ pending' = Append(Moved(TexturesCleared(o, c), u).ops, k)
  BY Zenon DEF QueueWrite, Copied
<1>10. k \in WorkOps /\ k.use = u
  BY <1>2
<1>11. writes' \in 0..MaxWrites
  BY <1>1, <1>3, StreamAssumption DEF Typed
<1>12. HIDE DEF o, c, t, k, u
<1>13. t \in KnowingOuts(gpu)
  BY <1>6, <1>7, <1>8, TexturesKnow
<1>14. t \in Outs /\ Knows(gpu, t.tracker, t.ops)
  BY <1>13 DEF KnowingOuts
<1>15. Performed(t, k) \in Outs
  BY <1>10, <1>14, PerformedOut
<1>16. Knows(gpu, Performed(t, k).tracker, Performed(t, k).ops)
  BY <1>6, <1>10, <1>14, PerformedKnows
<1>17. device' = Performed(t, k).tracker /\ pending' = Performed(t, k).ops
  BY <1>8, <1>9, <1>10, <1>14, MovedIs
<1>18. Performed(t, k) \in KnowingOuts(gpu)
  BY <1>15, <1>16 DEF KnowingOuts
<1>19. QED
  BY <1>4, <1>11, <1>13, <1>17, <1>18 DEF t, k

(* Queue::write_buffer and write_texture. *)
LEMMA WriteKeeps ==
  ASSUME Scoped, Kept, NEW w \in Write, QueueWrite(w)
  PROVE  Kept'
<1>1. /\ Typed /\ InOrder /\ Known
  BY DEF Kept
<1>2. DEFINE r == Performed(Written(w), Copied(w))
<1>3. /\ device' = r.tracker /\ pending' = r.ops /\ r \in KnowingOuts(gpu)
      /\ batch.baked = <<>> /\ writes' \in 0..MaxWrites
  BY WriteIs
<1>4. /\ uninit' = uninit \ w.cells
      /\ UNCHANGED <<stage, commands, encoded, batch, gpu>>
  BY Zenon DEF QueueWrite
<1>5. HIDE DEF r
<1>6. /\ r.tracker \in Trackers /\ r.ops \in Seq(RawOps) /\ Knows(gpu, r.tracker, r.ops)
  BY <1>3 DEF KnowingOuts, Outs
<1>7. pending' \o batch'.baked = r.ops
  <2>1. r.ops \o <<>> = r.ops
    BY <1>6
  <2>2. pending' = r.ops /\ batch'.baked = <<>>
    BY <1>3, <1>4
  <2>3. QED
    BY <2>1, <2>2
<1>8. Known'
  BY <1>1, <1>3, <1>4, <1>6, <1>7 DEF Known
<1>9. Typed'
  BY <1>1, <1>3, <1>4, <1>6 DEF Typed
<1>10. InOrder'
  BY <1>1, <1>4 DEF InOrder
<1>11. QED
  BY <1>8, <1>9, <1>10 DEF Kept

(* A write that is rejected: the state it set is the one the buffer was in. *)
LEMMA RejectedKeeps ==
  ASSUME Scoped, Kept, NEW k \in BufferKey, QueueWriteRejected(k)
  PROVE  Kept'
<1>1. /\ Typed /\ InOrder /\ Known /\ ~RejectedWrites
  BY DEF Kept, Scoped
<1>2. DEFINE u == Only({k}, {"COPY_DST"})
<1>3. /\ device.end[k] = {"COPY_DST"} /\ device' = Advance(device, u, u)
      /\ UNCHANGED <<stage, commands, encoded, uninit, pending, writes, batch, gpu>>
  BY <1>1 DEF QueueWriteRejected
<1>4. device \in Trackers /\ \A l \in Key : device.end[l] # {}
  BY <1>1 DEF Typed, Known, Knows
<1>5. \A l \in Key : u[l] = IF l = k THEN {"COPY_DST"} ELSE {}
  BY DEF Only
<1>6. HIDE DEF u
<1>7. DEFINE s == [l \in Key |-> IF device.end[l] # {} THEN device.start[l]
                                ELSE IF Owns(device, ResourceOf[l]) THEN u[l] ELSE u[l]]
             e == Updated(device.end, u)
<1>8. s = device.start
  BY <1>4 DEF Trackers
<1>9. e = device.end
  BY <1>3, <1>4, <1>5 DEF Updated, Trackers
<1>10. device' = [start |-> s, end |-> e]
  BY <1>3 DEF Advance
<1>11. HIDE DEF s, e
<1>12. device' = device
  BY <1>4, <1>8, <1>9, <1>10 DEF Trackers
<1>13. Typed' /\ InOrder' /\ Known'
  BY <1>1, <1>3, <1>12 DEF Typed, InOrder, Known
<1>14. QED
  BY <1>13 DEF Kept

(* The submit's steps. *)
LEMMA StartKeeps ==
  ASSUME Scoped, Kept, NEW b \in Batch, SubmitStart(b)
  PROVE  Kept'
<1>1. /\ Typed /\ InOrder /\ Known /\ ~FailAfterBake /\ Distinct
  BY DEF Kept, Scoped
<1>2. /\ ~batch.open /\ batch = NoBatch
      /\ \A i \in DOMAIN b : stage[b[i]] # "recording"
      /\ stage[b[1]] # "ready" \/ \A i \in DOMAIN b : stage[b[i]] = "ready"
      /\ batch' = [NoBatch EXCEPT !.open = TRUE, !.todo = b]
      /\ UNCHANGED <<stage, commands, encoded, device, uninit, pending, writes, gpu>>
  BY <1>1 DEF SubmitStart, InOrder
<1>3. b \in Seq(Encoder) /\ b # <<>>
  BY StreamAssumption
<1>4. DEFINE z == <<>>
             n == NoBatch
<1>5. /\ n.open = FALSE /\ n.todo = z /\ n.taken = z /\ n.baked = z /\ n.failed = FALSE
      /\ n \in Batches
  BY DEF NoBatch, Batches
<1>6. /\ batch'.open = TRUE /\ batch'.todo = b /\ batch'.taken = z /\ batch'.baked = z
      /\ batch'.failed = FALSE /\ batch' \in Batches
  <2>1. HIDE DEF z, n
  <2>2. batch' = [n EXCEPT !.open = TRUE, !.todo = b]
    BY <1>2 DEF n
  <2>3. QED
    BY <1>3, <1>5, <2>2 DEF Batches
<1>7. Typed'
  BY <1>1, <1>2, <1>6 DEF Typed
<1>8. pending' \o batch'.baked = pending \o batch.baked
  BY <1>2, <1>5, <1>6
<1>9. Known'
  BY <1>1, <1>2, <1>8 DEF Known
<1>10. Head(b) = b[1]
  BY <1>3
<1>11. \A i \in DOMAIN b : \A j \in DOMAIN b : b[i] = b[j] => i = j
  BY <1>1 DEF Distinct
<1>12. InOrder'
  BY <1>2, <1>3, <1>6, <1>10, <1>11 DEF InOrder
<1>13. QED
  BY <1>7, <1>9, <1>12 DEF Kept

(* What taking a command buffer does, whatever comes of it. *)
LEMMA Takes ==
  ASSUME Kept, NEW e \in Encoder, Take(e)
  PROVE  /\ batch.todo # <<>> /\ e = Head(batch.todo) /\ batch.todo \in Seq(Encoder)
         /\ Tail(batch.todo) \in Seq(Encoder)
         /\ Append(batch.taken, <<e, stage[e]>>) \in Seq(Encoder \X Stages)
         /\ Append(batch.taken, <<e, stage[e]>>) # <<>>
         /\ stage' \in [Encoder -> Stages] /\ encoded' \in [Encoder -> TrackedEncs]
         /\ batch.open
         /\ \A i \in DOMAIN Tail(batch.todo) : \A j \in DOMAIN Tail(batch.todo) :
               Tail(batch.todo)[i] = Tail(batch.todo)[j] => i = j
         /\ \A i \in DOMAIN Tail(batch.todo) :
               /\ i + 1 \in DOMAIN batch.todo
               /\ Tail(batch.todo)[i] = batch.todo[i + 1]
               /\ stage'[Tail(batch.todo)[i]] = stage[Tail(batch.todo)[i]]
         /\ 1 \in DOMAIN batch.todo /\ batch.todo[1] = e
         /\ UNCHANGED <<commands, pending, writes, gpu>>
<1>1. /\ Typed /\ InOrder
  BY DEF Kept
<1>2. /\ batch.todo # <<>> /\ e = Head(batch.todo)
      /\ stage' = [stage EXCEPT ![e] = "spent"]
      /\ encoded' = [encoded EXCEPT ![e] = Fresh]
      /\ UNCHANGED <<commands, pending, writes, gpu>>
  BY DEF Take
<1>3. /\ batch.todo \in Seq(Encoder) /\ batch.taken \in Seq(Encoder \X Stages)
      /\ stage \in [Encoder -> Stages] /\ encoded \in [Encoder -> TrackedEncs]
  BY <1>1 DEF Typed, Batches
<1>4. DEFINE q == batch.todo
             t == Tail(q)
<1>5. /\ q \in Seq(Encoder) /\ q # <<>> /\ 1 \in DOMAIN q /\ q[1] = e
      /\ t \in Seq(Encoder)
      /\ \A i \in DOMAIN t : i + 1 \in DOMAIN q /\ t[i] = q[i + 1] /\ i \in Nat /\ i # 0
  <2>1. q \in Seq(Encoder) /\ q # <<>> /\ e = Head(q)
    BY <1>2, <1>3
  <2>2. HIDE DEF q
  <2>3. QED
    BY <2>1
<1>6. \A i \in DOMAIN q : \A j \in DOMAIN q : q[i] = q[j] => i = j
  BY <1>1 DEF InOrder
<1>7. \A i \in DOMAIN t : \A j \in DOMAIN t : t[i] = t[j] => i = j
  <2>1. HIDE DEF q, t
  <2>2. \A i \in DOMAIN t : \A j \in DOMAIN t : t[i] = t[j] => i + 1 = j + 1
    BY <1>5, <1>6
  <2>3. QED
    BY <1>5, <2>2
<1>8. \A i \in DOMAIN t : t[i] # e /\ t[i] \in Encoder
  <2>1. HIDE DEF q, t
  <2>2. \A i \in DOMAIN t : t[i] # q[1]
    BY <1>5, <1>6
  <2>3. QED
    BY <1>5, <2>2
<1>9. \A i \in DOMAIN t : stage'[t[i]] = stage[t[i]]
  <2>1. HIDE DEF t
  <2>2. QED
    BY <1>2, <1>3, <1>8
<1>10. batch.open
  <2>1. NoBatch.todo = <<>>
    BY DEF NoBatch
  <2>2. QED
    BY <1>1, <1>2, <2>1 DEF InOrder, Typed, Batches
<1>11. Append(batch.taken, <<e, stage[e]>>) \in Seq(Encoder \X Stages)
       /\ Append(batch.taken, <<e, stage[e]>>) # <<>>
  <2>1. <<e, stage[e]>> \in Encoder \X Stages
    BY <1>3
  <2>2. QED
    BY <1>3, <2>1
<1>12. stage' \in [Encoder -> Stages] /\ encoded' \in [Encoder -> TrackedEncs]
  BY <1>2, <1>3, FreshTracked DEF Stages
<1>13. HIDE DEF q, t
<1>14. /\ q # <<>> /\ e = Head(q) /\ q \in Seq(Encoder) /\ t \in Seq(Encoder)
       /\ \A i \in DOMAIN t : \A j \in DOMAIN t : t[i] = t[j] => i = j
       /\ \A i \in DOMAIN t : /\ i + 1 \in DOMAIN q /\ t[i] = q[i + 1]
                              /\ stage'[t[i]] = stage[t[i]]
       /\ 1 \in DOMAIN q /\ q[1] = e
  <2>1. q # <<>> /\ e = Head(q)
    BY <1>2 DEF q
  <2>2. QED
    BY <1>5, <1>7, <1>9, <2>1
<1>15. QED
  BY <1>2, <1>10, <1>11, <1>12, <1>14 DEF q, t

(* Queue::submit bakes a command buffer: all its barriers are right. *)
LEMMA BakeKeeps ==
  ASSUME Scoped, Kept, NEW e \in Encoder, SubmitBake(e)
  PROVE  Kept'
<1>1. /\ Typed /\ InOrder /\ Known
  BY DEF Kept
<1>2. DEFINE out == Baked(encoded[e], device, uninit)
             t == Tail(batch.todo)
             k == Append(batch.taken, <<e, stage[e]>>)
<1>3. /\ Take(e) /\ stage[e] = "ready" /\ ~batch.failed
      /\ device' = out.tracker /\ uninit' = out.uninit
      /\ batch' = [batch EXCEPT !.todo = t, !.taken = k, !.baked = @ \o out.ops]
  BY Zenon DEF SubmitBake
<1>4. /\ t \in Seq(Encoder) /\ k \in Seq(Encoder \X Stages) /\ k # <<>>
      /\ stage' \in [Encoder -> Stages] /\ encoded' \in [Encoder -> TrackedEncs]
      /\ batch.open
      /\ \A i \in DOMAIN t : \A j \in DOMAIN t : t[i] = t[j] => i = j
      /\ \A i \in DOMAIN t : /\ i + 1 \in DOMAIN batch.todo /\ t[i] = batch.todo[i + 1]
                             /\ stage'[t[i]] = stage[t[i]]
      /\ e = Head(batch.todo)
      /\ UNCHANGED <<commands, pending, writes, gpu>>
  BY <1>3, Takes
<1>5. DEFINE g == Execute(gpu, pending \o batch.baked)
             b == batch.baked
<1>6. /\ gpu \in GpuStates /\ pending \in Seq(RawOps) /\ b \in Seq(RawOps)
      /\ encoded[e] \in TrackedEncs /\ device \in Trackers /\ uninit \in SUBSET Cell
  BY <1>1 DEF Typed, Batches
<1>7. pending \o b \in Seq(RawOps)
  BY <1>6
<1>8. g \in GpuStates
  BY <1>6, <1>7, RunTypes
<1>9. Knows(g, device, <<>>)
  <2>1. Execute(g, <<>>) = g
    BY RunEmpty
  <2>2. QED
    BY <1>1, <2>1 DEF Known, Knows
<1>10. HIDE DEF g, out, t, k, b
<1>11. BakedRight(g, out)
  <2>1. DEFINE enc == encoded[e]
  <2>2. enc \in TrackedEncs /\ out = Baked(enc, device, uninit)
    BY <1>6 DEF out
  <2>3. HIDE DEF enc
  <2>4. QED
    BY <1>6, <1>8, <1>9, <2>2, BakedTracks
<1>12. /\ out.tracker \in Trackers /\ out.ops \in Seq(RawOps) /\ out.uninit \in SUBSET Cell
       /\ Knows(g, out.tracker, out.ops)
  BY <1>11 DEF BakedRight
<1>13. /\ batch'.open = batch.open /\ batch'.todo = t /\ batch'.taken = k
       /\ batch'.baked = b \o out.ops /\ batch'.failed = batch.failed /\ batch' \in Batches
  <2>1. batch \in Batches /\ batch.baked = b
    BY <1>1 DEF Typed, b
  <2>2. DEFINE o == b \o out.ops
  <2>3. o \in Seq(RawOps) /\ batch' = [batch EXCEPT !.todo = t, !.taken = k, !.baked = o]
    BY <1>3, <1>6, <1>12, <2>1
  <2>4. HIDE DEF o
  <2>5. /\ batch'.open = batch.open /\ batch'.todo = t /\ batch'.taken = k
        /\ batch'.baked = o /\ batch'.failed = batch.failed /\ batch' \in Batches
    BY <1>4, <2>1, <2>3 DEF Batches
  <2>6. QED
    BY <2>5 DEF o
<1>14. Typed'
  BY <1>1, <1>3, <1>4, <1>12, <1>13 DEF Typed
<1>15. Execute(gpu, pending' \o batch'.baked) = Execute(g, out.ops)
  <2>1. DEFINE x == pending \o b
               y == out.ops
  <2>2. pending' \o batch'.baked = x \o y
    <3>1. Assoc(pending, b, out.ops)
      BY <1>6, <1>12, Associates
    <3>2. pending' = pending /\ batch'.baked = b \o out.ops
      BY <1>4, <1>13
    <3>3. pending \o (b \o out.ops) = (pending \o b) \o out.ops
      BY <3>1 DEF Assoc
    <3>4. QED
      BY <3>2, <3>3
  <2>3. x \in Seq(RawOps) /\ y \in Seq(RawOps)
    BY <1>7, <1>12
  <2>4. g = Execute(gpu, x)
    BY DEF g, b
  <2>5. HIDE DEF x, y
  <2>6. Execute(gpu, x \o y) = Execute(Execute(gpu, x), y)
    BY <2>3, RunJoined
  <2>7. QED
    BY <2>2, <2>4, <2>6 DEF y
<1>16. Known'
  BY <1>1, <1>3, <1>4, <1>12, <1>15 DEF Known, Knows
<1>17. \A i \in DOMAIN batch.todo : stage[batch.todo[i]] = "ready"
  BY <1>1, <1>3, <1>4 DEF InOrder
<1>18. InOrder'
  <2>1. \A i \in DOMAIN t : stage'[t[i]] = "ready"
    BY <1>4, <1>17
  <2>2. QED
    BY <1>3, <1>4, <1>13, <2>1 DEF InOrder
<1>19. QED
  BY <1>14, <1>16, <1>18 DEF Kept

(* A submit that failed has baked nothing. *)
LEMMA SkipKeeps ==
  ASSUME Scoped, Kept, NEW e \in Encoder, SubmitSkip(e)
  PROVE  Kept'
<1>1. /\ Typed /\ InOrder /\ Known
  BY DEF Kept
<1>2. DEFINE t == Tail(batch.todo)
             k == Append(batch.taken, <<e, stage[e]>>)
<1>3. /\ Take(e) /\ (stage[e] # "ready" \/ batch.failed)
      /\ UNCHANGED <<device, uninit>>
      /\ batch' = [batch EXCEPT !.todo = t, !.taken = k, !.failed = TRUE]
  BY Zenon DEF SubmitSkip
<1>4. /\ t \in Seq(Encoder) /\ k \in Seq(Encoder \X Stages) /\ k # <<>>
      /\ stage' \in [Encoder -> Stages] /\ encoded' \in [Encoder -> TrackedEncs]
      /\ batch.open
      /\ \A i \in DOMAIN t : \A j \in DOMAIN t : t[i] = t[j] => i = j
      /\ \A i \in DOMAIN t : /\ i + 1 \in DOMAIN batch.todo /\ t[i] = batch.todo[i + 1]
                             /\ stage'[t[i]] = stage[t[i]]
      /\ 1 \in DOMAIN batch.todo /\ batch.todo[1] = e
      /\ UNCHANGED <<commands, pending, writes, gpu>>
  BY <1>3, Takes
<1>5. HIDE DEF t, k
<1>6. /\ batch'.open = batch.open /\ batch'.todo = t /\ batch'.taken = k
      /\ batch'.baked = batch.baked /\ batch'.failed = TRUE /\ batch' \in Batches
  <2>1. batch \in Batches
    BY <1>1 DEF Typed
  <2>2. QED
    BY <1>3, <1>4, <2>1 DEF Batches
<1>7. batch.baked = <<>>
  <2>1. CASE batch.failed
    BY <1>1, <2>1 DEF InOrder
  <2>2. CASE ~batch.failed
    <3>1. stage[batch.todo[1]] # "ready"
      BY <1>3, <1>4, <2>2
    <3>2. batch.taken = <<>>
      BY <1>1, <1>4, <2>2, <3>1 DEF InOrder
    <3>3. QED
      BY <1>1, <3>2 DEF InOrder
  <2>3. QED
    BY <2>1, <2>2
<1>8. Typed'
  BY <1>1, <1>3, <1>4, <1>6 DEF Typed
<1>9. Known'
  BY <1>1, <1>3, <1>4, <1>6 DEF Known
<1>10. InOrder'
  <2>1. \A i \in DOMAIN t : stage'[t[i]] # "recording"
    <3>1. \A i \in DOMAIN batch.todo : stage[batch.todo[i]] # "recording"
      BY <1>1 DEF InOrder
    <3>2. \A i \in DOMAIN t : /\ i + 1 \in DOMAIN batch.todo /\ t[i] = batch.todo[i + 1]
                             /\ stage'[t[i]] = stage[t[i]]
      BY <1>4
    <3>3. QED
      BY <3>1, <3>2
  <2>2. QED
    BY <1>4, <1>6, <1>7, <2>1 DEF InOrder
<1>11. QED
  BY <1>8, <1>9, <1>10 DEF Kept

(* The submission runs: the GPU comes to where the tracker says it will be. *)
LEMMA FlushKeeps ==
  ASSUME Scoped, Kept, SubmitFlush
  PROVE  Kept'
<1>1. /\ Typed /\ InOrder /\ Known
  BY DEF Kept
<1>2. /\ gpu' = Execute([gpu EXCEPT !.seen = {}], pending \o batch.baked)
      /\ pending' = <<>>
      /\ commands' = [e \in Encoder |-> IF e \in Taken THEN <<>> ELSE commands[e]]
      /\ batch' = NoBatch
      /\ UNCHANGED <<stage, encoded, device, uninit, writes>>
  BY DEF SubmitFlush
<1>3. gpu \in GpuStates /\ pending \o batch.baked \in Seq(RawOps)
  <2>1. batch.baked \in Seq(RawOps) /\ pending \in Seq(RawOps) /\ gpu \in GpuStates
    BY <1>1 DEF Typed, Batches
  <2>2. QED
    BY <2>1
<1>4. Alike(gpu', Execute(gpu, pending \o batch.baked))
  BY <1>2, <1>3, RunUnseen
<1>5. /\ gpu' \in GpuStates
      /\ gpu'.wrong = Execute(gpu, pending \o batch.baked).wrong
      /\ gpu'.state = Execute(gpu, pending \o batch.baked).state
  BY <1>4 DEF Alike
<1>6. DEFINE z == <<>>
             n == NoBatch
<1>7. /\ n.open = FALSE /\ n.todo = z /\ n.taken = z /\ n.baked = z /\ n.failed = FALSE
      /\ n \in Batches /\ z \in Seq(RawOps) /\ z \o z = z /\ DOMAIN z = {}
  BY DEF NoBatch, Batches
<1>8. Execute(gpu', z) = gpu'
  BY RunEmpty
<1>9. pending' = z /\ batch' = n
  BY <1>2
<1>10. commands' \in [Encoder -> Script \cup {<<>>}]
  BY <1>1, <1>2 DEF Typed
<1>11. HIDE DEF z, n
<1>12. Typed'
  BY <1>1, <1>2, <1>5, <1>7, <1>9, <1>10 DEF Typed
<1>13. Known'
  BY <1>1, <1>2, <1>5, <1>7, <1>8, <1>9 DEF Known, Knows
<1>14. InOrder'
  BY <1>7, <1>9 DEF InOrder, n, z
<1>15. QED
  BY <1>12, <1>13, <1>14 DEF Kept

(* ... and so leaves nothing ahead that the device counted on. *)
LEMMA FailKeeps ==
  ASSUME Scoped, Kept, SubmitFail
  PROVE  Kept'
<1>1. /\ Typed /\ InOrder /\ Known
  BY DEF Kept
<1>2. /\ batch.failed
      /\ commands' = [e \in Encoder |-> IF e \in Taken THEN <<>> ELSE commands[e]]
      /\ batch' = NoBatch
      /\ UNCHANGED <<stage, encoded, device, uninit, pending, writes, gpu>>
  BY DEF SubmitFail
<1>3. DEFINE z == <<>>
             n == NoBatch
<1>4. /\ n.open = FALSE /\ n.todo = z /\ n.taken = z /\ n.baked = z /\ n.failed = FALSE
      /\ n \in Batches /\ DOMAIN z = {}
  BY DEF NoBatch, Batches
<1>5. batch' = n /\ batch.baked = z
  BY <1>1, <1>2 DEF InOrder
<1>6. commands' \in [Encoder -> Script \cup {<<>>}]
  BY <1>1, <1>2 DEF Typed
<1>7. HIDE DEF z, n
<1>8. Typed'
  BY <1>1, <1>2, <1>4, <1>5, <1>6 DEF Typed
<1>9. pending' \o batch'.baked = pending \o batch.baked
  BY <1>2, <1>4, <1>5
<1>10. Known'
  BY <1>1, <1>2, <1>9 DEF Known
<1>11. InOrder'
  BY <1>4, <1>5 DEF InOrder, n, z
<1>12. QED
  BY <1>8, <1>10, <1>11 DEF Kept

(* A step that changes nothing. *)
LEMMA StillKeeps == Kept /\ UNCHANGED svars => Kept'
BY DEF Kept, Typed, InOrder, Known, svars

(* Kept is an invariant outside the gaps: the device's tracker, which encoding *)
(* never sees and a submit moves on before the GPU has run anything, knows the *)
(* state of every resource after all that was baked (Queue::submit,            *)
(* BakedCommands).                                                             *)
THEOREM StreamKept == Scoped => (Spec => []Kept)
<1>1. SUFFICES ASSUME Scoped PROVE Spec => []Kept
  OBVIOUS
<1>2. Kept /\ [Next]_svars => Kept'
  <2>1. SUFFICES ASSUME Kept, [Next]_svars PROVE Kept'
    OBVIOUS
  <2>2. CASE UNCHANGED svars
    BY <2>1, <2>2, StillKeeps
  <2>3. CASE \E e \in Encoder, cmds \in Script : Finish(e, cmds)
    BY <1>1, <2>1, <2>3, FinishKeeps
  <2>4. CASE \E w \in Write : QueueWrite(w)
    BY <1>1, <2>1, <2>4, WriteKeeps
  <2>5. CASE \E k \in BufferKey : QueueWriteRejected(k)
    BY <1>1, <2>1, <2>5, RejectedKeeps
  <2>6. CASE \E b \in Batch : SubmitStart(b)
    BY <1>1, <2>1, <2>6, StartKeeps
  <2>7. CASE \E e \in Encoder : SubmitBake(e) \/ SubmitSkip(e)
    BY <1>1, <2>1, <2>7, BakeKeeps, SkipKeeps
  <2>8. CASE SubmitFlush
    BY <1>1, <2>1, <2>8, FlushKeeps
  <2>9. CASE SubmitFail
    BY <1>1, <2>1, <2>9, FailKeeps
  <2>10. QED
    BY <2>1, <2>2, <2>3, <2>4, <2>5, <2>6, <2>7, <2>8, <2>9 DEF Next
<1>3. QED
  BY <1>2, KeptInit, PTL DEF Spec

(* Every barrier starts from the state its resource is in, and every use finds *)
(* its resource in a state that allows it: across commands, passes, command    *)
(* buffers encoded long before, and writes (set_single, set_from_tracker).     *)
THEOREM BarriersAlwaysRight == Scoped => (Spec => []BarriersRight)
<1>1. Kept => BarriersRight
  BY DEF Kept, Known, BarriersRight
<1>2. QED
  BY <1>1, StreamKept, PTL

(* The device's tracker says what state each resource will be in when all that *)
(* was baked has run (Device::trackers in Queue::submit).                      *)
THEOREM DeviceAlwaysAhead == Scoped => (Spec => []DeviceTrackerAhead)
<1>1. Kept => DeviceTrackerAhead
  BY DEF Kept, Known, Knows, DeviceTrackerAhead, Ahead
<1>2. QED
  BY <1>1, StreamKept, PTL

(* The types of the stream's state, the GPU's included. *)
THEOREM StreamTypes == Scoped => (Spec => []TypeOK)
<1>1. ASSUME Kept PROVE TypeOK
  <2>1. gpu.mem \in [Cell -> {"garbage", "zero", "queued", "computed"}]
    BY <1>1 DEF Kept, Typed, GpuStates, Contents
  <2>2. QED
    BY <1>1, <2>1 DEF Kept, Typed, Known, Knows, TypeOK, Stages
<1>2. QED
  BY <1>1, StreamKept, PTL

--------------------------------------------------------------------------------
(* Memory: what a list of raw commands leaves without garbage.                 *)

(* What runs after `base` makes no garbage, and leaves none in `cells`. *)
After(base, ops, cells) ==
    \A g \in GpuStates : \A c \in Cell :
        Execute(g, ops).mem[c] = "garbage" =>
            Execute(g, base).mem[c] = "garbage" /\ c \notin cells

(* Nothing run leaves memory as it is. *)
LEMMA AfterNothing == ASSUME NEW base PROVE After(base, base, {})
BY DEF After

(* Fewer cells may be asked about. *)
LEMMA AfterEqual ==
  ASSUME NEW base, NEW ops, NEW cells, After(base, ops, cells), NEW more, more \subseteq cells
  PROVE  After(base, ops, more)
BY DEF After

(* Barriers leave memory alone, *)
LEMMA RunsBarriers ==
  ASSUME NEW g \in GpuStates, NEW ops \in Seq(BarrierOps)
  PROVE  Execute(g, ops).mem = g.mem
<1>1. DEFINE n == Len(ops)
             S == {a \in GpuStates : a.mem = g.mem}
<1>2. n \in Nat /\ DOMAIN ops = 1..n /\ \A i \in 1..n : ops[i] \in BarrierOps
  OBVIOUS
<1>3. PICK h : Follow(Run, g, ops, n, h) /\ h[n] = Execute(g, ops)
  BY <1>2, RunFolds
<1>4. HIDE DEF n
<1>5. \A a, o : Apply(Run, a, o) = Ran(a, o)
  BY DEF Apply, Run
<1>6. \A i \in 1..n : \A a \in S : Apply(Run, a, ops[i]) \in S
  <2>1. ASSUME NEW i \in 1..n, NEW a \in S PROVE Apply(Run, a, ops[i]) \in S
    <3>1. ops[i] \in BarrierOps /\ a \in GpuStates /\ a.mem = g.mem
      BY <1>2
    <3>2. Ran(a, ops[i]) \in GpuStates /\ Ran(a, ops[i]).mem = a.mem
      BY <3>1, RanBarrier
    <3>3. QED
      BY <1>5, <3>1, <3>2
  <2>2. QED
    BY <2>1
<1>7. g \in S
  OBVIOUS
<1>8. HIDE DEF S
<1>9. h[n] \in S
  BY <1>2, <1>3, <1>6, <1>7, FollowStays
<1>10. QED
  BY <1>3, <1>9 DEF S

(* ... so they may follow; *)
LEMMA AfterBarriers ==
  ASSUME NEW base, NEW ops \in Seq(RawOps), NEW cells, After(base, ops, cells),
         NEW current \in [Key -> State], NEW new \in [Key -> State]
  PROVE  After(base, ops \o Barriers(current, new), cells)
<1>1. DEFINE B == Barriers(current, new)
<1>2. B \in Seq(BarrierOps) /\ B \in Seq(RawOps)
  BY BarrierList, BarrierTypes
<1>3. HIDE DEF B
<1>4. ASSUME NEW g \in GpuStates PROVE Execute(g, ops \o B).mem = Execute(g, ops).mem
  <2>1. Execute(g, ops \o B) = Execute(Execute(g, ops), B)
    BY <1>2, RunJoined
  <2>2. Execute(g, ops) \in GpuStates
    BY RunTypes
  <2>3. QED
    BY <1>2, <2>1, <2>2, RunsBarriers
<1>5. After(base, ops \o B, cells)
  BY <1>4 DEF After
<1>6. QED
  BY <1>5 DEF B

(* ... and work that drops nothing leaves no garbage where it writes. *)
LEMMA AfterWork ==
  ASSUME NEW base, NEW ops \in Seq(RawOps), NEW cells, After(base, ops, cells),
         NEW w \in WorkOps, w.drops = {}, w.value # "garbage"
  PROVE  After(base, ops \o <<w>>, cells \cup w.writes)
<1>1. ASSUME NEW g \in GpuStates, NEW c \in Cell, Execute(g, ops \o <<w>>).mem[c] = "garbage"
      PROVE  Execute(g, base).mem[c] = "garbage" /\ c \notin cells \cup w.writes
  <2>1. DEFINE h == Execute(g, ops)
  <2>2. Execute(g, ops \o <<w>>) = Execute(h, <<w>>)
    <3>1. <<w>> \in Seq(RawOps)
      BY DEF RawOps
    <3>2. QED
      BY <3>1, RunJoined
  <2>3. Execute(h, <<w>>) = Ran(h, w)
    BY RunOne
  <2>4. h \in GpuStates
    BY RunTypes
  <2>5. HIDE DEF h
  <2>6. Ran(h, w).mem = [d \in Cell |->
                            IF d \in w.drops THEN "garbage"
                            ELSE IF d \in w.writes THEN w.value
                            ELSE IF d \in w.partial /\ h.mem[d] # "garbage" THEN w.value
                            ELSE h.mem[d]]
    BY <2>4, RanWork
  <2>7. h.mem[c] = "garbage" /\ c \notin w.writes
    BY <1>1, <2>2, <2>3, <2>6
  <2>8. QED
    BY <2>7 DEF After, h
<1>2. QED
  BY <1>1 DEF After

(* One list after another. *)
LEMMA AfterBoth ==
  ASSUME NEW base \in Seq(RawOps), NEW x \in Seq(RawOps), NEW cells, After(base, x, cells),
         NEW z, z = <<>>, NEW y \in Seq(RawOps), NEW more, After(z, y, more)
  PROVE  After(base, x \o y, cells \cup more)
<1>1. ASSUME NEW g \in GpuStates, NEW c \in Cell, Execute(g, x \o y).mem[c] = "garbage"
      PROVE  Execute(g, base).mem[c] = "garbage" /\ c \notin cells \cup more
  <2>1. DEFINE h == Execute(g, x)
  <2>2. Execute(g, x \o y) = Execute(h, y)
    BY RunJoined
  <2>3. h \in GpuStates
    BY RunTypes
  <2>4. Execute(h, z) = h
    BY RunEmpty
  <2>5. HIDE DEF h
  <2>6. h.mem[c] = "garbage" /\ c \notin more
    BY <1>1, <2>2, <2>3, <2>4 DEF After
  <2>7. QED
    BY <2>6 DEF After, h
<1>2. QED
  BY <1>1 DEF After

(* A use with its barriers, and clears. *)
LEMMA PerformedAfter ==
  ASSUME NEW base, NEW out \in Outs \cup Encs, NEW cells, After(base, out.ops, cells),
         NEW w \in WorkOps, w.drops = {}, w.value # "garbage"
  PROVE  After(base, Performed(out, w).ops, cells \cup w.writes)
<1>1. /\ out.ops \in Seq(RawOps) /\ out.tracker.end \in [Key -> State]
      /\ w.use \in [Key -> State]
  BY OutFields, PerformedTypes
<1>2. DEFINE o == out.ops
             B == Barriers(out.tracker.end, w.use)
<1>3. o \o B \in Seq(RawOps)
  BY <1>1, BarrierTypes
<1>4. After(base, o \o B, cells)
  <2>1. o \in Seq(RawOps) /\ After(base, o, cells)
    BY <1>1
  <2>2. HIDE DEF o
  <2>3. QED
    BY <1>1, <2>1, AfterBarriers
<1>5. Performed(out, w).ops = (o \o B) \o <<w>>
  BY PerformedOut, PerformedEnc
<1>6. HIDE DEF o, B
<1>7. After(base, (o \o B) \o <<w>>, cells \cup w.writes)
  <2>1. DEFINE x == o \o B
  <2>2. x \in Seq(RawOps) /\ After(base, x, cells)
    BY <1>3, <1>4
  <2>3. HIDE DEF x
  <2>4. After(base, x \o <<w>>, cells \cup w.writes)
    BY <2>2, AfterWork
  <2>5. QED
    BY <2>4 DEF x
<1>8. QED
  BY <1>5, <1>7

AfterOuts(base, cells) == {a \in Outs \cup Encs : After(base, a.ops, cells)}

(* A clear leaves no garbage in its cells, *)
LEMMA ClearedAfter ==
  ASSUME NEW base, NEW cells, NEW a \in AfterOuts(base, cells), NEW k \in Key,
         NEW more \in SUBSET Cell, NEW all, all \subseteq cells \cup more
  PROVE  Cleared(a, k, more) \in AfterOuts(base, all)
<1>1. DEFINE w == ClearWork(k, more)
             r == Performed(a, w)
<1>2. a \in Outs \cup Encs /\ After(base, a.ops, cells)
  BY DEF AfterOuts
<1>3. /\ w \in WorkOps /\ w.writes = more /\ w.value = "zero" /\ w.drops = {}
      /\ Cleared(a, k, more) = r
  BY <1>2, ClearedIs
<1>4. HIDE DEF w
<1>5. After(base, r.ops, cells \cup more)
  BY <1>2, <1>3, PerformedAfter
<1>6. r \in Outs \cup Encs
  BY <1>2, <1>3, PerformedOut, PerformedEnc
<1>7. HIDE DEF r
<1>8. After(base, r.ops, all)
  BY <1>5, AfterEqual
<1>9. QED
  BY <1>3, <1>6, <1>8 DEF AfterOuts

(* ... so do the clears of textures. *)
LEMMA TexturesAfter ==
  ASSUME NEW out \in Outs \cup Encs, NEW cells \in SUBSET Cell
  PROVE  After(out.ops, TexturesCleared(out, cells).ops, cells)
<1>1. DEFINE q == SetToSeq(cells)
             n == Len(q)
             b == out.ops
<1>2. IsFiniteSet(cells)
  BY CellAssumption, FS_Subset
<1>3. q \in Seq(cells) /\ \A x \in cells : \E i \in 1..n : q[i] = x
  BY <1>2, SetSequence
<1>4. TexturesCleared(out, cells) = ClearAll(out, q)
  BY Zenon DEF TexturesCleared, ClearAll
<1>5. HIDE DEF q
<1>6. n \in Nat /\ DOMAIN q = 1..n /\ \A i \in 1..n : q[i] \in cells
  BY <1>3
<1>7. PICK h : Follow([op |-> "clear"], out, q, n, h) /\ h[n] = ClearAll(out, q)
  BY <1>6, ClearFolds
<1>8. DEFINE D == [i \in 0..n |-> {q[j] : j \in 1..i}]
             P == [i \in 0..n |-> AfterOuts(b, D[i])]
             F == [op |-> "clear"]
<1>9. \A a, x : Apply(F, a, x) = Cleared(a, CellKey[x], {x})
  BY DEF Apply
<1>10. out \in P[0]
  <2>1. D[0] = {} /\ P[0] = AfterOuts(b, D[0])
    BY <1>6
  <2>2. QED
    BY <2>1, AfterNothing DEF AfterOuts
<1>11. HIDE DEF F, n, b
<1>12. \A i \in 1..n : \A a \in P[i - 1] : Apply(F, a, q[i]) \in P[i]
  <2>1. ASSUME NEW i \in 1..n, NEW a \in P[i - 1] PROVE Apply(F, a, q[i]) \in P[i]
    <3>1. i \in 0..n /\ i - 1 \in 0..n
      BY <1>6
    <3>2. /\ P[i] = AfterOuts(b, D[i]) /\ P[i - 1] = AfterOuts(b, D[i - 1])
      BY <3>1
    <3>3. D[i] \subseteq D[i - 1] \cup {q[i]}
      BY <1>6, <3>1
    <3>4. CellKey[q[i]] \in Key /\ {q[i]} \in SUBSET Cell
      BY <1>6, CellAssumption
    <3>5. HIDE DEF P, D
    <3>6. Cleared(a, CellKey[q[i]], {q[i]}) \in AfterOuts(b, D[i])
      <4>1. DEFINE d == D[i]
                   e == D[i - 1]
                   k == CellKey[q[i]]
                   m == {q[i]}
      <4>2. a \in AfterOuts(b, e) /\ d \subseteq e \cup m /\ k \in Key /\ m \in SUBSET Cell
        BY <2>1, <3>2, <3>3, <3>4
      <4>3. HIDE DEF d, e, k, m
      <4>4. Cleared(a, k, m) \in AfterOuts(b, d)
        BY <4>2, ClearedAfter
      <4>5. QED
        BY <4>4 DEF d, k, m
    <3>7. QED
      BY <1>9, <3>2, <3>6
  <2>2. QED
    BY <2>1
<1>13. P[n] = AfterOuts(b, D[n]) /\ cells \subseteq D[n]
  <2>1. n \in 0..n
    BY <1>6
  <2>2. QED
    BY <1>3, <2>1 DEF n
<1>14. h[n] \in P[n]
  <2>1. HIDE DEF P
  <2>2. Follow(F, out, q, n, h)
    BY <1>7 DEF F
  <2>3. \A i \in 0..n : h[i] \in P[i]
    BY <1>6, <1>10, <1>12, <2>2, FollowHolds
  <2>4. QED
    BY <1>6, <2>3
<1>15. HIDE DEF D, P
<1>16. After(b, TexturesCleared(out, cells).ops, D[n])
  BY <1>4, <1>7, <1>13, <1>14 DEF AfterOuts
<1>17. After(b, TexturesCleared(out, cells).ops, cells)
  BY <1>13, <1>16, AfterEqual
<1>18. QED
  BY <1>17 DEF b

--------------------------------------------------------------------------------
(* Memory: what a command buffer promises in its initialization actions.       *)

(* What a command buffer does to memory: garbage at its end was there before, in a *)
(* cell it does not overwrite first, or is what it discarded.                      *)
Overwritten(acts, c) == \E i \in DOMAIN acts : acts[i].kind = "implicit" /\ c \in acts[i].cells

Sound(ops, acts, drops) ==
    \A g \in GpuStates : \A c \in Cell :
        Execute(g, ops).mem[c] = "garbage" =>
            c \in drops \/ (g.mem[c] = "garbage" /\ ~Overwritten(acts, c))

SoundEncs == {a \in TrackedEncs : Sound(a.ops, a.acts, a.drops)}

(* The raw commands that follow clear what is no longer said to be discarded. *)
LEMMA SoundOn ==
  ASSUME NEW ops, NEW acts, NEW drops, Sound(ops, acts, drops),
         NEW ops2, NEW acts2, NEW drops2, NEW cells, After(ops, ops2, cells),
         \A c \in Cell : Overwritten(acts2, c) => Overwritten(acts, c) \/ c \in cells,
         drops \ cells \subseteq drops2
  PROVE  Sound(ops2, acts2, drops2)
BY DEF Sound, After

Act(c, k) == IF c = {} THEN <<>> ELSE <<[cells |-> c, kind |-> k]>>

(* The action of no cell is no action. *)
LEMMA ActTypes ==
  ASSUME NEW cells \in SUBSET Cell, NEW kind \in Kinds
  PROVE  /\ Act(cells, kind) \in Seq(Acts)
         /\ \A c : Overwritten(Act(cells, kind), c) => kind = "implicit" /\ c \in cells
<1>1. DEFINE r == [cells |-> cells, kind |-> kind]
<1>2. r \in Acts /\ r.cells = cells /\ r.kind = kind
  BY DEF Acts, Kinds
<1>3. HIDE DEF r
<1>4. CASE cells = {}
  BY <1>4 DEF Act, Overwritten
<1>5. CASE cells # {}
  <2>1. Act(cells, kind) = <<r>>
    BY <1>5 DEF Act, r
  <2>2. <<r>> \in Seq(Acts) /\ DOMAIN <<r>> = {1} /\ <<r>>[1] = r
    BY <1>2
  <2>3. QED
    BY <1>2, <2>1, <2>2 DEF Overwritten
<1>6. QED
  BY <1>4, <1>5

(* What two lists overwrite, one of them does. *)
LEMMA OverwrittenBy ==
  ASSUME NEW x \in Seq(Acts), NEW y \in Seq(Acts), NEW c, Overwritten(x \o y, c)
  PROVE  Overwritten(x, c) \/ Overwritten(y, c)
<1>1. PICK i \in DOMAIN (x \o y) : (x \o y)[i].kind = "implicit" /\ c \in (x \o y)[i].cells
  BY DEF Overwritten
<1>2. /\ i \in 1..(Len(x) + Len(y)) /\ Len(x) \in Nat /\ Len(y) \in Nat
      /\ (x \o y)[i] = IF i <= Len(x) THEN x[i] ELSE y[i - Len(x)]
      /\ DOMAIN x = 1..Len(x) /\ DOMAIN y = 1..Len(y)
  BY <1>1
<1>3. CASE i <= Len(x)
  <2>1. i \in DOMAIN x /\ x[i].kind = "implicit" /\ c \in x[i].cells
    BY <1>1, <1>2, <1>3
  <2>2. QED
    BY <2>1 DEF Overwritten
<1>4. CASE ~(i <= Len(x))
  <2>1. i - Len(x) \in DOMAIN y
    BY <1>2, <1>4
  <2>2. y[i - Len(x)].kind = "implicit" /\ c \in y[i - Len(x)].cells
    BY <1>1, <1>2, <1>4
  <2>3. QED
    BY <2>1, <2>2 DEF Overwritten
<1>5. QED
  BY <1>3, <1>4

(* What is registered is overwritten: now, if it was discarded, or by the command. *)
RegisterActs(enc, cells, kind, unset) ==
    \A c \in Cell : Overwritten(Register(enc, cells, kind, unset).acts, c) =>
        \/ Overwritten(enc.acts, c)
        \/ kind = "implicit" /\ c \in cells /\ c \in unset
        \/ kind = "needs" /\ c \in cells /\ c \in enc.drops

(* What registering adds to the actions and takes from the discards, *)
LEMMA RegisterOverwrites ==
  ASSUME NEW enc \in Encs, NEW cells \in SUBSET Cell, NEW kind \in Kinds,
         NEW unset \in SUBSET Cell
  PROVE  RegisterActs(enc, cells, kind, unset)
<1>1. DEFINE stale == cells \cap unset
             again == IF kind = "needs" THEN cells \cap enc.drops ELSE {}
             a == Act(stale, kind)
             b == Act(again, "implicit")
             x == enc.acts \o a
             acts == x \o b
             drops == enc.drops \ cells
             r == Register(enc, cells, kind, unset)
<1>2. r = [enc EXCEPT !.acts = acts, !.drops = drops]
  <2>1. r = [enc EXCEPT !.acts = @ \o a \o b, !.drops = @ \ cells]
    BY Zenon DEF Register, Act
  <2>2. HIDE DEF a, b, r
  <2>3. QED
    BY <2>1 DEF Encs
<1>3. stale \in SUBSET Cell /\ again \in SUBSET Cell
  BY DEF Encs
<1>4. /\ a \in Seq(Acts) /\ \A c : Overwritten(a, c) => kind = "implicit" /\ c \in stale
  <2>1. HIDE DEF stale
  <2>2. QED
    BY <1>3, ActTypes
<1>5. /\ b \in Seq(Acts) /\ \A c : Overwritten(b, c) => c \in again
  <2>1. HIDE DEF again
  <2>2. "implicit" \in Kinds
    BY DEF Kinds
  <2>3. QED
    BY <1>3, <2>2, ActTypes
<1>6. enc.acts \in Seq(Acts)
  BY DEF Encs
<1>7. x \in Seq(Acts)
  <2>1. HIDE DEF a
  <2>2. QED
    BY <1>4, <1>6, ConcatProperties
<1>8. \A c : Overwritten(acts, c) =>
         \/ Overwritten(enc.acts, c)
         \/ kind = "implicit" /\ c \in stale
         \/ c \in again
  <2>1. HIDE DEF stale, again, a, b
  <2>2. \A c : Overwritten(x, c) => Overwritten(enc.acts, c) \/ Overwritten(a, c)
    BY <1>4, <1>6, OverwrittenBy
  <2>3. HIDE DEF x
  <2>4. \A c : Overwritten(acts, c) => Overwritten(x, c) \/ Overwritten(b, c)
    BY <1>5, <1>7, OverwrittenBy
  <2>5. QED
    BY <1>4, <1>5, <2>2, <2>4
<1>9. \A c : c \in again => kind = "needs" /\ c \in cells /\ c \in enc.drops
  OBVIOUS
<1>10. \A c : c \in stale => c \in cells /\ c \in unset
  OBVIOUS
<1>11. HIDE DEF stale, again, a, b, x, acts, drops, r
<1>12. r.acts = acts
  BY <1>2 DEF Encs
<1>13. \A c \in Cell : Overwritten(r.acts, c) =>
        \/ Overwritten(enc.acts, c)
        \/ kind = "implicit" /\ c \in cells /\ c \in unset
        \/ kind = "needs" /\ c \in cells /\ c \in enc.drops
  BY <1>8, <1>9, <1>10, <1>12
<1>14. QED
  BY <1>13 DEF RegisterActs, r

(* Both kinds of registration. *)
RegisteredAs(enc, cells, more, r) ==
    /\ r \in Encs /\ r.tracker = enc.tracker /\ r.ops = enc.ops /\ r.ok = enc.ok
    /\ r.drops = enc.drops \ cells
    /\ \A c \in Cell : Overwritten(r.acts, c) => Overwritten(enc.acts, c) \/ c \in more

(* ... for memory that is read, *)
LEMMA NeedsRegistered ==
  ASSUME NEW enc \in Encs, NEW cells \in SUBSET Cell, NEW unset \in SUBSET Cell
  PROVE  RegisteredAs(enc, cells, cells \cap enc.drops, Register(enc, cells, "needs", unset))
<1>1. DEFINE k == "needs"
<1>2. k \in Kinds /\ k # "implicit"
  BY DEF Kinds
<1>3. HIDE DEF k
<1>4. Registered(enc, cells, Register(enc, cells, k, unset)) /\ RegisterActs(enc, cells, k, unset)
  BY <1>2, RegisterTypes, RegisterOverwrites
<1>5. RegisteredAs(enc, cells, cells \cap enc.drops, Register(enc, cells, k, unset))
  BY <1>2, <1>4 DEF Registered, RegisterActs, RegisteredAs
<1>6. QED
  BY <1>5 DEF k

(* ... and for memory that is overwritten. *)
LEMMA ImplicitRegistered ==
  ASSUME NEW enc \in Encs, NEW cells \in SUBSET Cell, NEW unset \in SUBSET Cell
  PROVE  RegisteredAs(enc, cells, cells \cap unset, Register(enc, cells, "implicit", unset))
<1>1. DEFINE k == "implicit"
<1>2. k \in Kinds /\ k # "needs"
  BY DEF Kinds
<1>3. HIDE DEF k
<1>4. Registered(enc, cells, Register(enc, cells, k, unset)) /\ RegisterActs(enc, cells, k, unset)
  BY <1>2, RegisterTypes, RegisterOverwrites
<1>5. RegisteredAs(enc, cells, cells \cap unset, Register(enc, cells, k, unset))
  BY <1>2, <1>4 DEF Registered, RegisterActs, RegisteredAs
<1>6. QED
  BY <1>5 DEF k

(* A transfer. *)
LEMMA TransferredSound ==
  ASSUME NEW enc \in SoundEncs, NEW cmd \in Commands, cmd.type = "transfer",
         NEW unset \in SUBSET Cell
  PROVE  Transferred(enc, cmd, unset) \in SoundEncs
<1>1. enc \in TrackedEncs /\ Sound(enc.ops, enc.acts, enc.drops) /\ enc \in Encs
      /\ enc \in Outs \cup Encs /\ enc.drops \in SUBSET Cell
  BY DEF SoundEncs, TrackedEncs, Encs
<1>2. DEFINE s == cmd.steps[1]
             needs == Needs(s)
             d == Discarded(enc, needs)
             t == TexturesCleared(enc, d)
             a == Register(t, needs, "needs", unset)
             b == Register(a, s.writes, "implicit", unset)
             w == StepWork(s)
             r == Performed(b, w)
<1>3. s \in Steps
  BY CommandSteps
<1>4. /\ needs \in SUBSET Cell /\ s.writes \in SUBSET Cell /\ w \in WorkOps
      /\ w.writes = s.writes /\ w.drops = {} /\ w.value = "computed"
  <2>1. HIDE DEF s
  <2>2. QED
    BY <1>3, StepTypes, StepWorks
<1>5. b = TransferKnown(enc, s, unset)
  BY DEF TransferKnown
<1>6. Transferred(enc, cmd, unset) = r /\ Transferred(enc, cmd, unset) \in TrackedEncs
  BY <1>1, <1>5, TransferredIs, TransferredTracked
<1>7. HIDE DEF s, needs, w
<1>8. \A c : c \in d <=> c \in needs /\ c \in enc.drops
  BY DEF Discarded
<1>9. d \in SUBSET Cell
  BY <1>4, <1>8
<1>10. HIDE DEF d
<1>11. /\ t \in TrackedEncs /\ t.acts = enc.acts /\ t.drops = enc.drops
  BY <1>1, <1>9, ClearedTracked
<1>12. After(enc.ops, t.ops, d)
  BY <1>1, <1>9, TexturesAfter
<1>13. t \in Encs
  BY <1>11 DEF TrackedEncs
<1>14. HIDE DEF t
<1>15. RegisteredAs(t, needs, needs \cap t.drops, a)
  BY <1>4, <1>13, NeedsRegistered
<1>16. /\ a \in Encs /\ a.ops = t.ops /\ a.drops = t.drops \ needs
       /\ \A c \in Cell : Overwritten(a.acts, c) => Overwritten(enc.acts, c) \/ c \in d
  BY <1>8, <1>11, <1>15 DEF RegisteredAs
<1>17. HIDE DEF a
<1>18. RegisteredAs(a, s.writes, s.writes \cap unset, b)
  BY <1>4, <1>16, ImplicitRegistered
<1>19. /\ b \in Encs /\ b.ops = a.ops /\ b.drops = a.drops \ s.writes
       /\ \A c \in Cell : Overwritten(b.acts, c) =>
              Overwritten(enc.acts, c) \/ c \in d \/ c \in s.writes
  BY <1>16, <1>18 DEF RegisteredAs
<1>20. HIDE DEF b
<1>21. /\ r \in Encs /\ r.acts = b.acts /\ r.drops = b.drops
  BY <1>4, <1>19, PerformedEnc
<1>22. After(enc.ops, r.ops, d \cup s.writes)
  <2>1. After(enc.ops, b.ops, d)
    BY <1>12, <1>16, <1>19
  <2>2. b \in Outs \cup Encs
    BY <1>19
  <2>3. After(enc.ops, Performed(b, w).ops, d \cup w.writes)
    BY <1>4, <2>1, <2>2, PerformedAfter
  <2>4. QED
    BY <1>4, <2>3
<1>23. HIDE DEF r
<1>24. enc.drops \ (d \cup s.writes) \subseteq r.drops
  BY <1>8, <1>11, <1>16, <1>19, <1>21
<1>25. \A c \in Cell : Overwritten(r.acts, c) => Overwritten(enc.acts, c) \/ c \in d \cup s.writes
  BY <1>19, <1>21
<1>26. Sound(r.ops, r.acts, r.drops)
  BY <1>1, <1>22, <1>24, <1>25, SoundOn
<1>27. QED
  BY <1>6, <1>26 DEF SoundEncs

--------------------------------------------------------------------------------
(* ... compute passes promise it,                                              *)

(* The end of a pass clears what it must, before the pass. *)
Inserted(enc, first, fixups) ==
    (enc.ops \o Transit(enc, fixups).ops) \o Barriers(Transit(enc, fixups).tracker.end, first)

(* The clears before a pass leave no garbage in what the pass reads. *)
LEMMA InsertedAfter ==
  ASSUME NEW enc \in TrackedEncs, NEW fixups \in SUBSET Cell, NEW first \in [Key -> State]
  PROVE  /\ Inserted(enc, first, fixups) \in Seq(RawOps)
         /\ After(enc.ops, Inserted(enc, first, fixups), fixups)
<1>1. DEFINE e == [enc EXCEPT !.ops = <<>>]
             z == <<>>
             t == Transit(enc, fixups)
             o == enc.ops
             n == {}
<1>2. enc \in Encs /\ o \in Seq(RawOps)
  BY DEF TrackedEncs, Encs
<1>3. e \in Encs /\ e.ops = z
  BY <1>2, EmptiedTypes
<1>4. t = TexturesCleared(e, fixups)
  BY DEF Transit
<1>5. t \in Encs
  BY TransitTracks
<1>6. t.ops \in Seq(RawOps) /\ t.tracker.end \in [Key -> State]
  BY <1>5 DEF Encs, Trackers
<1>7. HIDE DEF e, t, z, n
<1>8. After(z, t.ops, fixups)
  BY <1>3, <1>4, TexturesAfter
<1>9. z = <<>> /\ n = {}
  BY DEF z, n
<1>10. After(o, o \o t.ops, n \cup fixups)
  <2>1. After(o, o, n)
    BY <1>9, AfterNothing
  <2>2. DEFINE y == t.ops
  <2>3. y \in Seq(RawOps) /\ After(z, y, fixups)
    BY <1>6, <1>8
  <2>4. HIDE DEF y, o
  <2>5. After(o, o \o y, n \cup fixups)
    BY <1>2, <1>9, <2>1, <2>3, AfterBoth
  <2>6. QED
    BY <2>5 DEF y
<1>11. DEFINE x == o \o t.ops
<1>12. x \in Seq(RawOps) /\ After(o, x, fixups)
  BY <1>2, <1>6, <1>9, <1>10
<1>13. HIDE DEF x, o
<1>14. After(o, x \o Barriers(t.tracker.end, first), fixups)
  BY <1>6, <1>12, AfterBarriers
<1>15. x \o Barriers(t.tracker.end, first) \in Seq(RawOps)
  BY <1>6, <1>12, BarrierTypes
<1>16. Inserted(enc, first, fixups) = x \o Barriers(t.tracker.end, first)
  BY DEF Inserted, x, o, t
<1>17. QED
  BY <1>14, <1>15, <1>16 DEF o

(* A compute pass. *)
PassSound(enc, p) ==
    /\ p.enc.ops = enc.ops
    /\ After(<<>>, p.ops, {})
    /\ \A c \in Cell : Overwritten(p.enc.acts, c) => Overwritten(enc.acts, c) \/ c \in p.fixups
    /\ enc.drops \ p.fixups \subseteq p.enc.drops

SoundPass(enc, cmd) == {p \in ComputePass(cmd) : PassSound(enc, p)}

(* A dispatch keeps a pass's promise, *)
LEMMA DispatchedSound ==
  ASSUME NEW enc \in SoundEncs, NEW cmd \in Commands, NEW p \in SoundPass(enc, cmd),
         NEW i \in DOMAIN cmd.steps, NEW unset \in SUBSET Cell
  PROVE  Dispatched(p, cmd.steps[i], unset) \in SoundPass(enc, cmd)
<1>1. DEFINE s == cmd.steps[i]
             out == [tracker |-> p.tracker, ops |-> p.ops]
             w == StepWork(s)
             r == Performed(out, w)
             d == Dispatched(p, s, unset)
             needs == Needs(s)
             n == Register(p.enc, needs, "needs", unset)
             x == p.fixups \cup Discarded(p.enc, needs)
             z == <<>>
             none == {}
<1>2. p \in ComputePass(cmd) /\ PassSound(enc, p)
  BY DEF SoundPass
<1>3. d \in ComputePass(cmd)
  BY <1>2, DispatchedTracked
<1>4. /\ p \in PassRecs /\ p.enc \in Encs /\ p.tracker \in Trackers /\ p.ops \in Seq(RawOps)
      /\ p.fixups \in SUBSET Cell
  BY <1>2 DEF ComputePass, PassRecs
<1>5. s \in Steps
  BY CommandSteps
<1>6. out \in Outs /\ out \in Outs \cup Encs /\ out.ops = p.ops
  BY <1>4 DEF Outs
<1>7. /\ needs \in SUBSET Cell /\ w \in WorkOps /\ w.drops = {} /\ w.value = "computed"
  <2>1. HIDE DEF s
  <2>2. QED
    BY <1>5, StepTypes, StepWorks
<1>8. d = [tracker |-> r.tracker, ops |-> r.ops, fixups |-> x, enc |-> n]
  <2>1. HIDE DEF s
  <2>2. QED
    BY <1>4, <1>5, DispatchedIs
<1>9. After(z, p.ops, none)
  BY <1>2 DEF PassSound
<1>10. HIDE DEF s, out, w, needs, z, none, d
<1>11. After(z, r.ops, none)
  <2>1. After(z, r.ops, none \cup w.writes)
    BY <1>6, <1>7, <1>9, PerformedAfter
  <2>2. none \subseteq none \cup w.writes
    OBVIOUS
  <2>3. HIDE DEF r
  <2>4. QED
    BY <2>1, <2>2, AfterEqual
<1>12. RegisteredAs(p.enc, needs, needs \cap p.enc.drops, n)
  BY <1>4, <1>7, NeedsRegistered
<1>13. /\ n.ops = p.enc.ops /\ n.drops = p.enc.drops \ needs
       /\ \A c \in Cell : Overwritten(n.acts, c) =>
             Overwritten(p.enc.acts, c) \/ c \in needs \cap p.enc.drops
  BY <1>12 DEF RegisteredAs
<1>14. x = p.fixups \cup (needs \cap p.enc.drops)
  BY DEF Discarded
<1>15. HIDE DEF r, n, x
<1>16. d.ops = r.ops /\ d.enc = n /\ d.fixups = x
  BY <1>8
<1>17. n.ops = enc.ops
  BY <1>2, <1>13 DEF PassSound
<1>18. \A c \in Cell : Overwritten(n.acts, c) => Overwritten(enc.acts, c) \/ c \in x
  BY <1>2, <1>13, <1>14 DEF PassSound
<1>19. enc.drops \ x \subseteq n.drops
  BY <1>2, <1>13, <1>14 DEF PassSound
<1>20. After(<<>>, r.ops, {})
  BY <1>11 DEF z, none
<1>21. PassSound(enc, d)
  BY <1>16, <1>17, <1>18, <1>19, <1>20 DEF PassSound
<1>22. d \in SoundPass(enc, cmd)
  BY <1>3, <1>21 DEF SoundPass
<1>23. QED
  BY <1>22 DEF d, s

(* ... and so do all of them. *)
LEMMA PassIsSound ==
  ASSUME NEW enc \in SoundEncs, NEW cmd \in Commands, NEW unset \in SUBSET Cell
  PROVE  PassOf(enc, cmd, unset) \in SoundPass(enc, cmd)
<1>1. DEFINE q == cmd.steps
             n == Len(q)
             F == [op |-> "dispatch", cells |-> unset]
             S == SoundPass(enc, cmd)
             b == PassStart(enc)
<1>2. n \in Nat /\ DOMAIN q = 1..n
  BY CommandSteps
<1>3. \A a, x : Apply(F, a, x) = Dispatched(a, x, unset)
  BY DEF Apply
<1>4. PICK h : Follow(F, b, q, n, h) /\ h[n] = DispatchAll(unset, b, q)
  <2>1. HIDE DEF q, n, b
  <2>2. QED
    BY <1>2, DispatchFolds
<1>5. \A i \in 1..n : \A a \in S : Apply(F, a, q[i]) \in S
  <2>1. ASSUME NEW i \in 1..n, NEW a \in S PROVE Apply(F, a, q[i]) \in S
    <3>1. i \in DOMAIN cmd.steps
      BY <1>2
    <3>2. Dispatched(a, cmd.steps[i], unset) \in S
      BY <3>1, DispatchedSound
    <3>3. QED
      BY <3>2, <1>3
  <2>2. QED
    BY <2>1
<1>6. b \in S
  <2>1. enc \in TrackedEncs
    BY DEF SoundEncs
  <2>2. b \in ComputePass(cmd)
    BY <2>1, PassStarts
  <2>3. b.enc = enc /\ b.ops = <<>> /\ b.fixups = {}
    BY DEF PassStart
  <2>4. After(<<>>, b.ops, {})
    <3>1. DEFINE z == <<>>
    <3>2. After(z, z, {})
      BY AfterNothing
    <3>3. QED
      BY <2>3, <3>2
  <2>5. HIDE DEF b
  <2>6. PassSound(enc, b)
    BY <2>3, <2>4 DEF PassSound
  <2>7. QED
    BY <2>2, <2>6 DEF SoundPass
<1>7. PassOf(enc, cmd, unset) = DispatchAll(unset, b, q)
  BY DEF PassOf
<1>8. HIDE DEF F, n, q, b, S
<1>9. h[n] \in S
  BY <1>2, <1>4, <1>5, <1>6, FollowStays
<1>10. QED
  BY <1>4, <1>7, <1>9 DEF S

(* A refused command promises what was promised. *)
LEMMA RefusedSound ==
  ASSUME NEW enc \in SoundEncs
  PROVE  [enc EXCEPT !.ok = FALSE] \in SoundEncs
<1>1. DEFINE r == [enc EXCEPT !.ok = FALSE]
<1>2. enc \in TrackedEncs /\ enc \in Encs /\ Sound(enc.ops, enc.acts, enc.drops)
  BY DEF SoundEncs, TrackedEncs
<1>3. r.ops = enc.ops /\ r.acts = enc.acts /\ r.drops = enc.drops
  BY <1>2 DEF Encs
<1>4. r \in TrackedEncs
  BY <1>2, Refused
<1>5. HIDE DEF r
<1>6. r \in SoundEncs
  BY <1>2, <1>3, <1>4 DEF SoundEncs
<1>7. QED
  BY <1>6 DEF r

(* A compute pass keeps the command buffer's promise. *)
LEMMA ComputedSound ==
  ASSUME NEW enc \in SoundEncs, NEW cmd \in Commands, cmd.type = "compute",
         NEW unset \in SUBSET Cell, OneWay(cmd)
  PROVE  Computed(enc, cmd, unset) \in SoundEncs
<1>1. DEFINE p == PassOf(enc, cmd, unset)
<1>2. p \in SoundPass(enc, cmd)
  BY PassIsSound
<1>3. Computed(enc, cmd, unset) =
        IF \E i \in DOMAIN cmd.steps : Conflict(<<cmd.steps[i].use>>)
          THEN [enc EXCEPT !.ok = FALSE]
          ELSE PassEnded(p.enc, p.ops, p.tracker.start, p.tracker.end, p.fixups)
  BY ComputedSame, Zenon DEF ComputedIs
<1>4. HIDE DEF p
<1>5. /\ p \in PassRecs /\ p.enc \in TrackedEncs /\ PassSound(enc, p)
  BY <1>2 DEF ComputePass, SoundPass
<1>6. p.tracker \in Trackers /\ p.ops \in Seq(RawOps) /\ p.fixups \in SUBSET Cell
  BY <1>5 DEF PassRecs
<1>7. DEFINE f == p.tracker.start
             l == p.tracker.end
             e == p.enc
             o == p.ops
             x == p.fixups
             r == PassEnded(e, o, f, l, x)
             m == Inserted(e, f, x)
<1>8. f \in [Key -> State] /\ l \in [Key -> State]
  BY <1>6 DEF Trackers
<1>9. e \in TrackedEncs /\ o \in Seq(RawOps) /\ x \in SUBSET Cell
  BY <1>5, <1>6
<1>10. enc \in TrackedEncs /\ Sound(enc.ops, enc.acts, enc.drops)
  BY DEF SoundEncs
<1>11. /\ e.ops = enc.ops /\ After(<<>>, o, {}) /\ enc.drops \ x \subseteq e.drops
       /\ \A c \in Cell : Overwritten(e.acts, c) => Overwritten(enc.acts, c) \/ c \in x
  BY <1>5 DEF PassSound
<1>12. HIDE DEF f, l, e, o, x
<1>13. m \in Seq(RawOps) /\ After(e.ops, m, x)
  BY <1>8, <1>9, InsertedAfter
<1>14. Ended(e, o, f, l, x, r)
  BY <1>8, <1>9, PassEndedIs
<1>15. r.acts = e.acts /\ r.drops = e.drops /\ r.ops = m \o o
  BY <1>14 DEF Ended, Inserted
<1>16. HIDE DEF m, r
<1>17. After(enc.ops, r.ops, x)
  <2>1. DEFINE z == <<>>
               n == {}
               b == enc.ops
  <2>2. z = <<>> /\ After(z, o, n) /\ After(b, m, x) /\ b \in Seq(RawOps) /\ x \cup n = x
    BY <1>10, <1>11, <1>13 DEF TrackedEncs, Encs
  <2>3. HIDE DEF z, n, b
  <2>4. After(b, m \o o, x \cup n)
    BY <1>9, <1>13, <2>2, AfterBoth
  <2>5. QED
    BY <1>15, <2>2, <2>4 DEF b
<1>18. Sound(r.ops, r.acts, r.drops)
  <2>1. enc.drops \ x \subseteq r.drops
    BY <1>11, <1>15
  <2>2. \A c \in Cell : Overwritten(r.acts, c) => Overwritten(enc.acts, c) \/ c \in x
    BY <1>11, <1>15
  <2>3. QED
    BY <1>10, <1>17, <2>1, <2>2, SoundOn
<1>19. CASE \E i \in DOMAIN cmd.steps : Conflict(<<cmd.steps[i].use>>)
  <2>1. Computed(enc, cmd, unset) = [enc EXCEPT !.ok = FALSE]
    BY <1>3, <1>19
  <2>2. QED
    BY <2>1, RefusedSound
<1>20. CASE ~\E i \in DOMAIN cmd.steps : Conflict(<<cmd.steps[i].use>>)
  <2>1. Computed(enc, cmd, unset) = r
    BY <1>3, <1>20 DEF r, e, o, f, l, x
  <2>2. r \in TrackedEncs
    BY <1>10, <2>1, ComputedTracked
  <2>3. QED
    BY <1>18, <2>1, <2>2 DEF SoundEncs
<1>21. QED
  BY <1>19, <1>20

--------------------------------------------------------------------------------
(* ... render passes do,                                                       *)

(* A render pass.  What its draws use is no part of its attachment, or it is refused. *)
LEMMA TargetsApart ==
  ASSUME NEW cmd \in Commands, cmd.type = "render", ~Conflict(ScopeUses(cmd)),
         NEW c \in Cell, c \in StepReads(cmd) \cup StepPartial(cmd)
  PROVE  c \notin cmd.target
<1>1. SUFFICES ASSUME c \in cmd.target PROVE FALSE
  OBVIOUS
<1>2. PICK i \in DOMAIN cmd.steps : c \in cmd.steps[i].reads \cup cmd.steps[i].partial
  BY DEF StepReads, StepPartial
<1>3. DEFINE k == CellKey[c]
             u == [j \in DOMAIN cmd.steps |-> cmd.steps[j].use]
             n == Len(cmd.steps)
             t == TargetUse(cmd)
<1>4. /\ k \in Key /\ n \in Nat /\ DOMAIN cmd.steps = 1..n
      /\ \A j \in 1..n : cmd.steps[j] \in Steps
  BY CommandSteps, CellAssumption
<1>5. cmd.steps[i] \in Draws
  BY DEF Commands
<1>6. /\ "COLOR_TARGET" \notin u[i][k] /\ u[i][k] # {}
  BY <1>2, <1>5 DEF Draws
<1>7. u \in [1..n -> [Key -> State]] /\ \A j \in 1..n : u[j] \in [Key -> SUBSET Usage]
  BY <1>4, StepTypes DEF Steps
<1>8. t[k] = {"COLOR_TARGET"} /\ t \in [Key -> SUBSET Usage]
  <2>1. k \in KeysOf(cmd.target)
    BY <1>1 DEF KeysOf
  <2>2. "COLOR_TARGET" \in Usage
    BY ClearAssumption, OrderAssumption
  <2>3. QED
    BY <1>4, <2>1, <2>2 DEF TargetUse, Only
<1>9. ScopeUses(cmd) = Append(u, t)
  BY DEF ScopeUses
<1>10. i \in 1..n
  BY <1>4
<1>11. HIDE DEF u, t, n
<1>12. u \in Seq([Key -> State]) /\ Len(u) = n
  BY <1>4, <1>7
<1>13. DEFINE a == Append(u, t)
<1>14. /\ DOMAIN a = 1..(n + 1) /\ a[i] = u[i] /\ a[n + 1] = t
       /\ \A j \in 1..n : a[j] = u[j]
  BY <1>4, <1>10, <1>12
<1>15. HIDE DEF a
<1>16. DEFINE m == Merged(a)[k]
<1>17. m = UNION {a[j][k] : j \in DOMAIN a}
  BY <1>4 DEF Merged
<1>18. i \in DOMAIN a /\ n + 1 \in DOMAIN a
  BY <1>4, <1>10, <1>14
<1>19. u[i][k] \subseteq m /\ "COLOR_TARGET" \in m
  <2>1. a[i][k] \subseteq m /\ a[n + 1][k] \subseteq m
    BY <1>17, <1>18
  <2>2. QED
    BY <1>8, <1>14, <2>1
<1>20. m \subseteq Usage
  <2>1. \A j \in DOMAIN a : a[j][k] \subseteq Usage
    <3>1. ASSUME NEW j \in DOMAIN a PROVE a[j][k] \subseteq Usage
      <4>1. j \in 1..n \/ j = n + 1
        BY <1>4, <1>14
      <4>2. QED
        BY <1>4, <1>7, <1>8, <1>14, <4>1
    <3>2. QED
      BY <3>1
  <2>2. QED
    BY <1>17, <2>1
<1>21. m \cap Exclusive # {}
  BY <1>19, ClearAssumption
<1>22. HIDE DEF m
<1>23. Cardinality(m) # 1
  <2>1. SUFFICES ASSUME Cardinality(m) = 1 PROVE FALSE
    OBVIOUS
  <2>2. IsFiniteSet(m)
    BY <1>20, OrderAssumption, FS_Subset
  <2>3. PICK x : m = {x}
    BY <2>1, <2>2, FS_Singleton
  <2>4. QED
    BY <1>6, <1>19, <2>3
<1>24. InvalidResourceState(m)
  BY <1>21, <1>23 DEF InvalidResourceState
<1>25. Conflict(a)
  BY <1>4, <1>24 DEF Conflict, m
<1>26. QED
  BY <1>9, <1>25 DEF a

(* What a render pass does to memory. *)
RenderStored(enc, cmd, e, more) ==
    /\ e \in Encs /\ e.ops = enc.ops /\ e.tracker = enc.tracker
    /\ \A c \in Cell : Overwritten(e.acts, c) => Overwritten(enc.acts, c) \/ c \in more
    /\ e.drops = (IF cmd.load \/ cmd.store THEN enc.drops \ cmd.target ELSE enc.drops)
                 \cup (IF cmd.store THEN {} ELSE cmd.target)

(* What the attachments of a render pass register. *)
LEMMA StoredIs ==
  ASSUME NEW enc \in Encs, NEW cmd \in Commands, NEW unset \in SUBSET Cell
  PROVE  RenderStored(enc, cmd, Stored(enc, cmd, unset),
                      IF cmd.load THEN cmd.target \cap enc.drops
                      ELSE IF cmd.store THEN cmd.target ELSE {})
<1>1. cmd.target \in SUBSET Cell
  BY CommandSteps
<1>2. DEFINE a == Attached(enc, cmd, unset)
             s == Stored(enc, cmd, unset)
             more == IF cmd.load THEN cmd.target \cap enc.drops
                     ELSE IF cmd.store THEN cmd.target ELSE {}
<1>3. /\ a \in Encs /\ a.ops = enc.ops /\ a.tracker = enc.tracker
      /\ \A c \in Cell : Overwritten(a.acts, c) => Overwritten(enc.acts, c) \/ c \in more
      /\ a.drops = IF cmd.load \/ cmd.store THEN enc.drops \ cmd.target ELSE enc.drops
  <2>1. CASE cmd.load
    <3>1. a = Register(enc, cmd.target, "needs", unset)
      BY <2>1 DEF Attached
    <3>2. RegisteredAs(enc, cmd.target, cmd.target \cap enc.drops,
                       Register(enc, cmd.target, "needs", unset))
      BY <1>1, NeedsRegistered
    <3>3. HIDE DEF a
    <3>4. QED
      BY <2>1, <3>1, <3>2 DEF RegisteredAs
  <2>2. CASE ~cmd.load /\ cmd.store
    <3>1. a = Register(enc, cmd.target, "implicit", unset)
      BY <2>2 DEF Attached
    <3>2. RegisteredAs(enc, cmd.target, cmd.target \cap unset,
                       Register(enc, cmd.target, "implicit", unset))
      BY <1>1, ImplicitRegistered
    <3>3. HIDE DEF a
    <3>4. QED
      BY <2>2, <3>1, <3>2 DEF RegisteredAs
  <2>3. CASE ~cmd.load /\ ~cmd.store
    BY <2>3 DEF Attached
  <2>4. QED
    BY <2>1, <2>2, <2>3
<1>4. s = IF cmd.store THEN a ELSE [a EXCEPT !.drops = @ \cup cmd.target]
  BY DEF Stored
<1>5. HIDE DEF a, s, more
<1>6. CASE cmd.store
  BY <1>3, <1>4, <1>6 DEF RenderStored, s, more
<1>7. CASE ~cmd.store
  <2>1. s = [a EXCEPT !.drops = @ \cup cmd.target]
    BY <1>4, <1>7
  <2>2. /\ s \in Encs /\ s.ops = a.ops /\ s.tracker = a.tracker
        /\ s.acts = a.acts /\ s.drops = a.drops \cup cmd.target
    BY <1>1, <1>3, <2>1 DEF Encs
  <2>3. QED
    BY <1>3, <1>7, <2>2 DEF RenderStored, s, more
<1>8. QED
  BY <1>6, <1>7

(* The pass itself, after what was inserted before it. *)
LEMMA PassGarbage ==
  ASSUME NEW m \in Seq(RawOps), NEW w \in WorkOps, w.value = "computed",
         NEW g \in GpuStates, NEW c \in Cell, Execute(g, m \o <<w>>).mem[c] = "garbage"
  PROVE  c \in w.drops \/ (c \notin w.writes /\ Execute(g, m).mem[c] = "garbage")
<1>1. DEFINE h == Execute(g, m)
<1>2. Execute(g, m \o <<w>>) = Execute(h, <<w>>)
  <2>1. DEFINE o == <<w>>
  <2>2. o \in Seq(RawOps)
    BY DEF RawOps
  <2>3. HIDE DEF o
  <2>4. Execute(g, m \o o) = Execute(Execute(g, m), o)
    BY <2>2, RunJoined
  <2>5. QED
    BY <2>4 DEF o
<1>3. Execute(h, <<w>>) = Ran(h, w)
  BY RunOne
<1>4. h \in GpuStates
  BY RunTypes
<1>5. HIDE DEF h
<1>6. Ran(h, w).mem = [d \in Cell |->
                          IF d \in w.drops THEN "garbage"
                          ELSE IF d \in w.writes THEN w.value
                          ELSE IF d \in w.partial /\ h.mem[d] # "garbage" THEN w.value
                          ELSE h.mem[d]]
  BY <1>4, RanWork
<1>7. QED
  BY <1>2, <1>3, <1>6 DEF h

(* A render pass keeps the command buffer's promise. *)
LEMMA RenderedSound ==
  ASSUME NEW enc \in SoundEncs, NEW cmd \in Commands, cmd.type = "render",
         NEW unset \in SUBSET Cell
  PROVE  Rendered(enc, cmd, unset) \in SoundEncs
<1>1. enc \in TrackedEncs /\ enc \in Encs /\ Sound(enc.ops, enc.acts, enc.drops)
      /\ enc.drops \in SUBSET Cell
  BY DEF SoundEncs, TrackedEncs, Encs
<1>2. CASE Conflict(ScopeUses(cmd))
  <2>1. Rendered(enc, cmd, unset) = [enc EXCEPT !.ok = FALSE]
    BY <1>2, RenderedSame, Zenon DEF RenderedIs
  <2>2. QED
    BY <2>1, RefusedSound
<1>3. CASE ~Conflict(ScopeUses(cmd))
  <2>1. DEFINE st == Stored(enc, cmd, unset)
               needs == StepReads(cmd) \cup StepPartial(cmd)
               dr == Drawn(enc, cmd, unset)
               w == PassWork(cmd)
               u == Scope(cmd)
               x == PassFixups(enc, cmd, unset)
               m == Inserted(dr, u, x)
               o == <<w>>
               r == PassEnded(dr, o, u, u, x)
               a == IF cmd.load THEN cmd.target \cap enc.drops
                    ELSE IF cmd.store THEN cmd.target ELSE {}
  <2>2. Rendered(enc, cmd, unset) = r
    BY <1>3, RenderedSame, Zenon DEF RenderedIs
  <2>3. Rendered(enc, cmd, unset) \in TrackedEncs
    BY <1>1, RenderedTracked
  <2>4. /\ needs \in SUBSET Cell /\ u \in [Key -> State] /\ w \in WorkOps
        /\ w.writes = (IF cmd.load THEN {} ELSE cmd.target)
        /\ w.drops = (IF cmd.store THEN {} ELSE cmd.target) /\ w.value = "computed"
    BY PassWorks
  <2>5. cmd.target \in SUBSET Cell
    BY CommandSteps
  <2>6. RenderStored(enc, cmd, st, a)
    BY <1>1, StoredIs
  <2>7. \A c \in Cell : c \in needs => c \notin cmd.target
    BY <1>3, TargetsApart
  <2>8. dr = Register(st, needs, "needs", unset)
    BY DEF Drawn
  <2>9. x = Discarded(enc, Loaded(cmd)) \cup Discarded(st, needs)
    BY DEF PassFixups
  <2>10. x = (Loaded(cmd) \cap enc.drops) \cup (needs \cap st.drops)
    BY <2>9 DEF Discarded
  <2>11. Loaded(cmd) = IF cmd.load THEN cmd.target ELSE {}
    BY DEF Loaded
  <2>12. HIDE DEF st, needs, dr, w, u, x
  <2>13. /\ st \in Encs /\ st.ops = enc.ops
         /\ \A c \in Cell : Overwritten(st.acts, c) => Overwritten(enc.acts, c) \/ c \in a
         /\ st.drops = (IF cmd.load \/ cmd.store THEN enc.drops \ cmd.target ELSE enc.drops)
                       \cup (IF cmd.store THEN {} ELSE cmd.target)
    BY <2>6 DEF RenderStored
  <2>14. RegisteredAs(st, needs, needs \cap st.drops, dr)
    BY <2>4, <2>8, <2>13, NeedsRegistered
  <2>15. /\ dr \in Encs /\ dr.ops = enc.ops /\ dr.drops = st.drops \ needs
         /\ \A c \in Cell : Overwritten(dr.acts, c) =>
               Overwritten(enc.acts, c) \/ c \in a \/ c \in needs \cap st.drops
    BY <2>13, <2>14 DEF RegisteredAs
  <2>16. x \in SUBSET Cell
    BY <1>1, <2>4, <2>5, <2>10, <2>11
  <2>17. dr \in TrackedEncs
    <3>1. dr.tracker = enc.tracker
      <4>1. st.tracker = enc.tracker
        BY <2>6 DEF RenderStored
      <4>2. QED
        BY <2>14, <4>1 DEF RegisteredAs
    <3>2. QED
      BY <1>1, <2>15, <3>1 DEF TrackedEncs
  <2>18. m \in Seq(RawOps) /\ After(dr.ops, m, x)
    BY <2>4, <2>16, <2>17, InsertedAfter
  <2>19. o \in Seq(RawOps)
    BY <2>4 DEF RawOps
  <2>20. Ended(dr, o, u, u, x, r)
    <3>1. HIDE DEF o
    <3>2. QED
      BY <2>4, <2>16, <2>17, <2>19, PassEndedIs
  <2>21. r.acts = dr.acts /\ r.drops = dr.drops /\ r.ops = m \o o
    BY <2>20 DEF Ended, Inserted
  <2>22. HIDE DEF m, a, r
  <2>23. ASSUME NEW g \in GpuStates, NEW c \in Cell, Execute(g, r.ops).mem[c] = "garbage"
         PROVE  c \in r.drops \/ (g.mem[c] = "garbage" /\ ~Overwritten(r.acts, c))
    <3>1. c \in w.drops \/ (c \notin w.writes /\ Execute(g, m).mem[c] = "garbage")
      BY <2>4, <2>18, <2>21, <2>23, PassGarbage
    <3>2. CASE c \in w.drops
      <4>1. c \in cmd.target /\ ~cmd.store
        BY <2>4, <3>2
      <4>2. c \in st.drops /\ c \notin needs
        BY <2>7, <2>13, <4>1
      <4>3. QED
        BY <2>15, <2>21, <4>2
    <3>3. CASE c \notin w.drops /\ c \notin w.writes /\ Execute(g, m).mem[c] = "garbage"
      <4>1. Execute(g, enc.ops).mem[c] = "garbage" /\ c \notin x
        BY <2>15, <2>18, <3>3 DEF After
      <4>2. c \in enc.drops \/ (g.mem[c] = "garbage" /\ ~Overwritten(enc.acts, c))
        BY <1>1, <4>1 DEF Sound
      <4>3. CASE c \in enc.drops
        <5>1. c \notin cmd.target
          BY <2>4, <2>10, <2>11, <3>3, <4>1, <4>3
        <5>2. c \in st.drops
          BY <2>13, <4>3, <5>1
        <5>3. c \notin needs
          BY <2>10, <4>1, <5>2
        <5>4. QED
          BY <2>15, <2>21, <5>2, <5>3
      <4>4. CASE g.mem[c] = "garbage" /\ ~Overwritten(enc.acts, c)
        <5>1. c \notin a
          BY <2>4, <2>10, <2>11, <3>3, <4>1 DEF a
        <5>2. c \notin needs \cap st.drops
          BY <2>10, <4>1
        <5>3. ~Overwritten(dr.acts, c)
          BY <2>15, <4>4, <5>1, <5>2
        <5>4. QED
          BY <2>21, <4>4, <5>3
      <4>5. QED
        BY <4>2, <4>3, <4>4
    <3>4. QED
      BY <3>1, <3>2, <3>3
  <2>24. Sound(r.ops, r.acts, r.drops)
    BY <2>23 DEF Sound
  <2>25. QED
    BY <2>2, <2>3, <2>24 DEF SoundEncs
<1>4. QED
  BY <1>2, <1>3

--------------------------------------------------------------------------------
(* ... and so does every command; and what is resolved at a submit.            *)

(* Every command keeps the command buffer's promise, *)
LEMMA EncodeSound ==
  ASSUME NEW enc \in SoundEncs, NEW cmd \in Commands, OneWay(cmd), NEW unset \in SUBSET Cell
  PROVE  EncodeCommand(enc, cmd, unset) \in SoundEncs
<1>1. enc.ok \in BOOLEAN /\ cmd.type \in {"transfer", "compute", "render"}
  BY CommandSteps DEF SoundEncs, TrackedEncs, Encs
<1>2. CASE ~enc.ok
  BY <1>2 DEF EncodeCommand
<1>3. CASE enc.ok /\ cmd.type = "transfer"
  <2>1. EncodeCommand(enc, cmd, unset) = Transferred(enc, cmd, unset)
    BY <1>3 DEF EncodeCommand
  <2>2. QED
    BY <1>3, <2>1, TransferredSound
<1>4. CASE enc.ok /\ cmd.type = "compute"
  <2>1. EncodeCommand(enc, cmd, unset) = Computed(enc, cmd, unset)
    BY <1>4 DEF EncodeCommand
  <2>2. QED
    BY <1>4, <2>1, ComputedSound
<1>5. CASE enc.ok /\ cmd.type = "render"
  <2>1. EncodeCommand(enc, cmd, unset) = Rendered(enc, cmd, unset)
    BY <1>5 DEF EncodeCommand
  <2>2. QED
    BY <1>5, <2>1, RenderedSound
<1>6. QED
  BY <1>1, <1>2, <1>3, <1>4, <1>5

(* ... an empty command buffer promises nothing, *)
LEMMA FreshSound == Fresh \in SoundEncs
<1>1. DEFINE f == Fresh
             z == <<>>
<1>2. f \in TrackedEncs /\ f.ops = z /\ f.acts = z
  BY FreshTracked
<1>3. \A g : Execute(g, z) = g
  BY RunEmpty
<1>4. \A c : ~Overwritten(z, c)
  BY DEF Overwritten
<1>5. HIDE DEF f, z
<1>6. Sound(f.ops, f.acts, f.drops)
  BY <1>2, <1>3, <1>4 DEF Sound
<1>7. QED
  BY <1>2, <1>6 DEF SoundEncs, f

(* ... so a finished one keeps its promise, wherever it will run. *)
LEMMA EncodesSound ==
  ASSUME NEW cmds \in Seq(Commands), \A i \in DOMAIN cmds : OneWay(cmds[i]),
         NEW unset \in SUBSET Cell
  PROVE  EncodeCommands(cmds, unset) \in SoundEncs
<1>1. DEFINE n == Len(cmds)
             F == [op |-> "encode", cells |-> unset]
             b == Fresh
<1>2. n \in Nat /\ DOMAIN cmds = 1..n /\ \A i \in 1..n : cmds[i] \in Commands /\ OneWay(cmds[i])
  OBVIOUS
<1>3. EncodeCommands(cmds, unset) = EncodeAll(unset, b, cmds)
  BY Zenon DEF EncodeCommands, EncodeAll
<1>4. b \in SoundEncs
  BY FreshSound
<1>5. HIDE DEF n, b
<1>6. PICK h : Follow(F, b, cmds, n, h) /\ h[n] = EncodeAll(unset, b, cmds)
  BY <1>2, EncodeFolds
<1>7. \A a, x : Apply(F, a, x) = EncodeCommand(a, x, unset)
  BY DEF Apply
<1>8. HIDE DEF F
<1>9. \A i \in 1..n : \A a \in SoundEncs : Apply(F, a, cmds[i]) \in SoundEncs
  BY <1>2, <1>7, EncodeSound
<1>10. h[n] \in SoundEncs
  BY <1>2, <1>4, <1>6, <1>9, FollowStays
<1>11. QED
  BY <1>3, <1>6, <1>10

(* The buffers that need it are cleared. *)
LEMMA BuffersAfter ==
  ASSUME NEW out \in Outs \cup Encs, NEW acts \in Seq(Acts), NEW clear \in SUBSET Cell
  PROVE  After(out.ops, BuffersInitialized(out, acts, clear).ops,
               {c \in clear : CellKey[c] \in NeedyBuffers(acts)})
<1>1. DEFINE T == NeedyBuffers(acts)
             q == SetToSeq(T)
             n == Len(q)
             F == [op |-> "buffers", cells |-> clear]
             b == out.ops
             all == {c \in clear : CellKey[c] \in T}
<1>2. IsFiniteSet(T) /\ T \in SUBSET Key
  BY NeedyTypes
<1>3. q \in Seq(T) /\ \A x \in T : \E i \in 1..n : q[i] = x
  <2>1. HIDE DEF T
  <2>2. QED
    BY <1>2, SetSequence
<1>4. BuffersInitialized(out, acts, clear) = BufferAll(clear, out, q)
  BY Zenon DEF BuffersInitialized, BufferAll
<1>5. \A a, x : Apply(F, a, x) = Cleared(a, x, CellsOf(x, clear))
  BY DEF Apply, CellsOf
<1>6. HIDE DEF q, T
<1>7. n \in Nat /\ DOMAIN q = 1..n /\ \A i \in 1..n : q[i] \in T /\ q[i] \in Key
  BY <1>2, <1>3
<1>8. PICK h : Follow(F, out, q, n, h) /\ h[n] = BufferAll(clear, out, q)
  BY <1>7, BufferFolds
<1>9. DEFINE D == [i \in 0..n |-> {c \in clear : \E j \in 1..i : CellKey[c] = q[j]}]
             P == [i \in 0..n |-> AfterOuts(b, D[i])]
<1>10. out \in P[0]
  <2>1. D[0] = {} /\ P[0] = AfterOuts(b, D[0])
    BY <1>7
  <2>2. QED
    BY <2>1, AfterNothing DEF AfterOuts
<1>11. HIDE DEF F, n, b
<1>12. \A i \in 1..n : \A a \in P[i - 1] : Apply(F, a, q[i]) \in P[i]
  <2>1. ASSUME NEW i \in 1..n, NEW a \in P[i - 1] PROVE Apply(F, a, q[i]) \in P[i]
    <3>1. i \in 0..n /\ i - 1 \in 0..n
      BY <1>7
    <3>2. /\ P[i] = AfterOuts(b, D[i]) /\ P[i - 1] = AfterOuts(b, D[i - 1])
      BY <3>1
    <3>3. D[i] \subseteq D[i - 1] \cup CellsOf(q[i], clear)
      <4>1. ASSUME NEW c \in clear, NEW j \in 1..i, CellKey[c] = q[j], CellKey[c] # q[i]
            PROVE  j \in 1..(i - 1)
        BY <1>7, <3>1, <4>1
      <4>2. QED
        BY <3>1, <4>1 DEF CellsOf
    <3>4. q[i] \in Key /\ CellsOf(q[i], clear) \in SUBSET Cell
      BY <1>7 DEF CellsOf
    <3>5. HIDE DEF P, D
    <3>6. Cleared(a, q[i], CellsOf(q[i], clear)) \in AfterOuts(b, D[i])
      <4>1. DEFINE d == D[i]
                   e == D[i - 1]
                   k == q[i]
                   m == CellsOf(q[i], clear)
      <4>2. a \in AfterOuts(b, e) /\ d \subseteq e \cup m /\ k \in Key /\ m \in SUBSET Cell
        BY <2>1, <3>2, <3>3, <3>4
      <4>3. HIDE DEF d, e, k, m
      <4>4. Cleared(a, k, m) \in AfterOuts(b, d)
        BY <4>2, ClearedAfter
      <4>5. QED
        BY <4>4 DEF d, k, m
    <3>7. QED
      BY <1>5, <3>2, <3>6
  <2>2. QED
    BY <2>1
<1>13. P[n] = AfterOuts(b, D[n]) /\ all \subseteq D[n]
  <2>1. n \in 0..n
    BY <1>7
  <2>2. QED
    BY <1>3, <2>1 DEF n
<1>14. h[n] \in P[n]
  <2>1. HIDE DEF P
  <2>2. \A i \in 0..n : h[i] \in P[i]
    BY <1>7, <1>8, <1>10, <1>12, FollowHolds
  <2>3. QED
    BY <1>7, <2>2
<1>15. HIDE DEF D, P, all
<1>16. After(b, BuffersInitialized(out, acts, clear).ops, D[n])
  BY <1>4, <1>8, <1>13, <1>14 DEF AfterOuts
<1>17. After(b, BuffersInitialized(out, acts, clear).ops, all)
  BY <1>13, <1>16, AfterEqual
<1>18. QED
  BY <1>17 DEF b, all, T

(* What resolving the actions leaves: a cell that is neither cleared nor            *)
(* overwritten stays uninitialized, and what is cleared was needed.                *)
LEMMA ResolvedKeeps ==
  ASSUME NEW acts \in Seq(Acts), NEW unset \in SUBSET Cell, NEW c \in unset,
         ~Overwritten(acts, c)
  PROVE  c \in Resolved(acts, unset).clear \/ c \in Resolved(acts, unset).uninit
<1>1. DEFINE n == Len(acts)
             F == [op |-> "resolve"]
             b == [clear |-> {}, uninit |-> unset]
             S == {a \in Resolutions : c \in a.clear \/ c \in a.uninit}
<1>2. /\ n \in Nat /\ DOMAIN acts = 1..n
      /\ \A i \in 1..n : /\ acts[i] \in Acts
                         /\ acts[i].kind = "needs" \/ c \notin acts[i].cells
  <2>1. n \in Nat /\ DOMAIN acts = 1..n /\ \A i \in 1..n : acts[i] \in Acts
    OBVIOUS
  <2>2. \A i \in 1..n : acts[i].kind # "implicit" \/ c \notin acts[i].cells
    BY <2>1 DEF Overwritten
  <2>3. \A i \in 1..n : acts[i].kind \in {"needs", "implicit"}
    BY <2>1 DEF Acts
  <2>4. QED
    BY <2>1, <2>2, <2>3
<1>3. Resolved(acts, unset) = ResolveAll(b, acts)
  BY Zenon DEF Resolved, ResolveAll
<1>4. b \in S
  BY DEF Resolutions
<1>5. HIDE DEF n, b
<1>6. PICK h : Follow(F, b, acts, n, h) /\ h[n] = ResolveAll(b, acts)
  BY <1>2, ResolveFolds
<1>7. \A a, x : Apply(F, a, x) = Drained(a, x)
  BY DEF Apply
<1>8. HIDE DEF F
<1>9. \A i \in 1..n : \A a \in S : Apply(F, a, acts[i]) \in S
  <2>1. ASSUME NEW i \in 1..n, NEW a \in S PROVE Apply(F, a, acts[i]) \in S
    <3>1. DEFINE x == acts[i]
                 r == Drained(a, x)
    <3>2. x \in Acts /\ (x.kind = "needs" \/ c \notin x.cells)
      BY <1>2
    <3>3. a \in Resolutions /\ (c \in a.clear \/ c \in a.uninit)
      OBVIOUS
    <3>4. HIDE DEF x
    <3>5. /\ r.clear = IF x.kind = "needs" THEN a.clear \cup (x.cells \cap a.uninit) ELSE a.clear
          /\ r.uninit = a.uninit \ x.cells /\ r \in Resolutions
      BY <3>2, <3>3 DEF Drained, Resolutions, Acts
    <3>6. HIDE DEF r
    <3>7. c \in r.clear \/ c \in r.uninit
      BY <3>2, <3>3, <3>5
    <3>8. QED
      BY <1>7, <3>5, <3>7 DEF r, x
  <2>2. QED
    BY <2>1
<1>10. HIDE DEF S
<1>11. h[n] \in S
  BY <1>2, <1>4, <1>6, <1>9, FollowStays
<1>12. QED
  BY <1>3, <1>6, <1>11 DEF S

NeedCells(acts) == UNION {acts[i].cells : i \in {j \in DOMAIN acts : acts[j].kind = "needs"}}

(* What is cleared at a submit is what a command buffer needs. *)
LEMMA ResolvedNeeds ==
  ASSUME NEW acts \in Seq(Acts), NEW unset \in SUBSET Cell
  PROVE  Resolved(acts, unset).clear \subseteq NeedCells(acts)
<1>1. DEFINE n == Len(acts)
             F == [op |-> "resolve"]
             b == [clear |-> {}, uninit |-> unset]
             N == NeedCells(acts)
             S == {a \in Resolutions : a.clear \subseteq N}
<1>2. /\ n \in Nat /\ DOMAIN acts = 1..n
      /\ \A i \in 1..n : acts[i] \in Acts /\ (acts[i].kind = "needs" => acts[i].cells \subseteq N)
  BY DEF NeedCells
<1>3. Resolved(acts, unset) = ResolveAll(b, acts)
  BY Zenon DEF Resolved, ResolveAll
<1>4. b \in S
  BY DEF Resolutions
<1>5. HIDE DEF n, b, N
<1>6. PICK h : Follow(F, b, acts, n, h) /\ h[n] = ResolveAll(b, acts)
  BY <1>2, ResolveFolds
<1>7. \A a, x : Apply(F, a, x) = Drained(a, x)
  BY DEF Apply
<1>8. HIDE DEF F
<1>9. \A i \in 1..n : \A a \in S : Apply(F, a, acts[i]) \in S
  <2>1. ASSUME NEW i \in 1..n, NEW a \in S PROVE Apply(F, a, acts[i]) \in S
    <3>1. DEFINE x == acts[i]
                 r == Drained(a, x)
    <3>2. x \in Acts /\ (x.kind = "needs" => x.cells \subseteq N)
      BY <1>2
    <3>3. a \in Resolutions /\ a.clear \subseteq N
      OBVIOUS
    <3>4. HIDE DEF x
    <3>5. /\ r.clear = IF x.kind = "needs" THEN a.clear \cup (x.cells \cap a.uninit) ELSE a.clear
          /\ r \in Resolutions
      BY <3>2, <3>3 DEF Drained, Resolutions, Acts
    <3>6. HIDE DEF r
    <3>7. r.clear \subseteq N
      BY <3>2, <3>3, <3>5
    <3>8. QED
      BY <1>7, <3>5, <3>7 DEF r, x
  <2>2. QED
    BY <2>1
<1>10. HIDE DEF S
<1>11. h[n] \in S
  BY <1>2, <1>4, <1>6, <1>9, FollowStays
<1>12. QED
  BY <1>3, <1>6, <1>11 DEF S, N

--------------------------------------------------------------------------------
(* The inductive invariant Watched: garbage is known to be uninitialized.      *)

(* Lists that leave no garbage, one after the other. *)
LEMMA AfterThen ==
  ASSUME NEW base, NEW x, NEW cells, After(base, x, cells), NEW y, NEW more, After(x, y, more)
  PROVE  After(base, y, cells \cup more)
BY DEF After

(* What runs before a command buffer's own commands clears what they need. *)
LEMMA PreparedAfter ==
  ASSUME NEW t \in Trackers, NEW acts \in Seq(Acts), NEW enc, enc.acts = acts,
         NEW unset \in SUBSET Cell
  PROVE  After(<<>>, Prepared(enc, t, unset).ops, Resolved(acts, unset).clear)
<1>1. DEFINE z == <<>>
             o == [tracker |-> t, ops |-> z]
             cl == Resolved(acts, unset).clear
             b == BuffersInitialized(o, acts, cl)
             rest == cl \ BufferCells
             done == {c \in cl : CellKey[c] \in NeedyBuffers(acts)}
             p == Prepared(enc, t, unset)
<1>2. cl \in SUBSET Cell
  BY ResolvedTypes DEF Resolutions
<1>3. cl \subseteq NeedCells(acts)
  BY ResolvedNeeds
<1>4. o \in Outs /\ o \in Outs \cup Encs /\ o.ops = z
  <2>1. z \in Seq(RawOps)
    OBVIOUS
  <2>2. HIDE DEF z
  <2>3. QED
    BY <2>1 DEF Outs
<1>5. p = TexturesCleared(b, rest)
  BY DEF Prepared
<1>6. HIDE DEF cl
<1>7. cl \subseteq done \cup rest
  BY <1>2, <1>3 DEF NeedyBuffers, KeysOf, BufferCells, NeedCells
<1>8. rest \in SUBSET Cell
  BY <1>2
<1>9. HIDE DEF o, z, rest, p
<1>10. After(z, b.ops, done)
  BY <1>2, <1>4, BuffersAfter
<1>11. b \in Outs
  <2>1. \A a \in Outs : \A k \in NeedyBuffers(acts) : Cleared(a, k, CellsOf(k, cl)) \in Outs
    <3>1. ASSUME NEW a \in Outs, NEW k \in NeedyBuffers(acts)
          PROVE  Cleared(a, k, CellsOf(k, cl)) \in Outs
      <4>1. k \in Key /\ CellsOf(k, cl) \in SUBSET Cell /\ a \in Outs \cup Encs
        BY <1>2, NeedyTypes DEF CellsOf
      <4>2. /\ ClearWork(k, CellsOf(k, cl)) \in WorkOps
            /\ Cleared(a, k, CellsOf(k, cl)) = Performed(a, ClearWork(k, CellsOf(k, cl)))
        BY <4>1, ClearedIs
      <4>3. QED
        BY <4>2, PerformedOut
    <3>2. QED
      BY <3>1
  <2>2. QED
    BY <1>2, <1>4, <2>1, BuffersStay
<1>12. HIDE DEF b, done
<1>13. After(b.ops, p.ops, rest)
  BY <1>5, <1>8, <1>11, TexturesAfter
<1>14. After(z, p.ops, done \cup rest)
  BY <1>10, <1>13, AfterThen
<1>15. After(z, p.ops, cl)
  BY <1>7, <1>14, AfterEqual
<1>16. QED
  BY <1>15 DEF z, p, cl

(* Baking keeps track of garbage. *)
LEMMA BakedSound ==
  ASSUME NEW g \in GpuStates, NEW t \in Trackers, Knows(g, t, <<>>),
         NEW enc \in SoundEncs, NEW unset \in SUBSET Cell,
         \A c \in Cell : g.mem[c] = "garbage" => c \in unset,
         NEW c \in Cell, Execute(g, Baked(enc, t, unset).ops).mem[c] = "garbage"
  PROVE  c \in Baked(enc, t, unset).uninit
<1>1. DEFINE p == Prepared(enc, t, unset)
             r == Baked(enc, t, unset)
             f == enc.tracker.start
             cl == Resolved(enc.acts, unset).clear
             un == Resolved(enc.acts, unset).uninit
             z == <<>>
<1>2. /\ enc \in TrackedEncs /\ Sound(enc.ops, enc.acts, enc.drops)
      /\ enc.acts \in Seq(Acts) /\ enc.ops \in Seq(RawOps) /\ enc.drops \in SUBSET Cell
      /\ enc.tracker \in Trackers /\ f \in [Key -> State]
  BY DEF SoundEncs, TrackedEncs, Encs, Trackers
<1>3. p \in KnowingOuts(g) /\ After(z, p.ops, cl)
  <2>1. DEFINE acts == enc.acts
  <2>2. acts \in Seq(Acts) /\ enc.acts = acts
    BY <1>2
  <2>3. HIDE DEF acts
  <2>4. p \in KnowingOuts(g)
    BY <2>2, PreparedKnows
  <2>5. After(<<>>, p.ops, Resolved(acts, unset).clear)
    BY <2>2, PreparedAfter
  <2>6. QED
    BY <2>4, <2>5 DEF acts
<1>4. p \in Outs
  BY <1>3 DEF KnowingOuts
<1>5. p.ops \in Seq(RawOps) /\ p.tracker.end \in [Key -> State]
  BY <1>4 DEF Outs, Trackers
<1>6. r.ops = FromDevice(p, enc.tracker).ops \o enc.ops /\ r.uninit = StillUninit(enc, un)
  BY BakedIs
<1>7. HIDE DEF p, r, f, cl, un
<1>8. FromDevice(p, enc.tracker).ops = p.ops \o Barriers(p.tracker.end, f)
  BY <1>2, <1>4, FromDeviceIs DEF f
<1>9. DEFINE x == p.ops \o Barriers(p.tracker.end, f)
             y == enc.ops
             h == Execute(g, x)
<1>10. x \in Seq(RawOps)
  <2>1. Barriers(p.tracker.end, f) \in Seq(RawOps)
    BY <1>2, <1>5, BarrierTypes
  <2>2. QED
    BY <1>5, <2>1
<1>11. After(z, x, cl)
  BY <1>2, <1>3, <1>5, AfterBarriers
<1>12. r.ops = x \o y /\ y \in Seq(RawOps)
  BY <1>2, <1>6, <1>8
<1>13. HIDE DEF x
<1>14. h \in GpuStates
  BY <1>10, RunTypes
<1>15. Execute(g, r.ops) = Execute(h, y)
  <2>1. HIDE DEF y
  <2>2. QED
    BY <1>10, <1>12, RunJoined
<1>16. Execute(h, y).mem[c] = "garbage"
  BY <1>15 DEF r
<1>17. Execute(g, z) = g
  BY RunEmpty
<1>18. \A d \in Cell : h.mem[d] = "garbage" => g.mem[d] = "garbage" /\ d \notin cl
  <2>1. HIDE DEF z
  <2>2. QED
    BY <1>11, <1>17 DEF After
<1>19. HIDE DEF h
<1>20. c \in enc.drops \/ (h.mem[c] = "garbage" /\ ~Overwritten(enc.acts, c))
  BY <1>2, <1>14, <1>16 DEF Sound
<1>21. CASE c \in enc.drops
  <2>1. c \in r.uninit
    BY <1>6, <1>21 DEF StillUninit
  <2>2. QED
    BY <2>1 DEF r
<1>22. CASE h.mem[c] = "garbage" /\ ~Overwritten(enc.acts, c)
  <2>1. c \in unset /\ c \notin cl
    BY <1>18, <1>22
  <2>2. c \in cl \/ c \in un
    BY <1>2, <1>22, <2>1, ResolvedKeeps DEF cl, un
  <2>3. c \in r.uninit
    BY <1>6, <2>1, <2>2 DEF StillUninit
  <2>4. QED
    BY <2>3 DEF r
<1>23. QED
  BY <1>20, <1>21, <1>22

Watched ==
    /\ Kept
    /\ \A e \in Encoder : encoded[e] \in SoundEncs
    /\ \A c \in Cell : Ahead.mem[c] = "garbage" => c \in uninit

(* At the start everything is known to be uninitialized. *)
LEMMA WatchedInit == Init => Watched
<1>1. SUFFICES ASSUME Init PROVE Watched
  OBVIOUS
<1>2. Kept /\ uninit = Cell
  BY <1>1, KeptInit DEF Init
<1>3. \A e \in Encoder : encoded[e] \in SoundEncs
  BY <1>1, FreshSound DEF Init
<1>4. QED
  BY <1>2, <1>3 DEF Watched

(* CommandEncoder::finish. *)
LEMMA FinishWatches ==
  ASSUME Scoped, Watched, NEW e \in Encoder, NEW cmds \in Script, Finish(e, cmds)
  PROVE  Watched'
<1>1. DEFINE enc == EncodeCommands(cmds, uninit)
<1>2. /\ encoded' = [encoded EXCEPT ![e] = IF enc.ok THEN enc ELSE Fresh]
      /\ UNCHANGED <<uninit, pending, batch, gpu>>
  BY DEF Finish
<1>3. Kept /\ Kept' /\ \A c \in Cell : Ahead.mem[c] = "garbage" => c \in uninit
  BY FinishKeeps DEF Watched
<1>4. enc \in SoundEncs
  <2>1. cmds \in Seq(Commands) /\ \A i \in DOMAIN cmds : OneWay(cmds[i])
    BY StreamAssumption DEF Scoped, SplitFree
  <2>2. QED
    BY <2>1, <1>3, EncodesSound DEF Kept, Typed
<1>5. HIDE DEF enc
<1>6. \A d \in Encoder : encoded'[d] \in SoundEncs
  BY <1>2, <1>3, <1>4, FreshSound DEF Kept, Typed, Watched
<1>7. Ahead' = Ahead
  BY <1>2 DEF Ahead
<1>8. QED
  BY <1>2, <1>3, <1>6, <1>7 DEF Watched

(* Queue::write_buffer and write_texture clear what they do not cover. *)
LEMMA WriteWatches ==
  ASSUME Scoped, Watched, NEW w \in Write, QueueWrite(w)
  PROVE  Watched'
<1>1. /\ Kept /\ Kept' /\ \A c \in Cell : Ahead.mem[c] = "garbage" => c \in uninit
      /\ Typed
  BY WriteKeeps DEF Watched, Kept
<1>2. DEFINE t == Written(w)
             k == Copied(w)
             r == Performed(t, k)
             o == [tracker |-> device, ops |-> pending]
             x == IF w.whole THEN {} ELSE w.cells \cap uninit
<1>3. /\ t \in KnowingOuts(gpu) /\ pending' = r.ops /\ r \in KnowingOuts(gpu)
      /\ batch.baked = <<>>
  BY <1>1, WriteIs
<1>4. /\ uninit' = uninit \ w.cells /\ UNCHANGED <<encoded, batch, gpu>>
  BY Zenon DEF QueueWrite
<1>5. /\ w.cells \in SUBSET Cell /\ k \in WorkOps /\ k.drops = {} /\ k.value = "queued"
      /\ k.writes = (IF w.whole THEN w.cells ELSE {})
  BY <1>1, WriteTypes
<1>6. o \in Outs \cup Encs /\ o.ops = pending /\ pending \in Seq(RawOps)
  BY <1>1 DEF Outs, Typed
<1>7. x \in SUBSET Cell
  BY <1>5
<1>8. t = TexturesCleared(o, x)
  BY DEF Written
<1>9. t \in Outs \cup Encs /\ r.ops \in Seq(RawOps)
  BY <1>3 DEF KnowingOuts, Outs
<1>10. HIDE DEF t, k, r, o, x
<1>11. After(pending, t.ops, x)
  BY <1>6, <1>7, <1>8, TexturesAfter
<1>12. After(pending, r.ops, x \cup k.writes)
  BY <1>5, <1>9, <1>11, PerformedAfter DEF r
<1>13. pending \o batch.baked = pending /\ pending' \o batch'.baked = r.ops
  <2>1. pending \o <<>> = pending /\ r.ops \o <<>> = r.ops
    BY <1>6, <1>9
  <2>2. QED
    BY <1>3, <1>4, <2>1
<1>14. gpu \in GpuStates
  BY <1>1 DEF Typed
<1>15. ASSUME NEW c \in Cell, Ahead'.mem[c] = "garbage" PROVE c \in uninit'
  <2>1. Execute(gpu, r.ops).mem[c] = "garbage"
    BY <1>4, <1>13, <1>15 DEF Ahead
  <2>2. Execute(gpu, pending).mem[c] = "garbage" /\ c \notin x \cup k.writes
    BY <1>12, <1>14, <2>1 DEF After
  <2>3. c \in uninit
    BY <1>1, <1>13, <2>2 DEF Ahead
  <2>4. c \notin w.cells
    BY <1>5, <2>2, <2>3 DEF x
  <2>5. QED
    BY <1>4, <2>3, <2>4
<1>16. QED
  BY <1>1, <1>4, <1>15 DEF Watched

(* A command buffer that was taken is empty. *)
LEMMA TakeWatches ==
  ASSUME Watched, NEW e \in Encoder, Take(e)
  PROVE  \A d \in Encoder : encoded'[d] \in SoundEncs
BY FreshSound DEF Watched, Kept, Typed, Take

(* Queue::submit clears what a command buffer needs and finds uninitialized. *)
LEMMA BakeWatches ==
  ASSUME Scoped, Watched, NEW e \in Encoder, SubmitBake(e)
  PROVE  Watched'
<1>1. /\ Kept /\ Kept' /\ Typed /\ Known
      /\ \A c \in Cell : Ahead.mem[c] = "garbage" => c \in uninit
  BY BakeKeeps DEF Watched, Kept
<1>2. DEFINE out == Baked(encoded[e], device, uninit)
             t == Tail(batch.todo)
             k == Append(batch.taken, <<e, stage[e]>>)
             b == batch.baked
             g == Ahead
             enc == encoded[e]
<1>3. /\ Take(e) /\ uninit' = out.uninit
      /\ batch' = [batch EXCEPT !.todo = t, !.taken = k, !.baked = @ \o out.ops]
  BY Zenon DEF SubmitBake
<1>4. UNCHANGED <<pending, gpu>>
  BY <1>3 DEF Take
<1>5. \A d \in Encoder : encoded'[d] \in SoundEncs
  BY <1>3, TakeWatches
<1>6. /\ gpu \in GpuStates /\ pending \in Seq(RawOps) /\ b \in Seq(RawOps)
      /\ device \in Trackers /\ uninit \in SUBSET Cell /\ enc \in SoundEncs
      /\ enc \in TrackedEncs
  BY <1>1 DEF Typed, Batches, Watched, SoundEncs
<1>7. pending \o b \in Seq(RawOps) /\ g = Execute(gpu, pending \o b)
  BY <1>6 DEF Ahead
<1>8. HIDE DEF b
<1>9. g \in GpuStates
  BY <1>6, <1>7, RunTypes
<1>10. Knows(g, device, <<>>)
  <2>1. Execute(g, <<>>) = g
    BY RunEmpty
  <2>2. QED
    BY <1>1, <1>7, <2>1 DEF Known, Knows, b
<1>11. \A c \in Cell : g.mem[c] = "garbage" => c \in uninit
  BY <1>1
<1>12. HIDE DEF g, enc, t, k
<1>13. BakedRight(g, Baked(enc, device, uninit))
  BY <1>6, <1>9, <1>10, BakedTracks
<1>14. out = Baked(enc, device, uninit)
  BY DEF enc
<1>15. HIDE DEF out
<1>16. out.ops \in Seq(RawOps)
  BY <1>13, <1>14 DEF BakedRight
<1>17. batch'.baked = b \o out.ops
  BY <1>1, <1>3 DEF Typed, Batches, b
<1>18. Ahead' = Execute(g, out.ops)
  <2>1. DEFINE x == pending \o b
               y == out.ops
  <2>2. pending' \o batch'.baked = x \o y
    <3>1. Assoc(pending, b, out.ops)
      BY <1>6, <1>16, Associates
    <3>2. pending \o (b \o out.ops) = (pending \o b) \o out.ops
      BY <3>1 DEF Assoc
    <3>3. QED
      BY <1>4, <1>17, <3>2
  <2>3. x \in Seq(RawOps) /\ y \in Seq(RawOps)
    BY <1>7, <1>16
  <2>4. g = Execute(gpu, x)
    BY <1>7
  <2>5. HIDE DEF x, y
  <2>6. Execute(gpu, x \o y) = Execute(Execute(gpu, x), y)
    BY <2>3, RunJoined
  <2>7. Ahead' = Execute(gpu, x \o y)
    BY <1>4, <2>2 DEF Ahead
  <2>8. QED
    BY <2>4, <2>6, <2>7 DEF y
<1>19. ASSUME NEW c \in Cell, Ahead'.mem[c] = "garbage" PROVE c \in uninit'
  <2>1. Execute(g, Baked(enc, device, uninit).ops).mem[c] = "garbage"
    BY <1>14, <1>18, <1>19
  <2>2. c \in Baked(enc, device, uninit).uninit
    BY <1>6, <1>9, <1>10, <1>11, <2>1, BakedSound
  <2>3. QED
    BY <1>3, <1>14, <2>2
<1>20. QED
  BY <1>1, <1>5, <1>19 DEF Watched

(* A step that leaves what is ahead of the GPU as it was. *)
LEMMA SameWatches ==
  ASSUME Watched, Kept', Ahead' = Ahead, uninit' = uninit,
         \A e \in Encoder : encoded'[e] \in SoundEncs
  PROVE  Watched'
BY DEF Watched

(* A write that fails its validation. *)
LEMMA RejectedWatches ==
  ASSUME Scoped, Watched, NEW k \in BufferKey, QueueWriteRejected(k)
  PROVE  Watched'
<1>1. Kept' /\ UNCHANGED <<encoded, uninit, pending, batch, gpu>>
  BY RejectedKeeps DEF Watched, QueueWriteRejected
<1>2. Ahead' = Ahead
  BY <1>1 DEF Ahead
<1>3. \A e \in Encoder : encoded'[e] \in SoundEncs
  BY <1>1 DEF Watched
<1>4. QED
  BY <1>1, <1>2, <1>3, SameWatches

(* A submit starts, *)
LEMMA StartWatches ==
  ASSUME Scoped, Watched, NEW b \in Batch, SubmitStart(b)
  PROVE  Watched'
<1>1. Kept /\ Kept' /\ InOrder
  BY StartKeeps DEF Watched, Kept
<1>2. /\ batch = NoBatch /\ batch' = [NoBatch EXCEPT !.open = TRUE, !.todo = b]
      /\ UNCHANGED <<encoded, uninit, pending, gpu>>
  BY <1>1 DEF SubmitStart, InOrder
<1>3. batch'.baked = batch.baked
  BY <1>2 DEF NoBatch
<1>4. Ahead' = Ahead
  BY <1>2, <1>3 DEF Ahead
<1>5. \A e \in Encoder : encoded'[e] \in SoundEncs
  BY <1>2 DEF Watched
<1>6. QED
  BY <1>1, <1>2, <1>4, <1>5, SameWatches

(* ... fails, *)
LEMMA SkipWatches ==
  ASSUME Scoped, Watched, NEW e \in Encoder, SubmitSkip(e)
  PROVE  Watched'
<1>1. Kept /\ Kept' /\ Typed
  BY SkipKeeps DEF Watched, Kept
<1>2. DEFINE t == Tail(batch.todo)
             k == Append(batch.taken, <<e, stage[e]>>)
<1>3. /\ Take(e) /\ uninit' = uninit
      /\ batch' = [batch EXCEPT !.todo = t, !.taken = k, !.failed = TRUE]
  BY Zenon DEF SubmitSkip
<1>4. HIDE DEF t, k
<1>5. batch'.baked = batch.baked
  BY <1>1, <1>3 DEF Typed, Batches
<1>6. Ahead' = Ahead
  BY <1>3, <1>5 DEF Ahead, Take
<1>7. \A d \in Encoder : encoded'[d] \in SoundEncs
  BY <1>3, TakeWatches
<1>8. QED
  BY <1>1, <1>3, <1>6, <1>7, SameWatches

(* ... sends what was baked, *)
LEMMA FlushWatches ==
  ASSUME Scoped, Watched, SubmitFlush
  PROVE  Watched'
<1>1. Kept /\ Kept' /\ Typed /\ \A c \in Cell : Ahead.mem[c] = "garbage" => c \in uninit
  BY FlushKeeps DEF Watched, Kept
<1>2. /\ gpu' = Execute([gpu EXCEPT !.seen = {}], pending \o batch.baked)
      /\ pending' = <<>> /\ batch' = NoBatch
      /\ UNCHANGED <<encoded, uninit>>
  BY DEF SubmitFlush
<1>3. gpu \in GpuStates /\ pending \o batch.baked \in Seq(RawOps)
  <2>1. batch.baked \in Seq(RawOps) /\ pending \in Seq(RawOps) /\ gpu \in GpuStates
    BY <1>1 DEF Typed, Batches
  <2>2. QED
    BY <2>1
<1>4. Alike(gpu', Execute(gpu, pending \o batch.baked))
  BY <1>2, <1>3, RunUnseen
<1>5. gpu'.mem = Ahead.mem
  BY <1>4 DEF Alike, Ahead
<1>6. pending' \o batch'.baked = <<>>
  BY <1>2 DEF NoBatch
<1>7. Ahead' = gpu'
  BY <1>6, RunEmpty DEF Ahead
<1>8. QED
  BY <1>1, <1>2, <1>5, <1>7 DEF Watched

(* ... or sends nothing. *)
LEMMA FailWatches ==
  ASSUME Scoped, Watched, SubmitFail
  PROVE  Watched'
<1>1. Kept /\ Kept' /\ InOrder
  BY FailKeeps DEF Watched, Kept
<1>2. /\ batch.failed /\ batch' = NoBatch
      /\ UNCHANGED <<encoded, uninit, pending, gpu>>
  BY DEF SubmitFail
<1>3. batch'.baked = batch.baked
  BY <1>1, <1>2 DEF InOrder, NoBatch
<1>4. Ahead' = Ahead
  BY <1>2, <1>3 DEF Ahead
<1>5. \A e \in Encoder : encoded'[e] \in SoundEncs
  BY <1>2 DEF Watched
<1>6. QED
  BY <1>1, <1>2, <1>4, <1>5, SameWatches

(* A step that changes nothing. *)
LEMMA StillWatches == Watched /\ UNCHANGED svars => Watched'
<1>1. SUFFICES ASSUME Watched, UNCHANGED svars PROVE Watched'
  OBVIOUS
<1>2. Kept' /\ UNCHANGED <<encoded, uninit, pending, batch, gpu>>
  BY <1>1, StillKeeps DEF Watched, svars
<1>3. Ahead' = Ahead
  BY <1>2 DEF Ahead
<1>4. \A e \in Encoder : encoded'[e] \in SoundEncs
  BY <1>1, <1>2 DEF Watched
<1>5. QED
  BY <1>1, <1>2, <1>3, <1>4, SameWatches

(* Memory that will hold garbage when all that was baked has run is known to   *)
(* be uninitialized, so that no lazy clear is missed                           *)
(* (BakedCommands::initialize_buffer_memory and initialize_texture_memory,     *)
(* against what the encoders registered).                                      *)
THEOREM GarbageAlwaysTracked == Scoped => (Spec => []GarbageTracked)
<1>1. SUFFICES ASSUME Scoped PROVE Spec => []GarbageTracked
  OBVIOUS
<1>2. Watched /\ [Next]_svars => Watched'
  <2>1. SUFFICES ASSUME Watched, [Next]_svars PROVE Watched'
    OBVIOUS
  <2>2. CASE UNCHANGED svars
    BY <2>1, <2>2, StillWatches
  <2>3. CASE \E e \in Encoder, cmds \in Script : Finish(e, cmds)
    BY <1>1, <2>1, <2>3, FinishWatches
  <2>4. CASE \E w \in Write : QueueWrite(w)
    BY <1>1, <2>1, <2>4, WriteWatches
  <2>5. CASE \E k \in BufferKey : QueueWriteRejected(k)
    BY <1>1, <2>1, <2>5, RejectedWatches
  <2>6. CASE \E b \in Batch : SubmitStart(b)
    BY <1>1, <2>1, <2>6, StartWatches
  <2>7. CASE \E e \in Encoder : SubmitBake(e) \/ SubmitSkip(e)
    BY <1>1, <2>1, <2>7, BakeWatches, SkipWatches
  <2>8. CASE SubmitFlush
    BY <1>1, <2>1, <2>8, FlushWatches
  <2>9. CASE SubmitFail
    BY <1>1, <2>1, <2>9, FailWatches
  <2>10. QED
    BY <2>1, <2>2, <2>3, <2>4, <2>5, <2>6, <2>7, <2>8, <2>9 DEF Next
<1>3. Watched => GarbageTracked
  BY DEF Watched, GarbageTracked
<1>4. QED
  BY <1>2, <1>3, WatchedInit, PTL DEF Spec
================================================================================
