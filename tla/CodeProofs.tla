----------------------------- MODULE CodeProofs -----------------------------
(* The code the recompiler makes of a block (Translator) stays in step with a *)
(* processor that takes the instructions one by one, for every program,       *)
(* length of block, number of exits, gate and marks left over.  The argument  *)
(* follows the translator: a note stands before each operation, and each      *)
(* operation leads from its note to the next one or to where it jumps.        *)
EXTENDS BlocksProofs, FiniteSetTheorems
(* What is known where the code is: a note says that the processor g, which   *)
(* takes the instructions one by one, comes to instruction k having executed  *)
(* none since its last, that the code owes it some cycles (or has paid some   *)
(* ahead), which condition holds, and what the translator knows.              *)

Guests == [pc : Nat, as : Processors, cycles : Nat]
Hosts == [as : Processors, cycles : Nat]
Knowledge == UNION {[D -> BOOLEAN] : D \in SUBSET Flags}

\* The processors differ at most in flags nobody reads from instruction k on.
Alike(k, p, q) == p.r = q.r /\ \A f \in LiveFrom(k) : p[f] = q[f]

\* g comes to instruction k, or executes it; what it costs to come there.
ComesTo(k, g) ==
  /\ g \in Guests /\ 1 <= g.pc /\ g.pc <= k /\ k <= Len(insns) + 1
  /\ \A j \in g.pc .. k - 1 : ~Passes(insns[j].on, g.as)
Executes(k, g) == ComesTo(k, g) /\ k <= Len(insns) /\ Passes(insns[k].on, g.as)
Price(k, g) == g.cycles + k - g.pc

Note(k, owed, on, const, known) ==
  [k |-> k, owed |-> owed, on |-> on, const |-> const, known |-> known]
Knows(const, known, p) ==
  const \in {Unknown, p.r} /\ \A f \in DOMAIN known : known[f] = p[f]
Holds(a, g, h) ==
  /\ ComesTo(a.k, g) /\ h \in Hosts
  /\ h.cycles + a.owed = Price(a.k, g)
  /\ Alike(a.k, h.as, g.as)
  /\ Passes(a.on, g.as)
  /\ Knows(a.const, a.known, g.as)
Implies(a, b) == \A g, h : Holds(a, g, h) => Holds(b, g, h)

\* A place the code does not come to, and one it jumps to.
Nowhere == Note(0, 0, "al", Unknown, NoFlags)
EntryAt(k) == Note(k, 0, "al", Unknown, NoFlags)
-----------------------------------------------------------------------------
(* What each operation needs and leaves. *)

Charged(h, n) == [h EXCEPT !.cycles = @ + n]
Restarted(g, k) == [Ran(g.as) EXCEPT !.pc = k]
Cleared(h) == [h EXCEPT !.cycles = 0]
Stepped(k, g, v) ==
  [pc |-> k + 1, as |-> Effect(insns[k], g.as, v), cycles |-> Price(k, g) + 1 + Extra(k)]
OutcomesAt(op, p, v) ==
  LET q == Effect(insns[op.of], p, v)
      spoilt == Spoils(insns[op.of], op.keep)
      Flag(f) == IF f \in spoilt THEN BOOLEAN ELSE IF f \in op.keep THEN {q[f]} ELSE {p[f]}
  IN {[r |-> q.r, z |-> z, c |-> c] : z \in Flag("z"), c \in Flag("c")}

Exact(g, h, pay, price) == h.as = g.as /\ h.cycles + pay = price
StepsTo(op, b, g, h) ==
  /\ op.op = "charge" => Holds(b, g, Charged(h, op.pay))
  /\ op.op = "gate" /\ Passes(op.on, h.as) => Holds(b, g, Charged(h, op.pay))
  /\ op.op = "body" =>
       /\ Executes(op.of, g)
       /\ \A v \in {0, 1} : \A q \in OutcomesAt(op, h.as, v) :
            Holds(b, Stepped(op.of, g, v), [as |-> q, cycles |-> h.cycles + op.pay])
  /\ op.op = "store" =>
       /\ Executes(op.of, g) /\ insns[op.of].does = "str"
       /\ Exact(g, h, op.pay, Price(op.of, g) + 2)
       /\ Holds(b, Restarted(g, op.of + 1), Cleared(h))
  /\ op.op = "check" =>
       /\ ComesTo(op.of, g) /\ Exact(g, h, op.pay, Price(op.of, g))
       /\ Holds(b, Restarted(g, op.of), Cleared(h))
  /\ op.op \in {"leave", "return"} =>
       /\ Executes(op.of, g) /\ Exact(g, h, op.pay, Price(op.of, g) + 1)
       /\ insns[op.of].does = (IF op.op = "leave" THEN "b" ELSE "bx")
  /\ op.op = "tail" => ComesTo(op.of, g) /\ Exact(g, h, op.pay, Price(op.of, g))
Takes(a, op, b) == \A g, h : Holds(a, g, h) => StepsTo(op, b, g, h)
\* A gate that lets nobody through jumps; a branch not yet patched has nowhere to.
JumpsTo(op, N, len, g, h) ==
  op.op = "gate" /\ ~Passes(op.on, h.as) =>
    op.to = 0 \/ (op.to \in 1 .. len + 1 /\ Holds(N[op.to], g, Charged(h, op.pay)))

Ops == [op : {"charge", "gate", "body", "store", "check", "leave", "return", "tail"},
        of : Nat, pay : Nat, on : Conditions, to : Nat, keep : SUBSET Flags]
\* N says what is known before each operation of the code, and after the last.
Flows(code, N) ==
  \A j \in 1 .. Len(code) : \A g, h : Holds(N[j], g, h) =>
    StepsTo(code[j], N[j + 1], g, h) /\ JumpsTo(code[j], N, Len(code), g, h)
\* The place where more code comes.
End(code) == Len(code) + 1
\* M says what N does of the code before its operation L, and no more of what follows.
Grows(M, N, L) == (\A j \in 1 .. L - 1 : M[j] = N[j]) /\ Implies(N[L], M[L])
Agree(M, N, i) == M[i] = N[i]
-----------------------------------------------------------------------------
\* A step that leads where b holds leads where less is said.
LEMMA StepsToLess ==
  ASSUME NEW op, NEW b, NEW c, NEW g, NEW h, Implies(b, c), StepsTo(op, b, g, h)
  PROVE  StepsTo(op, c, g, h)
BY DEF StepsTo, Implies

\* Less may be said where the code ends.
LEMMA Weakened ==
  ASSUME NEW code \in Seq(Ops), NEW N, NEW b, Flows(code, N), Implies(N[End(code)], b)
  PROVE  \E M : Flows(code, M) /\ Grows(M, N, End(code)) /\ M[End(code)] = b
<1> DEFINE L == Len(code)
           M == [j \in 1 .. L + 1 |-> IF j = L + 1 THEN b ELSE N[j]]
<1>1. L \in Nat
  BY LenProperties
<1>2. M[L + 1] = b /\ \A j \in 1 .. L : M[j] = N[j]
  BY <1>1
<1>3. \A j \in 1 .. L + 1 : Implies(N[j], M[j])
  BY <1>1, <1>2 DEF Implies, End
<1> HIDE DEF M
<1>4. ASSUME NEW j \in 1 .. L, NEW g, NEW h, Holds(M[j], g, h)
      PROVE  StepsTo(code[j], M[j + 1], g, h) /\ JumpsTo(code[j], M, L, g, h)
  <2>1. j + 1 \in 1 .. L + 1
    BY <1>1
  <2>2. StepsTo(code[j], N[j + 1], g, h) /\ JumpsTo(code[j], N, L, g, h)
    BY <1>2, <1>4 DEF Flows
  <2>3. StepsTo(code[j], M[j + 1], g, h)
    BY <1>3, <2>1, <2>2, StepsToLess
  <2>4. JumpsTo(code[j], M, L, g, h)
    BY <1>3, <2>2 DEF JumpsTo, Implies
  <2> QED BY <2>3, <2>4
<1>5. Flows(code, M)
  BY <1>4 DEF Flows
<1>6. Grows(M, N, L + 1)
  BY <1>1, <1>2, <1>3 DEF Grows
<1> QED BY <1>2, <1>5, <1>6 DEF End

\* An operation is added where what it needs is known.
LEMMA Appended ==
  ASSUME NEW code \in Seq(Ops), NEW N, NEW op \in Ops, NEW b, Flows(code, N), op.to = 0,
         Takes(N[End(code)], op, b)
  PROVE  \E M : /\ Flows(Append(code, op), M) /\ M[End(Append(code, op))] = b
                /\ Grows(M, N, End(code)) /\ Agree(M, N, End(code))
<1> DEFINE L == Len(code)
           D == Append(code, op)
           M == [j \in 1 .. L + 2 |-> IF j = L + 2 THEN b ELSE N[j]]
<1>1. L \in Nat
  BY LenProperties
<1>2. M[L + 2] = b /\ \A j \in 1 .. L + 1 : M[j] = N[j]
  BY <1>1
<1>3. Len(D) = L + 1 /\ D[L + 1] = op /\ \A j \in 1 .. L : D[j] = code[j]
  BY AppendProperties
<1> HIDE DEF M, D
<1>4. ASSUME NEW j \in 1 .. L + 1, NEW g, NEW h, Holds(M[j], g, h)
      PROVE  StepsTo(D[j], M[j + 1], g, h) /\ JumpsTo(D[j], M, L + 1, g, h)
  <2>1. CASE j = L + 1
    <3>1. Holds(N[L + 1], g, h)
      BY <1>2, <1>4, <2>1
    <3>2. StepsTo(op, b, g, h)
      BY <3>1 DEF End, Takes
    <3>3. j + 1 = L + 2
      BY <1>1, <2>1
    <3> QED BY <1>2, <1>3, <2>1, <3>2, <3>3 DEF JumpsTo
  <2>2. CASE j \in 1 .. L
    <3>1. j + 1 \in 1 .. L + 1 /\ M[j + 1] = N[j + 1] /\ M[j] = N[j] /\ D[j] = code[j]
      BY <1>1, <1>2, <1>3, <2>2
    <3>2. StepsTo(code[j], N[j + 1], g, h) /\ JumpsTo(code[j], N, L, g, h)
      BY <1>4, <2>2, <3>1 DEF Flows
    <3>3. JumpsTo(code[j], M, L + 1, g, h)
      BY <1>1, <1>2, <3>2 DEF JumpsTo
    <3> QED BY <3>1, <3>2, <3>3
  <2> QED BY <1>1, <2>1, <2>2
<1>5. Flows(D, M)
  BY <1>3, <1>4 DEF Flows
<1>6. Grows(M, N, L + 1)
  BY <1>1, <1>2 DEF Grows, Implies
<1>7. L + 1 \in 1 .. L + 1
  BY <1>1
<1>8. End(D) = L + 2
  BY <1>1, <1>3 DEF End
<1>9. Agree(M, N, End(code))
  BY <1>2, <1>7 DEF Agree, End
<1> QED BY <1>2, <1>5, <1>6, <1>8, <1>9 DEF D, End

\* An operation with another place to jump to.
LEMMA Redirected ==
  ASSUME NEW op \in Ops, NEW t \in Nat
  PROVE  LET p == [op EXCEPT !.to = t] IN
         /\ p \in Ops /\ p.to = t /\ p.op = op.op /\ p.of = op.of
         /\ p.pay = op.pay /\ p.on = op.on /\ p.keep = op.keep
BY DEF Ops

\* The jump of a gate is patched to the code's end.
LEMMA PatchedTo ==
  ASSUME NEW code \in Seq(Ops), NEW N, Flows(code, N), NEW i \in 1 .. Len(code),
         \A g, h : Holds(N[i], g, h) /\ ~Passes(code[i].on, h.as) =>
                     Holds(N[End(code)], g, Charged(h, code[i].pay))
  PROVE  LET D == [code EXCEPT ![i].to = End(code)] IN
         /\ Flows(D, N) /\ D \in Seq(Ops) /\ Len(D) = Len(code)
         /\ \A j \in 1 .. Len(code) :
              /\ D[j].op = code[j].op /\ D[j].of = code[j].of
              /\ D[j].to = IF j = i THEN End(code) ELSE code[j].to
<1> DEFINE L == Len(code)
           p == [code[i] EXCEPT !.to = End(code)]
           D == [code EXCEPT ![i] = p]
<1>1. L \in Nat /\ code[i] \in Ops /\ End(code) = L + 1 /\ End(code) \in Nat
  BY LenProperties DEF End
<1>2. p \in Ops /\ p.to = End(code) /\ p.op = code[i].op /\ p.of = code[i].of
      /\ p.pay = code[i].pay /\ p.on = code[i].on /\ p.keep = code[i].keep
  BY <1>1, Redirected
<1> HIDE DEF p
<1>3. D \in Seq(Ops) /\ Len(D) = L /\ \A j \in 1 .. L : D[j] = IF j = i THEN p ELSE code[j]
  BY <1>2, ExceptSeq
<1> HIDE DEF D
<1>4. ASSUME NEW j \in 1 .. L, NEW g, NEW h, Holds(N[j], g, h)
      PROVE  StepsTo(D[j], N[j + 1], g, h) /\ JumpsTo(D[j], N, L, g, h)
  <2>1. StepsTo(code[j], N[j + 1], g, h) /\ JumpsTo(code[j], N, L, g, h)
    BY <1>4 DEF Flows
  <2>2. CASE j = i
    <3>1. D[j] = p
      BY <1>3, <2>2
    <3>2. OutcomesAt(p, h.as, 0) = OutcomesAt(code[i], h.as, 0)
          /\ OutcomesAt(p, h.as, 1) = OutcomesAt(code[i], h.as, 1)
      BY <1>2 DEF OutcomesAt
    <3>3. StepsTo(p, N[j + 1], g, h)
      BY <1>2, <2>1, <2>2, <3>2 DEF StepsTo
    <3>4. JumpsTo(p, N, L, g, h)
      <4>1. L + 1 \in 1 .. L + 1
        BY <1>1
      <4> QED BY <1>1, <1>2, <1>4, <2>2, <4>1 DEF JumpsTo
    <3> QED BY <3>1, <3>3, <3>4
  <2>3. CASE j # i
    BY <1>3, <2>1, <2>3
  <2> QED BY <2>2, <2>3
<1>5. Flows(D, N)
  BY <1>3, <1>4 DEF Flows
<1> QED BY <1>2, <1>3, <1>5 DEF D, p
-----------------------------------------------------------------------------
(* The processor that takes the instructions one by one. *)

\* What the proofs use of the block: its instructions, their flags and its exits.
Branches(k) == {j \in 1 .. k : IsBranch(insns[j])}
BlockOK ==
  /\ insns \in Seq(Program) /\ Len(insns) >= 1 /\ Len(status) = Len(insns)
  /\ \A k \in InBlock : /\ status[k].makes \subseteq Makes(insns[k])
                        /\ Makes(insns[k]) \cap LiveFrom(k + 1) \subseteq status[k].makes
  /\ labels \cap InBlock = Targets
  /\ Len(exits) = Cardinality(Branches(Len(insns)))
  /\ \A k \in InBlock : IsBranch(insns[k]) => exits[Cardinality(Branches(k))] = insns[k].to

\* The instructions of a block are instructions.
LEMMA InsnsTyped ==
  ASSUME BlockOK, NEW k \in InBlock
  PROVE  /\ Len(insns) \in Nat /\ k \in Nat /\ k >= 1 /\ k <= Len(insns)
         /\ insns[k] \in Instruction /\ insns[k].does \in Kinds /\ insns[k].on \in Conditions
         /\ insns[k].to \in Nat
<1>1. Len(insns) \in Nat
  BY LenProperties DEF BlockOK
<1>2. k \in 1 .. Len(insns)
  BY DEF InBlock
<1>3. insns[k] \in Program
  BY <1>2, ElementOfSeq DEF BlockOK
<1> QED BY <1>1, <1>2, <1>3, ScanAssumption DEF ScanAssumption, Instruction

\* A condition passes by the flags it reads.
LEMMA PassesByFlags ==
  ASSUME NEW p, NEW q, NEW on \in Conditions, \A f \in ReadsOn(on) : p[f] = q[f]
  PROVE  Passes(on, p) <=> Passes(on, q)
BY DEF Conditions, ReadsOn, Passes

\* What an instruction sees of the flags is live before it.
LEMMA SeenIsLive ==
  ASSUME BlockOK, NEW k \in 1 .. Len(insns) + 1
  PROVE  SeenAt(k) \cap Flags \subseteq LiveFrom(k)
<1>1. Len(insns) \in Nat
  BY LenProperties DEF BlockOK
<1>2. k \in k .. Len(insns) + 1 /\ k .. k - 1 = {}
  BY <1>1
<1> QED BY <1>2 DEF LiveFrom

\* What is live after an instruction is live before it, unless it is overwritten.
LEMMA LiveAfter ==
  ASSUME BlockOK, NEW k \in InBlock, NEW f \in LiveFrom(k + 1), ~Overwrites(k, f)
  PROVE  f \in LiveFrom(k)
<1>1. Len(insns) \in Nat /\ k \in Nat
  BY InsnsTyped
<1>2. PICK j \in k + 1 .. Len(insns) + 1 :
        f \in SeenAt(j) /\ \A m \in k + 1 .. j - 1 : ~Overwrites(m, f)
  BY DEF LiveFrom
<1>3. j \in k .. Len(insns) + 1 /\ \A m \in k .. j - 1 : m = k \/ m \in k + 1 .. j - 1
  BY <1>1, <1>2
<1>4. f \in Flags
  BY DEF LiveFrom
<1> QED BY <1>2, <1>3, <1>4 DEF LiveFrom

\* An instruction that is not executed is passed over.
LEMMA PassedOver ==
  ASSUME BlockOK, NEW k \in InBlock, NEW g, ComesTo(k, g), ~Passes(insns[k].on, g.as)
  PROVE  ComesTo(k + 1, g) /\ Price(k + 1, g) = Price(k, g) + 1
<1>1. Len(insns) \in Nat /\ k \in Nat /\ k <= Len(insns)
  BY InsnsTyped
<1>2. g.pc \in Nat /\ g.cycles \in Nat
  BY DEF ComesTo, Guests
<1>3. \A j \in g.pc .. (k + 1) - 1 : j = k \/ j \in g.pc .. k - 1
  BY <1>1, <1>2
<1>4. \A j \in g.pc .. (k + 1) - 1 : ~Passes(insns[j].on, g.as)
  BY <1>3 DEF ComesTo
<1>5. g \in Guests /\ 1 <= g.pc /\ g.pc <= k + 1 /\ k + 1 <= Len(insns) + 1
  BY <1>1, <1>2 DEF ComesTo
<1>6. Price(k + 1, g) = Price(k, g) + 1
  BY <1>1, <1>2, SMTT(30) DEF Price
<1> QED BY <1>4, <1>5, <1>6 DEF ComesTo

\* It leaves what is live alike.
LEMMA AlikeOver ==
  ASSUME BlockOK, NEW k \in InBlock, insns[k].on # "al", NEW p, NEW q, Alike(k, p, q)
  PROVE  Alike(k + 1, p, q)
<1>1. \A f \in LiveFrom(k + 1) : f \in LiveFrom(k)
  BY LiveAfter DEF Overwrites
<1> QED BY <1>1 DEF Alike

\* Where all the flags are seen the processors are the same.
LEMMA SameAt ==
  ASSUME BlockOK, NEW k \in 1 .. Len(insns) + 1, Flags \subseteq SeenAt(k),
         NEW p \in Processors, NEW q \in Processors, Alike(k, p, q)
  PROVE  p = q
<1>1. \A f \in Flags : p[f] = q[f]
  BY SeenIsLive DEF Alike
<1>2. p.r = q.r
  BY DEF Alike
<1> QED BY <1>1, <1>2 DEF Processors, Flags

\* A condition passes for both if it passes for one.
LEMMA PassesAlike ==
  ASSUME BlockOK, NEW k \in InBlock, NEW p, NEW q, Alike(k, p, q)
  PROVE  Passes(insns[k].on, p) <=> Passes(insns[k].on, q)
<1>1. insns[k].on \in Conditions /\ k \in 1 .. Len(insns) + 1 /\ k <= Len(insns)
  BY InsnsTyped
<1>2. ReadsOn(insns[k].on) \subseteq SeenAt(k) \cap Flags
  BY <1>1 DEF SeenAt, ReadsOn, Flags
<1>3. \A f \in ReadsOn(insns[k].on) : p[f] = q[f]
  BY <1>1, <1>2, SeenIsLive DEF Alike
<1> QED BY <1>1, <1>3, PassesByFlags

\* The next instruction executed is the one the processor comes to, if it is executed, and
\* else a later one or the block's end.
LEMMA NextRunIs ==
  ASSUME BlockOK, NEW k, ComesTo(k, guest), k \in Nat
  PROVE  /\ NextRun \in Nat /\ k <= NextRun /\ Reached(k) = k /\ Passed(k) = Price(k, guest)
         /\ Executes(k, guest) => NextRun = k
<1> DEFINE n == Len(insns)
           S == {j \in guest.pc .. n + 1 : Comes(j)}
           Foremost(j) == Comes(j) /\ \A i \in guest.pc .. j - 1 : ~Comes(i)
<1>1. n \in Nat /\ guest.pc \in Nat /\ guest.pc <= k /\ k <= n + 1 /\ guest.pc >= 1
  BY LenProperties DEF BlockOK, ComesTo, Guests
<1>2. \A j \in guest.pc .. k - 1 : ~Comes(j)
  <2> SUFFICES ASSUME NEW j \in guest.pc .. k - 1 PROVE ~Comes(j)
    OBVIOUS
  <2>1. j <= n
    BY <1>1
  <2>2. ~Passes(insns[j].on, guest.as)
    BY DEF ComesTo
  <2> QED BY <1>1, <2>1, <2>2 DEF Comes
<1>3. Comes(n + 1)
  BY <1>1 DEF Comes
<1>4. S \subseteq Nat /\ S # {}
  BY <1>1, <1>3
<1>5. PICK j \in S : \A i \in S : j <= i
  BY <1>4, LeastOf
<1>6. \A i \in guest.pc .. j - 1 : i \notin S /\ i \in guest.pc .. n + 1
  BY <1>1, <1>5
<1>7. j \in guest.pc .. n + 1 /\ Foremost(j)
  BY <1>5, <1>6
<1>8. NextRun \in guest.pc .. n + 1 /\ Foremost(NextRun)
  BY <1>7 DEF NextRun
<1> HIDE DEF Foremost
<1>9. k <= NextRun
  BY <1>1, <1>2, <1>8 DEF Foremost
<1>10. Executes(k, guest) => NextRun = k
  <2> SUFFICES ASSUME Executes(k, guest), NextRun # k PROVE FALSE
    OBVIOUS
  <2>1. k \in guest.pc .. NextRun - 1
    BY <1>1, <1>8, <1>9
  <2>2. Comes(k)
    BY DEF Executes, Comes
  <2> QED BY <1>8, <2>1, <2>2 DEF Foremost
<1>11. Reached(k) = k /\ Passed(k) = Price(k, guest)
  BY <1>1, <1>9 DEF Reached, Passed, Price
<1> QED BY <1>1, <1>8, <1>9, <1>10, <1>11
-----------------------------------------------------------------------------
(* What an instruction does. *)

\* An instruction makes a processor of a processor.
LEMMA EffectTyped ==
  ASSUME NEW i \in Instruction, NEW p \in Processors, NEW v \in {0, 1}
  PROVE  Effect(i, p, v) \in Processors
BY DEF Effect, Processors, Instruction

\* It leaves the flags it does not make.
LEMMA EffectLeaves ==
  ASSUME NEW i \in Instruction, NEW p \in Processors, NEW v \in {0, 1},
         NEW f \in Flags, f \notin Makes(i)
  PROVE  Effect(i, p, v)[f] = p[f]
BY DEF Effect, Processors, Instruction, Kinds, Flags, Makes, Writes, MayMake

\* It does the same with processors that are the same in the register, in the flags it uses,
\* and makes the same flags.
LEMMA EffectAlike ==
  ASSUME NEW i \in Instruction, NEW p \in Processors, NEW q \in Processors,
         NEW v \in {0, 1}, p.r = q.r, \A f \in Uses(i) : p[f] = q[f]
  PROVE  /\ Effect(i, p, v).r = Effect(i, q, v).r
         /\ \A f \in Makes(i) : Effect(i, p, v)[f] = Effect(i, q, v)[f]
<1>1. i.does = "adc" \/ i.does = "lsl" => p.c = q.c
  BY DEF Uses
<1>2. Effect(i, p, v).r = Effect(i, q, v).r
  BY <1>1 DEF Effect, Processors, Instruction, Kinds
<1>3. i.does = "cmp" => /\ Effect(i, p, v).z = Effect(i, q, v).z
                        /\ Effect(i, p, v).c = Effect(i, q, v).c
  BY DEF Effect, Processors
<1>4. i.does = "lsl" => /\ Effect(i, p, v).z = Effect(i, q, v).z
                        /\ Effect(i, p, v).c = Effect(i, q, v).c
  BY <1>1 DEF Effect, Processors
<1>5. i.does = "tst" => Effect(i, p, v).z = Effect(i, q, v).z
  BY DEF Effect, Processors
<1> QED BY <1>2, <1>3, <1>4, <1>5 DEF Makes, Writes, MayMake, Flags

\* What the code leaves of an instruction's body is alike from the next one on.
LEMMA BodyAlike ==
  ASSUME BlockOK, NEW k \in InBlock, NEW p \in Processors, NEW q \in Processors,
         Alike(k, p, q), NEW v \in {0, 1}, NEW op, op.of = k, op.keep = status[k].makes,
         NEW o \in OutcomesAt(op, p, v)
  PROVE  o \in Processors /\ Alike(k + 1, o, Effect(insns[k], q, v))
<1> DEFINE i == insns[k]
           ep == Effect(i, p, v)
           eq == Effect(i, q, v)
           keep == status[k].makes
           spoilt == Spoils(i, keep)
           Flag(f) == IF f \in spoilt THEN BOOLEAN ELSE IF f \in keep THEN {ep[f]} ELSE {p[f]}
<1>1. i \in Instruction /\ k \in 1 .. Len(insns) + 1 /\ k <= Len(insns)
  BY InsnsTyped
<1>2. PICK z \in Flag("z"), c \in Flag("c") : o = [r |-> ep.r, z |-> z, c |-> c]
  BY DEF OutcomesAt
<1>3. ep \in Processors /\ eq \in Processors
  BY <1>1, EffectTyped
<1>4. p.r = q.r /\ \A f \in Uses(i) : p[f] = q[f]
  <2>1. Uses(i) \subseteq SeenAt(k) \cap Flags
    BY <1>1 DEF SeenAt, Uses, Flags
  <2> QED BY <1>1, <2>1, SeenIsLive DEF Alike
<1>5. ep.r = eq.r /\ \A f \in Makes(i) : ep[f] = eq[f]
  BY <1>1, <1>4, EffectAlike
<1> HIDE DEF ep, eq
<1>6. \A f \in Flags : f \in spoilt => f \notin keep /\ Makes(i) = Flags
  BY DEF Spoils, Makes, Writes, Flags, MayMake
<1>7. ASSUME NEW f \in Flags
      PROVE  /\ Flag(f) \subseteq BOOLEAN
             /\ f \in LiveFrom(k + 1) => Flag(f) = {eq[f]}
  <2>1. Flag(f) \subseteq BOOLEAN
    BY <1>3 DEF Processors, Flags
  <2>2. ASSUME f \in LiveFrom(k + 1), f \in Makes(i) PROVE Flag(f) = {eq[f]}
    <3>1. f \in keep
      BY <2>2 DEF BlockOK
    <3>2. f \notin spoilt
      BY <1>6, <3>1
    <3> QED BY <1>5, <2>2, <3>1, <3>2
  <2>3. ASSUME f \in LiveFrom(k + 1), f \notin Makes(i) PROVE Flag(f) = {eq[f]}
    <3>1. f \notin keep /\ f \notin spoilt
      BY <1>6, <2>3 DEF BlockOK
    <3>2. f \in LiveFrom(k)
      BY <2>3, LiveAfter DEF Overwrites, Makes
    <3>3. eq[f] = q[f]
      BY <1>1, <2>3, EffectLeaves DEF eq
    <3> QED BY <3>1, <3>2, <3>3 DEF Alike
  <2> QED BY <2>1, <2>2, <2>3
<1> HIDE DEF Flag
<1>8. z \in BOOLEAN /\ c \in BOOLEAN
  BY <1>2, <1>7 DEF Flags
<1>9. o \in Processors /\ o.r = eq.r /\ o["z"] = z /\ o["c"] = c
  BY <1>2, <1>3, <1>5, <1>8 DEF Processors
<1>10. \A f \in LiveFrom(k + 1) : o[f] = eq[f]
  <2> SUFFICES ASSUME NEW f \in LiveFrom(k + 1) PROVE o[f] = eq[f]
    OBVIOUS
  <2>1. f \in Flags
    BY LiveFlags
  <2>2. CASE f = "z"
    BY <1>2, <1>7, <1>9, <2>1, <2>2
  <2>3. CASE f = "c"
    BY <1>2, <1>7, <1>9, <2>1, <2>3
  <2> QED BY <2>1, <2>2, <2>3 DEF Flags
<1> QED BY <1>9, <1>10 DEF Alike, eq
-----------------------------------------------------------------------------
(* Operations where a note holds. *)

\* A note's parts.
LEMMA NoteIs ==
  ASSUME NEW k, NEW owed, NEW on, NEW const, NEW known
  PROVE  LET a == Note(k, owed, on, const, known) IN
         a.k = k /\ a.owed = owed /\ a.on = on /\ a.const = const /\ a.known = known
BY DEF Note

\* What a note says, part by part.
LEMMA HoldsIs ==
  ASSUME NEW k, NEW owed, NEW on, NEW const, NEW known, NEW g, NEW h
  PROVE  Holds(Note(k, owed, on, const, known), g, h) <=>
           /\ ComesTo(k, g) /\ h \in Hosts /\ h.cycles + owed = Price(k, g)
           /\ Alike(k, h.as, g.as) /\ Passes(on, g.as) /\ Knows(const, known, g.as)
BY NoteIs DEF Holds

\* Processors on their way have their types.
LEMMA OnTheWay ==
  ASSUME NEW k \in Nat, NEW g, ComesTo(k, g)
  PROVE  /\ g.pc \in Nat /\ g.as \in Processors /\ g.cycles \in Nat
         /\ Price(k, g) \in Nat /\ Price(k, g) >= g.cycles
BY DEF ComesTo, Guests, Price

\* What is charged to a host, and a host that has paid.
LEMMA HostParts ==
  ASSUME NEW h \in Hosts, NEW n \in Nat
  PROVE  /\ h.as \in Processors /\ h.cycles \in Nat
         /\ Charged(h, n) \in Hosts /\ Charged(h, n).as = h.as
         /\ Charged(h, n).cycles = h.cycles + n
         /\ Cleared(h) \in Hosts /\ Cleared(h).as = h.as /\ Cleared(h).cycles = 0
BY DEF Hosts, Charged, Cleared

\* Less may be known.
LEMMA HoldsLess ==
  ASSUME NEW k, NEW owed, NEW on, NEW const, NEW known, NEW n, NEW l, NEW m, NEW g, NEW h,
         Holds(Note(k, owed, on, const, known), g, h),
         n \in {"al", on}, l \in {Unknown, const},
         DOMAIN m \subseteq DOMAIN known /\ \A f \in DOMAIN m : m[f] = known[f]
  PROVE  Holds(Note(k, owed, n, l, m), g, h)
BY HoldsIs DEF Knows, Passes

\* Cycles are charged.
LEMMA ChargeHolds ==
  ASSUME NEW k, NEW owed \in Int, NEW on, NEW const, NEW known, NEW g, NEW h, NEW n \in Nat,
         Holds(Note(k, owed, on, const, known), g, h)
  PROVE  Holds(Note(k, owed - n, on, const, known), g, Charged(h, n))
<1>1. h \in Hosts /\ h.cycles + owed = Price(k, g)
  BY HoldsIs
<1>2. Charged(h, n) \in Hosts /\ Charged(h, n).as = h.as
      /\ Charged(h, n).cycles = h.cycles + n /\ h.cycles \in Nat
  BY <1>1, HostParts
<1>3. Charged(h, n).cycles + (owed - n) = Price(k, g)
  BY <1>1, <1>2
<1> QED BY <1>2, <1>3, HoldsIs

\* An instruction not executed is passed over.
LEMMA PassHolds ==
  ASSUME BlockOK, NEW k \in InBlock, NEW owed \in Int, NEW on, NEW const, NEW known,
         NEW g, NEW h, Holds(Note(k, owed, on, const, known), g, h),
         ~Passes(insns[k].on, g.as)
  PROVE  Holds(Note(k + 1, owed + 1, on, const, known), g, h)
<1>1. ComesTo(k + 1, g) /\ Price(k + 1, g) = Price(k, g) + 1
  BY HoldsIs, PassedOver
<1>2. h \in Hosts /\ h.cycles + owed = Price(k, g) /\ h.cycles \in Nat
  BY HoldsIs DEF Hosts
<1>3. h.cycles + (owed + 1) = Price(k + 1, g)
  BY <1>1, <1>2
<1>4. insns[k].on # "al"
  BY DEF Passes
<1>5. Alike(k + 1, h.as, g.as)
  BY <1>4, AlikeOver, HoldsIs
<1> QED BY <1>1, <1>2, <1>3, <1>5, HoldsIs

\* The processor is executed an instruction further.
LEMMA SteppedIs ==
  ASSUME BlockOK, NEW k \in InBlock, NEW g, Executes(k, g), NEW v \in {0, 1}
  PROVE  LET s == Stepped(k, g, v) IN
         /\ ComesTo(k + 1, s) /\ Price(k + 1, s) = Price(k, g) + 1 + Extra(k)
         /\ s.as = Effect(insns[k], g.as, v) /\ Extra(k) \in Nat
<1>1. /\ Len(insns) \in Nat /\ k \in Nat /\ k >= 1 /\ k <= Len(insns)
      /\ insns[k] \in Instruction
  BY InsnsTyped
<1>2. g.as \in Processors /\ Price(k, g) \in Nat
  BY <1>1, OnTheWay DEF Executes
<1>3. Extra(k) \in Nat
  BY DEF Extra
<1>4. Effect(insns[k], g.as, v) \in Processors
  BY <1>1, <1>2, EffectTyped
<1> DEFINE s == Stepped(k, g, v)
<1>5. /\ s \in Guests /\ s.pc = k + 1 /\ s.as = Effect(insns[k], g.as, v)
      /\ s.cycles = Price(k, g) + 1 + Extra(k)
  BY <1>1, <1>2, <1>3, <1>4 DEF Stepped, Guests
<1> HIDE DEF s
<1>6. s.pc .. (k + 1) - 1 = {}
  BY <1>1, <1>5
<1>7. ComesTo(k + 1, s)
  BY <1>1, <1>5, <1>6 DEF ComesTo
<1>8. Price(k + 1, s) = Price(k, g) + 1 + Extra(k)
  BY <1>1, <1>2, <1>3, <1>5 DEF Price
<1> QED BY <1>3, <1>5, <1>7, <1>8 DEF s

\* What is known after an instruction follows from what was known before it.
Teaches(k, const, known, l, m) ==
  \A p \in Processors : \A v \in {0, 1} :
    Knows(const, known, p) /\ Passes(insns[k].on, p) => Knows(l, m, Effect(insns[k], p, v))

\* What is owed after an operation that pays.
LEMMA Balance ==
  ASSUME NEW paid \in Int, NEW owed \in Int, NEW price \in Int, NEW pay \in Int,
         NEW extra \in Int, paid + owed = price
  PROVE  (paid + pay) + (owed + 1 + extra - pay) = price + 1 + extra
OBVIOUS

\* The body of an instruction leads on to the next one.  The condition holds on if the
\* instruction makes no flags.
LEMMA BodySteps ==
  ASSUME BlockOK, NEW k \in InBlock, NEW owed \in Int, NEW on, NEW const, NEW known,
         NEW l, NEW m, NEW n, NEW op \in Ops, NEW g, NEW h,
         Holds(Note(k, owed, on, const, known), g, h), Passes(insns[k].on, g.as),
         op.op = "body", op.of = k, op.keep = status[k].makes,
         Teaches(k, const, known, l, m),
         n = "al" \/ (n \in {insns[k].on, on} /\ Makes(insns[k]) = {})
  PROVE  StepsTo(op, Note(k + 1, owed + 1 + Extra(k) - op.pay, n, l, m), g, h)
<1>1. /\ k \in Nat /\ k <= Len(insns) /\ insns[k] \in Instruction
      /\ insns[k].on \in Conditions /\ op.pay \in Nat
  BY InsnsTyped DEF Ops
<1>2. /\ ComesTo(k, g) /\ h \in Hosts /\ h.cycles + owed = Price(k, g)
      /\ Alike(k, h.as, g.as) /\ Passes(on, g.as) /\ Knows(const, known, g.as)
  BY HoldsIs
<1>3. Executes(k, g)
  BY <1>1, <1>2 DEF Executes
<1>4. h.as \in Processors /\ h.cycles \in Nat /\ g.as \in Processors /\ Price(k, g) \in Nat
  BY <1>1, <1>2, OnTheWay DEF Hosts
<1>5. ASSUME NEW v \in {0, 1}, NEW q \in OutcomesAt(op, h.as, v)
      PROVE  Holds(Note(k + 1, owed + 1 + Extra(k) - op.pay, n, l, m), Stepped(k, g, v),
                   [as |-> q, cycles |-> h.cycles + op.pay])
  <2> DEFINE s == Stepped(k, g, v)
             t == [as |-> q, cycles |-> h.cycles + op.pay]
  <2>1. /\ ComesTo(k + 1, s) /\ Price(k + 1, s) = Price(k, g) + 1 + Extra(k)
        /\ s.as = Effect(insns[k], g.as, v) /\ Extra(k) \in Nat
    BY <1>3, SteppedIs
  <2>2. q \in Processors /\ Alike(k + 1, q, Effect(insns[k], g.as, v))
    BY <1>2, <1>4, BodyAlike
  <2>3. t \in Hosts /\ t.as = q /\ t.cycles = h.cycles + op.pay
    BY <1>1, <1>4, <2>2 DEF Hosts
  <2>4. Knows(l, m, Effect(insns[k], g.as, v))
    BY <1>2, <1>4 DEF Teaches
  <2>5. Passes(n, Effect(insns[k], g.as, v))
    <3>1. CASE n = "al"
      BY <3>1 DEF Passes
    <3>2. CASE n \in {insns[k].on, on} /\ Makes(insns[k]) = {}
      <4>1. \A f \in Flags : Effect(insns[k], g.as, v)[f] = g.as[f]
        BY <1>1, <1>4, <3>2, EffectLeaves
      <4>2. Passes(n, g.as)
        BY <1>2, <3>2
      <4> QED BY <4>1, <4>2 DEF Passes, Flags
    <3> QED BY <3>1, <3>2
  <2> HIDE DEF s, t
  <2>6. t.cycles + (owed + 1 + Extra(k) - op.pay) = Price(k + 1, s)
    <3> DEFINE x == h.cycles
               y == op.pay
               e == Extra(k)
               z == Price(k, g)
    <3>1. x \in Int /\ y \in Int /\ e \in Int /\ z \in Int /\ x + owed = z
      BY <1>1, <1>2, <1>4, <2>1
    <3>2. t.cycles = x + y /\ Price(k + 1, s) = z + 1 + e
      BY <2>1, <2>3
    <3> HIDE DEF x, y, e, z
    <3>3. (x + y) + (owed + 1 + e - y) = z + 1 + e
      BY <3>1, Balance
    <3> QED BY <3>2, <3>3 DEF y, e
  <2>7. Alike(k + 1, t.as, s.as) /\ Passes(n, s.as) /\ Knows(l, m, s.as)
    BY <2>1, <2>2, <2>3, <2>4, <2>5
  <2>8. Holds(Note(k + 1, owed + 1 + Extra(k) - op.pay, n, l, m), s, t)
    BY <2>1, <2>3, <2>6, <2>7, HoldsIs
  <2> QED BY <2>8 DEF s, t
<1> QED BY <1>3, <1>5 DEF StepsTo

\* Where a place is left all cycles are charged and all flags are made.
LEMMA ExactHolds ==
  ASSUME BlockOK, NEW k \in 1 .. Len(insns) + 1, Flags \subseteq SeenAt(k), NEW owed \in Int,
         NEW on, NEW const, NEW known, NEW g, NEW h, NEW x \in Int,
         Holds(Note(k, owed, on, const, known), g, h)
  PROVE  Exact(g, h, owed + x, Price(k, g) + x)
<1>1. k \in Nat
  BY LenProperties DEF BlockOK
<1>2. /\ ComesTo(k, g) /\ h \in Hosts /\ h.cycles + owed = Price(k, g)
      /\ Alike(k, h.as, g.as)
  BY HoldsIs
<1>3. h.as \in Processors /\ h.cycles \in Nat /\ g.as \in Processors /\ Price(k, g) \in Nat
  BY <1>1, <1>2, OnTheWay DEF Hosts
<1>4. h.as = g.as
  BY <1>2, <1>3, SameAt
<1>5. h.cycles + (owed + x) = Price(k, g) + x
  BY <1>2, <1>3
<1> QED BY <1>4, <1>5 DEF Exact

\* From a place where the cycles were charged the processors start anew.
LEMMA Restarts ==
  ASSUME BlockOK, NEW k \in 1 .. Len(insns) + 1, NEW g, g.as \in Processors, NEW h \in Hosts,
         h.as = g.as, NEW const, NEW known, Knows(const, known, g.as)
  PROVE  Holds(Note(k, 0, "al", const, known), Restarted(g, k), Cleared(h))
<1> DEFINE s == Restarted(g, k)
<1>1. k \in Nat /\ Len(insns) \in Nat /\ k >= 1 /\ k <= Len(insns) + 1
  BY LenProperties DEF BlockOK
<1>2. s \in Guests /\ s.pc = k /\ s.as = g.as /\ s.cycles = 0
  BY <1>1 DEF Restarted, Ran, Guests
<1> HIDE DEF s
<1>3. s.pc .. k - 1 = {}
  BY <1>1, <1>2
<1>4. ComesTo(k, s)
  BY <1>1, <1>2, <1>3 DEF ComesTo
<1>5. Price(k, s) = 0
  BY <1>1, <1>2 DEF Price
<1>6. Cleared(h) \in Hosts /\ Cleared(h).as = h.as /\ Cleared(h).cycles = 0
  BY HostParts
<1>7. Alike(k, Cleared(h).as, s.as) /\ Passes("al", s.as) /\ Knows(const, known, s.as)
  BY <1>2, <1>6 DEF Alike, Passes
<1> QED BY <1>4, <1>5, <1>6, <1>7, HoldsIs DEF s

\* A store pays its access too; the world may look behind it.
LEMMA StoreSteps ==
  ASSUME BlockOK, NEW k \in InBlock, NEW owed \in Int, NEW on, NEW const, NEW known,
         NEW op \in Ops, NEW g, NEW h,
         Holds(Note(k, owed, on, const, known), g, h), Passes(insns[k].on, g.as),
         op.op = "store", op.of = k, op.pay = owed + 2, insns[k].does = "str"
  PROVE  StepsTo(op, Note(k + 1, 0, "al", const, known), g, h)
<1>1. /\ k \in Nat /\ k <= Len(insns) /\ k \in 1 .. Len(insns) + 1
      /\ k + 1 \in 1 .. Len(insns) + 1
  BY InsnsTyped
<1>2. /\ ComesTo(k, g) /\ h \in Hosts /\ Knows(const, known, g.as)
  BY HoldsIs
<1>3. g.as \in Processors
  BY <1>1, <1>2, OnTheWay
<1>4. Flags \subseteq SeenAt(k)
  BY <1>1 DEF SeenAt, IsBoundary
<1>5. Exact(g, h, owed + 2, Price(k, g) + 2)
  BY <1>1, <1>4, ExactHolds
<1>6. Holds(Note(k + 1, 0, "al", const, known), Restarted(g, k + 1), Cleared(h))
  BY <1>1, <1>2, <1>3, <1>5, Restarts DEF Exact
<1> QED BY <1>1, <1>2, <1>5, <1>6 DEF StepsTo, Executes

\* A branch or a return pays for itself.
LEMMA LeaveSteps ==
  ASSUME BlockOK, NEW k \in InBlock, NEW owed \in Int, NEW on, NEW const, NEW known,
         NEW op \in Ops, NEW g, NEW h, NEW b,
         Holds(Note(k, owed, on, const, known), g, h), Passes(insns[k].on, g.as),
         op.of = k, op.pay = owed + 1,
         \/ op.op = "leave" /\ insns[k].does = "b"
         \/ op.op = "return" /\ insns[k].does = "bx"
  PROVE  StepsTo(op, b, g, h)
<1>1. k \in Nat /\ k <= Len(insns) /\ k \in 1 .. Len(insns) + 1
  BY InsnsTyped
<1>2. ComesTo(k, g)
  BY HoldsIs
<1>3. Flags \subseteq SeenAt(k)
  BY <1>1 DEF SeenAt, IsExit
<1>4. Exact(g, h, owed + 1, Price(k, g) + 1)
  BY <1>1, <1>3, ExactHolds
<1> QED BY <1>1, <1>2, <1>4 DEF StepsTo, Executes

\* A checkpoint charges what is owed.
LEMMA CheckSteps ==
  ASSUME BlockOK, NEW k \in 1 .. Len(insns) + 1, k \in labels \/ k = Len(insns) + 1,
         NEW owed \in Int, NEW on, NEW const, NEW known,
         NEW op \in Ops, NEW g, NEW h, NEW b,
         Holds(Note(k, owed, on, const, known), g, h), op.of = k, op.pay = owed,
         \/ op.op = "check" /\ b = Note(k, 0, "al", const, known)
         \/ op.op = "tail"
  PROVE  StepsTo(op, b, g, h)
<1>1. k \in Nat /\ Len(insns) \in Nat
  BY LenProperties DEF BlockOK
<1>2. /\ ComesTo(k, g) /\ h \in Hosts /\ Knows(const, known, g.as)
  BY HoldsIs
<1>3. g.as \in Processors /\ Price(k, g) \in Nat
  BY <1>1, <1>2, OnTheWay
<1>4. Flags \subseteq SeenAt(k)
  <2>1. k \in Targets \/ k > Len(insns)
    BY <1>1 DEF BlockOK, InBlock
  <2> QED BY <2>1 DEF SeenAt
<1>5. Exact(g, h, owed, Price(k, g))
  <2>1. Exact(g, h, owed + 0, Price(k, g) + 0)
    BY <1>4, ExactHolds
  <2>2. owed + 0 = owed /\ Price(k, g) + 0 = Price(k, g)
    BY <1>3
  <2> QED BY <2>1, <2>2
<1>6. Holds(Note(k, 0, "al", const, known), Restarted(g, k), Cleared(h))
  BY <1>2, <1>3, <1>5, Restarts DEF Exact
<1> QED BY <1>2, <1>5, <1>6 DEF StepsTo
-----------------------------------------------------------------------------
(* What translate_block_arm holds. *)

Gating == [on : Conditions, marks : SUBSET {"exit", "sets"}]
Emitters ==
  [code : Seq(Ops), begins : Seq(Nat), count : Nat, prepaid : Nat, deferred : Nat,
   last : Gating, as : Gating, hole : Nat, skip : BOOLEAN, const : {0, 1, Unknown},
   known : Knowledge, slot : Nat, source : Seq(Nat), closed : BOOLEAN]

\* What else it holds stays as it is when code is emitted.
Beside(d, e) ==
  /\ d.begins = e.begins /\ d.prepaid = e.prepaid /\ d.last = e.last /\ d.as = e.as
  /\ d.skip = e.skip /\ d.source = e.source /\ d.slot = e.slot /\ d.closed = e.closed
\* The operations of code d are those of c, the places branched to aside, and no branches.
Prolongs(d, c) ==
  /\ Len(c) <= Len(d)
  /\ \A j \in 1 .. Len(c) : d[j].op = c[j].op /\ d[j].of = c[j].of
  /\ \A j \in Len(c) + 1 .. Len(d) : d[j].op # "leave"

\* The translation begins with nothing.
LEMMA StartTyped == Start \in Emitters /\ Len(Start.code) = 0 /\ Len(Start.begins) = 0
<1>1. <<>> \in Seq(Ops) /\ <<>> \in Seq(Nat) /\ Always \in Gating
  BY EmptySeq DEF Always, Gating, Conditions
<1>2. NoFlags \in Knowledge
  <2>1. NoFlags \in [{} -> BOOLEAN]
    BY DEF NoFlags
  <2> QED BY <2>1, Zenon DEF Knowledge, Flags
<1> QED BY <1>1, <1>2 DEF Start, Emitters

\* Operations are operations.
LEMMA OperationTyped ==
  ASSUME NEW op \in {"charge", "gate", "body", "store", "check", "leave", "return", "tail"},
         NEW k \in Nat, NEW pay \in Nat
  PROVE  LET p == Operation(op, k, pay) IN
         /\ p \in Ops /\ p.op = op /\ p.of = k /\ p.pay = pay /\ p.on = "al" /\ p.to = 0
BY DEF Operation, Ops, Conditions

\* An operation is emitted behind the others.
LEMMA OutIs ==
  ASSUME NEW e \in Emitters, NEW op \in Ops
  PROVE  LET d == Out(e, op) IN
         /\ d \in Emitters /\ Beside(d, e) /\ d.code = Append(e.code, op)
         /\ d.count = e.count /\ d.deferred = e.deferred /\ d.hole = e.hole
         /\ d.const = e.const /\ d.known = e.known
<1>1. Append(e.code, op) \in Seq(Ops)
  BY AppendProperties DEF Emitters
<1> QED BY <1>1 DEF Out, Emitters, Beside

\* Code that is added to goes on.
LEMMA AppendProlongs ==
  ASSUME NEW c \in Seq(Ops), NEW op \in Ops
  PROVE  LET d == Append(c, op) IN
         /\ d \in Seq(Ops) /\ Len(d) = Len(c) + 1 /\ d[Len(c) + 1] = op
         /\ \A j \in 1 .. Len(c) : d[j] = c[j]
         /\ op.op # "leave" => Prolongs(d, c)
<1>1. Len(c) \in Nat
  BY LenProperties
<1>2. /\ Append(c, op) \in Seq(Ops) /\ Len(Append(c, op)) = Len(c) + 1
      /\ Append(c, op)[Len(c) + 1] = op /\ \A j \in 1 .. Len(c) : Append(c, op)[j] = c[j]
  BY AppendProperties
<1> QED BY <1>1, <1>2 DEF Prolongs

\* Less may be said where what is emitted so far ends, and more may be emitted.
LEMMA SaidLess ==
  ASSUME NEW e \in Emitters, NEW N, NEW b, Flows(e.code, N), Implies(N[End(e.code)], b)
  PROVE  \E M : Flows(e.code, M) /\ Grows(M, N, End(e.code)) /\ M[End(e.code)] = b
<1> DEFINE C == e.code
<1>1. C \in Seq(Ops) /\ Flows(C, N) /\ Implies(N[End(C)], b)
  BY DEF Emitters
<1> HIDE DEF C
<1>2. \E M : Flows(C, M) /\ Grows(M, N, End(C)) /\ M[End(C)] = b
  BY <1>1, Weakened
<1> QED BY <1>2 DEF C

\* An operation that does not jump is emitted: the notes before it stay.
LEMMA Emitted ==
  ASSUME NEW e \in Emitters, NEW N, NEW op \in Ops, NEW b, Flows(e.code, N), op.to = 0,
         Takes(N[End(e.code)], op, b)
  PROVE  \E M : /\ Flows(Out(e, op).code, M) /\ M[End(Out(e, op).code)] = b
                /\ Grows(M, N, End(e.code)) /\ Agree(M, N, End(e.code))
<1> DEFINE C == e.code
           D == Out(e, op).code
<1>1. C \in Seq(Ops) /\ Flows(C, N)
      /\ Takes(N[End(C)], op, b)
  BY DEF Emitters
<1>2. D = Append(C, op)
  BY OutIs
<1> HIDE DEF C, D
<1>3. \E M : /\ Flows(Append(C, op), M) /\ M[End(Append(C, op))] = b
             /\ Grows(M, N, End(C)) /\ Agree(M, N, End(C))
  BY <1>1, Appended
<1>4. \E M : Flows(D, M) /\ M[End(D)] = b /\ Grows(M, N, End(C)) /\ Agree(M, N, End(C))
  BY <1>2, <1>3
<1> QED BY <1>4 DEF C, D

\* Growing is transitive.
LEMMA GrowsOn ==
  ASSUME NEW N, NEW M, NEW P, NEW L \in Nat \ {0}, NEW K \in Nat, L <= K, Grows(M, N, L),
         Grows(P, M, K)
  PROVE  Grows(P, N, L)
<1>1. \A j \in 1 .. L - 1 : j \in 1 .. K - 1
  OBVIOUS
<1>2. CASE L = K
  BY <1>1, <1>2 DEF Grows, Implies
<1>3. CASE L < K
  <2>1. L \in 1 .. K - 1
    BY <1>3
  <2>2. P[L] = M[L]
    BY <2>1 DEF Grows
  <2> QED BY <1>1, <2>2 DEF Grows, Implies
<1> QED BY <1>2, <1>3
-----------------------------------------------------------------------------
(* What holds of the code while it is emitted. *)

\* Every gate but an open one knows where to jump.
Jumps(code) == \A j \in 1 .. Len(code) : code[j].op = "gate" => code[j].to # 0
GatesOK(e) ==
  \A j \in 1 .. Len(e.code) :
    e.code[j].op = "gate" /\ e.code[j].to = 0 => e.last.on # "al" /\ j = e.hole
\* Who jumps at an open gate is at instruction k, and owes what is not charged in the run.
HoleOK(e, N, k, owed) ==
  e.last.on # "al" =>
    /\ e.hole \in 1 .. Len(e.code) /\ e.code[e.hole].op = "gate"
    /\ e.code[e.hole].to = 0 /\ e.code[e.hole].on = e.last.on
    /\ \A g, h : Holds(N[e.hole], g, h) /\ ~Passes(e.last.on, h.as) =>
         /\ ~Passes(e.last.on, g.as)
         /\ Holds(Note(k, owed, "al", e.const, e.known), g,
                  Charged(h, e.code[e.hole].pay))
\* The code of a place branched to begins where one may enter it.
Begun(begins, N, L) ==
  /\ \A t \in 1 .. Len(begins) : t = 1 \/ t \in labels =>
       begins[t] \in 1 .. L /\ Implies(EntryAt(t), N[begins[t]])
  /\ Len(begins) >= 1 => begins[1] = 1
\* The slots of the first k instructions' branches.
Linked(code, source, k) ==
  /\ Len(source) = Cardinality(Branches(k))
  /\ \A s \in 1 .. Len(source) :
       source[s] = 0 \/ /\ source[s] \in 1 .. Len(code)
                        /\ code[source[s]].op = "leave"
                        /\ s = Cardinality(Branches(code[source[s]].of))
  /\ \A j \in 1 .. Len(code) : code[j].op = "leave" =>
       /\ code[j].of \in 1 .. k /\ IsBranch(insns[code[j].of])
       /\ Cardinality(Branches(code[j].of)) \in 1 .. Len(source)
       /\ source[Cardinality(Branches(code[j].of))] = j

\* The code so far is right, and its end is at instruction k.
CodeOK(e, N, k, owed, on) ==
  /\ e \in Emitters /\ Flows(e.code, N) /\ GatesOK(e)
  /\ Begun(e.begins, N, End(e.code))
  /\ Implies(N[End(e.code)], Note(k, owed, on, e.const, e.known))

\* Places stay where they are while code is added.
LEMMA BegunStays ==
  ASSUME NEW begins, NEW N, NEW M, NEW L \in Nat, NEW K \in Nat, L <= K,
         Begun(begins, N, L), Grows(M, N, L)
  PROVE  Begun(begins, M, K)
<1>1. ASSUME NEW t \in 1 .. Len(begins), t = 1 \/ t \in labels
      PROVE  begins[t] \in 1 .. K /\ Implies(EntryAt(t), M[begins[t]])
  <2>1. begins[t] \in 1 .. L /\ Implies(EntryAt(t), N[begins[t]])
    BY <1>1 DEF Begun
  <2>2. CASE begins[t] = L
    BY <2>1, <2>2 DEF Grows, Implies
  <2>3. CASE begins[t] \in 1 .. L - 1
    BY <2>1, <2>3 DEF Grows
  <2> QED BY <2>1, <2>2, <2>3
<1> QED BY <1>1 DEF Begun

\* So do the branches of the first k instructions.
LEMMA LinkedStays ==
  ASSUME NEW c \in Seq(Ops), NEW d \in Seq(Ops), Prolongs(d, c), NEW source \in Seq(Nat),
         NEW k, Linked(c, source, k)
  PROVE  Linked(d, source, k)
<1>1. Len(c) \in Nat /\ Len(d) \in Nat /\ Len(c) <= Len(d)
  BY LenProperties DEF Prolongs
<1>2. \A j \in 1 .. Len(c) : j \in 1 .. Len(d) /\ d[j].op = c[j].op /\ d[j].of = c[j].of
  BY <1>1 DEF Prolongs
<1>3. \A j \in 1 .. Len(d) : d[j].op = "leave" => j \in 1 .. Len(c)
  BY <1>1 DEF Prolongs
<1>4. \A s \in 1 .. Len(source) :
        source[s] = 0 \/ /\ source[s] \in 1 .. Len(d) /\ d[source[s]].op = "leave"
                         /\ s = Cardinality(Branches(d[source[s]].of))
  BY <1>2 DEF Linked
<1>5. \A j \in 1 .. Len(d) : d[j].op = "leave" =>
        /\ d[j].of \in 1 .. k /\ IsBranch(insns[d[j].of])
        /\ Cardinality(Branches(d[j].of)) \in 1 .. Len(source)
        /\ source[Cardinality(Branches(d[j].of))] = j
  BY <1>2, <1>3 DEF Linked
<1> QED BY <1>4, <1>5 DEF Linked

\* The end of a conditional run is where both ways come to.
LEMMA CloseOK ==
  ASSUME BlockOK, NEW e, NEW N, NEW k, NEW on, NEW o \in {0, 1},
         CodeOK(e, N, k, e.count + e.deferred - o, on), HoleOK(e, N, k, e.count - o),
         e.last.on = "al" => e.deferred = 0
  PROVE  LET d == Close(e) IN
         \E M : /\ d \in Emitters /\ Beside(d, e) /\ Prolongs(d.code, e.code)
                /\ d.count = e.count /\ d.deferred = 0 /\ d.const = e.const
                /\ d.known = e.known /\ d.hole = e.hole
                /\ Flows(d.code, M) /\ Jumps(d.code)
                /\ Begun(d.begins, M, End(d.code)) /\ Grows(M, N, End(e.code))
                /\ Implies(M[End(d.code)], Note(k, e.count - o, "al", e.const, e.known))
                /\ e.deferred = 0 => Len(d.code) = Len(e.code)
                /\ e.last.on = "al" => d = e
                /\ \A j \in End(e.code) .. Len(d.code) : d.code[j].op = "charge"
<1> DEFINE L == Len(e.code)
           d == Close(e)
           b == Note(k, e.count - o, "al", e.const, e.known)
<1> HIDE DEF b
<1>1. e \in Emitters /\ e.code \in Seq(Ops) /\ L \in Nat /\ e.count \in Nat
      /\ e.deferred \in Nat
  <2>1. e \in Emitters
    BY DEF CodeOK
  <2> QED BY <2>1, LenProperties DEF Emitters
<1>2. CASE e.last.on = "al"
  <2>1. d = e
    BY <1>2 DEF Close
  <2>2. Jumps(e.code)
    BY <1>2 DEF GatesOK, Jumps, CodeOK
  <2>3. Grows(N, N, End(e.code))
    BY DEF Grows, Implies
  <2>4. Prolongs(e.code, e.code)
    BY <1>1 DEF Prolongs
  <2>5. Implies(N[End(e.code)], b)
    <3> SUFFICES ASSUME NEW g, NEW h, Holds(N[End(e.code)], g, h) PROVE Holds(b, g, h)
      BY DEF Implies
    <3>1. Holds(Note(k, e.count + e.deferred - o, on, e.const, e.known), g, h)
      BY DEF CodeOK, Implies
    <3>2. e.count + e.deferred - o = e.count - o
      BY <1>1, <1>2
    <3> QED BY <3>1, <3>2, HoldsLess DEF b
  <2>6. End(e.code) .. Len(e.code) = {}
    BY <1>1 DEF End
  <2> QED BY <1>1, <1>2, <2>1, <2>2, <2>3, <2>4, <2>5, <2>6 DEF CodeOK, Beside, b
<1>3. CASE e.last.on # "al"
  <2> DEFINE op == Operation("charge", 0, e.deferred)
             c == Charge(e, e.deferred)
             K == Len(c.code)
  <2>1. op \in Ops /\ op.op = "charge" /\ op.pay = e.deferred /\ op.to = 0
    <3>1. e.deferred \in Nat /\ 0 \in Nat
      BY <1>1
    <3> QED BY <3>1, OperationTyped
  <2> HIDE DEF op
  \* The loads are charged inside the run.
  <2>2. PICK M :
          /\ c \in Emitters /\ Beside(c, e) /\ Prolongs(c.code, e.code)
          /\ c.count = e.count /\ c.const = e.const /\ c.known = e.known /\ c.hole = e.hole
          /\ Flows(c.code, M) /\ Grows(M, N, End(e.code))
          /\ \A j \in 1 .. L : c.code[j] = e.code[j] /\ M[j] = N[j]
          /\ \A j \in L + 1 .. K : c.code[j].op = "charge"
          /\ M[End(c.code)] = b /\ (e.deferred = 0 => K = L)
    <3>1. CASE e.deferred = 0
      <4>1. c = e
        BY <3>1 DEF Charge
      <4>2. Implies(N[End(e.code)], b)
        <5> SUFFICES ASSUME NEW g, NEW h, Holds(N[End(e.code)], g, h) PROVE Holds(b, g, h)
          BY DEF Implies
        <5>1. Holds(Note(k, e.count + e.deferred - o, on, e.const, e.known), g, h)
          BY DEF CodeOK, Implies
        <5>2. e.count + e.deferred - o = e.count - o
          BY <1>1, <3>1
        <5> QED BY <5>1, <5>2, HoldsLess DEF b
      <4>3. PICK M : Flows(e.code, M) /\ Grows(M, N, End(e.code)) /\ M[End(e.code)] = b
        <5>1. Flows(e.code, N)
          BY DEF CodeOK
        <5> QED BY <1>1, <4>2, <5>1, SaidLess
      <4>4. Prolongs(e.code, e.code)
        BY <1>1 DEF Prolongs
      <4>5. \A j \in 1 .. L : M[j] = N[j]
        BY <1>1, <4>3 DEF Grows, End
      <4> QED BY <1>1, <3>1, <4>1, <4>3, <4>4, <4>5 DEF Beside
    <3>2. CASE e.deferred # 0
      <4>1. c = Out(e, op)
        BY <3>2 DEF Charge, op
      <4>2. /\ c \in Emitters /\ Beside(c, e) /\ c.code = Append(e.code, op)
            /\ c.count = e.count /\ c.hole = e.hole /\ c.const = e.const
            /\ c.known = e.known
        BY <1>1, <2>1, <4>1, OutIs
      <4>3. ASSUME NEW g, NEW h, Holds(N[End(e.code)], g, h) PROVE StepsTo(op, b, g, h)
        <5>1. Holds(Note(k, e.count + e.deferred - o, on, e.const, e.known), g, h)
          BY <4>3 DEF CodeOK, Implies, End
        <5>2. Holds(Note(k, e.count + e.deferred - o, "al", e.const, e.known), g, h)
          BY <5>1, HoldsLess
        <5>3. Holds(Note(k, e.count + e.deferred - o - e.deferred, "al", e.const, e.known),
                    g, Charged(h, e.deferred))
          BY <1>1, <5>2, ChargeHolds
        <5>4. e.count + e.deferred - o - e.deferred = e.count - o
          BY <1>1
        <5> QED BY <2>1, <5>3, <5>4 DEF StepsTo, b
      <4>4. PICK M : /\ Flows(Out(e, op).code, M) /\ M[End(Out(e, op).code)] = b
                     /\ Grows(M, N, End(e.code))
        <5>1. Flows(e.code, N)
          BY DEF CodeOK
        <5>2. Takes(N[End(e.code)], op, b)
          BY <4>3 DEF Takes
        <5> QED BY <1>1, <2>1, <5>1, <5>2, Emitted
      <4>5. /\ K = L + 1 /\ c.code[L + 1] = op /\ \A j \in 1 .. L : c.code[j] = e.code[j]
            /\ Prolongs(c.code, e.code)
        BY <1>1, <2>1, <4>2, AppendProlongs
      <4>6. \A j \in 1 .. L : M[j] = N[j]
        BY <1>1, <4>4 DEF Grows, End
      <4>7. \A j \in L + 1 .. K : j = L + 1
        BY <1>1, <4>5
      <4> QED BY <2>1, <3>2, <4>1, <4>2, <4>4, <4>5, <4>6, <4>7
    <3> QED BY <3>1, <3>2
  <2> HIDE DEF c
  \* The gate jumps behind them.
  <2> DEFINE i == e.hole
             D == [c.code EXCEPT ![i].to = End(c.code)]
  <2>3. /\ i \in 1 .. L /\ e.code[i].op = "gate" /\ e.code[i].to = 0
        /\ e.code[i].on = e.last.on
    BY <1>3 DEF HoleOK
  <2>4. c.code \in Seq(Ops) /\ K \in Nat /\ L <= K
    BY <2>2, LenProperties DEF Emitters, Prolongs
  <2>5. i \in 1 .. K /\ c.code[i] = e.code[i] /\ M[i] = N[i]
    BY <2>2, <2>3, <2>4
  <2>6. ASSUME NEW g, NEW h, Holds(M[i], g, h), ~Passes(c.code[i].on, h.as)
        PROVE  Holds(M[End(c.code)], g, Charged(h, c.code[i].pay))
    BY <1>3, <2>2, <2>3, <2>5, <2>6 DEF HoleOK, b
  <2>7. /\ Flows(D, M) /\ D \in Seq(Ops) /\ Len(D) = K
        /\ \A j \in 1 .. K : /\ D[j].op = c.code[j].op /\ D[j].of = c.code[j].of
                             /\ D[j].to = IF j = i THEN End(c.code) ELSE c.code[j].to
    BY <2>2, <2>4, <2>5, <2>6, PatchedTo
  <2>8. d = [c EXCEPT !.code[e.hole].to = K + 1, !.deferred = 0]
    BY <1>3 DEF Close, c, End
  <2> HIDE DEF D
  <2>9. /\ d \in Emitters /\ d.code = D /\ Beside(d, e) /\ d.deferred = 0
        /\ d.count = e.count /\ d.const = e.const /\ d.known = e.known /\ d.hole = e.hole
    <3>1. d = [c EXCEPT !.code = D, !.deferred = 0]
      <4>1. [c EXCEPT !.code[e.hole].to = End(c.code), !.deferred = 0]
              = [c EXCEPT !.code = [c.code EXCEPT ![e.hole].to = End(c.code)],
                          !.deferred = 0]
        OBVIOUS
      <4>2. d = [c EXCEPT !.code[e.hole].to = End(c.code), !.deferred = 0]
        BY <2>8 DEF End
      <4> QED BY <4>1, <4>2 DEF D
    <3> HIDE DEF d
    <3>2. D \in Seq(Ops) /\ c \in Emitters
      BY <2>2, <2>7
    <3>3. d \in Emitters /\ d.code = D /\ Beside(d, c) /\ d.deferred = 0
          /\ d.count = c.count /\ d.const = c.const /\ d.known = c.known /\ d.hole = c.hole
      BY <3>1, <3>2 DEF Emitters, Beside
    <3> QED BY <2>2, <3>3 DEF Beside
  <2>10. Jumps(D)
    <3> SUFFICES ASSUME NEW j \in 1 .. K, D[j].op = "gate" PROVE D[j].to # 0
      BY <2>7 DEF Jumps
    <3>1. CASE j = i
      BY <2>4, <2>7, <3>1 DEF End
    <3>2. CASE j # i
      <4>1. c.code[j].op = "gate" /\ D[j].to = c.code[j].to
        BY <2>7, <3>2
      <4>2. j \notin L + 1 .. K
        BY <2>2, <4>1
      <4>3. j \in 1 .. L /\ c.code[j] = e.code[j]
        BY <1>1, <2>2, <2>4, <4>2
      <4> QED BY <3>2, <4>1, <4>3 DEF CodeOK, GatesOK
    <3> QED BY <3>1, <3>2
  <2>11. Prolongs(D, e.code)
    <3>1. \A j \in 1 .. L : j \in 1 .. K
      BY <1>1, <2>4
    <3>2. \A j \in L + 1 .. K : j \in 1 .. K
      BY <1>1, <2>4
    <3>3. \A j \in 1 .. L : D[j].op = e.code[j].op /\ D[j].of = e.code[j].of
      BY <2>2, <2>7, <3>1
    <3>4. \A j \in L + 1 .. K : D[j].op # "leave"
      BY <2>2, <2>7, <3>2
    <3> QED BY <2>4, <2>7, <3>3, <3>4 DEF Prolongs
  <2>12. /\ End(d.code) = End(c.code) /\ End(c.code) \in Nat /\ End(e.code) \in Nat
         /\ End(e.code) <= End(c.code)
    BY <1>1, <2>4, <2>7, <2>9, SMTT(30) DEF End
  <2>13. Begun(d.begins, M, End(d.code))
    <3>1. d.begins = e.begins /\ Begun(e.begins, N, End(e.code))
      BY <2>9, <2>12 DEF Beside, CodeOK
    <3> QED BY <2>2, <2>12, <3>1, BegunStays
  <2>14. Implies(M[End(d.code)], b)
    BY <2>2, <2>12 DEF Implies
  <2>15. e.deferred = 0 => Len(d.code) = Len(e.code)
    BY <2>2, <2>7, <2>9
  <2>16. \A j \in End(e.code) .. Len(d.code) : d.code[j].op = "charge"
    <3> SUFFICES ASSUME NEW j \in L + 1 .. K PROVE D[j].op = "charge"
      BY <2>7, <2>9 DEF End
    <3>1. j \in 1 .. K
      BY <1>1, <2>4
    <3> QED BY <2>2, <2>7, <3>1
  <2> HIDE DEF d
  <2>17. Flows(d.code, M) /\ Jumps(d.code) /\ Prolongs(d.code, e.code) /\ Grows(M, N, End(e.code))
    BY <2>2, <2>7, <2>9, <2>10, <2>11, <2>12
  <2> QED BY <1>3, <2>9, <2>13, <2>14, <2>15, <2>16, <2>17 DEF b, d
<1> QED BY <1>2, <1>3
-----------------------------------------------------------------------------
(* The instructions of a block, one after the other. *)

\* The branches among the first instructions are counted on.
LEMMA BranchesGrow ==
  ASSUME BlockOK, NEW k \in InBlock
  PROVE  /\ Cardinality(Branches(k - 1)) \in Nat /\ Cardinality(Branches(0)) = 0
         /\ Cardinality(Branches(k)) = IF IsBranch(insns[k])
              THEN Cardinality(Branches(k - 1)) + 1 ELSE Cardinality(Branches(k - 1))
<1>1. k \in Nat /\ k >= 1
  BY InsnsTyped
<1>2. IsFiniteSet(1 .. k - 1)
  BY <1>1, FS_Interval
<1>3. Branches(k - 1) \subseteq 1 .. k - 1
  BY DEF Branches
<1>4. IsFiniteSet(Branches(k - 1)) /\ Cardinality(Branches(k - 1)) \in Nat
  BY <1>2, <1>3, FS_Subset, FS_CardinalityType
<1>5. k \notin Branches(k - 1)
  BY <1>1, <1>3
<1>6. Branches(k) = IF IsBranch(insns[k]) THEN Branches(k - 1) \cup {k} ELSE Branches(k - 1)
  BY <1>1 DEF Branches
<1>7. Branches(0) = {}
  BY DEF Branches
<1>8. Cardinality(Branches(k - 1) \cup {k}) = Cardinality(Branches(k - 1)) + 1
  BY <1>4, <1>5, FS_AddElement
<1> QED BY <1>4, <1>6, <1>7, <1>8, FS_EmptySet

\* The instructions of a run that are prepaid from k on, and where the run ends.
RunFrom(last, prepaid, k) ==
  /\ \A m \in k .. k + prepaid - 1 :
       m \in InBlock /\ m \notin labels /\ Condition(m) = last
  /\ last.marks = {} /\ k + prepaid \in InBlock =>
       k + prepaid \in labels \/ Condition(k + prepaid) # last

\* A gate prepays the run it opens.
LEMMA RunOpens ==
  ASSUME BlockOK, NEW k \in InBlock, NEW e, e.last = e.as
  PROVE  /\ Cardinality(SameRun(e, k)) \in Nat
         /\ RunFrom(e.last, Cardinality(SameRun(e, k)), k + 1)
         /\ e.as.marks # {} => Cardinality(SameRun(e, k)) = 0
<1> DEFINE n == Len(insns)
           S == SameRun(e, k)
           OfRun(j) == j \notin labels /\ Condition(j) = e.last
<1>1. n \in Nat /\ k \in Nat /\ k >= 1 /\ k <= n
  BY InsnsTyped
<1>2. CASE e.as.marks # {}
  <2>1. Cardinality(S) = 0
    BY <1>2, FS_EmptySet DEF SameRun
  <2>2. k + 1 .. k + 1 + 0 - 1 = {}
    BY <1>1
  <2> QED BY <1>2, <2>1, <2>2 DEF RunFrom
<1>3. CASE e.as.marks = {}
  <2> DEFINE T == {j \in k + 1 .. n + 1 : j = n + 1 \/ ~OfRun(j)}
  <2>1. S = {j \in k + 1 .. n : \A m \in k + 1 .. j : OfRun(m)}
    BY <1>3 DEF SameRun
  <2> HIDE DEF OfRun, S
  <2>2. T \subseteq Nat /\ n + 1 \in T
    BY <1>1
  <2>3. PICK b \in T : \A j \in T : b <= j
    BY <2>2, LeastOf
  <2>4. b \in k + 1 .. n + 1 /\ (b = n + 1 \/ ~OfRun(b))
    OBVIOUS
  <2>5. \A j \in k + 1 .. b - 1 : OfRun(j)
    <3> SUFFICES ASSUME NEW j \in k + 1 .. b - 1, ~OfRun(j) PROVE FALSE
      OBVIOUS
    <3>1. j \in k + 1 .. n + 1
      BY <1>1, <2>4
    <3> QED BY <1>1, <2>3, <2>4, <3>1
  <2> HIDE DEF T
  <2>6. S = k + 1 .. b - 1
    <3>1. ASSUME NEW j \in S PROVE j \in k + 1 .. b - 1
      <4>1. j \in k + 1 .. n /\ \A m \in k + 1 .. j : OfRun(m)
        BY <2>1
      <4>2. b \notin k + 1 .. j
        BY <1>1, <2>4, <4>1
      <4> QED BY <1>1, <2>4, <4>1, <4>2
    <3>2. ASSUME NEW j \in k + 1 .. b - 1 PROVE j \in S
      <4>1. j \in k + 1 .. n /\ \A m \in k + 1 .. j : m \in k + 1 .. b - 1
        BY <1>1, <2>4
      <4> QED BY <2>1, <2>5, <4>1
    <3> QED BY <3>1, <3>2
  <2>7. Cardinality(S) = b - 1 - k
    <3>1. Cardinality(k + 1 .. b - 1) = b - 1 - k
      BY <1>1, <2>4, FS_Interval
    <3> QED BY <2>6, <3>1
  <2> DEFINE c == Cardinality(S)
  <2>8. c \in Nat /\ k + 1 + c = b /\ k + 1 + c - 1 = b - 1
    BY <1>1, <2>4, <2>7
  <2> HIDE DEF c
  <2>9. \A m \in k + 1 .. b - 1 : m \in InBlock /\ m \notin labels /\ Condition(m) = e.last
    BY <1>1, <2>4, <2>5 DEF OfRun, InBlock
  <2>10. b \in InBlock => b \in labels \/ Condition(b) # e.last
    BY <1>1, <2>4 DEF OfRun, InBlock
  <2>11. RunFrom(e.last, c, k + 1)
    BY <2>8, <2>9, <2>10 DEF RunFrom
  <2> QED BY <1>3, <2>8, <2>11 DEF c, S
<1> QED BY <1>2, <1>3
-----------------------------------------------------------------------------
(* Between two instructions, where k is the next. *)

Under(e) == IF e.last.marks = {} THEN e.last.on ELSE "al"
Undecided(e) == ~(ReadsOn(e.last.on) \subseteq DOMAIN e.known)
Alone(e) == e.last.marks # {} => e.prepaid = 0 /\ e.deferred = 0
RunOK(e, k) ==
  /\ e.last.on = "al" => e.deferred = 0 /\ e.prepaid = 0
  /\ e.last.on # "al" =>
       e.count = 0 /\ Undecided(e) /\ RunFrom(e.last, e.prepaid, k) /\ Alone(e)

\* Where one may come from elsewhere nothing is known, nor owed.
Enterable(k) == k \in InBlock /\ (k = 1 \/ k \in labels)
Anew(e, N, k) ==
  Enterable(k) => /\ e.last.on = "al" /\ e.count = 0 /\ e.known = NoFlags
                  /\ e.const = Unknown /\ Implies(EntryAt(k), N[End(e.code)])

\* Code that needs no tail ends with an exit.
EndsSo(e) ==
  e.closed \/ (Len(e.code) > 0 /\ e.code[Len(e.code)].op = "return" /\ e.count = 0)
ExitsAt(k) == insns[k].does = "bx" \/ (insns[k].does = "b" /\ ClosesBlock(k))
Ended(e, N, k) ==
  /\ k = 1 <=> Len(e.code) = 0
  /\ e.closed => k = Len(insns) + 1
  /\ EndsSo(e) /\ k = Len(insns) + 1 =>
       /\ e.count = 0 /\ e.deferred = 0 /\ ExitsAt(Len(insns))
       /\ e.last.on # "al" => insns[Len(insns)].on # "al"
       /\ insns[Len(insns)].on = "al" => Implies(N[End(e.code)], Nowhere)

Past(e, N, k) ==
  /\ CodeOK(e, N, k, e.count + e.deferred - e.prepaid, Under(e))
  /\ HoleOK(e, N, k, e.count - e.prepaid)
  /\ RunOK(e, k) /\ Ended(e, N, k)
  /\ Linked(e.code, e.source, k - 1) /\ Len(e.begins) = k - 1
Between(e, N, k) == Past(e, N, k) /\ Anew(e, N, k)

\* An instruction is begun: in a run, or behind one.
InRun(e, k) ==
  /\ e.count = 0 /\ e.last.marks = {} /\ Condition(k) = e.last
  /\ RunFrom(e.last, e.prepaid, k + 1)
Behind(e, k) ==
  e.prepaid = 0 /\ e.count = 1 /\ (e.last.marks # {} \/ Condition(k) # e.last)
Begins(e, N, k) ==
  /\ CodeOK(e, N, k, e.count + e.deferred - e.prepaid - 1, Under(e))
  /\ HoleOK(e, N, k, e.count - e.prepaid - 1)
  /\ e.last.on = "al" => e.deferred = 0 /\ e.prepaid = 0 /\ e.count >= 1
  /\ e.last.on # "al" => Undecided(e) /\ (InRun(e, k) \/ Behind(e, k)) /\ Alone(e)
  /\ Linked(e.code, e.source, k - 1) /\ Len(e.begins) = k /\ ~e.closed
  /\ Len(e.code) = 0 => k = 1 /\ e.known = NoFlags

\* The fetch of an instruction is charged, or was prepaid by the gate of its run.
LEMMA FetchedOK ==
  ASSUME BlockOK, NEW e, NEW N, NEW k \in InBlock, Between(e, N, k)
  PROVE  Begins(Fetched(e), N, k)
<1> DEFINE d == Fetched(e)
<1>1. /\ k \in Nat /\ k >= 1 /\ k <= Len(insns) /\ Len(insns) \in Nat
  BY InsnsTyped
<1>2. /\ e \in Emitters /\ Flows(e.code, N) /\ GatesOK(e) /\ Begun(e.begins, N, End(e.code))
      /\ Implies(N[End(e.code)],
                 Note(k, e.count + e.deferred - e.prepaid, Under(e), e.const, e.known))
  BY DEF Between, Past, CodeOK
<1>3. /\ e.code \in Seq(Ops) /\ e.begins \in Seq(Nat) /\ Len(e.code) \in Nat
      /\ Len(e.begins) = k - 1 /\ e.count \in Nat /\ e.prepaid \in Nat
      /\ e.deferred \in Nat /\ End(e.code) \in Nat \ {0}
  <2>1. e.code \in Seq(Ops) /\ e.begins \in Seq(Nat) /\ e.count \in Nat /\ e.prepaid \in Nat
        /\ e.deferred \in Nat
    BY <1>2 DEF Emitters
  <2>2. Len(e.code) \in Nat
    BY <2>1, LenProperties
  <2> QED BY <2>1, <2>2 DEF Between, Past, End
<1>4. /\ d \in Emitters /\ d.code = e.code /\ d.begins = Append(e.begins, End(e.code))
      /\ d.last = e.last /\ d.const = e.const /\ d.known = e.known /\ d.hole = e.hole
      /\ d.source = e.source /\ d.closed = e.closed /\ d.deferred = e.deferred
      /\ d.prepaid = (IF e.prepaid > 0 THEN e.prepaid - 1 ELSE 0)
      /\ d.count = (IF e.prepaid > 0 THEN e.count ELSE e.count + 1)
  <2> DEFINE b == Append(e.begins, End(e.code))
             f == [e EXCEPT !.begins = b]
  <2>1. b \in Seq(Nat)
    BY <1>3, AppendProperties
  <2>2. d = IF f.prepaid > 0 THEN [f EXCEPT !.prepaid = @ - 1] ELSE [f EXCEPT !.count = @ + 1]
    BY DEF Fetched, End
  <2> HIDE DEF b
  <2>3. f \in Emitters
    BY <1>2, <2>1 DEF Emitters
  <2>4. /\ f.begins = b /\ f.code = e.code /\ f.prepaid = e.prepaid /\ f.count = e.count
        /\ f.last = e.last /\ f.const = e.const /\ f.known = e.known /\ f.hole = e.hole
        /\ f.source = e.source /\ f.closed = e.closed /\ f.deferred = e.deferred
    BY <1>2 DEF Emitters
  <2> HIDE DEF f, d
  <2>5. CASE f.prepaid > 0
    <3>1. d = [f EXCEPT !.prepaid = f.prepaid - 1] /\ f.prepaid - 1 \in Nat
      BY <1>3, <2>2, <2>4, <2>5
    <3> QED BY <2>3, <2>4, <2>5, <3>1 DEF Emitters, b
  <2>6. CASE ~(f.prepaid > 0)
    <3>1. d = [f EXCEPT !.count = f.count + 1] /\ f.count + 1 \in Nat /\ f.prepaid = 0
      BY <1>3, <2>2, <2>4, <2>6
    <3> QED BY <2>3, <2>4, <2>6, <3>1 DEF Emitters, b
  <2> QED BY <2>5, <2>6
<1> HIDE DEF d
<1>5. /\ d.count + d.deferred - d.prepaid - 1 = e.count + e.deferred - e.prepaid
      /\ d.count - d.prepaid - 1 = e.count - e.prepaid
      /\ d.prepaid \in Nat /\ d.count \in Nat
  <2> DEFINE c == e.count
             p == e.prepaid
             q == e.deferred
             x == d.count
             y == d.prepaid
  <2>1. /\ c \in Nat /\ p \in Nat /\ q \in Nat /\ d.deferred = q
        /\ x = (IF p > 0 THEN c ELSE c + 1) /\ y = (IF p > 0 THEN p - 1 ELSE 0)
    BY <1>3, <1>4
  <2> HIDE DEF c, p, q, x, y
  <2>2. x + q - y - 1 = c + q - p /\ x - y - 1 = c - p /\ x \in Nat /\ y \in Nat
    <3>1. CASE p > 0
      BY <2>1, <3>1
    <3>2. CASE ~(p > 0)
      <4>1. p = 0 /\ x = c + 1 /\ y = 0
        BY <2>1, <3>2
      <4> QED BY <2>1, <4>1
    <3> QED BY <3>1, <3>2
  <2>3. d.deferred = q
    BY <2>1
  <2> QED BY <2>2, <2>3 DEF c, p, q, x, y
<1>6. Begun(d.begins, N, End(d.code))
  <2>1. /\ Len(d.begins) = k /\ d.begins[k] = End(e.code)
        /\ \A t \in 1 .. k - 1 : d.begins[t] = e.begins[t]
    BY <1>1, <1>3, <1>4, AppendProperties
  <2>2. ASSUME NEW t \in 1 .. k, t = 1 \/ t \in labels
        PROVE  d.begins[t] \in 1 .. End(d.code) /\ Implies(EntryAt(t), N[d.begins[t]])
    <3>1. CASE t = k
      <4>1. Implies(EntryAt(k), N[End(e.code)])
        BY <2>2, <3>1 DEF Between, Past, Anew, Enterable
      <4> QED BY <1>3, <1>4, <2>1, <3>1, <4>1
    <3>2. CASE t \in 1 .. k - 1
      BY <1>2, <1>3, <1>4, <2>1, <2>2, <3>2 DEF Begun
    <3> QED BY <1>1, <3>1, <3>2
  <2>3. d.begins[1] = 1
    <3>1. CASE k = 1
      <4>1. Len(e.code) = 0
        BY <3>1 DEF Between, Past, Ended
      <4> QED BY <2>1, <3>1, <4>1 DEF End
    <3>2. CASE k # 1
      <4>1. 1 \in 1 .. k - 1 /\ Len(e.begins) >= 1
        BY <1>1, <1>3, <3>2
      <4> QED BY <1>2, <2>1, <4>1 DEF Begun
    <3> QED BY <3>1, <3>2
  <2> QED BY <2>1, <2>2, <2>3 DEF Begun
<1>7. CodeOK(d, N, k, d.count + d.deferred - d.prepaid - 1, Under(d))
  <2>1. GatesOK(d) /\ Under(d) = Under(e)
    BY <1>2, <1>4 DEF GatesOK, Under
  <2> QED BY <1>2, <1>4, <1>5, <1>6, <2>1 DEF CodeOK
<1>8. HoleOK(d, N, k, d.count - d.prepaid - 1)
  <2>1. HoleOK(e, N, k, e.count - e.prepaid)
    BY DEF Between, Past
  <2> QED BY <1>4, <1>5, <2>1 DEF HoleOK
<1>9. d.last.on = "al" => d.deferred = 0 /\ d.prepaid = 0 /\ d.count >= 1
  BY <1>3, <1>4 DEF Between, Past, RunOK
<1>10. ASSUME d.last.on # "al"
       PROVE  Undecided(d) /\ (InRun(d, k) \/ Behind(d, k)) /\ Alone(d)
  <2>1. e.count = 0 /\ Undecided(e) /\ RunFrom(e.last, e.prepaid, k) /\ Alone(e)
    BY <1>4, <1>10 DEF Between, Past, RunOK
  <2>2. Undecided(d) /\ Alone(d)
    BY <1>3, <1>4, <2>1 DEF Undecided, Alone
  <2>3. CASE e.prepaid > 0
    <3>1. d.count = 0 /\ d.last = e.last /\ e.last.marks = {}
      BY <1>4, <2>1, <2>3 DEF Alone
    <3>2. k \in k .. k + e.prepaid - 1 /\ k + 1 + d.prepaid = k + e.prepaid
          /\ k + 1 + d.prepaid - 1 = k + e.prepaid - 1
      <4>1. d.prepaid = e.prepaid - 1 /\ e.prepaid \in Nat /\ e.prepaid >= 1
        BY <1>3, <1>4, <2>3
      <4> DEFINE p == e.prepaid
                 y == d.prepaid
      <4> HIDE DEF p, y
      <4>2. y = p - 1 /\ p \in Nat /\ p >= 1
        BY <4>1 DEF p, y
      <4>3. k \in k .. k + p - 1 /\ k + 1 + y = k + p /\ k + 1 + y - 1 = k + p - 1
        BY <1>1, <4>2
      <4> QED BY <4>3 DEF p, y
    <3>3. Condition(k) = e.last
      BY <2>1, <3>2 DEF RunFrom
    <3>4. \A m \in k + 1 .. k + 1 + d.prepaid - 1 : m \in k .. k + e.prepaid - 1
      BY <1>1, <1>3, <3>2
    <3>5. RunFrom(d.last, d.prepaid, k + 1)
      BY <2>1, <3>1, <3>2, <3>4 DEF RunFrom
    <3> QED BY <2>2, <3>1, <3>3, <3>5 DEF InRun
  <2>4. CASE ~(e.prepaid > 0)
    <3>1. d.prepaid = 0 /\ d.count = 1 /\ d.last = e.last /\ k + e.prepaid = k
      BY <1>1, <1>3, <1>4, <2>1, <2>4
    <3>2. k \notin labels
      BY <1>4, <1>10 DEF Between, Past, Anew, Enterable
    <3>3. e.last.marks # {} \/ Condition(k) # e.last
      BY <2>1, <3>1, <3>2 DEF RunFrom
    <3> QED BY <2>2, <3>1, <3>3 DEF Behind
  <2> QED BY <2>3, <2>4
<1>11. Linked(d.code, d.source, k - 1) /\ Len(d.begins) = k
  <2>1. Linked(e.code, e.source, k - 1)
    BY DEF Between, Past
  <2>2. Len(d.begins) = k
    BY <1>1, <1>3, <1>4, AppendProperties
  <2> QED BY <1>4, <2>1, <2>2
<1>12. ~d.closed
  BY <1>1, <1>4 DEF Between, Past, Ended
<1>13. Len(d.code) = 0 => k = 1 /\ d.known = NoFlags
  BY <1>4 DEF Between, Past, Ended, Anew, Enterable
<1> QED BY <1>7, <1>8, <1>9, <1>10, <1>11, <1>12, <1>13 DEF Begins, d
-----------------------------------------------------------------------------
\* The runs before an instruction are closed; only its fetch is not charged.
Shut(e, N, k) ==
  /\ e \in Emitters /\ Flows(e.code, N) /\ Jumps(e.code) /\ Begun(e.begins, N, End(e.code))
  /\ Implies(N[End(e.code)], Note(k, e.count - 1, "al", e.const, e.known))
  /\ e.deferred = 0 /\ e.prepaid = 0 /\ e.count >= 1
  /\ Linked(e.code, e.source, k - 1) /\ Len(e.begins) = k /\ ~e.closed
  /\ Len(e.code) = 0 => k = 1 /\ e.known = NoFlags

\* An instruction is about to be translated, under its gate or without one.
Surely(e, k, b) ==
  /\ insns[k].on # "al" /\ ReadsOn(insns[k].on) \subseteq DOMAIN e.known
  /\ Passes(insns[k].on, e.known) <=> b
Gated(e, k) ==
  /\ e.last = Condition(k) /\ e.count = 0 /\ Undecided(e)
  /\ RunFrom(e.last, e.prepaid, k + 1) /\ Alone(e)
Ready(e, N, k) ==
  /\ CodeOK(e, N, k, e.count + e.deferred - e.prepaid - 1, e.last.on)
  /\ HoleOK(e, N, k, e.count - e.prepaid - 1)
  /\ Linked(e.code, e.source, k - 1) /\ Len(e.begins) = k /\ ~e.closed
  /\ Len(e.code) = 0 => k = 1 /\ ~e.skip
  /\ e.as.on = "al" <=> e.last.on = "al"
  /\ e.last.on = "al" => e.deferred = 0 /\ e.prepaid = 0 /\ e.count >= 1
  /\ e.last.on # "al" => ~e.skip /\ Gated(e, k)
  /\ e.skip => Surely(e, k, FALSE)
  /\ ~e.skip => insns[k].on = e.last.on \/ Surely(e, k, TRUE)

\* The condition of an instruction has its type.
LEMMA ConditionTyped ==
  ASSUME BlockOK, NEW k \in InBlock
  PROVE  /\ Condition(k) \in Gating /\ Condition(k).on = insns[k].on
         /\ Condition(k).marks = {} => /\ ~IsExit(insns[k]) /\ ~IsBoundary(insns[k])
                                       /\ Makes(insns[k]) = {}
<1>1. insns[k].on \in Conditions
  BY InsnsTyped
<1>2. Condition(k).marks \in SUBSET {"exit", "sets"}
  BY DEF Condition
<1>3. ASSUME Condition(k).marks = {}
      PROVE  ~IsExit(insns[k]) /\ ~IsBoundary(insns[k]) /\ Writes(insns[k]) = {}
  BY <1>3 DEF Condition
<1>4. Writes(insns[k]) = {} => Makes(insns[k]) = {}
  BY DEF Makes, Writes, MayMake, Flags
<1> QED BY <1>1, <1>2, <1>3, <1>4 DEF Gating, Condition

\* Always is a condition.
LEMMA AlwaysTyped == Always \in Gating /\ Always.on = "al" /\ Always.marks = {}
BY DEF Always, Gating, Conditions

\* A run is closed before an instruction that is not of it.
LEMMA ShutOK ==
  ASSUME BlockOK, NEW e, NEW N, NEW k \in InBlock, Begins(e, N, k),
         e.last.on # "al" => Behind(e, k)
  PROVE  /\ \E M : Shut(Close(e), M, k)
         /\ Close(e).last = e.last /\ Close(e).as = e.as /\ Close(e).skip = e.skip
         /\ Close(e).known = e.known
         /\ e.last.on = "al" => Close(e) = e
<1>1. e \in Emitters /\ e.count \in Nat /\ e.deferred \in Nat /\ e.prepaid = 0
      /\ e.count >= 1 /\ (e.last.on = "al" => e.deferred = 0)
  <2>1. e \in Emitters
    BY DEF Begins, CodeOK
  <2>2. e.count \in Nat /\ e.deferred \in Nat
    BY <2>1 DEF Emitters
  <2> QED BY <2>1, <2>2 DEF Begins, Behind
<1>2. e.count + e.deferred - e.prepaid - 1 = e.count + e.deferred - 1
      /\ e.count - e.prepaid - 1 = e.count - 1
  <2> DEFINE c == e.count
             q == e.deferred
             p == e.prepaid
  <2>1. c \in Nat /\ q \in Nat /\ p = 0
    BY <1>1
  <2> HIDE DEF c, q, p
  <2>2. c + q - p - 1 = c + q - 1 /\ c - p - 1 = c - 1
    BY <2>1
  <2> QED BY <2>2 DEF c, q, p
<1>3. CodeOK(e, N, k, e.count + e.deferred - 1, Under(e)) /\ HoleOK(e, N, k, e.count - 1)
  BY <1>2 DEF Begins
<1> DEFINE d == Close(e)
<1>4. PICK M : /\ d \in Emitters /\ Beside(d, e) /\ Prolongs(d.code, e.code)
               /\ d.count = e.count /\ d.deferred = 0 /\ d.const = e.const
               /\ d.known = e.known /\ d.hole = e.hole
               /\ Flows(d.code, M) /\ Jumps(d.code)
               /\ Begun(d.begins, M, End(d.code)) /\ Grows(M, N, End(e.code))
               /\ Implies(M[End(d.code)], Note(k, e.count - 1, "al", e.const, e.known))
               /\ e.deferred = 0 => Len(d.code) = Len(e.code)
               /\ e.last.on = "al" => d = e
  BY <1>1, <1>3, CloseOK
<1> HIDE DEF d
<1>5. /\ d.code \in Seq(Ops) /\ e.code \in Seq(Ops) /\ e.source \in Seq(Nat)
      /\ Len(d.code) \in Nat /\ Len(e.code) \in Nat
  <2>1. d.code \in Seq(Ops) /\ e.code \in Seq(Ops) /\ e.source \in Seq(Nat)
    BY <1>1, <1>4 DEF Emitters
  <2> QED BY <2>1, LenProperties
<1>6. Linked(d.code, d.source, k - 1)
  <2>1. Linked(e.code, e.source, k - 1)
    BY DEF Begins
  <2>2. d.source = e.source
    BY <1>4 DEF Beside
  <2> QED BY <1>4, <1>5, <2>1, <2>2, LinkedStays
<1>7. Len(d.code) = 0 => Len(e.code) = 0
  BY <1>4, <1>5 DEF Prolongs
<1>8. Len(d.begins) = k /\ ~d.closed /\ (Len(d.code) = 0 => k = 1 /\ d.known = NoFlags)
  BY <1>4, <1>7 DEF Beside, Begins
<1>9. d.prepaid = 0 /\ d.last = e.last /\ d.as = e.as /\ d.skip = e.skip
  BY <1>1, <1>4 DEF Beside
<1>10. Shut(d, M, k)
  BY <1>1, <1>4, <1>6, <1>8, <1>9 DEF Shut
<1> QED BY <1>4, <1>9, <1>10 DEF d

\* The condition a translation goes by is its own affair.
Aimed(e, c) == [e EXCEPT !.as = c, !.skip = FALSE]

\* What is known before an instruction does not depend on the condition it goes by.
LEMMA BeginsAs ==
  ASSUME NEW e, NEW N, NEW k, NEW c \in Gating, Begins(e, N, k)
  PROVE  LET d == Aimed(e, c) IN
         /\ Begins(d, N, k) /\ d.as = c /\ ~d.skip /\ d.last = e.last /\ d.known = e.known
         /\ (InRun(d, k) <=> InRun(e, k)) /\ (Behind(d, k) <=> Behind(e, k))
<1> DEFINE d == Aimed(e, c)
<1>1. e \in Emitters
  BY DEF Begins, CodeOK
<1>2. /\ d \in Emitters /\ d.as = c /\ ~d.skip /\ d.last = e.last /\ d.code = e.code
      /\ d.begins = e.begins /\ d.count = e.count /\ d.prepaid = e.prepaid
      /\ d.deferred = e.deferred /\ d.hole = e.hole /\ d.const = e.const
      /\ d.known = e.known /\ d.source = e.source /\ d.closed = e.closed
  BY <1>1 DEF Emitters, Aimed
<1> HIDE DEF d
<1>3. Under(d) = Under(e) /\ (Undecided(d) <=> Undecided(e)) /\ (Alone(d) <=> Alone(e))
  BY <1>2 DEF Under, Undecided, Alone
<1>4. (InRun(d, k) <=> InRun(e, k)) /\ (Behind(d, k) <=> Behind(e, k))
  BY <1>2 DEF InRun, Behind
<1>5. CodeOK(d, N, k, d.count + d.deferred - d.prepaid - 1, Under(d))
  <2>1. GatesOK(e) => GatesOK(d)
    BY <1>2 DEF GatesOK
  <2>2. CodeOK(e, N, k, e.count + e.deferred - e.prepaid - 1, Under(e))
    BY DEF Begins
  <2> QED BY <1>2, <1>3, <2>1, <2>2 DEF CodeOK
<1>6. HoleOK(d, N, k, d.count - d.prepaid - 1)
  <2>1. HoleOK(e, N, k, e.count - e.prepaid - 1)
    BY DEF Begins
  <2> QED BY <1>2, <2>1 DEF HoleOK
<1>7. Begins(d, N, k)
  BY <1>2, <1>3, <1>4, <1>5, <1>6 DEF Begins
<1> QED BY <1>2, <1>4, <1>7 DEF d

\* An instruction whose condition is known is translated without a gate, or skipped.
LEMMA KnownOK ==
  ASSUME BlockOK, NEW e, NEW N, NEW k \in InBlock, Shut(e, N, k), NEW b \in BOOLEAN,
         Surely(e, k, ~b)
  PROVE  Ready([e EXCEPT !.last = Always, !.as = Always, !.skip = b], N, k)
<1> DEFINE d == [e EXCEPT !.last = Always, !.as = Always, !.skip = b]
<1>1. /\ d \in Emitters /\ d.as = Always /\ d.skip = b /\ d.last = Always
      /\ d.code = e.code /\ d.begins = e.begins /\ d.count = e.count /\ d.prepaid = 0
      /\ d.deferred = 0 /\ d.const = e.const /\ d.known = e.known
      /\ d.source = e.source /\ d.closed = e.closed /\ e.count \in Nat
  BY AlwaysTyped DEF Emitters, Shut
<1> HIDE DEF d
<1>2. d.last.on = "al" /\ d.as.on = "al"
  BY <1>1, AlwaysTyped
<1>3. d.count + d.deferred - d.prepaid - 1 = e.count - 1
  BY <1>1
<1>4. CodeOK(d, N, k, d.count + d.deferred - d.prepaid - 1, d.last.on)
  <2>1. GatesOK(d)
    BY <1>1 DEF GatesOK, Jumps, Shut
  <2> QED BY <1>1, <1>2, <1>3, <2>1 DEF CodeOK, Shut
<1>5. HoleOK(d, N, k, d.count - d.prepaid - 1)
  BY <1>2 DEF HoleOK
<1>6. Surely(d, k, ~b)
  BY <1>1 DEF Surely
<1>7. Len(d.code) = 0 => k = 1 /\ ~d.skip
  <2> SUFFICES ASSUME Len(d.code) = 0 PROVE FALSE
    BY <1>1 DEF Shut
  <2>1. d.known = NoFlags
    BY <1>1 DEF Shut
  <2> QED BY <1>6, <2>1 DEF Surely, ReadsOn, NoFlags
<1>8. d.skip => Surely(d, k, FALSE)
  BY <1>1, <1>6
<1>9. ~d.skip => Surely(d, k, TRUE)
  BY <1>1, <1>6
<1>10. Linked(d.code, d.source, k - 1) /\ Len(d.begins) = k /\ ~d.closed
       /\ d.deferred = 0 /\ d.prepaid = 0 /\ d.count >= 1
  BY <1>1 DEF Shut
<1> QED BY <1>2, <1>4, <1>5, <1>7, <1>8, <1>9, <1>10 DEF Ready, d

\* So is one that is always executed.
LEMMA PlainOK ==
  ASSUME BlockOK, NEW e, NEW N, NEW k \in InBlock, Shut(e, N, k), e.as = Condition(k),
         insns[k].on = "al", ~e.skip
  PROVE  Ready([e EXCEPT !.last = e.as], N, k)
<1> DEFINE d == [e EXCEPT !.last = e.as]
<1>1. e \in Emitters /\ e.as \in Gating /\ e.as.on = "al"
  BY ConditionTyped DEF Shut
<1>2. /\ d \in Emitters /\ d.as = e.as /\ ~d.skip /\ d.last = e.as
      /\ d.code = e.code /\ d.begins = e.begins /\ d.count = e.count /\ d.prepaid = 0
      /\ d.deferred = 0 /\ d.const = e.const /\ d.known = e.known
      /\ d.source = e.source /\ d.closed = e.closed /\ e.count \in Nat
  BY <1>1 DEF Emitters, Shut
<1> HIDE DEF d
<1>3. d.count + d.deferred - d.prepaid - 1 = e.count - 1
  BY <1>2
<1>4. CodeOK(d, N, k, d.count + d.deferred - d.prepaid - 1, d.last.on)
  <2>1. GatesOK(d)
    BY <1>2 DEF GatesOK, Jumps, Shut
  <2> QED BY <1>1, <1>2, <1>3, <2>1 DEF CodeOK, Shut
<1>5. HoleOK(d, N, k, d.count - d.prepaid - 1)
  BY <1>1, <1>2 DEF HoleOK
<1>6. Len(d.code) = 0 => k = 1 /\ ~d.skip
  BY <1>2 DEF Shut
<1>7. Linked(d.code, d.source, k - 1) /\ Len(d.begins) = k /\ ~d.closed
       /\ d.deferred = 0 /\ d.prepaid = 0 /\ d.count >= 1
  BY <1>2 DEF Shut
<1> QED BY <1>1, <1>2, <1>4, <1>5, <1>6, <1>7 DEF Ready, d

\* A gate is emitted before one that is executed on a condition.
LEMMA OpenedOK ==
  ASSUME BlockOK, NEW e, NEW N, NEW k \in InBlock, Shut(e, N, k), e.as = Condition(k),
         insns[k].on # "al", ~e.skip, ~(ReadsOn(insns[k].on) \subseteq DOMAIN e.known)
  PROVE  \E M : Ready(Opened([e EXCEPT !.last = e.as], k), M, k)
<1> DEFINE c == [e EXCEPT !.last = e.as]
           more == Cardinality(SameRun(c, k))
           op == [Operation("gate", k, c.count + more) EXCEPT !.on = c.as.on]
           f == Out(c, op)
           d == Opened(c, k)
           L == Len(e.code)
<1>1. /\ e \in Emitters /\ e.as \in Gating /\ e.as.on = insns[k].on /\ e.count \in Nat
      /\ e.code \in Seq(Ops) /\ L \in Nat /\ e.count >= 1 /\ e.source \in Seq(Nat)
  <2>1. e \in Emitters
    BY DEF Shut
  <2>2. e.count \in Nat /\ e.code \in Seq(Ops) /\ e.source \in Seq(Nat)
    BY <2>1 DEF Emitters
  <2> QED BY <2>1, <2>2, ConditionTyped, LenProperties DEF Shut
<1>2. /\ c \in Emitters /\ c.as = e.as /\ ~c.skip /\ c.last = e.as /\ c.code = e.code
      /\ c.begins = e.begins /\ c.count = e.count /\ c.prepaid = 0 /\ c.deferred = 0
      /\ c.const = e.const /\ c.known = e.known /\ c.source = e.source
      /\ c.closed = e.closed
  BY <1>1 DEF Emitters, Shut
<1> HIDE DEF c
<1>3. more \in Nat /\ RunFrom(c.last, more, k + 1) /\ (c.as.marks # {} => more = 0)
  <2>1. c.last = c.as
    BY <1>2
  <2> QED BY <2>1, RunOpens
<1> HIDE DEF more
<1>4. /\ op \in Ops /\ op.op = "gate" /\ op.of = k /\ op.pay = c.count + more
      /\ op.on = insns[k].on /\ op.to = 0
  <2> DEFINE p == Operation("gate", k, c.count + more)
  <2>1. k \in Nat /\ c.count + more \in Nat /\ insns[k].on \in Conditions
    BY <1>1, <1>2, <1>3, InsnsTyped
  <2>2. /\ p \in Ops /\ p.op = "gate" /\ p.of = k /\ p.pay = c.count + more
        /\ p.to = 0
    BY <2>1, OperationTyped
  <2> HIDE DEF p
  <2>3. op = [p EXCEPT !.on = insns[k].on]
    BY <1>1, <1>2 DEF p
  <2> QED BY <2>1, <2>2, <2>3 DEF Ops
<1>5. d = [f EXCEPT !.hole = Len(f.code), !.count = 0, !.prepaid = f.prepaid + more]
  BY DEF Opened, more
<1> HIDE DEF op, d
<1>6. /\ f \in Emitters /\ Beside(f, c) /\ f.code = Append(c.code, op)
      /\ f.deferred = 0 /\ f.const = c.const /\ f.known = c.known
  BY <1>2, <1>4, OutIs
<1>7. /\ f.code \in Seq(Ops) /\ Len(f.code) = L + 1 /\ f.code[L + 1] = op
      /\ \A j \in 1 .. L : f.code[j] = e.code[j]
      /\ Prolongs(f.code, e.code)
  BY <1>1, <1>2, <1>4, <1>6, AppendProlongs
<1>8. /\ d \in Emitters /\ d.code = f.code /\ d.hole = L + 1 /\ d.count = 0
      /\ d.prepaid = more /\ d.deferred = 0 /\ d.const = e.const /\ d.known = e.known
      /\ d.begins = e.begins /\ d.last = e.as /\ d.as = e.as /\ ~d.skip
      /\ d.source = e.source /\ d.closed = e.closed
  <2>1. f.prepaid = 0 /\ 0 + more = more /\ L + 1 \in Nat
    BY <1>1, <1>2, <1>3, <1>6 DEF Beside
  <2> HIDE DEF f
  <2>2. d = [f EXCEPT !.hole = L + 1, !.count = 0, !.prepaid = more]
    BY <1>5, <1>7, <2>1
  <2> QED BY <1>2, <1>3, <1>6, <2>1, <2>2 DEF Emitters, Beside
<1> DEFINE b == Note(k, 0 - more - 1, insns[k].on, e.const, e.known)
           a == Note(k, e.count - 1, "al", e.const, e.known)
<1>9. ASSUME NEW g, NEW h, Holds(N[End(e.code)], g, h)
      PROVE  /\ Passes(insns[k].on, h.as) <=> Passes(insns[k].on, g.as)
             /\ Holds(Note(k, 0 - more - 1, "al", e.const, e.known), g, Charged(h, op.pay))
  <2>1. Holds(a, g, h)
    BY <1>9 DEF Shut, Implies
  <2>2. Alike(k, h.as, g.as)
    BY <2>1, HoldsIs
  <2>3. Holds(Note(k, e.count - 1 - op.pay, "al", e.const, e.known), g, Charged(h, op.pay))
    BY <1>1, <1>2, <1>3, <1>4, <2>1, ChargeHolds
  <2>4. e.count - 1 - op.pay = 0 - more - 1
    BY <1>1, <1>2, <1>3, <1>4
  <2> QED BY <2>2, <2>3, <2>4, PassesAlike
<1> HIDE DEF a
<1>10. Takes(N[End(e.code)], op, b)
  <2> SUFFICES ASSUME NEW g, NEW h, Holds(N[End(e.code)], g, h)
               PROVE  StepsTo(op, b, g, h)
    BY DEF Takes
  <2>1. ASSUME Passes(op.on, h.as) PROVE Holds(b, g, Charged(h, op.pay))
    <3>1. Holds(Note(k, 0 - more - 1, "al", e.const, e.known), g, Charged(h, op.pay))
          /\ Passes(insns[k].on, g.as)
      BY <1>4, <1>9, <2>1
    <3> QED BY <3>1, HoldsIs
  <2> QED BY <1>4, <2>1 DEF StepsTo
<1> HIDE DEF b, f
<1>11. PICK M : /\ Flows(d.code, M) /\ M[End(d.code)] = b
                /\ Grows(M, N, End(e.code)) /\ Agree(M, N, End(e.code))
  <2>1. Flows(c.code, N) /\ Takes(N[End(c.code)], op, b)
    BY <1>2, <1>10 DEF Shut
  <2>2. \E M : /\ Flows(Out(c, op).code, M) /\ M[End(Out(c, op).code)] = b
               /\ Grows(M, N, End(c.code)) /\ Agree(M, N, End(c.code))
    BY <1>2, <1>4, <2>1, Emitted
  <2> QED BY <1>2, <1>8, <2>2 DEF f
<1>12. 0 + d.deferred - d.prepaid - 1 = 0 - more - 1 /\ 0 - d.prepaid - 1 = 0 - more - 1
  BY <1>3, <1>8
<1>13. CodeOK(d, M, k, d.count + d.deferred - d.prepaid - 1, d.last.on)
  <2>1. GatesOK(d)
    <3> SUFFICES ASSUME NEW j \in 1 .. L + 1, d.code[j].op = "gate", d.code[j].to = 0
                 PROVE  j = L + 1
      BY <1>1, <1>7, <1>8 DEF GatesOK
    <3> SUFFICES ASSUME j \in 1 .. L PROVE FALSE
      BY <1>1
    <3> QED BY <1>7, <1>8 DEF Shut, Jumps
  <2>2. Begun(d.begins, M, End(d.code))
    <3>1. /\ End(e.code) \in Nat /\ End(d.code) \in Nat /\ End(e.code) <= End(d.code)
          /\ Begun(e.begins, N, End(e.code))
      BY <1>1, <1>7, <1>8 DEF End, Shut
    <3> QED BY <1>8, <1>11, <3>1, BegunStays
  <2>3. Implies(M[End(d.code)], b) /\ d.last.on = insns[k].on
    BY <1>1, <1>8, <1>11 DEF Implies
  <2> QED BY <1>8, <1>11, <1>12, <2>1, <2>2, <2>3 DEF CodeOK, b
<1>14. HoleOK(d, M, k, d.count - d.prepaid - 1)
  <2>1. /\ d.hole \in 1 .. Len(d.code) /\ d.code[d.hole] = op /\ d.hole = End(e.code)
    BY <1>1, <1>7, <1>8 DEF End
  <2>2. M[d.hole] = N[End(e.code)]
    BY <1>11, <2>1 DEF Agree
  <2> QED BY <1>1, <1>4, <1>8, <1>9, <1>12, <2>1, <2>2 DEF HoleOK
<1>15. Gated(d, k)
  <2>1. Undecided(d)
    BY <1>1, <1>8 DEF Undecided
  <2>2. RunFrom(d.last, d.prepaid, k + 1) /\ Alone(d)
    BY <1>2, <1>3, <1>8 DEF Alone
  <2> QED BY <1>8, <2>1, <2>2 DEF Gated
<1>16. Linked(d.code, d.source, k - 1)
  <2>1. Linked(e.code, e.source, k - 1)
    BY DEF Shut
  <2> QED BY <1>1, <1>7, <1>8, <2>1, LinkedStays
<1>17. Len(d.begins) = k /\ ~d.closed /\ Len(d.code) # 0
  BY <1>1, <1>7, <1>8 DEF Shut
<1>18. d.last.on = insns[k].on /\ d.as.on = insns[k].on
  BY <1>1, <1>8
<1>19. Ready(d, M, k)
  BY <1>8, <1>13, <1>14, <1>15, <1>16, <1>17, <1>18 DEF Ready
<1> QED BY <1>19 DEF d, c

\* The condition of an instruction is settled, and its gate is there.
LEMMA HeadedOK ==
  ASSUME BlockOK, NEW e, NEW N, NEW k \in InBlock, Begins(e, N, k)
  PROVE  \E M : Ready(Headed(Settled(e, k), k), M, k)
<1> DEFINE on == insns[k].on
           s == Settled(e, k)
<1>1. CASE on # "al" /\ ReadsOn(on) \subseteq DOMAIN e.known
  <2> DEFINE b == ~Passes(on, e.known)
             c == Close(e)
             d == [c EXCEPT !.last = Always, !.as = Always, !.skip = b]
  <2>1. b \in BOOLEAN
    OBVIOUS
  <2>2. e.last.on # "al" => Behind(e, k)
    <3> SUFFICES ASSUME e.last.on # "al", InRun(e, k) PROVE FALSE
      BY DEF Begins
    <3>1. e.last.on = on
      BY ConditionTyped DEF InRun
    <3> QED BY <1>1, <3>1 DEF Begins, Undecided
  <2>3. PICK M : Shut(c, M, k)
    BY <2>2, ShutOK
  <2>4. c.known = e.known
    BY <2>2, ShutOK
  <2>5. Surely(c, k, ~b)
    BY <1>1, <2>1, <2>4 DEF Surely
  <2>6. s = d
    BY <1>1 DEF Settled
  <2> HIDE DEF b, c
  <2>7. Ready(d, M, k)
    BY <2>1, <2>3, <2>5, KnownOK
  <2>8. Headed(d, k) = d
    <3>1. c \in Emitters
      BY <2>3 DEF Shut
    <3>2. d.as = Always /\ d.last = Always
      BY <3>1 DEF Emitters
    <3> QED BY <3>2, AlwaysTyped DEF Headed
  <2> QED BY <2>6, <2>7, <2>8
<1>2. CASE ~(on # "al" /\ ReadsOn(on) \subseteq DOMAIN e.known)
  <2>1. s = Aimed(e, Condition(k))
    BY <1>2 DEF Settled, Aimed
  <2>2. Condition(k) \in Gating /\ Condition(k).on = on
    BY ConditionTyped
  <2>3. Begins(s, N, k) /\ s.as = Condition(k) /\ ~s.skip /\ s.known = e.known
    <3> HIDE DEF s
    <3> QED BY <2>1, <2>2, BeginsAs
  <2> HIDE DEF s
  <2>4. CASE s.as = s.last /\ s.as.marks = {}
    <3>1. Headed(s, k) = s
      BY <2>4 DEF Headed
    <3>2. Under(s) = s.last.on /\ s.last.on = on
      BY <2>2, <2>3, <2>4 DEF Under
    <3>3. s.last.on # "al" => Gated(s, k)
      <4> SUFFICES ASSUME s.last.on # "al" PROVE Gated(s, k)
        OBVIOUS
      <4>1. InRun(s, k) /\ Undecided(s) /\ Alone(s)
        BY <2>3, <2>4 DEF Begins, Behind
      <4> QED BY <2>3, <2>4, <4>1 DEF Gated, InRun
    <3>4. CodeOK(s, N, k, s.count + s.deferred - s.prepaid - 1, s.last.on)
      BY <2>3, <3>2 DEF Begins
    <3>5. Ready(s, N, k)
      <4>1. /\ HoleOK(s, N, k, s.count - s.prepaid - 1)
            /\ Linked(s.code, s.source, k - 1) /\ Len(s.begins) = k /\ ~s.closed
            /\ Len(s.code) = 0 => k = 1
            /\ s.last.on = "al" => s.deferred = 0 /\ s.prepaid = 0 /\ s.count >= 1
        BY <2>3 DEF Begins
      <4>2. s.as.on = "al" <=> s.last.on = "al"
        BY <2>4
      <4> QED BY <2>3, <3>2, <3>3, <3>4, <4>1, <4>2 DEF Ready
    <3> QED BY <3>1, <3>5 DEF s
  <2>5. CASE ~(s.as = s.last /\ s.as.marks = {})
    <3> DEFINE c == Close(s)
               d == [c EXCEPT !.last = s.as]
    <3>1. s.last.on # "al" => Behind(s, k)
      BY <2>3, <2>5 DEF Begins, InRun
    <3>2. PICK M : Shut(c, M, k)
      BY <2>3, <3>1, ShutOK
    <3>3. c.as = s.as /\ c.skip = s.skip /\ c.known = s.known
      BY <2>3, <3>1, ShutOK
    <3>4. Headed(s, k) = IF s.as.on = "al" THEN d ELSE Opened(d, k)
      BY <2>3, <2>5 DEF Headed
    <3> HIDE DEF c
    <3>5. CASE on = "al"
      <4>1. Ready([c EXCEPT !.last = c.as], M, k)
        BY <2>3, <3>2, <3>3, <3>5, PlainOK
      <4> QED BY <2>2, <2>3, <3>3, <3>4, <3>5, <4>1 DEF s
    <3>6. CASE on # "al"
      <4>1. \E P : Ready(Opened([c EXCEPT !.last = c.as], k), P, k)
        BY <1>2, <2>3, <3>2, <3>3, <3>6, OpenedOK
      <4> QED BY <2>2, <2>3, <3>3, <3>4, <3>6, <4>1 DEF s
    <3> QED BY <3>5, <3>6
  <2> QED BY <2>4, <2>5
<1> QED BY <1>1, <1>2
-----------------------------------------------------------------------------
(* The translation of an instruction. *)

\* An instruction that is no branch takes no slot.
LEMMA LinkedOn ==
  ASSUME BlockOK, NEW k \in InBlock, NEW code, NEW source, Linked(code, source, k - 1),
         ~IsBranch(insns[k])
  PROVE  Linked(code, source, k)
<1>1. k \in Nat /\ k >= 1 /\ Cardinality(Branches(k)) = Cardinality(Branches(k - 1))
  BY InsnsTyped, BranchesGrow
<1>2. \A i \in 1 .. k - 1 : i \in 1 .. k
  BY <1>1
<1> QED BY <1>1, <1>2 DEF Linked

\* A branch that is skipped takes an empty one.
LEMMA LinkedSkip ==
  ASSUME BlockOK, NEW k \in InBlock, NEW code, NEW source \in Seq(Nat),
         Linked(code, source, k - 1), IsBranch(insns[k])
  PROVE  Linked(code, Append(source, 0), k)
<1> DEFINE s == Append(source, 0)
           m == Len(source)
<1>1. /\ k \in Nat /\ k >= 1 /\ m = Cardinality(Branches(k - 1)) /\ m \in Nat
      /\ Cardinality(Branches(k)) = m + 1
  BY InsnsTyped, BranchesGrow, LenProperties DEF Linked
<1>2. Len(s) = m + 1 /\ s[m + 1] = 0 /\ \A i \in 1 .. m : s[i] = source[i]
  BY AppendProperties
<1> HIDE DEF s
<1>3. \A i \in 1 .. Len(s) :
        s[i] = 0 \/ /\ s[i] \in 1 .. Len(code) /\ code[s[i]].op = "leave"
                    /\ i = Cardinality(Branches(code[s[i]].of))
  <2> SUFFICES ASSUME NEW i \in 1 .. m + 1, s[i] # 0
               PROVE  /\ s[i] \in 1 .. Len(code) /\ code[s[i]].op = "leave"
                      /\ i = Cardinality(Branches(code[s[i]].of))
    BY <1>2
  <2>1. i \in 1 .. m
    BY <1>1, <1>2
  <2> QED BY <1>2, <2>1 DEF Linked
<1>4. \A j \in 1 .. Len(code) : code[j].op = "leave" =>
        /\ code[j].of \in 1 .. k /\ IsBranch(insns[code[j].of])
        /\ Cardinality(Branches(code[j].of)) \in 1 .. Len(s)
        /\ s[Cardinality(Branches(code[j].of))] = j
  <2> SUFFICES ASSUME NEW j \in 1 .. Len(code), code[j].op = "leave"
               PROVE  /\ code[j].of \in 1 .. k /\ IsBranch(insns[code[j].of])
                      /\ Cardinality(Branches(code[j].of)) \in 1 .. Len(s)
                      /\ s[Cardinality(Branches(code[j].of))] = j
    OBVIOUS
  <2>1. /\ code[j].of \in 1 .. k - 1 /\ IsBranch(insns[code[j].of])
        /\ Cardinality(Branches(code[j].of)) \in 1 .. m
        /\ source[Cardinality(Branches(code[j].of))] = j
    BY DEF Linked
  <2>2. code[j].of \in 1 .. k
    BY <1>1, <2>1
  <2>3. Cardinality(Branches(code[j].of)) \in 1 .. Len(s)
    BY <1>1, <1>2, <2>1
  <2> QED BY <1>2, <2>1, <2>2, <2>3
<1> QED BY <1>1, <1>2, <1>3, <1>4 DEF Linked, s

\* A branch takes the place of its operation.
LEMMA LinkedBranch ==
  ASSUME BlockOK, NEW k \in InBlock, NEW code \in Seq(Ops), NEW source \in Seq(Nat),
         NEW op \in Ops, Linked(code, source, k - 1), IsBranch(insns[k]), op.op = "leave",
         op.of = k
  PROVE  Linked(Append(code, op), Append(source, Len(code) + 1), k)
<1> DEFINE d == Append(code, op)
           L == Len(code)
           s == Append(source, L + 1)
           m == Len(source)
<1>1. /\ k \in Nat /\ k >= 1 /\ m = Cardinality(Branches(k - 1)) /\ m \in Nat
      /\ Cardinality(Branches(k)) = m + 1 /\ L \in Nat
  BY InsnsTyped, BranchesGrow, LenProperties DEF Linked
<1>2. Len(s) = m + 1 /\ s[m + 1] = L + 1 /\ \A i \in 1 .. m : s[i] = source[i]
  <2>1. L + 1 \in Nat
    BY <1>1
  <2> QED BY <2>1, AppendProperties
<1>3. Len(d) = L + 1 /\ d[L + 1] = op /\ \A j \in 1 .. L : d[j] = code[j]
  BY AppendProperties
<1> HIDE DEF s, d
<1>4. \A i \in 1 .. Len(s) :
        s[i] = 0 \/ /\ s[i] \in 1 .. Len(d) /\ d[s[i]].op = "leave"
                    /\ i = Cardinality(Branches(d[s[i]].of))
  <2> SUFFICES ASSUME NEW i \in 1 .. m + 1, s[i] # 0
               PROVE  /\ s[i] \in 1 .. Len(d) /\ d[s[i]].op = "leave"
                      /\ i = Cardinality(Branches(d[s[i]].of))
    BY <1>2
  <2>1. CASE i = m + 1
    BY <1>1, <1>2, <1>3, <2>1
  <2>2. CASE i \in 1 .. m
    <3>1. /\ s[i] \in 1 .. L /\ code[s[i]].op = "leave"
          /\ i = Cardinality(Branches(code[s[i]].of))
      BY <1>2, <2>2 DEF Linked
    <3> QED BY <1>1, <1>3, <3>1
  <2> QED BY <1>1, <2>1, <2>2
<1>5. \A j \in 1 .. Len(d) : d[j].op = "leave" =>
        /\ d[j].of \in 1 .. k /\ IsBranch(insns[d[j].of])
        /\ Cardinality(Branches(d[j].of)) \in 1 .. Len(s)
        /\ s[Cardinality(Branches(d[j].of))] = j
  <2> SUFFICES ASSUME NEW j \in 1 .. L + 1, d[j].op = "leave"
               PROVE  /\ d[j].of \in 1 .. k /\ IsBranch(insns[d[j].of])
                      /\ Cardinality(Branches(d[j].of)) \in 1 .. Len(s)
                      /\ s[Cardinality(Branches(d[j].of))] = j
    BY <1>3
  <2>1. CASE j = L + 1
    <3>1. d[j].of = k /\ k \in 1 .. k
      BY <1>1, <1>3, <2>1
    <3>2. m + 1 \in 1 .. Len(s) /\ s[m + 1] = j
      BY <1>1, <1>2, <2>1
    <3> QED BY <1>1, <3>1, <3>2
  <2>2. CASE j \in 1 .. L
    <3>1. /\ d[j] = code[j] /\ code[j].of \in 1 .. k - 1 /\ IsBranch(insns[code[j].of])
          /\ Cardinality(Branches(code[j].of)) \in 1 .. m
          /\ source[Cardinality(Branches(code[j].of))] = j
      BY <1>3, <2>2 DEF Linked
    <3>2. code[j].of \in 1 .. k
      BY <1>1, <3>1
    <3>3. Cardinality(Branches(code[j].of)) \in 1 .. Len(s)
      BY <1>1, <1>2, <3>1
    <3> QED BY <1>2, <3>1, <3>2, <3>3
  <2> QED BY <1>1, <2>1, <2>2
<1> QED BY <1>1, <1>2, <1>4, <1>5 DEF Linked, s, d

\* Less is known of the flags.
Less(m, known) == DOMAIN m \subseteq DOMAIN known /\ \A f \in DOMAIN m : m[f] = known[f]

\* Who jumped at the open gate passes the instruction over.
LEMMA HoleOn ==
  ASSUME BlockOK, NEW e \in Emitters, NEW N, NEW k \in InBlock, NEW d, NEW M,
         HoleOK(e, N, k, e.count - e.prepaid - 1), e.last.on # "al" => Gated(e, k),
         d.last = e.last, d.hole = e.hole, d.prepaid = e.prepaid,
         e.last.on # "al" =>
           /\ d.hole \in 1 .. Len(d.code) /\ d.code[d.hole] = e.code[e.hole]
           /\ Agree(M, N, e.hole) /\ d.count = 0
           /\ d.const \in {Unknown, e.const} /\ Less(d.known, e.known)
  PROVE  HoleOK(d, M, k + 1, d.count - d.prepaid)
<1> SUFFICES ASSUME e.last.on # "al" PROVE HoleOK(d, M, k + 1, d.count - d.prepaid)
  BY DEF HoleOK
<1> DEFINE on == e.last.on
           op == e.code[e.hole]
           p == e.prepaid
<1>1. /\ d.hole \in 1 .. Len(d.code) /\ d.code[d.hole] = op /\ op.op = "gate" /\ op.to = 0
      /\ op.on = on
  BY DEF HoleOK
<1>2. e.count = 0 /\ p \in Nat /\ d.count = 0 /\ insns[k].on = on
  BY ConditionTyped DEF Gated, Emitters
<1>3. ASSUME NEW g, NEW h, Holds(M[d.hole], g, h), ~Passes(on, h.as)
      PROVE  /\ ~Passes(on, g.as)
             /\ Holds(Note(k + 1, d.count - d.prepaid, "al", d.const, d.known), g,
                      Charged(h, op.pay))
  <2> DEFINE c == Charged(h, op.pay)
  <2>1. Holds(N[e.hole], g, h)
    BY <1>3 DEF Agree
  <2>2. ~Passes(on, g.as)
        /\ Holds(Note(k, e.count - e.prepaid - 1, "al", e.const, e.known), g, c)
    BY <1>3, <2>1 DEF HoleOK
  <2> HIDE DEF c
  <2>3. Holds(Note(k + 1, e.count - e.prepaid - 1 + 1, "al", e.const, e.known), g, c)
    <3>1. e.count - e.prepaid - 1 \in Int
      BY <1>2
    <3> QED BY <1>2, <2>2, <3>1, PassHolds
  <2>4. e.count - e.prepaid - 1 + 1 = d.count - d.prepaid
    BY <1>2
  <2>5. Holds(Note(k + 1, d.count - d.prepaid, "al", e.const, e.known), g, c)
    BY <2>3, <2>4
  <2>6. Holds(Note(k + 1, d.count - d.prepaid, "al", d.const, d.known), g, c)
    BY <2>5, HoldsLess DEF Less
  <2> QED BY <2>2, <2>6 DEF c
<1> QED BY <1>1, <1>3 DEF HoleOK

\* An instruction that is not skipped is executed by whoever comes to its code.
LEMMA ReadyPasses ==
  ASSUME BlockOK, NEW e, NEW N, NEW k \in InBlock, Ready(e, N, k), NEW g, NEW h,
         Holds(N[End(e.code)], g, h)
  PROVE  /\ Holds(Note(k, e.count + e.deferred - e.prepaid - 1, e.last.on, e.const, e.known),
                  g, h)
         /\ e.skip => ~Passes(insns[k].on, g.as)
         /\ ~e.skip => Passes(insns[k].on, g.as)
<1>1. Holds(Note(k, e.count + e.deferred - e.prepaid - 1, e.last.on, e.const, e.known), g, h)
  BY DEF Ready, CodeOK, Implies
<1>2. Passes(e.last.on, g.as) /\ \A f \in DOMAIN e.known : e.known[f] = g.as[f]
  BY <1>1, HoldsIs DEF Knows
<1>3. insns[k].on \in Conditions
  BY InsnsTyped
<1>4. ASSUME NEW b \in BOOLEAN, Surely(e, k, b) PROVE Passes(insns[k].on, g.as) <=> b
  <2>1. \A f \in ReadsOn(insns[k].on) : e.known[f] = g.as[f]
    BY <1>2, <1>4 DEF Surely
  <2>2. Passes(insns[k].on, e.known) <=> Passes(insns[k].on, g.as)
    BY <1>3, <2>1, PassesByFlags
  <2> QED BY <1>4, <2>2 DEF Surely
<1>5. e.skip => ~Passes(insns[k].on, g.as)
  BY <1>4 DEF Ready
<1>6. ~e.skip => Passes(insns[k].on, g.as)
  BY <1>2, <1>4 DEF Ready
<1> QED BY <1>1, <1>5, <1>6

\* The operation of an instruction leads behind it.
Brings(k, a, op, b) ==
  \A g, h : Holds(a, g, h) /\ Passes(insns[k].on, g.as) => StepsTo(op, b, g, h)

\* An operation is emitted that ends an instruction: the code is right behind it.
LEMMA OutOK ==
  ASSUME BlockOK, NEW e, NEW N, NEW k \in InBlock, NEW op \in Ops, NEW d \in Emitters, NEW b,
         Ready(e, N, k), ~e.skip, op.to = 0, op.op \in {"body", "store", "leave", "return"},
         d.code = Append(e.code, op), d.begins = e.begins, d.last = e.last,
         d.hole = e.hole, d.prepaid = e.prepaid,
         e.last.on = "al" => d.deferred = 0,
         e.last.on # "al" =>
           d.count = 0 /\ d.const \in {Unknown, e.const} /\ Less(d.known, e.known) /\ Alone(d),
         Implies(b, Note(k + 1, d.count + d.deferred - d.prepaid, Under(d), d.const, d.known)),
         Brings(k, Note(k, e.count + e.deferred - e.prepaid - 1, e.last.on, e.const, e.known),
               op, b),
         Linked(d.code, d.source, k), d.closed => k = Len(insns),
         EndsSo(d) /\ k = Len(insns) =>
           d.count = 0 /\ d.deferred = 0 /\ ExitsAt(k) /\ b = Nowhere
  PROVE  \E M : Past(d, M, k + 1)
<1> DEFINE L == Len(e.code)
<1>1. /\ e \in Emitters /\ e.code \in Seq(Ops) /\ L \in Nat /\ k \in Nat
      /\ k >= 1
  <2>1. e \in Emitters
    BY DEF Ready, CodeOK
  <2>2. e.code \in Seq(Ops)
    BY <2>1 DEF Emitters
  <2> QED BY <2>1, <2>2, InsnsTyped, LenProperties
<1>2. /\ Len(d.code) = L + 1 /\ d.code[L + 1] = op
      /\ \A j \in 1 .. L : d.code[j] = e.code[j]
  BY <1>1, AppendProperties
<1>3. PICK M : /\ Flows(d.code, M) /\ M[End(d.code)] = b
               /\ Grows(M, N, End(e.code)) /\ Agree(M, N, End(e.code))
  <2> DEFINE C == e.code
  <2>1. Takes(N[End(C)], op, b)
    BY ReadyPasses DEF Takes, Brings
  <2>2. C \in Seq(Ops) /\ Flows(C, N) /\ d.code = Append(C, op)
    BY <1>1 DEF Ready, CodeOK
  <2> HIDE DEF C
  <2>3. \E M : /\ Flows(Append(C, op), M) /\ M[End(Append(C, op))] = b
               /\ Grows(M, N, End(C)) /\ Agree(M, N, End(C))
    BY <2>1, <2>2, Appended
  <2> QED BY <2>2, <2>3 DEF C
<1>4. CodeOK(d, M, k + 1, d.count + d.deferred - d.prepaid, Under(d))
  <2>1. GatesOK(d)
    <3> SUFFICES ASSUME NEW j \in 1 .. L + 1, d.code[j].op = "gate", d.code[j].to = 0
                 PROVE  d.last.on # "al" /\ j = d.hole
      BY <1>2 DEF GatesOK
    <3>1. j \in 1 .. L
      BY <1>1, <1>2
    <3> QED BY <1>2, <3>1 DEF Ready, CodeOK, GatesOK
  <2>2. Begun(d.begins, M, End(d.code))
    <3>1. /\ End(e.code) \in Nat /\ End(d.code) \in Nat /\ End(e.code) <= End(d.code)
          /\ Begun(e.begins, N, End(e.code))
      BY <1>1, <1>2 DEF End, Ready, CodeOK
    <3> QED BY <1>3, <3>1, BegunStays
  <2>3. M[End(d.code)] = b
    BY <1>3
  <2> QED BY <1>3, <2>1, <2>2, <2>3 DEF CodeOK
<1>5. HoleOK(d, M, k + 1, d.count - d.prepaid)
  <2>1. ASSUME e.last.on # "al"
        PROVE  /\ d.hole \in 1 .. Len(d.code) /\ d.code[d.hole] = e.code[e.hole]
               /\ Agree(M, N, e.hole)
    <3>1. e.hole \in 1 .. L
      BY <2>1 DEF Ready, HoleOK
    <3>2. e.hole \in 1 .. End(e.code) - 1
      BY <1>1, <3>1 DEF End
    <3>3. Agree(M, N, e.hole)
      BY <1>3, <3>2 DEF Grows, Agree
    <3> QED BY <1>1, <1>2, <3>1, <3>3
  <2>2. HoleOK(e, N, k, e.count - e.prepaid - 1) /\ (e.last.on # "al" => Gated(e, k))
    BY DEF Ready
  <2> QED BY <1>1, <2>1, <2>2, HoleOn
<1>6. RunOK(d, k + 1)
  <2>1. CASE e.last.on = "al"
    BY <2>1 DEF RunOK, Ready
  <2>2. CASE e.last.on # "al"
    <3>1. Gated(e, k)
      BY <2>2 DEF Ready
    <3>2. Undecided(d)
      BY <2>2, <3>1 DEF Gated, Undecided, Less
    <3> QED BY <2>2, <3>1, <3>2 DEF RunOK, Gated
  <2> QED BY <2>1, <2>2
<1>7. Ended(d, M, k + 1)
  <2>1. k + 1 # 1 /\ Len(d.code) # 0 /\ (k + 1 = Len(insns) + 1 <=> k = Len(insns))
    BY <1>1, <1>2, InsnsTyped
  <2>2. e.last.on # "al" => insns[k].on # "al"
    BY ConditionTyped DEF Ready, Gated
  <2>3. b = Nowhere => Implies(M[End(d.code)], Nowhere)
    BY <1>3 DEF Implies
  <2> QED BY <2>1, <2>2, <2>3 DEF Ended
<1>8. k + 1 - 1 = k /\ Len(d.begins) = k
  BY <1>1 DEF Ready
<1> QED BY <1>4, <1>5, <1>6, <1>7, <1>8 DEF Past

\* An instruction that is skipped is passed over by whoever comes to it.
LEMMA SkipOK ==
  ASSUME BlockOK, NEW e, NEW N, NEW k \in InBlock, Ready(e, N, k), e.skip
  PROVE  Past(Skipped(e, k), N, k + 1)
<1> DEFINE d == Skipped(e, k)
<1>1. /\ e \in Emitters /\ e.count \in Nat /\ e.slot \in Nat /\ e.source \in Seq(Nat)
      /\ e.count >= 1 /\ e.deferred = 0 /\ e.prepaid = 0 /\ e.last.on = "al" /\ ~e.closed
      /\ k \in Nat /\ k >= 1
  <2>1. e \in Emitters
    BY DEF Ready, CodeOK
  <2> QED BY <2>1, InsnsTyped DEF Ready, Emitters
<1>2. /\ d \in Emitters /\ d.code = e.code /\ d.begins = e.begins /\ d.count = e.count
      /\ d.prepaid = 0 /\ d.deferred = 0 /\ d.last = e.last /\ d.hole = e.hole
      /\ d.const = e.const /\ d.known = e.known /\ d.closed = e.closed
      /\ d.source = (IF IsBranch(insns[k]) THEN Append(e.source, 0) ELSE e.source)
  <2>1. CASE IsBranch(insns[k])
    <3> DEFINE s == Append(e.source, 0)
               n == e.slot + 1
    <3>1. s \in Seq(Nat) /\ n \in Nat
      BY <1>1, AppendProperties
    <3>2. d = [e EXCEPT !.slot = n, !.source = s]
      BY <2>1 DEF Skipped
    <3> HIDE DEF s, n, d
    <3>3. d \in Emitters /\ d.source = s
      BY <1>1, <3>1, <3>2 DEF Emitters
    <3>4. /\ d.code = e.code /\ d.begins = e.begins /\ d.count = e.count
          /\ d.prepaid = 0 /\ d.deferred = 0 /\ d.last = e.last /\ d.hole = e.hole
          /\ d.const = e.const /\ d.known = e.known /\ d.closed = e.closed
      BY <1>1, <3>2 DEF Emitters
    <3> QED BY <2>1, <3>3, <3>4 DEF s
  <2>2. CASE ~IsBranch(insns[k])
    BY <1>1, <2>2 DEF Skipped
  <2> QED BY <2>1, <2>2
<1> HIDE DEF d
<1>3. Under(d) = "al"
  BY <1>1, <1>2 DEF Under
<1>4. d.count + d.deferred - d.prepaid = e.count
  BY <1>1, <1>2
<1>5. Implies(N[End(d.code)], Note(k + 1, e.count, "al", d.const, d.known))
  <2> SUFFICES ASSUME NEW g, NEW h, Holds(N[End(e.code)], g, h)
               PROVE  Holds(Note(k + 1, e.count, "al", e.const, e.known), g, h)
    BY <1>2 DEF Implies
  <2>1. e.count + e.deferred - e.prepaid - 1 = e.count - 1 /\ e.count - 1 \in Int
        /\ e.count - 1 + 1 = e.count
    BY <1>1
  <2>2. Holds(Note(k, e.count - 1, "al", e.const, e.known), g, h)
        /\ ~Passes(insns[k].on, g.as)
    <3>1. /\ Holds(Note(k, e.count + e.deferred - e.prepaid - 1, e.last.on, e.const, e.known),
                   g, h)
          /\ ~Passes(insns[k].on, g.as)
      BY ReadyPasses
    <3> QED BY <1>1, <2>1, <3>1
  <2>3. Holds(Note(k + 1, e.count - 1 + 1, "al", e.const, e.known), g, h)
    BY <2>1, <2>2, PassHolds
  <2> QED BY <2>1, <2>3
<1>6. CodeOK(d, N, k + 1, d.count + d.deferred - d.prepaid, Under(d))
  <2>1. GatesOK(d) /\ Flows(d.code, N) /\ Begun(d.begins, N, End(d.code))
    BY <1>2 DEF GatesOK, Ready, CodeOK
  <2> QED BY <1>2, <1>3, <1>4, <1>5, <2>1 DEF CodeOK
<1>7. HoleOK(d, N, k + 1, d.count - d.prepaid) /\ RunOK(d, k + 1)
  BY <1>1, <1>2 DEF HoleOK, RunOK
<1>8. Ended(d, N, k + 1)
  <2>1. k + 1 # 1 /\ Len(d.code) # 0
    BY <1>1, <1>2 DEF Ready
  <2>2. ~EndsSo(d) /\ ~d.closed
    BY <1>1, <1>2 DEF EndsSo
  <2> QED BY <2>1, <2>2 DEF Ended
<1>9. Linked(d.code, d.source, k)
  <2>1. Linked(e.code, e.source, k - 1)
    BY DEF Ready
  <2> QED BY <1>1, <1>2, <2>1, LinkedOn, LinkedSkip
<1>10. k + 1 - 1 = k /\ Len(d.begins) = k
  BY <1>1, <1>2 DEF Ready
<1> QED BY <1>6, <1>7, <1>8, <1>9, <1>10 DEF Past, d

\* The operation of an instruction's body.
BodyOp(k, pay) == [Operation("body", k, pay) EXCEPT !.keep = status[k].makes]

\* The operation of a body is one, and it sets the flags that are needed.
LEMMA BodyOpTyped ==
  ASSUME BlockOK, NEW k \in InBlock, NEW pay \in Nat
  PROVE  LET op == BodyOp(k, pay) IN
         /\ op \in Ops /\ op.op = "body" /\ op.of = k /\ op.pay = pay /\ op.to = 0
         /\ op.keep = status[k].makes
<1> DEFINE p == Operation("body", k, pay)
<1>1. k \in Nat
  BY InsnsTyped
<1>2. /\ p \in Ops /\ p.op = "body" /\ p.of = k /\ p.pay = pay /\ p.to = 0
  BY <1>1, OperationTyped
<1> HIDE DEF p
<1>3. BodyOp(k, pay) = [p EXCEPT !.keep = status[k].makes]
  BY DEF BodyOp, p
<1>4. status[k].makes \in SUBSET Flags
  <2>1. Makes(insns[k]) \subseteq Flags
    BY DEF Makes, Writes, MayMake, Flags
  <2> QED BY <2>1 DEF BlockOK
<1> QED BY <1>2, <1>3, <1>4 DEF Ops

\* An instruction's body leads behind it, with what it teaches and what it costs.
LEMMA BodyOK ==
  ASSUME BlockOK, NEW e, NEW N, NEW k \in InBlock, NEW pay \in Nat, NEW d \in Emitters,
         Ready(e, N, k), ~e.skip,
         d.code = Append(e.code, BodyOp(k, pay)), d.begins = e.begins, d.last = e.last,
         d.hole = e.hole, d.prepaid = e.prepaid, d.source = e.source, d.closed = e.closed,
         d.count + d.deferred = e.count + e.deferred + Extra(k) - pay,
         e.last.on = "al" => d.deferred = 0,
         e.last.on # "al" =>
           d.count = 0 /\ d.const \in {Unknown, e.const} /\ Less(d.known, e.known) /\ Alone(d),
         Teaches(k, e.const, e.known, d.const, d.known), ~IsBranch(insns[k])
  PROVE  \E M : Past(d, M, k + 1)
<1> DEFINE op == BodyOp(k, pay)
           owed == e.count + e.deferred - e.prepaid - 1
           n == Under(d)
           b == Note(k + 1, owed + 1 + Extra(k) - op.pay, n, d.const, d.known)
<1>1. /\ op \in Ops /\ op.op = "body" /\ op.of = k /\ op.pay = pay /\ op.to = 0
      /\ op.keep = status[k].makes
  BY BodyOpTyped
<1>2. /\ e \in Emitters /\ e.count \in Nat /\ e.deferred \in Nat /\ e.prepaid \in Nat
      /\ e.code \in Seq(Ops) /\ e.source \in Seq(Nat) /\ ~e.closed
      /\ d.count \in Nat /\ d.deferred \in Nat /\ Extra(k) \in Nat
  <2>1. e \in Emitters
    BY DEF Ready, CodeOK
  <2> QED BY <2>1 DEF Ready, Emitters, Extra
<1> HIDE DEF op
<1>3. owed \in Int /\ owed + 1 + Extra(k) - op.pay = d.count + d.deferred - d.prepaid
  <2> DEFINE c == e.count
             q == e.deferred
             p == e.prepaid
             x == Extra(k)
             y == d.count
             z == d.deferred
  <2>1. /\ c \in Nat /\ q \in Nat /\ p \in Nat /\ x \in Nat /\ y \in Nat /\ z \in Nat
        /\ y + z = c + q + x - pay
    BY <1>2
  <2> HIDE DEF c, q, p, x, y, z
  <2>2. c + q - p - 1 \in Int /\ (c + q - p - 1) + 1 + x - pay = y + z - p
    BY <2>1
  <2> QED BY <1>1, <2>2 DEF c, q, p, x, y, z
<1>4. n = "al" \/ (n = e.last.on /\ Makes(insns[k]) = {})
  <2> SUFFICES ASSUME n # "al" PROVE n = e.last.on /\ Makes(insns[k]) = {}
    OBVIOUS
  <2>1. n = e.last.on /\ e.last.marks = {}
    BY DEF Under
  <2>2. e.last = Condition(k)
    BY <2>1 DEF Ready, Gated
  <2> QED BY <2>1, <2>2, ConditionTyped
<1> HIDE DEF owed, n
<1>5. ASSUME NEW g, NEW h,
             Holds(Note(k, owed, e.last.on, e.const, e.known), g, h),
             Passes(insns[k].on, g.as)
      PROVE  StepsTo(op, b, g, h)
  <2>1. n = "al" \/ (n \in {insns[k].on, e.last.on} /\ Makes(insns[k]) = {})
    BY <1>4
  <2> DEFINE o == e.last.on
             f == e.const
             i == e.known
             l == d.const
             m == d.known
  <2>2. /\ Holds(Note(k, owed, o, f, i), g, h) /\ Teaches(k, f, i, l, m)
        /\ n = "al" \/ (n \in {insns[k].on, o} /\ Makes(insns[k]) = {})
    BY <1>5, <2>1
  <2> HIDE DEF o, f, i, l, m
  <2>3. StepsTo(op, Note(k + 1, owed + 1 + Extra(k) - op.pay, n, l, m), g, h)
    BY <1>1, <1>3, <1>5, <2>2, BodySteps, ZenonT(60)
  <2> QED BY <2>3 DEF l, m
<1>6. b = Note(k + 1, d.count + d.deferred - d.prepaid, Under(d), d.const, d.known)
  BY <1>3 DEF n
<1>7. Implies(b, Note(k + 1, d.count + d.deferred - d.prepaid, Under(d), d.const, d.known))
  BY <1>6 DEF Implies
<1> HIDE DEF b
<1>8. /\ d.code \in Seq(Ops) /\ Len(d.code) = Len(e.code) + 1 /\ d.code[Len(e.code) + 1] = op
      /\ Prolongs(d.code, e.code)
  BY <1>1, <1>2, AppendProlongs DEF op
<1>9. Linked(d.code, d.source, k)
  <2>1. Linked(e.code, e.source, k - 1)
    BY DEF Ready
  <2>2. Linked(d.code, e.source, k - 1)
    BY <1>2, <1>8, <2>1, LinkedStays
  <2> QED BY <2>2, LinkedOn
<1>10. ~EndsSo(d) /\ ~d.closed
  <2>1. d.code[Len(d.code)].op # "return"
    BY <1>1, <1>8
  <2> QED BY <1>2, <2>1 DEF EndsSo
<1>11. Brings(k, Note(k, e.count + e.deferred - e.prepaid - 1, e.last.on, e.const, e.known),
             op, b)
  <2>1. Brings(k, Note(k, owed, e.last.on, e.const, e.known), op, b)
    BY <1>5 DEF Brings
  <2> QED BY <2>1 DEF owed
<1>12. d.code = Append(e.code, op)
  BY DEF op
<1>13. op.op \in {"body", "store", "leave", "return"}
  BY <1>1
<1> QED BY <1>1, <1>7, <1>9, <1>10, <1>11, <1>12, <1>13, OutOK

\* What the body's operation leaves of what translate_block_arm holds.
LEMMA BodyIs ==
  ASSUME BlockOK, NEW e \in Emitters, NEW k \in InBlock, NEW pay \in Nat
  PROVE  LET d == Body(e, k, pay) IN
         /\ d \in Emitters /\ Beside(d, e) /\ d.code = Append(e.code, BodyOp(k, pay))
         /\ d.count = 0 /\ d.deferred = e.deferred /\ d.hole = e.hole
         /\ d.const = e.const /\ d.known = e.known
<1> DEFINE f == Out(e, BodyOp(k, pay))
<1>1. BodyOp(k, pay) \in Ops
  BY BodyOpTyped
<1>2. /\ f \in Emitters /\ Beside(f, e) /\ f.code = Append(e.code, BodyOp(k, pay))
      /\ f.deferred = e.deferred /\ f.hole = e.hole
      /\ f.const = e.const /\ f.known = e.known
  BY <1>1, OutIs
<1> DEFINE d == Body(e, k, pay)
<1>3. d = [f EXCEPT !.count = 0]
  BY DEF Body, BodyOp
<1> HIDE DEF f, d
<1>4. d \in Emitters /\ Beside(d, f) /\ d.code = f.code /\ d.count = 0
      /\ d.deferred = f.deferred /\ d.hole = f.hole /\ d.const = f.const
      /\ d.known = f.known
  BY <1>2, <1>3 DEF Emitters, Beside
<1>5. Beside(d, e)
  BY <1>2, <1>4 DEF Beside
<1> QED BY <1>2, <1>4, <1>5 DEF d

\* What an instruction makes of the register and of the flags.
LEMMA EffectParts ==
  ASSUME NEW i \in Instruction, NEW p \in Processors, NEW v \in {0, 1}
  PROVE  LET q == Effect(i, p, v) IN
         /\ i.does \notin {"mov0", "mov1", "ldr", "adc"} => q.r = p.r
         /\ i.does \notin {"cmp", "tst", "lsl"} => \A f \in Flags : q[f] = p[f]
         /\ i.does = "mov0" => q.r = 0
         /\ i.does = "mov1" => q.r = 1
         /\ i.does = "cmp" => \A f \in Flags : q[f] = (p.r = 1)
         /\ i.does = "tst" => q["z"] = (p.r = 0)
BY DEF Effect, Processors, Instruction, Kinds, Flags

\* Nothing is known of the flags.
LEMMA NoFlagsTyped ==
  NoFlags \in Knowledge /\ DOMAIN NoFlags = {} /\ \A m : Less(NoFlags, m)
<1>1. NoFlags \in [{} -> BOOLEAN] /\ DOMAIN NoFlags = {}
  BY DEF NoFlags
<1>2. NoFlags \in Knowledge
  BY <1>1, Zenon DEF Knowledge, Flags
<1> QED BY <1>1, <1>2 DEF Less

\* What is known after a data processing instruction, whose result may be known: the rest
\* of what was known still holds, as far as it is not overwritten.
LEMMA DataProcTeaches ==
  ASSUME BlockOK, NEW k \in InBlock, NEW const \in {0, 1, Unknown}, NEW known \in Knowledge,
         NEW l, NEW m,
         LET op == insns[k].does IN
         /\ l = Unknown \/ (op = "mov0" /\ l = 0) \/ (op = "mov1" /\ l = 1)
            \/ (op \notin {"mov0", "mov1", "ldr", "adc"} /\ l = const)
         /\ m = NoFlags \/ (op \notin {"cmp", "tst", "lsl"} /\ m = known)
            \/ (op = "cmp" /\ const # Unknown /\ m = [f \in Flags |-> const = 1])
            \/ (op = "tst" /\ const # Unknown /\ m = [f \in {"z"} |-> const = 0])
  PROVE  Teaches(k, const, known, l, m)
<1> SUFFICES ASSUME NEW p \in Processors, NEW v \in {0, 1}, Knows(const, known, p)
             PROVE  Knows(l, m, Effect(insns[k], p, v))
  BY DEF Teaches
<1> DEFINE q == Effect(insns[k], p, v)
           op == insns[k].does
<1>1. insns[k] \in Instruction
  BY InsnsTyped
<1>2. /\ op \notin {"mov0", "mov1", "ldr", "adc"} => q.r = p.r
      /\ op \notin {"cmp", "tst", "lsl"} => \A f \in Flags : q[f] = p[f]
      /\ op = "mov0" => q.r = 0
      /\ op = "mov1" => q.r = 1
      /\ op = "cmp" => \A f \in Flags : q[f] = (p.r = 1)
      /\ op = "tst" => q["z"] = (p.r = 0)
  BY <1>1, EffectParts
<1> HIDE DEF q, op
<1>3. const \in {Unknown, p.r} /\ \A f \in DOMAIN known : known[f] = p[f]
  BY DEF Knows
<1>4. DOMAIN known \subseteq Flags
  BY DEF Knowledge
<1>5. l \in {Unknown, q.r}
  <2>1. l = Unknown \/ (op = "mov0" /\ l = 0) \/ (op = "mov1" /\ l = 1)
        \/ (op \notin {"mov0", "mov1", "ldr", "adc"} /\ l = const)
    BY DEF op
  <2> QED BY <1>2, <1>3, <2>1
<1>6. \A f \in DOMAIN m : m[f] = q[f]
  <2>1. m = NoFlags \/ (op \notin {"cmp", "tst", "lsl"} /\ m = known)
        \/ (op = "cmp" /\ const # Unknown /\ m = [f \in Flags |-> const = 1])
        \/ (op = "tst" /\ const # Unknown /\ m = [f \in {"z"} |-> const = 0])
    BY DEF op
  <2>2. CASE m = NoFlags
    BY <2>2, NoFlagsTyped
  <2>3. CASE op \notin {"cmp", "tst", "lsl"} /\ m = known
    BY <1>2, <1>3, <1>4, <2>3
  <2>4. CASE op = "cmp" /\ const # Unknown /\ m = [f \in Flags |-> const = 1]
    <3>1. const = p.r
      BY <1>3, <2>4
    <3> QED BY <1>2, <2>4, <3>1
  <2>5. CASE op = "tst" /\ const # Unknown /\ m = [f \in {"z"} |-> const = 0]
    <3>1. const = p.r
      BY <1>3, <2>5
    <3> QED BY <1>2, <2>5, <3>1
  <2> QED BY <2>1, <2>2, <2>3, <2>4, <2>5
<1> QED BY <1>5, <1>6 DEF Knows, q

\* An instruction that stores or leaves is alone under its gate.
LEMMA Lonely ==
  ASSUME BlockOK, NEW e, NEW N, NEW k \in InBlock, Ready(e, N, k),
         IsExit(insns[k]) \/ IsBoundary(insns[k])
  PROVE  /\ e.deferred = 0 /\ e.prepaid = 0 /\ Under(e) = "al"
         /\ e.last.on # "al" => e.count = 0
<1>1. CASE e.last.on = "al"
  BY <1>1 DEF Ready, Under
<1>2. CASE e.last.on # "al"
  <2>1. Gated(e, k)
    BY <1>2 DEF Ready
  <2>2. e.last.marks # {}
    BY <2>1, ConditionTyped DEF Gated
  <2> QED BY <2>1, <2>2 DEF Gated, Alone, Under
<1> QED BY <1>1, <1>2

\* Nobody comes to no place.
LEMMA NobodyThere == \A b : Implies(Nowhere, b)
<1> SUFFICES ASSUME NEW g, NEW h, Holds(Nowhere, g, h) PROVE FALSE
  BY DEF Implies
<1>1. ComesTo(0, g)
  BY HoldsIs DEF Nowhere
<1> QED BY <1>1 DEF ComesTo, Guests

\* Data processing.
LEMMA DataProcOK ==
  ASSUME BlockOK, NEW e, NEW N, NEW k \in InBlock, Ready(e, N, k), ~e.skip,
         insns[k].does \in {"mov0", "mov1", "adc", "cmp", "tst", "lsl"}
  PROVE  \E M : Past(DataProc(e, k), M, k + 1)
<1> DEFINE op == insns[k].does
           sure == e.as.on = "al"
           pay == IF k = Len(insns) THEN e.count ELSE 0
           count == IF k = Len(insns) THEN 0 ELSE e.count
           done == IF k = Len(insns) THEN Body(e, k, e.count)
                   ELSE [Body(e, k, 0) EXCEPT !.count = e.count]
           l == CASE op = "mov0" -> (IF sure THEN 0 ELSE Unknown)
                  [] op = "mov1" -> (IF sure THEN 1 ELSE Unknown)
                  [] op = "adc" -> Unknown
                  [] OTHER -> e.const
           m == IF op = "lsl" THEN NoFlags
                ELSE IF op \in {"cmp", "tst"} THEN Tested(e, k) ELSE e.known
           d == DataProc(e, k)
<1>1. /\ e \in Emitters /\ e.count \in Nat /\ e.const \in {0, 1, Unknown}
      /\ e.known \in Knowledge /\ e.deferred \in Nat
  <2>1. e \in Emitters
    BY DEF Ready, CodeOK
  <2> QED BY <2>1 DEF Emitters
<1>2. pay \in Nat /\ count \in Nat /\ e.count - pay = count
  BY <1>1
<1>3. /\ done \in Emitters /\ Beside(done, e) /\ done.code = Append(e.code, BodyOp(k, pay))
      /\ done.count = count /\ done.deferred = e.deferred /\ done.hole = e.hole
      /\ done.const = e.const /\ done.known = e.known
  <2>1. CASE k = Len(insns)
    BY <1>1, <2>1, BodyIs
  <2>2. CASE k # Len(insns)
    <3> DEFINE f == Body(e, k, 0)
    <3>1. /\ f \in Emitters /\ Beside(f, e) /\ f.code = Append(e.code, BodyOp(k, 0))
          /\ f.deferred = e.deferred /\ f.hole = e.hole
          /\ f.const = e.const /\ f.known = e.known
      BY <1>1, BodyIs
    <3> HIDE DEF f
    <3>2. done = [f EXCEPT !.count = e.count] /\ pay = 0 /\ count = e.count
      BY <2>2 DEF f
    <3> HIDE DEF done, pay, count
    <3> QED BY <1>1, <3>1, <3>2 DEF Emitters, Beside
  <2> QED BY <2>1, <2>2
<1>4. d = [done EXCEPT !.const = l, !.known = m]
  <2>1. d = CASE op = "mov0" -> [done EXCEPT !.const = IF sure THEN 0 ELSE Unknown]
              [] op = "mov1" -> [done EXCEPT !.const = IF sure THEN 1 ELSE Unknown]
              [] op = "adc" -> [done EXCEPT !.const = Unknown]
              [] op = "lsl" -> [done EXCEPT !.known = NoFlags]
              [] OTHER -> [done EXCEPT !.known = Tested(e, k)]
    BY DEF DataProc
  <2> HIDE DEF done
  <2>2. done = [done EXCEPT !.const = done.const, !.known = done.known]
    BY <1>3 DEF Emitters
  <2> HIDE DEF d
  <2>3. CASE op = "mov0"
    BY <1>3, <2>1, <2>3 DEF Emitters
  <2>4. CASE op = "mov1"
    BY <1>3, <2>1, <2>4 DEF Emitters
  <2>5. CASE op = "adc"
    BY <1>3, <2>1, <2>5 DEF Emitters
  <2>6. CASE op = "lsl"
    BY <1>3, <2>1, <2>6 DEF Emitters
  <2>7. CASE op \in {"cmp", "tst"}
    BY <1>3, <2>1, <2>7 DEF Emitters
  <2> QED BY <2>3, <2>4, <2>5, <2>6, <2>7
<1> HIDE DEF done, d, pay, count
<1>5. m = NoFlags \/ (op \notin {"cmp", "tst", "lsl"} /\ m = e.known)
      \/ (op = "cmp" /\ sure /\ e.const # Unknown /\ m = [f \in Flags |-> e.const = 1])
      \/ (op = "tst" /\ sure /\ e.const # Unknown /\ m = [f \in {"z"} |-> e.const = 0])
  BY DEF Tested
<1>6. l = Unknown \/ (op = "mov0" /\ sure /\ l = 0) \/ (op = "mov1" /\ sure /\ l = 1)
      \/ (op \notin {"mov0", "mov1", "ldr", "adc"} /\ l = e.const)
  OBVIOUS
<1>7. l \in {0, 1, Unknown} /\ m \in Knowledge
  <2>1. [f \in Flags |-> e.const = 1] \in [Flags -> BOOLEAN] /\ Flags \in SUBSET Flags
    OBVIOUS
  <2>2. [f \in {"z"} |-> e.const = 0] \in [{"z"} -> BOOLEAN] /\ {"z"} \in SUBSET Flags
    BY DEF Flags
  <2>3. [f \in Flags |-> e.const = 1] \in Knowledge
    BY <2>1, Zenon DEF Knowledge
  <2>4. [f \in {"z"} |-> e.const = 0] \in Knowledge
    BY <2>2, Zenon DEF Knowledge
  <2>5. m \in Knowledge
    BY <1>1, <1>5, <2>3, <2>4, NoFlagsTyped
  <2> QED BY <1>1, <1>6, <2>5
<1>8. Teaches(k, e.const, e.known, l, m)
  BY <1>1, <1>5, <1>6, DataProcTeaches
<1>9. ~sure => l \in {Unknown, e.const} /\ Less(m, e.known)
  <2>1. Less(e.known, e.known)
    BY DEF Less
  <2> QED BY <1>5, <1>6, <2>1, NoFlagsTyped
<1>10. sure <=> e.last.on = "al"
  BY DEF Ready
<1> HIDE DEF l, m
<1>11. /\ d \in Emitters /\ Beside(d, done) /\ d.code = done.code /\ d.count = count
       /\ d.deferred = done.deferred /\ d.hole = done.hole /\ d.const = l /\ d.known = m
  BY <1>3, <1>4, <1>7 DEF Emitters, Beside
<1>12. /\ d.code = Append(e.code, BodyOp(k, pay)) /\ d.begins = e.begins /\ d.last = e.last
       /\ d.hole = e.hole /\ d.prepaid = e.prepaid /\ d.source = e.source
       /\ d.closed = e.closed /\ d.deferred = e.deferred
  BY <1>3, <1>11 DEF Beside
<1>13. ~IsBranch(insns[k]) /\ Extra(k) = 0
  BY DEF IsBranch, Extra
<1>14. d.count + d.deferred = e.count + e.deferred + Extra(k) - pay
  <2> DEFINE x == e.count
             y == e.deferred
  <2>1. x \in Nat /\ y \in Nat /\ x - pay = count
    BY <1>1, <1>2
  <2> HIDE DEF x, y
  <2>2. count + y = x + y + 0 - pay
    BY <1>2, <2>1
  <2> QED BY <1>11, <1>12, <1>13, <2>2 DEF x, y
<1>15. e.last.on = "al" => d.deferred = 0
  BY <1>12 DEF Ready
<1>16. e.last.on # "al" => /\ d.count = 0 /\ d.const \in {Unknown, e.const}
                           /\ Less(d.known, e.known) /\ Alone(d)
  <2> SUFFICES ASSUME e.last.on # "al"
               PROVE  /\ d.count = 0 /\ d.const \in {Unknown, e.const}
                      /\ Less(d.known, e.known) /\ Alone(d)
    OBVIOUS
  <2>1. Gated(e, k)
    BY DEF Ready
  <2>2. count = 0
    BY <2>1 DEF Gated, count
  <2>3. Alone(d)
    BY <1>12, <2>1 DEF Gated, Alone
  <2> QED BY <1>9, <1>10, <1>11, <2>2, <2>3
<1>17. \E M : Past(d, M, k + 1)
  BY <1>2, <1>8, <1>11, <1>12, <1>13, <1>14, <1>15, <1>16, BodyOK
<1> QED BY <1>17 DEF d

\* What an access or a multiplication leaves known.
LEMMA KnownStays ==
  ASSUME BlockOK, NEW k \in InBlock, NEW const, NEW known \in Knowledge, NEW l,
         insns[k].does \notin {"cmp", "tst", "lsl"},
         l = Unknown \/ (insns[k].does \notin {"mov0", "mov1", "ldr", "adc"} /\ l = const)
  PROVE  Teaches(k, const, known, l, known)
<1> SUFFICES ASSUME NEW p \in Processors, NEW v \in {0, 1}, Knows(const, known, p)
             PROVE  Knows(l, known, Effect(insns[k], p, v))
  BY DEF Teaches
<1> DEFINE q == Effect(insns[k], p, v)
<1>1. insns[k] \in Instruction
  BY InsnsTyped
<1>2. /\ insns[k].does \notin {"mov0", "mov1", "ldr", "adc"} => q.r = p.r
      /\ \A f \in Flags : q[f] = p[f]
  BY <1>1, EffectParts
<1> HIDE DEF q
<1>3. \A f \in DOMAIN known : f \in Flags
  BY DEF Knowledge
<1>4. l \in {Unknown, q.r} /\ \A f \in DOMAIN known : known[f] = q[f]
  BY <1>2, <1>3 DEF Knows
<1> QED BY <1>4 DEF Knows, q

\* A load puts its cycles off, to the end of the run under a gate.
LEMMA LoadOK ==
  ASSUME BlockOK, NEW e, NEW N, NEW k \in InBlock, Ready(e, N, k), ~e.skip,
         insns[k].does = "ldr"
  PROVE  \E M : Past(EmitLoad(e, k), M, k + 1)
<1> DEFINE sure == e.as.on = "al"
           f == Body(e, k, 0)
           done == [f EXCEPT !.count = e.count, !.const = Unknown]
           d == EmitLoad(e, k)
           count == IF sure THEN e.count + 2 ELSE e.count
           deferred == IF sure THEN e.deferred ELSE e.deferred + 2
<1>1. /\ e \in Emitters /\ e.count \in Nat /\ e.known \in Knowledge /\ e.deferred \in Nat
  <2>1. e \in Emitters
    BY DEF Ready, CodeOK
  <2> QED BY <2>1 DEF Emitters
<1>2. /\ f \in Emitters /\ Beside(f, e) /\ f.code = Append(e.code, BodyOp(k, 0))
      /\ f.deferred = e.deferred /\ f.hole = e.hole /\ f.known = e.known
  BY <1>1, BodyIs
<1> HIDE DEF f
<1>3. /\ done \in Emitters /\ Beside(done, f) /\ done.code = f.code
      /\ done.deferred = e.deferred /\ done.hole = f.hole /\ done.known = f.known
      /\ done.count = e.count /\ done.const = Unknown
  BY <1>1, <1>2 DEF Emitters, Beside
<1>4. d = IF sure THEN [done EXCEPT !.count = @ + 2] ELSE [done EXCEPT !.deferred = @ + 2]
  BY DEF EmitLoad, f
<1> HIDE DEF done, d
<1>5. /\ d \in Emitters /\ Beside(d, done) /\ d.code = done.code /\ d.hole = done.hole
      /\ d.known = done.known /\ d.const = Unknown
      /\ d.count = count /\ d.deferred = deferred
  <2>1. e.count + 2 \in Nat /\ e.deferred + 2 \in Nat
    BY <1>1
  <2> DEFINE x == e.count + 2
             y == e.deferred + 2
  <2>2. d = IF sure THEN [done EXCEPT !.count = x] ELSE [done EXCEPT !.deferred = y]
    BY <1>3, <1>4
  <2>3. count = (IF sure THEN x ELSE e.count) /\ deferred = (IF sure THEN e.deferred ELSE y)
    OBVIOUS
  <2> HIDE DEF x, y, count, deferred, sure
  <2>4. CASE sure
    BY <1>3, <2>1, <2>2, <2>3, <2>4 DEF Emitters, Beside, x
  <2>5. CASE ~sure
    BY <1>3, <2>1, <2>2, <2>3, <2>5 DEF Emitters, Beside, y
  <2> QED BY <2>4, <2>5
<1>6. /\ d.code = Append(e.code, BodyOp(k, 0)) /\ d.begins = e.begins /\ d.last = e.last
      /\ d.hole = e.hole /\ d.prepaid = e.prepaid /\ d.source = e.source
      /\ d.closed = e.closed /\ d.known = e.known
  BY <1>2, <1>3, <1>5 DEF Beside
<1>7. ~IsBranch(insns[k]) /\ Extra(k) = 2
  BY DEF IsBranch, Extra
<1>8. d.count + d.deferred = e.count + e.deferred + Extra(k) - 0
  <2> DEFINE x == e.count
             y == e.deferred
             a == d.count
             b == d.deferred
  <2>1. x \in Nat /\ y \in Nat
    BY <1>1
  <2>2. a = (IF sure THEN x + 2 ELSE x) /\ b = (IF sure THEN y ELSE y + 2)
    BY <1>5
  <2> HIDE DEF x, y, a, b, sure
  <2>3. a + b = x + y + 2 - 0
    <3>1. CASE sure
      BY <2>1, <2>2, <3>1
    <3>2. CASE ~sure
      BY <2>1, <2>2, <3>2
    <3> QED BY <3>1, <3>2
  <2> QED BY <1>7, <2>3 DEF x, y, a, b
<1>9. sure <=> e.last.on = "al"
  BY DEF Ready
<1>10. e.last.on = "al" => d.deferred = 0
  BY <1>5, <1>9 DEF Ready
<1>11. e.last.on # "al" => /\ d.count = 0 /\ d.const \in {Unknown, e.const}
                           /\ Less(d.known, e.known) /\ Alone(d)
  <2> SUFFICES ASSUME e.last.on # "al" PROVE d.count = 0 /\ Less(d.known, e.known) /\ Alone(d)
    BY <1>5
  <2>1. Gated(e, k)
    BY DEF Ready
  <2>2. d.count = 0
    BY <1>5, <1>9, <2>1 DEF Gated
  <2>3. Condition(k).marks = {}
    BY DEF Condition, IsExit, IsBoundary, Writes
  <2>4. Alone(d)
    BY <1>6, <2>1, <2>3 DEF Gated, Alone
  <2> QED BY <1>6, <2>2, <2>4 DEF Less
<1>12. Teaches(k, e.const, e.known, d.const, d.known)
  <2>1. Teaches(k, e.const, e.known, Unknown, e.known)
    BY <1>1, KnownStays
  <2> QED BY <1>5, <1>6, <2>1
<1>13. 0 \in Nat
  OBVIOUS
<1> HIDE DEF count, deferred
<1>14. \E M : Past(d, M, k + 1)
  BY <1>5, <1>6, <1>7, <1>8, <1>10, <1>11, <1>12, <1>13, BodyOK
<1> QED BY <1>14 DEF d

\* A multiplication charges its cycles at once.
LEMMA MultiplyOK ==
  ASSUME BlockOK, NEW e, NEW N, NEW k \in InBlock, Ready(e, N, k), ~e.skip,
         insns[k].does = "mul"
  PROVE  \E M : Past(EmitMultiply(e, k), M, k + 1)
<1> DEFINE pay == e.count + 2
           d == EmitMultiply(e, k)
<1>1. /\ e \in Emitters /\ e.count \in Nat /\ e.known \in Knowledge /\ e.deferred \in Nat
      /\ pay \in Nat
  <2>1. e \in Emitters
    BY DEF Ready, CodeOK
  <2> QED BY <2>1 DEF Emitters
<1>2. d = Body(e, k, pay)
  BY DEF EmitMultiply
<1> HIDE DEF d
<1>3. /\ d \in Emitters /\ Beside(d, e) /\ d.code = Append(e.code, BodyOp(k, pay))
      /\ d.count = 0 /\ d.deferred = e.deferred /\ d.hole = e.hole
      /\ d.const = e.const /\ d.known = e.known
  BY <1>1, <1>2, BodyIs
<1>4. /\ d.begins = e.begins /\ d.last = e.last /\ d.prepaid = e.prepaid
      /\ d.source = e.source /\ d.closed = e.closed
  BY <1>3 DEF Beside
<1>5. ~IsBranch(insns[k]) /\ Extra(k) = 2
  BY DEF IsBranch, Extra
<1>6. d.count + d.deferred = e.count + e.deferred + Extra(k) - pay
  <2> DEFINE x == e.count
             y == e.deferred
  <2>1. x \in Nat /\ y \in Nat /\ pay = x + 2
    BY <1>1
  <2> HIDE DEF x, y, pay
  <2>2. 0 + y = x + y + 2 - pay
    BY <2>1
  <2> QED BY <1>3, <1>5, <2>2 DEF x, y
<1>7. e.last.on = "al" => d.deferred = 0
  BY <1>3 DEF Ready
<1>8. e.last.on # "al" => /\ d.count = 0 /\ d.const \in {Unknown, e.const}
                          /\ Less(d.known, e.known) /\ Alone(d)
  <2>1. e.last.on # "al" => Alone(d)
    BY <1>3, <1>4 DEF Ready, Gated, Alone
  <2> QED BY <1>3, <2>1 DEF Less
<1>9. Teaches(k, e.const, e.known, d.const, d.known)
  <2>1. Teaches(k, e.const, e.known, e.const, e.known)
    BY <1>1, KnownStays
  <2> QED BY <1>3, <2>1
<1> HIDE DEF pay
<1>10. \E M : Past(d, M, k + 1)
  BY <1>1, <1>3, <1>4, <1>5, <1>6, <1>7, <1>8, <1>9, BodyOK
<1> QED BY <1>10 DEF d

\* A store charges what is owed.
LEMMA StoreOK ==
  ASSUME BlockOK, NEW e, NEW N, NEW k \in InBlock, Ready(e, N, k), ~e.skip,
         insns[k].does = "str"
  PROVE  \E M : Past(EmitStore(e, k), M, k + 1)
<1> DEFINE pay == e.count + 1
           op == Operation("store", k, pay)
           f == Out(e, op)
           d == EmitStore(e, k)
           b == Note(k + 1, 0, "al", e.const, e.known)
<1>1. /\ e \in Emitters /\ e.count \in Nat /\ pay \in Nat /\ e.source \in Seq(Nat)
      /\ e.code \in Seq(Ops)
  <2>1. e \in Emitters
    BY DEF Ready, CodeOK
  <2> QED BY <2>1 DEF Emitters
<1>2. op \in Ops /\ op.op = "store" /\ op.of = k /\ op.pay = pay /\ op.to = 0
  <2>1. k \in Nat
    BY InsnsTyped
  <2> HIDE DEF pay
  <2>2. pay \in Nat
    BY <1>1
  <2> QED BY <2>1, <2>2, OperationTyped
<1>3. d = [f EXCEPT !.count = 0]
  BY DEF EmitStore
<1> HIDE DEF op, d
<1>4. /\ f \in Emitters /\ Beside(f, e) /\ f.code = Append(e.code, op)
      /\ f.deferred = e.deferred /\ f.hole = e.hole /\ f.const = e.const
      /\ f.known = e.known
  BY <1>1, <1>2, OutIs
<1> HIDE DEF f
<1>5. /\ d \in Emitters /\ Beside(d, f) /\ d.code = f.code /\ d.count = 0
      /\ d.deferred = f.deferred /\ d.hole = f.hole /\ d.const = f.const
      /\ d.known = f.known
  BY <1>3, <1>4 DEF Emitters, Beside
<1>6. /\ d.begins = e.begins /\ d.last = e.last /\ d.prepaid = e.prepaid
      /\ d.source = e.source /\ d.closed = e.closed /\ d.code = Append(e.code, op)
      /\ d.deferred = e.deferred /\ d.hole = e.hole /\ d.const = e.const
      /\ d.known = e.known
  BY <1>4, <1>5 DEF Beside
<1>7. /\ e.deferred = 0 /\ e.prepaid = 0 /\ Under(e) = "al"
      /\ IsBoundary(insns[k]) /\ ~IsBranch(insns[k])
  BY Lonely DEF IsBoundary, IsBranch
<1>8. Under(d) = "al"
  BY <1>6, <1>7 DEF Under
<1>9. d.count + d.deferred - d.prepaid = 0 /\ e.count + e.deferred - e.prepaid - 1 = e.count - 1
      /\ e.count - 1 \in Int /\ pay = (e.count - 1) + 2
  BY <1>1, <1>5, <1>6, <1>7
<1>10. Implies(b, Note(k + 1, d.count + d.deferred - d.prepaid, Under(d), d.const, d.known))
  <2>1. b = Note(k + 1, d.count + d.deferred - d.prepaid, Under(d), d.const, d.known)
    BY <1>6, <1>8, <1>9
  <2> QED BY <2>1 DEF Implies
<1> HIDE DEF b, pay
<1>11. Brings(k, Note(k, e.count + e.deferred - e.prepaid - 1, e.last.on, e.const, e.known),
             op, b)
  <2> SUFFICES ASSUME NEW g, NEW h,
                      Holds(Note(k, e.count - 1, e.last.on, e.const, e.known), g, h),
                      Passes(insns[k].on, g.as)
               PROVE  StepsTo(op, b, g, h)
    BY <1>9 DEF Brings
  <2>1. op.pay = (e.count - 1) + 2
    BY <1>2, <1>9
  <2> QED BY <1>2, <1>9, <2>1, StoreSteps DEF b
<1>12. /\ d.code \in Seq(Ops) /\ Len(d.code) = Len(e.code) + 1 /\ d.code[Len(e.code) + 1] = op
       /\ Prolongs(d.code, e.code)
  BY <1>1, <1>2, <1>6, AppendProlongs
<1>13. Linked(d.code, d.source, k)
  <2>1. Linked(e.code, e.source, k - 1)
    BY DEF Ready
  <2>2. Linked(d.code, e.source, k - 1)
    BY <1>1, <1>12, <2>1, LinkedStays
  <2> QED BY <1>6, <1>7, <2>2, LinkedOn
<1>14. ~EndsSo(d) /\ ~d.closed
  <2>1. d.code[Len(d.code)].op # "return" /\ ~d.closed
    BY <1>2, <1>6, <1>12 DEF Ready
  <2> QED BY <2>1 DEF EndsSo
<1>15. e.last.on = "al" => d.deferred = 0
  BY <1>6, <1>7
<1>16. e.last.on # "al" => /\ d.count = 0 /\ d.const \in {Unknown, e.const}
                           /\ Less(d.known, e.known) /\ Alone(d)
  <2>1. Alone(d)
    BY <1>6, <1>7 DEF Alone
  <2> QED BY <1>5, <1>6, <2>1 DEF Less
<1>17. op.op \in {"body", "store", "leave", "return"}
  BY <1>2
<1>18. \E M : Past(d, M, k + 1)
  BY <1>2, <1>5, <1>6, <1>10, <1>11, <1>13, <1>14, <1>15, <1>16, <1>17, OutOK
<1> QED BY <1>18 DEF d

\* A branch takes its slot; a return is left by nobody.  What follows is not known.
LEMMA LeaveOK ==
  ASSUME BlockOK, NEW e, NEW N, NEW k \in InBlock, Ready(e, N, k), ~e.skip,
         insns[k].does = "b"
  PROVE  \E M : Past(EmitBranch(e, k), M, k + 1)
<1> DEFINE op == Operation("leave", k, e.count)
           f == Forgotten(e)
           c == Out(f, op)
           d == EmitBranch(e, k)
           s == Append(e.source, Len(e.code) + 1)
           closes == ClosesBlock(k)
<1>1. /\ e \in Emitters /\ e.count \in Nat /\ e.source \in Seq(Nat)
      /\ e.code \in Seq(Ops) /\ Len(e.code) \in Nat /\ e.slot \in Nat /\ ~e.closed
  <2>1. e \in Emitters
    BY DEF Ready, CodeOK
  <2>2. e.count \in Nat /\ e.source \in Seq(Nat) /\ e.code \in Seq(Ops) /\ e.slot \in Nat
    BY <2>1 DEF Emitters
  <2> QED BY <2>1, <2>2, LenProperties DEF Ready
<1>2. op \in Ops /\ op.op = "leave" /\ op.of = k /\ op.pay = e.count /\ op.to = 0
  <2>1. k \in Nat
    BY InsnsTyped
  <2>2. e.count \in Nat
    BY <1>1
  <2> QED BY <2>1, <2>2, OperationTyped
<1>3. /\ f \in Emitters /\ Beside(f, e) /\ f.code = e.code /\ f.deferred = e.deferred
      /\ f.hole = e.hole /\ f.const = Unknown /\ f.known = NoFlags
  BY <1>1, NoFlagsTyped DEF Forgotten, Emitters, Beside
<1>4. /\ d = [c EXCEPT !.count = 0, !.slot = @ + 1, !.source = Append(@, Len(c.code)),
                       !.closed = @ \/ closes]
      /\ closes \in BOOLEAN
  BY DEF EmitBranch, ClosesBlock
<1> HIDE DEF op, f, d, closes
<1>5. /\ c \in Emitters /\ Beside(c, f) /\ c.code = Append(f.code, op)
      /\ c.deferred = f.deferred /\ c.hole = f.hole /\ c.const = f.const
      /\ c.known = f.known
  BY <1>2, <1>3, OutIs
<1> HIDE DEF c
<1>6. /\ c.code = Append(e.code, op) /\ c.begins = e.begins /\ c.last = e.last
      /\ c.prepaid = e.prepaid /\ c.source = e.source /\ ~c.closed
      /\ c.deferred = e.deferred /\ c.hole = e.hole /\ c.const = Unknown
      /\ c.known = NoFlags /\ c.slot = e.slot
  BY <1>1, <1>3, <1>5 DEF Beside
<1>7. /\ c.code \in Seq(Ops) /\ Len(c.code) = Len(e.code) + 1 /\ c.code[Len(e.code) + 1] = op
  BY <1>1, <1>2, <1>6, AppendProlongs
<1>8. s \in Seq(Nat)
  <2>1. Len(e.code) + 1 \in Nat
    BY <1>1
  <2> QED BY <1>1, <2>1, AppendProperties
<1>9. d = [c EXCEPT !.count = 0, !.slot = e.slot + 1, !.source = s, !.closed = closes]
  <2>1. Append(c.source, Len(c.code)) = s /\ c.slot + 1 = e.slot + 1
    BY <1>6, <1>7
  <2>2. c.closed = FALSE
    BY <1>5, <1>6 DEF Emitters
  <2>3. d = [c EXCEPT !.count = 0, !.slot = c.slot + 1,
                      !.source = Append(c.source, Len(c.code)), !.closed = c.closed \/ closes]
    BY <1>4
  <2>4. (c.closed \/ closes) = closes
    BY <1>4, <2>2
  <2> QED BY <2>1, <2>3, <2>4
<1>10. /\ d \in Emitters /\ d.code = c.code /\ d.begins = c.begins /\ d.last = c.last
       /\ d.hole = c.hole /\ d.prepaid = c.prepaid /\ d.source = s /\ d.count = 0
       /\ d.deferred = c.deferred /\ d.const = c.const /\ d.known = c.known
       /\ d.closed = closes
  <2>1. e.slot + 1 \in Nat
    BY <1>1
  <2> DEFINE n == e.slot + 1
  <2> HIDE DEF n, s
  <2>2. d = [c EXCEPT !.count = 0, !.slot = n, !.source = s, !.closed = closes] /\ n \in Nat
    BY <1>9, <2>1 DEF n
  <2>3. c \in Emitters /\ s \in Seq(Nat) /\ closes \in BOOLEAN
    BY <1>4, <1>5, <1>8
  <2>4. /\ d.code = c.code /\ d.begins = c.begins /\ d.last = c.last
        /\ d.hole = c.hole /\ d.prepaid = c.prepaid /\ d.source = s /\ d.count = 0
        /\ d.deferred = c.deferred /\ d.const = c.const /\ d.known = c.known
        /\ d.closed = closes
    BY <2>2, <2>3 DEF Emitters
  <2>5. d \in Emitters
    BY <2>2, <2>3 DEF Emitters
  <2> QED BY <2>4, <2>5
<1>11. /\ e.deferred = 0 /\ e.prepaid = 0 /\ Under(e) = "al" /\ IsBranch(insns[k])
  BY Lonely DEF IsExit, IsBranch
<1>12. e.count + e.deferred - e.prepaid - 1 = e.count - 1 /\ e.count - 1 \in Int
       /\ op.pay = (e.count - 1) + 1
  BY <1>1, <1>2, <1>11
<1>13. Brings(k, Note(k, e.count + e.deferred - e.prepaid - 1, e.last.on, e.const, e.known),
             op, Nowhere)
  <2> SUFFICES ASSUME NEW g, NEW h,
                      Holds(Note(k, e.count - 1, e.last.on, e.const, e.known), g, h),
                      Passes(insns[k].on, g.as)
               PROVE  StepsTo(op, Nowhere, g, h)
    BY <1>12 DEF Brings
  <2> QED BY <1>2, <1>12, LeaveSteps
<1>14. Linked(d.code, d.source, k)
  <2>1. Linked(e.code, e.source, k - 1)
    BY DEF Ready
  <2>2. Linked(Append(e.code, op), s, k)
    BY <1>1, <1>2, <1>11, <2>1, LinkedBranch
  <2> QED BY <1>6, <1>10, <2>2
<1>15. d.closed => k = Len(insns)
  BY <1>10 DEF ClosesBlock, closes
<1>16. EndsSo(d) /\ k = Len(insns) => d.count = 0 /\ d.deferred = 0 /\ ExitsAt(k)
  <2>1. d.code[Len(d.code)].op # "return"
    BY <1>2, <1>7, <1>10
  <2>2. EndsSo(d) => closes
    BY <1>10, <2>1 DEF EndsSo
  <2> QED BY <1>6, <1>10, <1>11, <2>2 DEF ExitsAt, closes
<1>17. e.last.on # "al" => /\ d.count = 0 /\ d.const \in {Unknown, e.const}
                           /\ Less(d.known, e.known) /\ Alone(d)
  <2>1. Alone(d)
    BY <1>6, <1>10, <1>11 DEF Alone
  <2> QED BY <1>6, <1>10, <2>1, NoFlagsTyped
<1>18. /\ op.op \in {"body", "store", "leave", "return"} /\ d.code = Append(e.code, op)
       /\ d.begins = e.begins /\ d.last = e.last /\ d.hole = e.hole
       /\ d.prepaid = e.prepaid /\ (e.last.on = "al" => d.deferred = 0)
  BY <1>2, <1>6, <1>10, <1>11
<1>19. Implies(Nowhere, Note(k + 1, d.count + d.deferred - d.prepaid, Under(d), d.const,
                             d.known))
  BY NobodyThere
<1>20. \E M : Past(d, M, k + 1)
  BY <1>2, <1>10, <1>13, <1>14, <1>15, <1>16, <1>17, <1>18, <1>19, OutOK
<1> QED BY <1>20 DEF d

\* A return is emitted: it pays all that is owed, and what runs on runs on right.
LEMMA ReturnOK ==
  ASSUME BlockOK, NEW e, NEW N, NEW k \in InBlock, Ready(e, N, k), ~e.skip,
         insns[k].does = "bx"
  PROVE  \E M : Past(EmitReturn(e, k), M, k + 1)
<1> DEFINE op == Operation("return", k, e.count)
           f == Forgotten(e)
           c == Out(f, op)
           d == EmitReturn(e, k)
<1>1. /\ e \in Emitters /\ e.count \in Nat /\ e.source \in Seq(Nat)
      /\ e.code \in Seq(Ops) /\ Len(e.code) \in Nat /\ ~e.closed
  <2>1. e \in Emitters
    BY DEF Ready, CodeOK
  <2>2. e.count \in Nat /\ e.source \in Seq(Nat) /\ e.code \in Seq(Ops)
    BY <2>1 DEF Emitters
  <2> QED BY <2>1, <2>2, LenProperties DEF Ready
<1>2. op \in Ops /\ op.op = "return" /\ op.of = k /\ op.pay = e.count /\ op.to = 0
  <2>1. k \in Nat
    BY InsnsTyped
  <2>2. e.count \in Nat
    BY <1>1
  <2> QED BY <2>1, <2>2, OperationTyped
<1>3. /\ f \in Emitters /\ Beside(f, e) /\ f.code = e.code /\ f.deferred = e.deferred
      /\ f.hole = e.hole /\ f.const = Unknown /\ f.known = NoFlags
  BY <1>1, NoFlagsTyped DEF Forgotten, Emitters, Beside
<1>4. d = [c EXCEPT !.count = 0]
  BY DEF EmitReturn
<1> HIDE DEF op, f, d
<1>5. /\ c \in Emitters /\ Beside(c, f) /\ c.code = Append(f.code, op)
      /\ c.deferred = f.deferred /\ c.hole = f.hole /\ c.const = f.const
      /\ c.known = f.known
  BY <1>2, <1>3, OutIs
<1> HIDE DEF c
<1>6. /\ d \in Emitters /\ Beside(d, c) /\ d.code = c.code /\ d.count = 0
      /\ d.deferred = c.deferred /\ d.hole = c.hole /\ d.const = c.const
      /\ d.known = c.known
  BY <1>4, <1>5 DEF Emitters, Beside
<1>7. /\ d.code = Append(e.code, op) /\ d.begins = e.begins /\ d.last = e.last
      /\ d.prepaid = e.prepaid /\ d.source = e.source /\ ~d.closed
      /\ d.deferred = e.deferred /\ d.hole = e.hole /\ d.const = Unknown
      /\ d.known = NoFlags
  BY <1>1, <1>3, <1>5, <1>6 DEF Beside
<1>8. /\ d.code \in Seq(Ops) /\ Prolongs(d.code, e.code)
  BY <1>1, <1>2, <1>7, AppendProlongs
<1>9. /\ e.deferred = 0 /\ e.prepaid = 0 /\ Under(e) = "al" /\ ~IsBranch(insns[k])
  BY Lonely DEF IsExit, IsBranch
<1>10. e.count + e.deferred - e.prepaid - 1 = e.count - 1 /\ e.count - 1 \in Int
       /\ op.pay = (e.count - 1) + 1
  <2> DEFINE x == e.count
  <2>1. x \in Nat /\ op.pay = x /\ e.deferred = 0 /\ e.prepaid = 0
    BY <1>1, <1>2, <1>9
  <2> HIDE DEF x
  <2>2. x + 0 - 0 - 1 = x - 1 /\ x - 1 \in Int /\ x = (x - 1) + 1
    BY <2>1
  <2> QED BY <2>1, <2>2 DEF x
<1>11. Brings(k, Note(k, e.count + e.deferred - e.prepaid - 1, e.last.on, e.const, e.known),
             op, Nowhere)
  <2> SUFFICES ASSUME NEW g, NEW h,
                      Holds(Note(k, e.count - 1, e.last.on, e.const, e.known), g, h),
                      Passes(insns[k].on, g.as)
               PROVE  StepsTo(op, Nowhere, g, h)
    BY <1>10 DEF Brings
  <2> QED BY <1>2, <1>10, LeaveSteps
<1>12. Linked(d.code, d.source, k)
  <2>1. Linked(e.code, e.source, k - 1)
    BY DEF Ready
  <2>2. Linked(d.code, e.source, k - 1)
    BY <1>1, <1>8, <2>1, LinkedStays
  <2> QED BY <1>7, <1>9, <2>2, LinkedOn
<1>13. EndsSo(d) /\ k = Len(insns) => d.count = 0 /\ d.deferred = 0 /\ ExitsAt(k)
  BY <1>6, <1>7, <1>9 DEF ExitsAt
<1>14. e.last.on # "al" => /\ d.count = 0 /\ d.const \in {Unknown, e.const}
                           /\ Less(d.known, e.known) /\ Alone(d)
  <2>1. Alone(d)
    BY <1>7, <1>9 DEF Alone
  <2> QED BY <1>6, <1>7, <2>1, NoFlagsTyped
<1>15. /\ op.op \in {"body", "store", "leave", "return"} /\ (e.last.on = "al" => d.deferred = 0)
  BY <1>2, <1>7, <1>9
<1>16. Implies(Nowhere, Note(k + 1, d.count + d.deferred - d.prepaid, Under(d), d.const,
                             d.known))
  BY NobodyThere
<1>17. d.closed => k = Len(insns)
  BY <1>7
<1>18. \E M : Past(d, M, k + 1)
  BY <1>2, <1>6, <1>7, <1>11, <1>12, <1>13, <1>14, <1>15, <1>16, <1>17, OutOK
<1> QED BY <1>18 DEF d

\* The translation of an instruction is right, skipped or not.
LEMMA TranslatedOK ==
  ASSUME BlockOK, NEW e, NEW N, NEW k \in InBlock, Ready(e, N, k)
  PROVE  \E M : Past(Translated(e, k), M, k + 1)
<1> DEFINE op == insns[k].does
<1>1. CASE e.skip
  <2>1. Translated(e, k) = Skipped(e, k)
    BY <1>1 DEF Translated
  <2> QED BY <1>1, <2>1, SkipOK
<1>2. CASE ~e.skip /\ op = "ldr"
  <2>1. Translated(e, k) = EmitLoad(e, k)
    BY <1>2 DEF Translated
  <2> QED BY <1>2, <2>1, LoadOK
<1>3. CASE ~e.skip /\ op = "mul"
  <2>1. Translated(e, k) = EmitMultiply(e, k)
    BY <1>3 DEF Translated
  <2> QED BY <1>3, <2>1, MultiplyOK
<1>4. CASE ~e.skip /\ op = "str"
  <2>1. Translated(e, k) = EmitStore(e, k)
    BY <1>4 DEF Translated
  <2> QED BY <1>4, <2>1, StoreOK
<1>5. CASE ~e.skip /\ op = "b"
  <2>1. Translated(e, k) = EmitBranch(e, k)
    BY <1>5 DEF Translated
  <2> QED BY <1>5, <2>1, LeaveOK
<1>6. CASE ~e.skip /\ op = "bx"
  <2>1. Translated(e, k) = EmitReturn(e, k)
    BY <1>6 DEF Translated
  <2> QED BY <1>6, <2>1, ReturnOK
<1>7. CASE ~e.skip /\ op \in {"mov0", "mov1", "adc", "cmp", "tst", "lsl"}
  <2>1. Translated(e, k) = DataProc(e, k)
    BY <1>7 DEF Translated
  <2> QED BY <1>7, <2>1, DataProcOK
<1>8. op \in Kinds
  BY InsnsTyped
<1> QED BY <1>1, <1>2, <1>3, <1>4, <1>5, <1>6, <1>7, <1>8 DEF Kinds
-----------------------------------------------------------------------------
(* The places where paths are joined, and the end of the block. *)

\* Where no run goes on nothing is prepaid.
LEMMA NothingPrepaid ==
  ASSUME BlockOK, NEW e, NEW N, NEW k \in 1 .. Len(insns) + 1, Past(e, N, k),
         k \in labels \/ k = Len(insns) + 1
  PROVE  e.prepaid = 0 /\ (e.last.on = "al" => e.deferred = 0)
<1>1. e.prepaid \in Nat /\ k \in Nat /\ Len(insns) \in Nat
  <2>1. e \in Emitters
    BY DEF Past, CodeOK
  <2> QED BY <2>1, LenProperties DEF Emitters, BlockOK
<1>2. CASE e.last.on = "al"
  BY <1>2 DEF Past, RunOK
<1>3. CASE e.last.on # "al"
  <2> SUFFICES ASSUME e.prepaid # 0 PROVE FALSE
    BY <1>3
  <2>1. k \in k .. k + e.prepaid - 1
    <3> DEFINE p == e.prepaid
    <3>1. p \in Nat /\ p # 0
      BY <1>1
    <3> HIDE DEF p
    <3>2. k \in k .. k + p - 1
      BY <1>1, <3>1
    <3> QED BY <3>2 DEF p
  <2>2. RunFrom(e.last, e.prepaid, k)
    BY <1>3 DEF Past, RunOK
  <2>3. k \in InBlock /\ k \notin labels
    BY <2>1, <2>2 DEF RunFrom
  <2> QED BY <1>1, <2>3 DEF InBlock
<1> QED BY <1>2, <1>3

\* Both ways are joined: every gate knows where to jump.
Joined(e, N, k) ==
  /\ e \in Emitters /\ Flows(e.code, N) /\ Jumps(e.code) /\ Begun(e.begins, N, End(e.code))
  /\ Implies(N[End(e.code)], Note(k, e.count, "al", e.const, e.known))
  /\ e.deferred = 0 /\ e.prepaid = 0
  /\ Linked(e.code, e.source, k - 1) /\ Len(e.begins) = k - 1

\* A run is closed where paths are joined: what was deferred is charged.
LEMMA ClosedOK ==
  ASSUME BlockOK, NEW e, NEW N, NEW k \in 1 .. Len(insns) + 1, Past(e, N, k),
         k \in labels \/ k = Len(insns) + 1
  PROVE  LET c == Close(e) IN
         \E M : /\ Joined(c, M, k) /\ c.closed = e.closed /\ c.count = e.count
                /\ Prolongs(c.code, e.code) /\ c.last = e.last
                /\ e.last.on = "al" => c = e
                /\ \A j \in End(e.code) .. Len(c.code) : c.code[j].op = "charge"
<1> DEFINE c == Close(e)
<1>1. /\ e \in Emitters /\ e.count \in Nat /\ e.deferred \in Nat /\ e.prepaid = 0
      /\ e.last.on = "al" => e.deferred = 0
  <2>1. e \in Emitters
    BY DEF Past, CodeOK
  <2> QED BY <2>1, NothingPrepaid DEF Emitters
<1>2. e.count + e.deferred - e.prepaid = e.count + e.deferred - 0
      /\ e.count - e.prepaid = e.count - 0 /\ e.count - 0 = e.count
  <2> DEFINE x == e.count
             q == e.deferred
             p == e.prepaid
  <2>1. x \in Nat /\ q \in Nat /\ p = 0
    BY <1>1
  <2> HIDE DEF x, q, p
  <2>2. x + q - p = x + q - 0 /\ x - p = x - 0 /\ x - 0 = x
    BY <2>1
  <2> QED BY <2>2 DEF x, q, p
<1>3. CodeOK(e, N, k, e.count + e.deferred - 0, Under(e)) /\ HoleOK(e, N, k, e.count - 0)
  BY <1>2 DEF Past
<1>4. 0 \in {0, 1}
  OBVIOUS
<1>5. PICK M : /\ c \in Emitters /\ Beside(c, e) /\ Prolongs(c.code, e.code)
               /\ c.count = e.count /\ c.deferred = 0 /\ c.const = e.const
               /\ c.known = e.known /\ c.hole = e.hole
               /\ Flows(c.code, M) /\ Jumps(c.code)
               /\ Begun(c.begins, M, End(c.code)) /\ Grows(M, N, End(e.code))
               /\ Implies(M[End(c.code)], Note(k, e.count - 0, "al", e.const, e.known))
               /\ e.last.on = "al" => c = e
               /\ \A j \in End(e.code) .. Len(c.code) : c.code[j].op = "charge"
  BY <1>1, <1>3, <1>4, CloseOK
<1> HIDE DEF c
<1>6. Linked(c.code, c.source, k - 1)
  <2>1. c.code \in Seq(Ops) /\ e.code \in Seq(Ops) /\ e.source \in Seq(Nat)
    BY <1>1, <1>5 DEF Emitters
  <2>2. Linked(e.code, e.source, k - 1) /\ c.source = e.source
    BY <1>5 DEF Beside, Past
  <2> QED BY <1>5, <2>1, <2>2, LinkedStays
<1>7. Implies(M[End(c.code)], Note(k, c.count, "al", c.const, c.known))
  BY <1>2, <1>5
<1>8. /\ c.prepaid = 0 /\ Len(c.begins) = k - 1 /\ c.closed = e.closed /\ c.last = e.last
  BY <1>1, <1>5 DEF Beside, Past
<1>9. Joined(c, M, k)
  BY <1>5, <1>6, <1>7, <1>8 DEF Joined
<1> QED BY <1>5, <1>8, <1>9 DEF c

\* A checkpoint charges what is owed, unless it is nothing.
LEMMA CheckpointOK ==
  ASSUME BlockOK, NEW e, NEW N, NEW k \in 1 .. Len(insns) + 1, Joined(e, N, k),
         k \in labels \/ k = Len(insns) + 1
  PROVE  LET d == Checkpoint(e, k) IN
         \E M : /\ Joined(d, M, k) /\ d.count = 0 /\ d.last = e.last /\ d.as = e.as
                /\ d.closed = e.closed /\ d.const = e.const /\ d.known = e.known
                /\ Prolongs(d.code, e.code)
                /\ e.count = 0 => d = e
                /\ e.count # 0 => /\ Len(d.code) = Len(e.code) + 1
                                  /\ d.code[Len(d.code)].op = "check"
<1> DEFINE d == Checkpoint(e, k)
           op == Operation("check", k, e.count)
           f == Out(e, op)
           b == Note(k, 0, "al", e.const, e.known)
           L == Len(e.code)
<1>1. /\ e \in Emitters /\ e.count \in Nat /\ e.code \in Seq(Ops) /\ L \in Nat /\ k \in Nat
      /\ e.source \in Seq(Nat)
  <2>1. e \in Emitters
    BY DEF Joined
  <2>2. e.count \in Nat /\ e.code \in Seq(Ops) /\ e.source \in Seq(Nat)
    BY <2>1 DEF Emitters
  <2> QED BY <2>1, <2>2, LenProperties
<1>2. CASE e.count = 0
  <2>1. d = e
    BY <1>2 DEF Checkpoint
  <2>2. Prolongs(e.code, e.code)
    BY <1>1 DEF Prolongs
  <2> QED BY <1>2, <2>1, <2>2
<1>3. CASE e.count # 0
  <2>1. op \in Ops /\ op.op = "check" /\ op.of = k /\ op.pay = e.count /\ op.to = 0
    <3>1. k \in Nat /\ e.count \in Nat
      BY <1>1
    <3> QED BY <3>1, OperationTyped
  <2> HIDE DEF op
  <2>2. /\ f \in Emitters /\ Beside(f, e) /\ f.code = Append(e.code, op)
        /\ f.deferred = e.deferred /\ f.const = e.const /\ f.known = e.known
    BY <1>1, <2>1, OutIs
  <2>3. /\ f.code \in Seq(Ops) /\ Len(f.code) = L + 1 /\ f.code[L + 1] = op
        /\ \A j \in 1 .. L : f.code[j] = e.code[j]
        /\ Prolongs(f.code, e.code)
    BY <1>1, <2>1, <2>2, AppendProlongs
  <2>4. Takes(N[End(e.code)], op, b)
    <3> SUFFICES ASSUME NEW g, NEW h, Holds(N[End(e.code)], g, h) PROVE StepsTo(op, b, g, h)
      BY DEF Takes
    <3>1. Holds(Note(k, e.count, "al", e.const, e.known), g, h)
      BY DEF Joined, Implies
    <3>2. e.count \in Int
      BY <1>1
    <3> QED BY <2>1, <3>1, <3>2, CheckSteps
  <2>5. PICK M : /\ Flows(f.code, M) /\ M[End(f.code)] = b /\ Grows(M, N, End(e.code))
    <3>1. Flows(e.code, N)
      BY DEF Joined
    <3> QED BY <1>1, <2>1, <2>4, <3>1, Emitted
  <2>6. d = [f EXCEPT !.count = 0]
    BY <1>3 DEF Checkpoint, op
  <2> HIDE DEF f, d
  <2>7. /\ d \in Emitters /\ Beside(d, f) /\ d.code = f.code /\ d.count = 0
        /\ d.deferred = f.deferred /\ d.const = f.const /\ d.known = f.known
    BY <2>2, <2>6 DEF Emitters, Beside
  <2>8. Jumps(f.code)
    <3> SUFFICES ASSUME NEW j \in 1 .. L + 1, f.code[j].op = "gate" PROVE f.code[j].to # 0
      BY <2>3 DEF Jumps
    <3>1. j # L + 1
      BY <2>1, <2>3
    <3>2. j \in 1 .. L
      BY <1>1, <3>1
    <3> QED BY <2>3, <3>2 DEF Joined, Jumps
  <2>9. Begun(d.begins, M, End(d.code))
    <3>1. Begun(e.begins, N, End(e.code)) /\ d.begins = e.begins
      BY <2>2, <2>7 DEF Joined, Beside
    <3>2. End(e.code) \in Nat /\ End(d.code) \in Nat /\ End(e.code) <= End(d.code)
      BY <1>1, <2>3, <2>7 DEF End
    <3> QED BY <2>5, <3>1, <3>2, BegunStays
  <2>10. Linked(d.code, d.source, k - 1)
    <3>1. Linked(e.code, e.source, k - 1) /\ d.source = e.source
      BY <2>2, <2>7 DEF Joined, Beside
    <3> QED BY <1>1, <2>3, <2>7, <3>1, LinkedStays
  <2>11. Implies(M[End(d.code)], Note(k, d.count, "al", d.const, d.known))
    BY <2>2, <2>5, <2>7 DEF Implies, b
  <2>12. /\ d.deferred = 0 /\ d.prepaid = 0 /\ Len(d.begins) = k - 1
         /\ d.last = e.last /\ d.as = e.as /\ d.closed = e.closed
         /\ d.const = e.const /\ d.known = e.known
    BY <2>2, <2>7 DEF Joined, Beside
  <2>13. Joined(d, M, k)
    BY <2>5, <2>7, <2>8, <2>9, <2>10, <2>11, <2>12 DEF Joined
  <2>14. Len(d.code) = L + 1 /\ d.code[Len(d.code)].op = "check" /\ Prolongs(d.code, e.code)
    BY <2>1, <2>3, <2>7
  <2> QED BY <1>3, <2>7, <2>12, <2>13, <2>14 DEF d
<1> QED BY <1>2, <1>3

\* Nothing is known where one may come from elsewhere.
Met(e) == Forgotten([e EXCEPT !.last = Always])

\* What the translator knows is forgotten: the code stays right.
LEMMA MetOK ==
  ASSUME BlockOK, NEW e, NEW N, NEW k, Joined(e, N, k)
  PROVE  LET d == Met(e) IN
         /\ Joined(d, N, k) /\ d.last = Always /\ d.const = Unknown /\ d.known = NoFlags
         /\ d.code = e.code /\ d.closed = e.closed /\ d.count = e.count
<1> DEFINE d == Met(e)
<1>1. e \in Emitters
  BY DEF Joined
<1>2. /\ d \in Emitters /\ d.last = Always /\ d.const = Unknown /\ d.known = NoFlags
      /\ d.code = e.code /\ d.begins = e.begins /\ d.count = e.count
      /\ d.prepaid = e.prepaid /\ d.deferred = e.deferred /\ d.source = e.source
      /\ d.closed = e.closed
  <2> DEFINE f == [e EXCEPT !.last = Always]
  <2>1. /\ f \in Emitters /\ f.last = Always
        /\ f.code = e.code /\ f.begins = e.begins /\ f.count = e.count
        /\ f.prepaid = e.prepaid /\ f.deferred = e.deferred /\ f.source = e.source
        /\ f.closed = e.closed
    BY <1>1, AlwaysTyped DEF Emitters
  <2>2. d = [f EXCEPT !.const = Unknown, !.known = NoFlags]
    BY DEF Met, Forgotten
  <2> HIDE DEF f, d
  <2> QED BY <2>1, <2>2, NoFlagsTyped DEF Emitters
<1> HIDE DEF d
<1>3. Implies(N[End(d.code)], Note(k, d.count, "al", d.const, d.known))
  <2> SUFFICES ASSUME NEW g, NEW h, Holds(N[End(e.code)], g, h)
               PROVE  Holds(Note(k, e.count, "al", Unknown, NoFlags), g, h)
    BY <1>2 DEF Implies
  <2>1. Holds(Note(k, e.count, "al", e.const, e.known), g, h)
    BY DEF Joined, Implies
  <2>2. /\ DOMAIN NoFlags \subseteq DOMAIN e.known
        /\ \A f \in DOMAIN NoFlags : NoFlags[f] = e.known[f]
    BY NoFlagsTyped
  <2> QED BY <2>1, <2>2, HoldsLess
<1>4. Joined(d, N, k)
  BY <1>2, <1>3 DEF Joined
<1> QED BY <1>2, <1>4 DEF d

\* Before a place that is branched to the paths are joined.
LEMMA JoinedOK ==
  ASSUME BlockOK, NEW e, NEW N, NEW k \in 1 .. Len(insns) + 1, k # 1, Past(e, N, k)
  PROVE  \E M : Between(JoinedBefore(e, k), M, k)
<1>1. k \in Nat /\ Len(insns) \in Nat
  BY LenProperties DEF BlockOK
<1>2. CASE k > Len(insns) \/ k \notin labels
  <2>1. JoinedBefore(e, k) = e
    BY <1>2 DEF JoinedBefore
  <2>2. Anew(e, N, k)
    BY <1>1, <1>2 DEF Anew, Enterable, InBlock
  <2> QED BY <2>1, <2>2 DEF Between
<1>3. CASE k <= Len(insns) /\ k \in labels
  <2> DEFINE c == Close(e)
             f == Met(c)
             d == Checkpoint(f, k)
  <2>1. PICK M : Joined(c, M, k) /\ c.closed = e.closed /\ Prolongs(c.code, e.code)
    BY <1>3, ClosedOK
  <2>2. JoinedBefore(e, k) = d
    BY <1>1, <1>3 DEF JoinedBefore, Met
  <2> HIDE DEF c
  <2>3. /\ Joined(f, M, k) /\ f.last = Always /\ f.const = Unknown /\ f.known = NoFlags
        /\ f.code = c.code /\ f.closed = c.closed
    BY <2>1, MetOK
  <2> HIDE DEF f
  <2>4. PICK P : /\ Joined(d, P, k) /\ d.count = 0 /\ d.last = f.last
                 /\ d.closed = f.closed /\ d.const = f.const /\ d.known = f.known
                 /\ Prolongs(d.code, f.code)
    BY <1>3, <2>3, CheckpointOK
  <2> HIDE DEF d
  <2>5. /\ d \in Emitters /\ Flows(d.code, P) /\ Begun(d.begins, P, End(d.code))
        /\ Implies(P[End(d.code)], Note(k, d.count, "al", d.const, d.known))
        /\ Jumps(d.code) /\ d.deferred = 0 /\ d.prepaid = 0
        /\ Linked(d.code, d.source, k - 1) /\ Len(d.begins) = k - 1
    BY <2>4 DEF Joined
  <2>6. d.last = Always /\ d.last.on = "al" /\ d.last.marks = {}
        /\ d.const = Unknown /\ d.known = NoFlags
    BY <2>3, <2>4, AlwaysTyped
  <2>7. Implies(P[End(d.code)], EntryAt(k))
    BY <2>4, <2>5, <2>6 DEF EntryAt
  <2>8. PICK Q : /\ Flows(d.code, Q) /\ Grows(Q, P, End(d.code))
                 /\ Q[End(d.code)] = EntryAt(k)
    BY <2>5, <2>7, SaidLess
  <2>9. Begun(d.begins, Q, End(d.code))
    <3>1. d.code \in Seq(Ops)
      BY <2>5 DEF Emitters
    <3>2. End(d.code) \in Nat /\ End(d.code) <= End(d.code)
      BY <3>1, LenProperties DEF End
    <3> QED BY <2>5, <2>8, <3>2, BegunStays
  <2>10. GatesOK(d)
    BY <2>5 DEF GatesOK, Jumps
  <2>11. CodeOK(d, Q, k, d.count + d.deferred - d.prepaid, Under(d))
    <3>1. d.count + d.deferred - d.prepaid = 0 /\ Under(d) = "al"
      BY <2>4, <2>5, <2>6 DEF Under
    <3>2. Implies(Q[End(d.code)], Note(k, 0, "al", d.const, d.known))
      BY <2>6, <2>8 DEF EntryAt, Implies
    <3> QED BY <2>5, <2>8, <2>9, <2>10, <3>1, <3>2 DEF CodeOK
  <2>12. HoleOK(d, Q, k, d.count - d.prepaid) /\ RunOK(d, k)
    BY <2>5, <2>6 DEF HoleOK, RunOK
  <2>13. Ended(d, Q, k)
    <3>1. Len(e.code) # 0 /\ (e.closed => k = Len(insns) + 1)
      BY DEF Past, Ended
    <3>2. /\ Len(e.code) \in Nat /\ Len(c.code) \in Nat /\ Len(d.code) \in Nat
          /\ Len(e.code) <= Len(c.code) /\ Len(c.code) <= Len(d.code)
      <4>1. e \in Emitters /\ c \in Emitters
        BY <2>1 DEF Joined, Past, CodeOK
      <4>2. e.code \in Seq(Ops) /\ c.code \in Seq(Ops) /\ d.code \in Seq(Ops)
        BY <2>5, <4>1 DEF Emitters
      <4>3. Len(e.code) <= Len(c.code) /\ Len(c.code) <= Len(d.code)
        BY <2>1, <2>3, <2>4 DEF Prolongs
      <4> QED BY <4>2, <4>3, LenProperties
    <3>3. Len(d.code) # 0
      BY <3>1, <3>2
    <3>4. ~d.closed /\ k # Len(insns) + 1
      BY <1>1, <1>3, <2>1, <2>3, <2>4, <3>1
    <3> QED BY <3>3, <3>4 DEF Ended
  <2>14. Anew(d, Q, k)
    BY <2>4, <2>6, <2>8 DEF Anew, Implies
  <2>15. Between(d, Q, k)
    BY <2>5, <2>11, <2>12, <2>13, <2>14 DEF Between, Past
  <2> QED BY <2>2, <2>15
<1> QED BY <1>1, <1>2, <1>3

\* The translation of an instruction.
LEMMA TranslateInsnOK ==
  ASSUME BlockOK, NEW e, NEW N, NEW k \in InBlock, Between(e, N, k)
  PROVE  \E M : Between(TranslateInsn(e, k), M, k + 1)
<1> DEFINE h == Headed(Settled(Fetched(e), k), k)
           t == Translated(h, k)
<1>1. k \in Nat /\ k >= 1 /\ k <= Len(insns) /\ Len(insns) \in Nat
  BY InsnsTyped
<1>2. Begins(Fetched(e), N, k)
  BY FetchedOK
<1>3. PICK M : Ready(h, M, k)
  BY <1>2, HeadedOK
<1> HIDE DEF h
<1>4. PICK P : Past(t, P, k + 1)
  BY <1>3, TranslatedOK
<1> HIDE DEF t
<1>5. k + 1 \in 1 .. Len(insns) + 1 /\ k + 1 # 1
  BY <1>1
<1>6. \E Q : Between(JoinedBefore(t, k + 1), Q, k + 1)
  <2> DEFINE m == k + 1
  <2>1. m \in 1 .. Len(insns) + 1 /\ m # 1 /\ Past(t, P, m)
    BY <1>4, <1>5
  <2> HIDE DEF m
  <2>2. \E Q : Between(JoinedBefore(t, m), Q, m)
    BY <2>1, JoinedOK
  <2> QED BY <2>2 DEF m
<1> QED BY <1>6 DEF TranslateInsn, h, t

\* The translation begins before the first instruction.
LEMMA StartsOK ==
  ASSUME BlockOK
  PROVE  \E N : Between(Start, N, 1)
<1> DEFINE N == [j \in {1} |-> EntryAt(1)]
<1>1. /\ Start \in Emitters /\ Start.code = <<>> /\ Start.begins = <<>> /\ Start.source = <<>>
      /\ Start.count = 0 /\ Start.prepaid = 0 /\ Start.deferred = 0 /\ Start.last = Always
      /\ Start.const = Unknown /\ Start.known = NoFlags /\ Start.closed = FALSE
  BY StartTyped DEF Start
<1>2. Len(<<>>) = 0 /\ End(<<>>) = 1 /\ N[1] = EntryAt(1)
  BY DEF End
<1> HIDE DEF N
<1>3. Start.last.on = "al" /\ Under(Start) = "al"
  BY <1>1, AlwaysTyped DEF Under
<1>4. /\ Flows(Start.code, N) /\ GatesOK(Start) /\ Begun(Start.begins, N, End(Start.code))
  BY <1>1, <1>2 DEF Flows, GatesOK, Begun
<1>5. Implies(N[End(Start.code)], Note(1, 0, Under(Start), Start.const, Start.known))
  BY <1>1, <1>2, <1>3 DEF EntryAt, Implies
<1>6. Start.count + Start.deferred - Start.prepaid = 0
  BY <1>1
<1>7. CodeOK(Start, N, 1, Start.count + Start.deferred - Start.prepaid, Under(Start))
  BY <1>1, <1>4, <1>5, <1>6 DEF CodeOK
<1>8. HoleOK(Start, N, 1, Start.count - Start.prepaid) /\ RunOK(Start, 1)
  BY <1>1, <1>3 DEF HoleOK, RunOK
<1>9. Linked(Start.code, Start.source, 0)
  <2>1. Branches(0) = {}
    BY DEF Branches
  <2>2. Cardinality(Branches(0)) = 0
    BY <2>1, FS_EmptySet
  <2> QED BY <1>1, <1>2, <2>2 DEF Linked
<1>10. Ended(Start, N, 1)
  BY <1>1, <1>2 DEF Ended, EndsSo
<1>11. Anew(Start, N, 1)
  BY <1>1, <1>2, <1>3 DEF Anew, Implies
<1>12. 1 - 1 = 0 /\ Len(Start.begins) = 0
  BY <1>1, <1>2
<1> QED BY <1>7, <1>8, <1>9, <1>10, <1>11, <1>12 DEF Between, Past

\* At the end of the block the paths are joined and what is owed is charged; code that
\* needs no tail has no way on, unless the block ends on a conditional exit.
LEMMA AtTheEnd ==
  ASSUME BlockOK, NEW e, NEW N, NEW k, k = Len(insns) + 1, Past(e, N, k)
  PROVE  LET d == Checkpoint(Close(e), k) IN
         \E M : /\ Joined(d, M, k) /\ d.count = 0 /\ Len(d.code) >= 1
                /\ d.closed \/ d.code[Len(d.code)].op = "return" =>
                     EndsOnConditionalExit \/ Implies(M[End(d.code)], Nowhere)
<1> DEFINE n == Len(insns)
           c == Close(e)
           d == Checkpoint(c, k)
           L == Len(e.code)
<1>1. /\ n \in Nat /\ k \in 1 .. n + 1 /\ k # 1 /\ n >= 1
  BY LenProperties DEF BlockOK
<1>2. /\ e \in Emitters /\ e.code \in Seq(Ops) /\ L \in Nat /\ L # 0
      /\ e.count \in Nat /\ e.deferred \in Nat
  <2>1. e \in Emitters /\ L # 0
    BY <1>1 DEF Past, CodeOK, Ended
  <2> QED BY <2>1, LenProperties DEF Emitters
<1>3. EndsSo(e) => /\ e.count = 0 /\ e.deferred = 0 /\ ExitsAt(n)
                   /\ e.last.on # "al" => insns[n].on # "al"
                   /\ insns[n].on = "al" => Implies(N[End(e.code)], Nowhere)
  BY DEF Past, Ended
<1>4. CASE EndsSo(e) /\ insns[n].on = "al"
  <2>1. c = e /\ e.last.on = "al"
    BY <1>3, <1>4 DEF Close
  <2>2. d = e
    BY <1>3, <1>4, <2>1 DEF Checkpoint
  <2>3. e.deferred = 0 /\ e.prepaid = 0 /\ Under(e) = "al"
    BY <2>1 DEF Past, RunOK, Under
  <2>4. e.count + e.deferred - e.prepaid = e.count
    BY <1>3, <1>4, <2>3
  <2>5. /\ Flows(e.code, N) /\ GatesOK(e) /\ Begun(e.begins, N, End(e.code))
        /\ Implies(N[End(e.code)], Note(k, e.count, "al", e.const, e.known))
    BY <2>3, <2>4 DEF Past, CodeOK
  <2>6. Jumps(e.code)
    BY <2>1, <2>5 DEF GatesOK, Jumps
  <2>7. Joined(e, N, k)
    BY <1>2, <2>3, <2>5, <2>6 DEF Joined, Past
  <2>8. L >= 1
    BY <1>2
  <2>9. d.count = 0 /\ Implies(N[End(d.code)], Nowhere)
    BY <1>3, <1>4, <2>2
  <2> QED BY <2>2, <2>7, <2>8, <2>9
<1>5. CASE ~(EndsSo(e) /\ insns[n].on = "al")
  <2>1. PICK M : /\ Joined(c, M, k) /\ c.closed = e.closed /\ c.count = e.count
                 /\ Prolongs(c.code, e.code)
                 /\ \A j \in End(e.code) .. Len(c.code) : c.code[j].op = "charge"
    BY <1>1, ClosedOK
  <2> HIDE DEF c
  <2>2. PICK P : /\ Joined(d, P, k) /\ d.count = 0 /\ d.closed = c.closed
                 /\ Prolongs(d.code, c.code)
                 /\ c.count = 0 => d = c
                 /\ c.count # 0 => d.code[Len(d.code)].op = "check"
    BY <1>1, <2>1, CheckpointOK
  <2> HIDE DEF d
  <2>3. /\ Len(c.code) \in Nat /\ Len(d.code) \in Nat
        /\ L <= Len(c.code) /\ Len(c.code) <= Len(d.code)
    <3>1. c \in Emitters /\ d \in Emitters
      BY <2>1, <2>2 DEF Joined
    <3>2. c.code \in Seq(Ops) /\ d.code \in Seq(Ops)
      BY <3>1 DEF Emitters
    <3>3. L <= Len(c.code) /\ Len(c.code) <= Len(d.code)
      BY <2>1, <2>2 DEF Prolongs
    <3> QED BY <3>2, <3>3, LenProperties
  <2>4. Len(d.code) >= 1
    BY <1>2, <2>3
  <2>5. ASSUME d.closed \/ d.code[Len(d.code)].op = "return" PROVE EndsSo(e)
    <3>1. CASE d.closed
      BY <2>1, <2>2, <3>1 DEF EndsSo
    <3>2. CASE d.code[Len(d.code)].op = "return"
      <4>1. c.count = 0 /\ d = c
        BY <2>2, <3>2
      <4> DEFINE K == Len(c.code)
      <4>2. K \notin End(e.code) .. K
        BY <2>1, <3>2, <4>1
      <4>3. K = L
        BY <1>2, <2>3, <4>2 DEF End
      <4>4. L \in 1 .. L
        BY <1>2
      <4>5. e.code[L].op = "return"
        BY <2>1, <3>2, <4>1, <4>3, <4>4 DEF Prolongs
      <4>6. L > 0 /\ e.count = 0
        BY <1>2, <2>1, <4>1
      <4> QED BY <4>5, <4>6 DEF EndsSo
    <3> QED BY <2>5, <3>1, <3>2
  <2>6. EndsSo(e) => EndsOnConditionalExit
    <3> SUFFICES ASSUME EndsSo(e) PROVE EndsOnConditionalExit
      OBVIOUS
    <3>1. ExitsAt(n) /\ insns[n].on # "al"
      BY <1>3, <1>5
    <3> QED BY <3>1 DEF ExitsAt, EndsOnConditionalExit, IsBranch
  <2>7. Joined(d, P, k) /\ d.count = 0
    BY <2>2
  <2>8. d.closed \/ d.code[Len(d.code)].op = "return" =>
          EndsOnConditionalExit \/ Implies(P[End(d.code)], Nowhere)
    BY <2>5, <2>6
  <2> QED BY <2>4, <2>7, <2>8 DEF c, d
<1> QED BY <1>4, <1>5

\* The code of a block, whose branches lead nowhere yet.
Sound(e, N) ==
  /\ e \in Emitters /\ Flows(e.code, N) /\ Jumps(e.code) /\ Begun(e.begins, N, End(e.code))
  /\ Len(e.begins) = Len(insns) /\ Len(e.code) >= 1
  /\ Stores(e.code) => e.code[Len(e.code)].op \in {"tail", "return"}
  /\ EndsOnConditionalExit \/ Implies(N[End(e.code)], Nowhere)
\* Its branches lead where the instructions do.
Aims(code) ==
  \A j \in 1 .. Len(code) : code[j].op = "leave" =>
    code[j].of \in InBlock /\ code[j].to = insns[code[j].of].to

\* The tail leaves for the place behind the block.
LEMMA TailedOK ==
  ASSUME BlockOK, NEW e, NEW N, NEW k, k = Len(insns) + 1, Joined(e, N, k), e.count = 0,
         Len(e.code) >= 1,
         e.closed \/ e.code[Len(e.code)].op = "return" =>
           EndsOnConditionalExit \/ Implies(N[End(e.code)], Nowhere)
  PROVE  LET d == Tailed(e) IN
         \E M : Sound(d, M) /\ Linked(d.code, d.source, Len(insns))
<1> DEFINE d == Tailed(e)
           op == Operation("tail", k, 0)
           f == Out(e, op)
           L == Len(e.code)
<1>1. /\ e \in Emitters /\ e.code \in Seq(Ops) /\ L \in Nat /\ e.source \in Seq(Nat)
      /\ Len(insns) \in Nat /\ k \in Nat /\ k - 1 = Len(insns)
      /\ k \in 1 .. Len(insns) + 1
  <2>1. e \in Emitters /\ Len(insns) \in Nat
    BY LenProperties DEF Joined, BlockOK
  <2> QED BY <2>1, LenProperties DEF Emitters
<1>2. /\ Flows(e.code, N) /\ Jumps(e.code) /\ Begun(e.begins, N, End(e.code))
      /\ Len(e.begins) = Len(insns) /\ Linked(e.code, e.source, Len(insns))
  BY <1>1 DEF Joined
<1>3. CASE e.code[L].op = "return" \/ (e.closed /\ ~Stores(e.code))
  <2>1. d = e
    BY <1>3 DEF Tailed
  <2>2. Stores(e.code) => e.code[L].op \in {"tail", "return"}
    BY <1>3
  <2>3. Sound(e, N)
    BY <1>1, <1>2, <1>3, <2>2 DEF Sound
  <2> QED BY <1>2, <2>1, <2>3
<1>4. CASE ~(e.code[L].op = "return" \/ (e.closed /\ ~Stores(e.code)))
  <2>1. d = f
    BY <1>4 DEF Tailed
  <2>2. op \in Ops /\ op.op = "tail" /\ op.of = k /\ op.pay = 0 /\ op.to = 0
    <3>1. k \in Nat /\ 0 \in Nat
      BY <1>1
    <3> QED BY <3>1, OperationTyped
  <2> HIDE DEF op
  <2>3. f \in Emitters /\ Beside(f, e) /\ f.code = Append(e.code, op)
    BY <1>1, <2>2, OutIs
  <2>4. /\ f.code \in Seq(Ops) /\ Len(f.code) = L + 1 /\ f.code[L + 1] = op
        /\ \A j \in 1 .. L : f.code[j] = e.code[j]
        /\ Prolongs(f.code, e.code)
    BY <1>1, <2>2, <2>3, AppendProlongs
  <2>5. Takes(N[End(e.code)], op, Nowhere)
    <3> SUFFICES ASSUME NEW g, NEW h, Holds(N[End(e.code)], g, h)
                 PROVE  StepsTo(op, Nowhere, g, h)
      BY DEF Takes
    <3>1. Holds(Note(k, 0, "al", e.const, e.known), g, h)
      BY DEF Joined, Implies
    <3> QED BY <1>1, <2>2, <3>1, CheckSteps
  <2>6. PICK M : /\ Flows(f.code, M) /\ M[End(f.code)] = Nowhere
                 /\ Grows(M, N, End(e.code))
    BY <1>1, <1>2, <2>2, <2>5, Emitted
  <2> HIDE DEF f
  <2>7. Jumps(f.code)
    <3> SUFFICES ASSUME NEW j \in 1 .. L + 1, f.code[j].op = "gate" PROVE f.code[j].to # 0
      BY <2>4 DEF Jumps
    <3>1. j # L + 1
      BY <2>2, <2>4
    <3>2. j \in 1 .. L
      BY <1>1, <3>1
    <3> QED BY <1>2, <2>4, <3>2 DEF Jumps
  <2>8. Begun(f.begins, M, End(f.code))
    <3>1. f.begins = e.begins
      BY <2>3 DEF Beside
    <3>2. End(e.code) \in Nat /\ End(f.code) \in Nat /\ End(e.code) <= End(f.code)
      BY <1>1, <2>4 DEF End
    <3> QED BY <1>2, <2>6, <3>1, <3>2, BegunStays
  <2>9. Linked(f.code, f.source, Len(insns))
    <3>1. f.source = e.source
      BY <2>3 DEF Beside
    <3> QED BY <1>1, <1>2, <2>4, <3>1, LinkedStays
  <2>10. Implies(M[End(f.code)], Nowhere)
    BY <2>6 DEF Implies
  <2>11. /\ Len(f.begins) = Len(insns) /\ Len(f.code) >= 1
         /\ f.code[Len(f.code)].op \in {"tail", "return"}
    BY <1>1, <1>2, <2>2, <2>3, <2>4 DEF Beside
  <2>12. Sound(f, M)
    BY <2>3, <2>6, <2>7, <2>8, <2>10, <2>11 DEF Sound
  <2> QED BY <2>1, <2>9, <2>12
<1> QED BY <1>3, <1>4

\* A branch is patched to jump elsewhere: nothing else changes.
LEMMA SameSteps ==
  ASSUME NEW p \in Ops, NEW t \in Nat, NEW b, NEW g, NEW h, p.op = "leave",
         StepsTo(p, b, g, h)
  PROVE  StepsTo([p EXCEPT !.to = t], b, g, h)
<1> DEFINE q == [p EXCEPT !.to = t]
<1>1. /\ q \in Ops /\ q.op = "leave" /\ q.of = p.of /\ q.pay = p.pay
  BY Redirected
<1> HIDE DEF q
<1>2. StepsTo(q, b, g, h)
  BY <1>1 DEF StepsTo
<1> QED BY <1>2 DEF q

\* The slots of a block's exits give each branch its target.
LEMMA SlotsPatchedOK ==
  ASSUME BlockOK, NEW e, NEW N, Sound(e, N), Linked(e.code, e.source, Len(insns))
  PROVE  LET d == SlotsPatched(e) IN Sound(d, N) /\ Aims(d.code)
<1> DEFINE d == SlotsPatched(e)
           C == e.code
           L == Len(e.code)
           Of(j) == \E s \in 1 .. Len(e.source) : e.source[s] = j
           SlotOf(j) == CHOOSE s \in 1 .. Len(e.source) : e.source[s] = j
           D == [j \in 1 .. L |->
                   IF Of(j) THEN [C[j] EXCEPT !.to = exits[SlotOf(j)]] ELSE C[j]]
<1>1. /\ e \in Emitters /\ C \in Seq(Ops) /\ L \in Nat /\ L >= 1
      /\ \A j \in 1 .. L : C[j] \in Ops
  <2>1. e \in Emitters /\ L >= 1
    BY DEF Sound
  <2>2. C \in Seq(Ops)
    BY <2>1 DEF Emitters
  <2> QED BY <2>1, <2>2, LenProperties, ElementOfSeq
<1>2. d = [e EXCEPT !.code = D]
  BY DEF SlotsPatched
<1> HIDE DEF d
<1>3. ASSUME NEW j \in 1 .. L, C[j].op = "leave"
      PROVE  /\ C[j].of \in InBlock /\ insns[C[j].of].to \in Nat
             /\ D[j] = [C[j] EXCEPT !.to = insns[C[j].of].to]
  <2> DEFINE k == C[j].of
             m == Cardinality(Branches(k))
  <2>1. /\ k \in InBlock /\ IsBranch(insns[k]) /\ m \in 1 .. Len(e.source)
        /\ e.source[m] = j
    BY <1>3 DEF Linked, InBlock
  <2>2. Of(j) /\ SlotOf(j) \in 1 .. Len(e.source) /\ e.source[SlotOf(j)] = j
    BY <2>1
  <2>3. j # 0
    OBVIOUS
  <2>4. SlotOf(j) = m
    BY <2>2, <2>3 DEF Linked
  <2>5. exits[m] = insns[k].to
    BY <2>1 DEF BlockOK
  <2>6. insns[k].to \in Nat
    BY <2>1, InsnsTyped
  <2> QED BY <2>1, <2>2, <2>4, <2>5, <2>6
<1>4. ASSUME NEW j \in 1 .. L, C[j].op # "leave" PROVE D[j] = C[j]
  <2>1. ~Of(j)
    BY <1>4 DEF Linked
  <2> QED BY <2>1
<1>5. ASSUME NEW j \in 1 .. L
      PROVE  /\ D[j] \in Ops /\ D[j].op = C[j].op /\ D[j].of = C[j].of
             /\ C[j].op = "leave" => D[j].to = insns[C[j].of].to
  <2>1. CASE C[j].op = "leave"
    <3> DEFINE p == C[j]
               t == insns[C[j].of].to
    <3>1. p \in Ops /\ t \in Nat /\ D[j] = [p EXCEPT !.to = t]
      BY <1>1, <1>3, <2>1
    <3> HIDE DEF p, t
    <3> DEFINE q == [p EXCEPT !.to = t]
    <3>2. q \in Ops /\ q.op = p.op /\ q.of = p.of /\ q.to = t
      BY <3>1, Redirected
    <3> HIDE DEF q
    <3>3. D[j] = q
      BY <3>1 DEF q
    <3>4. D[j] \in Ops /\ D[j].op = p.op /\ D[j].of = p.of /\ D[j].to = t
      BY <3>2, <3>3
    <3> QED BY <3>4 DEF p, t
  <2>2. CASE C[j].op # "leave"
    BY <1>1, <1>4, <2>2
  <2> QED BY <2>1, <2>2
<1>6. DOMAIN D = 1 .. L
  OBVIOUS
<1> HIDE DEF D
<1>7. D \in Seq(Ops) /\ Len(D) = L
  <2>1. D \in [1 .. L -> Ops]
    <3>1. D = [j \in 1 .. L |-> D[j]]
      BY DEF D
    <3> QED BY <1>5, <3>1
  <2> QED BY <1>1, <2>1
<1>8. /\ d \in Emitters /\ d.code = D /\ d.begins = e.begins
  BY <1>1, <1>2, <1>7 DEF Emitters
<1>9. Flows(D, N)
  <2> SUFFICES ASSUME NEW j \in 1 .. L, NEW g, NEW h, Holds(N[j], g, h)
               PROVE  StepsTo(D[j], N[j + 1], g, h) /\ JumpsTo(D[j], N, L, g, h)
    BY <1>7 DEF Flows
  <2>1. StepsTo(C[j], N[j + 1], g, h) /\ JumpsTo(C[j], N, L, g, h)
    BY DEF Sound, Flows
  <2>2. CASE C[j].op = "leave"
    <3> DEFINE p == C[j]
               t == insns[C[j].of].to
               b == N[j + 1]
    <3>1. /\ p \in Ops /\ p.op = "leave" /\ t \in Nat /\ D[j] = [p EXCEPT !.to = t]
          /\ StepsTo(p, b, g, h)
      BY <1>1, <1>3, <2>1, <2>2
    <3> HIDE DEF p, t, b
    <3>2. StepsTo(D[j], b, g, h)
      BY <3>1, SameSteps
    <3>3. StepsTo(D[j], N[j + 1], g, h)
      BY <3>2 DEF b
    <3>4. D[j].op = "leave"
      BY <1>5, <2>2
    <3> QED BY <3>3, <3>4 DEF JumpsTo
  <2>3. CASE C[j].op # "leave"
    BY <1>4, <2>1, <2>3
  <2> QED BY <2>2, <2>3
<1>10. Jumps(D)
  <2> SUFFICES ASSUME NEW j \in 1 .. L, D[j].op = "gate" PROVE D[j].to # 0
    BY <1>7 DEF Jumps
  <2>1. C[j].op = "gate" /\ D[j] = C[j]
    BY <1>4, <1>5
  <2> QED BY <2>1 DEF Sound, Jumps
<1>11. End(D) = End(C)
  BY <1>7 DEF End
<1>12. Stores(D) => D[Len(D)].op \in {"tail", "return"}
  <2> SUFFICES ASSUME Stores(D) PROVE D[L].op \in {"tail", "return"}
    BY <1>7
  <2>1. Stores(C)
    BY <1>5, <1>7 DEF Stores
  <2>2. L \in 1 .. L
    BY <1>1
  <2> QED BY <1>5, <2>1, <2>2 DEF Sound
<1>13. Aims(D)
  BY <1>3, <1>5, <1>7 DEF Aims
<1>14. /\ Begun(d.begins, N, End(D)) /\ Len(d.begins) = Len(insns) /\ Len(D) >= 1
       /\ EndsOnConditionalExit \/ Implies(N[End(D)], Nowhere)
  BY <1>1, <1>7, <1>8, <1>11 DEF Sound
<1>15. Sound(d, N)
  BY <1>8, <1>9, <1>10, <1>12, <1>14 DEF Sound
<1> QED BY <1>8, <1>13, <1>15 DEF d

\* The code of a whole block.
LEMMA FinishedOK ==
  ASSUME BlockOK, NEW e, NEW N, Past(e, N, Len(insns) + 1)
  PROVE  LET d == SlotsPatched(Tailed(Checkpoint(Close(e), Len(insns) + 1))) IN
         \E M : Sound(d, M) /\ Aims(d.code)
<1> DEFINE k == Len(insns) + 1
           c == Checkpoint(Close(e), k)
           t == Tailed(c)
<1>1. Past(e, N, k) /\ k = Len(insns) + 1
  OBVIOUS
<1> HIDE DEF k
<1>2. PICK M : /\ Joined(c, M, k) /\ c.count = 0 /\ Len(c.code) >= 1
               /\ c.closed \/ c.code[Len(c.code)].op = "return" =>
                    EndsOnConditionalExit \/ Implies(M[End(c.code)], Nowhere)
  BY <1>1, AtTheEnd
<1> HIDE DEF c
<1>3. PICK P : Sound(t, P) /\ Linked(t.code, t.source, Len(insns))
  BY <1>1, <1>2, TailedOK
<1> HIDE DEF t
<1>4. Sound(SlotsPatched(t), P) /\ Aims(SlotsPatched(t).code)
  BY <1>3, SlotsPatchedOK
<1>5. \E Q : Sound(SlotsPatched(t), Q) /\ Aims(SlotsPatched(t).code)
  BY <1>4
<1> QED BY <1>5 DEF t, c, k
-----------------------------------------------------------------------------
(* While a block is emitted and its code runs the block stays what it is. *)

Frozen == UNCHANGED <<insns, status, exits, labels>>

\* What is live stays live.
LEMMA LiveStays ==
  ASSUME Frozen
  PROVE  /\ InBlock' = InBlock /\ Targets' = Targets
         /\ \A k : LiveFrom(k)' = LiveFrom(k)
         /\ BlockOK => BlockOK'
<1>1. InBlock' = InBlock /\ Targets' = Targets
  BY DEF Frozen, InBlock, Targets
<1>2. \A k : SeenAt(k)' = SeenAt(k)
  BY <1>1 DEF Frozen, SeenAt
<1>3. \A k, f : Overwrites(k, f)' <=> Overwrites(k, f)
  BY DEF Frozen, Overwrites
<1>4. \A k : LiveFrom(k)' = LiveFrom(k)
  BY <1>2, <1>3 DEF Frozen, LiveFrom
<1>5. \A k : Branches(k)' = Branches(k)
  BY DEF Frozen, Branches
<1>6. BlockOK => BlockOK'
  BY <1>1, <1>4, <1>5 DEF Frozen, BlockOK
<1> QED BY <1>1, <1>4, <1>6

\* What a note says stays true.
LEMMA HoldsStays ==
  ASSUME Frozen
  PROVE  /\ \A a, g, h : Holds(a, g, h)' <=> Holds(a, g, h)
         /\ \A a, b : Implies(a, b)' <=> Implies(a, b)
         /\ \A k, g : Executes(k, g)' <=> Executes(k, g)
         /\ \A k, g : ComesTo(k, g)' <=> ComesTo(k, g)
<1>1. \A k, g : ComesTo(k, g)' <=> ComesTo(k, g)
  BY DEF Frozen, ComesTo
<1>2. \A k, p, q : Alike(k, p, q)' <=> Alike(k, p, q)
  BY LiveStays DEF Alike
<1>3. \A a, g, h : Holds(a, g, h)' <=> Holds(a, g, h)
  BY <1>1, <1>2 DEF Holds
<1>4. \A a, b : Implies(a, b)' <=> Implies(a, b)
  BY <1>3 DEF Implies
<1>5. \A k, g : Executes(k, g)' <=> Executes(k, g)
  BY <1>1 DEF Executes, Frozen
<1> QED BY <1>1, <1>3, <1>4, <1>5

\* So does what an operation does.
LEMMA FlowsStays ==
  ASSUME Frozen
  PROVE  \A code, N : Flows(code, N)' <=> Flows(code, N)
<1>1. \A op, p, v : OutcomesAt(op, p, v)' = OutcomesAt(op, p, v)
  BY DEF Frozen, OutcomesAt
<1>2. \A k, g, v : Stepped(k, g, v)' = Stepped(k, g, v)
  BY DEF Frozen, Stepped, Extra
<1>3. \A op, b, g, h : StepsTo(op, b, g, h)' <=> StepsTo(op, b, g, h)
  BY <1>1, <1>2, HoldsStays DEF Frozen, StepsTo
<1>4. \A op, N, L, g, h : JumpsTo(op, N, L, g, h)' <=> JumpsTo(op, N, L, g, h)
  <2>1. \A a, g, h : Holds(a, g, h)' <=> Holds(a, g, h)
    BY HoldsStays
  <2> QED BY <2>1 DEF JumpsTo
<1>5. \A a, g, h : Holds(a, g, h)' <=> Holds(a, g, h)
  BY HoldsStays
<1> QED BY <1>3, <1>4, <1>5, ZenonT(30) DEF Flows

\* And the code that was emitted so far.
LEMMA BetweenStays ==
  ASSUME Frozen
  PROVE  \A e, N, k : Between(e, N, k)' <=> Between(e, N, k)
<1>1. \A begins, N, L : Begun(begins, N, L)' <=> Begun(begins, N, L)
  BY HoldsStays DEF Begun, Frozen
<1>2. \A e, N, k, o, on : CodeOK(e, N, k, o, on)' <=> CodeOK(e, N, k, o, on)
  BY <1>1, FlowsStays, HoldsStays DEF CodeOK
<1>3. \A e, N, k, o : HoleOK(e, N, k, o)' <=> HoleOK(e, N, k, o)
  BY HoldsStays DEF HoleOK
<1>4. \A k : Condition(k)' = Condition(k)
  BY DEF Condition, Frozen
<1>5. \A l, p, k : RunFrom(l, p, k)' <=> RunFrom(l, p, k)
  BY <1>4, LiveStays DEF RunFrom, Frozen
<1>6. \A e, k : RunOK(e, k)' <=> RunOK(e, k)
  BY <1>5 DEF RunOK
<1>7. \A k : ExitsAt(k)' <=> ExitsAt(k)
  BY LiveStays DEF ExitsAt, ClosesBlock, Internal, Frozen
<1>8. \A e, N, k : Ended(e, N, k)' <=> Ended(e, N, k)
  BY <1>7, HoldsStays DEF Ended, Frozen
<1>9. \A k : Branches(k)' = Branches(k)
  BY DEF Frozen, Branches
<1>10. \A c, s, k : Linked(c, s, k)' <=> Linked(c, s, k)
  BY <1>9 DEF Linked, Frozen
<1>11. \A e, N, k : Anew(e, N, k)' <=> Anew(e, N, k)
  BY HoldsStays, LiveStays DEF Anew, Enterable, Frozen
<1>12. \A e, N, k : Past(e, N, k)' <=> Past(e, N, k)
  BY <1>2, <1>3, <1>6, <1>8, <1>10 DEF Past
<1> QED BY <1>11, <1>12 DEF Between

\* And that of the whole block.
LEMMA SoundStays ==
  ASSUME Frozen
  PROVE  /\ \A e, N : Sound(e, N)' <=> Sound(e, N)
         /\ \A code : Aims(code)' <=> Aims(code)
<1>1. \A begins, N, L : Begun(begins, N, L)' <=> Begun(begins, N, L)
  BY HoldsStays DEF Begun, Frozen
<1>2. EndsOnConditionalExit' <=> EndsOnConditionalExit
  BY LiveStays DEF EndsOnConditionalExit, ClosesBlock, Internal, Frozen
<1>3. \A e, N : Sound(e, N)' <=> Sound(e, N)
  BY <1>1, <1>2, FlowsStays, HoldsStays DEF Sound, Frozen
<1>4. \A code : Aims(code)' <=> Aims(code)
  BY LiveStays DEF Aims, Frozen
<1> QED BY <1>3, <1>4
-----------------------------------------------------------------------------
(* The run of the code of a block. *)

RunsOn(N) ==
  /\ Sound(em, N) /\ Aims(em.code) /\ here \in 1 .. End(em.code)
  /\ Holds(N[here], guest, host)
Running == \E N : RunsOn(N)
\* What was seen is the same of both.
SeenSame == ~seen.lost /\ seen.code = seen.guest

\* Where a branch inside the block leads one may enter it.
LEMMA TargetMarked ==
  ASSUME BlockOK, NEW k \in InBlock, IsBranch(insns[k]), insns[k].to \in InBlock
  PROVE  insns[k].to = 1 \/ insns[k].to \in labels
<1> DEFINE n == Len(insns)
           m == Cardinality(Branches(k))
           t == insns[k].to
<1>1. n \in Nat /\ k \in Nat /\ k >= 1 /\ k <= n
  BY InsnsTyped
<1>2. k \in Branches(k) /\ Branches(k) \subseteq Branches(n) /\ Branches(n) \subseteq 1 .. n
  BY <1>1 DEF Branches
<1>3. IsFiniteSet(Branches(n))
  <2>1. IsFiniteSet(1 .. n)
    BY <1>1, FS_Interval
  <2> QED BY <1>2, <2>1, FS_Subset
<1>4. IsFiniteSet(Branches(k)) /\ m \in Nat /\ m <= Cardinality(Branches(n))
  BY <1>2, <1>3, FS_Subset, FS_CardinalityType
<1>5. m # 0
  BY <1>2, <1>4, FS_EmptySet
<1>6. Cardinality(Branches(n)) \in Nat
  BY <1>3, FS_CardinalityType
<1>7. m \in 1 .. Len(exits) /\ exits[m] = t
  BY <1>4, <1>5, <1>6 DEF BlockOK
<1> HIDE DEF m
<1>8. t # 1 => t \in Targets
  BY <1>1, <1>7 DEF Targets, InBlock
<1> QED BY <1>8 DEF BlockOK

\* The operation that runs.
LEMMA RunsAt ==
  ASSUME NEW N, RunsOn(N), here <= Len(em.code)
  PROVE  /\ Now \in Ops /\ here \in 1 .. Len(em.code) /\ here + 1 \in 1 .. End(em.code)
         /\ StepsTo(Now, N[here + 1], guest, host)
         /\ JumpsTo(Now, N, Len(em.code), guest, host)
         /\ host \in Hosts /\ host.cycles \in Nat /\ Now.pay \in Nat /\ Now.of \in Nat
         /\ Charged(host, Now.pay) = [host EXCEPT !.cycles = Paid]
<1>1. em.code \in Seq(Ops) /\ Len(em.code) \in Nat /\ Flows(em.code, N)
  <2>1. em \in Emitters /\ Flows(em.code, N)
    BY DEF RunsOn, Sound
  <2> QED BY <2>1, LenProperties DEF Emitters
<1>2. here \in 1 .. Len(em.code) /\ here + 1 \in 1 .. End(em.code)
  BY <1>1 DEF RunsOn, End
<1>3. Now \in Ops
  BY <1>1, <1>2, ElementOfSeq DEF Now
<1>4. Holds(N[here], guest, host)
  BY DEF RunsOn
<1>5. StepsTo(Now, N[here + 1], guest, host) /\ JumpsTo(Now, N, Len(em.code), guest, host)
  BY <1>1, <1>2, <1>4 DEF Flows, Now
<1>6. host \in Hosts
  BY <1>4 DEF Holds
<1>7. host.cycles \in Nat /\ Now.pay \in Nat /\ Now.of \in Nat
  BY <1>3, <1>6 DEF Hosts, Ops
<1> QED BY <1>2, <1>3, <1>5, <1>6, <1>7 DEF Charged, Paid

\* Code goes on at an operation before which is known what holds.
LEMMA GoesOn ==
  ASSUME NEW N, RunsOn(N), Same, here' \in 1 .. End(em.code), Holds(N[here'], guest', host')
  PROVE  Running'
<1>1. Frozen /\ em' = em
  BY DEF Same, Frozen
<1>2. Sound(em, N)' /\ Aims(em.code)'
  BY <1>1, SoundStays DEF RunsOn
<1>3. Holds(N[here], guest, host)'
  BY <1>1, HoldsStays
<1>4. (here \in 1 .. End(em.code))'
  BY <1>1 DEF End
<1>5. RunsOn(N)'
  BY <1>2, <1>3, <1>4 DEF RunsOn
<1> QED BY <1>5 DEF Running

\* Cycles are charged.
LEMMA PayRuns ==
  ASSUME Running, Pay
  PROVE  Running' /\ UNCHANGED <<phase, seen>> /\ Frozen
<1>1. PICK N : RunsOn(N)
  BY DEF Running
<1>2. Now.op = "charge" /\ here <= Len(em.code)
  BY DEF Pay, Runs
<1>3. Holds(N[here + 1], guest, Charged(host, Now.pay)) /\ here + 1 \in 1 .. End(em.code)
  BY <1>1, <1>2, RunsAt DEF StepsTo
<1>4. /\ here' = here + 1 /\ host' = Charged(host, Now.pay) /\ guest' = guest
      /\ UNCHANGED <<phase, seen>> /\ Same
  BY <1>1, <1>2, RunsAt DEF Pay
<1>5. Running'
  BY <1>1, <1>3, <1>4, GoesOn
<1> QED BY <1>4, <1>5 DEF Same, Frozen

\* A gate lets through who passes, and jumps for the others.
LEMMA TestRuns ==
  ASSUME Running, Test
  PROVE  Running' /\ UNCHANGED <<phase, seen>> /\ Frozen
<1>1. PICK N : RunsOn(N)
  BY DEF Running
<1>2. Now.op = "gate" /\ here <= Len(em.code)
  BY DEF Test, Runs
<1> DEFINE L == Len(em.code)
<1>3. /\ StepsTo(Now, N[here + 1], guest, host) /\ JumpsTo(Now, N, L, guest, host)
      /\ here \in 1 .. L /\ here + 1 \in 1 .. End(em.code)
  BY <1>1, <1>2, RunsAt
<1>4. /\ host' = Charged(host, Now.pay) /\ guest' = guest
      /\ here' = (IF Passes(Now.on, host.as) THEN here + 1 ELSE Now.to)
      /\ UNCHANGED <<phase, seen>> /\ Same
  BY <1>1, <1>2, RunsAt DEF Test
<1>5. CASE Passes(Now.on, host.as)
  <2>1. Holds(N[here + 1], guest, Charged(host, Now.pay))
    BY <1>2, <1>3, <1>5 DEF StepsTo
  <2>2. Running'
    BY <1>1, <1>3, <1>4, <1>5, <2>1, GoesOn
  <2> QED BY <1>4, <2>2 DEF Same, Frozen
<1>6. CASE ~Passes(Now.on, host.as)
  <2>1. Now.to # 0
    BY <1>1, <1>2, <1>3 DEF RunsOn, Sound, Jumps, Now
  <2>2. Now.to \in 1 .. L + 1 /\ Holds(N[Now.to], guest, Charged(host, Now.pay))
    BY <1>2, <1>3, <1>6, <2>1 DEF JumpsTo
  <2>3. Running'
    BY <1>1, <1>4, <1>6, <2>2, GoesOn DEF End
  <2> QED BY <1>4, <2>3 DEF Same, Frozen
<1> QED BY <1>5, <1>6

\* An instruction is executed: it is the next of the processor's.
LEMMA ExecuteRuns ==
  ASSUME BlockOK, Running, Execute
  PROVE  Running' /\ phase' = phase /\ SeenSame' /\ Frozen
<1>1. PICK N : RunsOn(N)
  BY DEF Running
<1>2. Now.op = "body" /\ here <= Len(em.code)
  BY DEF Execute, Runs
<1> DEFINE k == Now.of
           b == N[here + 1]
<1>3. /\ StepsTo(Now, b, guest, host) /\ here + 1 \in 1 .. End(em.code) /\ k \in Nat
  BY <1>1, <1>2, RunsAt
<1>4. /\ Executes(k, guest)
      /\ \A v \in {0, 1} : \A q \in OutcomesAt(Now, host.as, v) :
           Holds(b, Stepped(k, guest, v), [as |-> q, cycles |-> host.cycles + Now.pay])
  BY <1>2, <1>3 DEF StepsTo
<1>5. NextRun = k /\ Passed(k) = Price(k, guest)
  BY <1>3, <1>4, NextRunIs DEF Executes
<1>6. PICK v \in {0, 1} :
        /\ guest' = [pc |-> k + 1, as |-> Effect(insns[k], guest.as, v),
                     cycles |-> Executed(k)]
        /\ \E p \in Outcomes(Now, v) : host' = [as |-> p, cycles |-> Paid]
  BY DEF Execute
<1>7. PICK p \in Outcomes(Now, v) : host' = [as |-> p, cycles |-> Paid]
  BY <1>6
<1>8. guest' = Stepped(k, guest, v)
  BY <1>5, <1>6 DEF Stepped, Executed
<1>9. p \in OutcomesAt(Now, host.as, v)
  BY <1>7 DEF Outcomes, OutcomesAt
<1>10. Holds(b, guest', host')
  BY <1>4, <1>7, <1>8, <1>9 DEF Paid
<1>11. here' = here + 1 /\ phase' = phase /\ seen' = Sight(k, k) /\ Same
  BY <1>5 DEF Execute
<1>12. Running'
  BY <1>1, <1>3, <1>10, <1>11, GoesOn
<1>13. SeenSame'
  BY <1>11 DEF Sight, SeenSame
<1> QED BY <1>11, <1>12, <1>13 DEF Same, Frozen

\* The processors start anew at an operation.
LEMMA GoesAnew ==
  ASSUME NEW N, RunsOn(N), Same, NEW k, Resume(k, here'), here' \in 1 .. End(em.code),
         Holds(N[here'], Restarted(guest, k), Cleared(host))
  PROVE  Running'
<1>1. guest' = Restarted(guest, k) /\ host' = Cleared(host)
  BY DEF Resume, Restarted, Cleared
<1> QED BY <1>1, GoesOn

\* A store is seen as it is, and the run goes on behind it.
LEMMA StoreRuns ==
  ASSUME BlockOK, Running, StoreWord
  PROVE  Running' /\ phase' = phase /\ SeenSame' /\ Frozen
<1>1. PICK N : RunsOn(N)
  BY DEF Running
<1>2. Now.op = "store" /\ here <= Len(em.code)
  BY DEF StoreWord, Runs
<1> DEFINE k == Now.of
           b == N[here + 1]
<1>3. /\ StepsTo(Now, b, guest, host) /\ here + 1 \in 1 .. End(em.code) /\ k \in Nat
      /\ here \in 1 .. Len(em.code)
  BY <1>1, <1>2, RunsAt
<1>4. /\ Executes(k, guest) /\ insns[k].does = "str"
      /\ Exact(guest, host, Now.pay, Price(k, guest) + 2)
      /\ Holds(b, Restarted(guest, k + 1), Cleared(host))
  BY <1>2, <1>3 DEF StepsTo
<1>5. NextRun = k /\ Passed(k) = Price(k, guest) /\ Price(k, guest) \in Nat
  BY <1>3, <1>4, NextRunIs, OnTheWay DEF Executes
<1>6. Executed(k) = Price(k, guest) + 2
  <2>1. Extra(k) = 1
    BY <1>4 DEF Extra
  <2> QED BY <1>5, <2>1 DEF Executed
<1>7. HasTail
  <2>1. Stores(em.code)
    BY <1>2, <1>3 DEF Stores, Now
  <2> QED BY <1>1, <2>1 DEF HasTail, RunsOn, Sound
<1>8. host.as = guest.as /\ Paid = Executed(k)
  BY <1>4, <1>6 DEF Exact, Paid
<1>9. /\ seen' = Sight(View(k + 1, host.as, Paid), View(k + 1, guest.as, Executed(k)))
      /\ Resume(k + 1, here + 1) /\ phase' = phase /\ Same
  BY <1>5, <1>7 DEF StoreWord, Look
<1>10. SeenSame'
  BY <1>8, <1>9 DEF Sight, SeenSame
<1>11. here' = here + 1
  BY <1>9 DEF Resume
<1>12. Running'
  BY <1>1, <1>3, <1>4, <1>9, <1>11, GoesAnew
<1> QED BY <1>9, <1>10, <1>12 DEF Same, Frozen

\* So is a checkpoint.
LEMMA CheckRuns ==
  ASSUME BlockOK, Running, Check
  PROVE  Running' /\ phase' = phase /\ SeenSame' /\ Frozen
<1>1. PICK N : RunsOn(N)
  BY DEF Running
<1>2. Now.op = "check" /\ here <= Len(em.code)
  BY DEF Check, Runs
<1> DEFINE k == Now.of
           b == N[here + 1]
<1>3. /\ StepsTo(Now, b, guest, host) /\ here + 1 \in 1 .. End(em.code) /\ k \in Nat
  BY <1>1, <1>2, RunsAt
<1>4. /\ ComesTo(k, guest) /\ Exact(guest, host, Now.pay, Price(k, guest))
      /\ Holds(b, Restarted(guest, k), Cleared(host))
  BY <1>2, <1>3 DEF StepsTo
<1>5. Reached(k) = k /\ Passed(k) = Price(k, guest)
  BY <1>3, <1>4, NextRunIs
<1>6. host.as = guest.as /\ Paid = Passed(k)
  BY <1>4, <1>5 DEF Exact, Paid
<1>7. /\ seen' = Sight(View(k, host.as, Paid), View(k, guest.as, Passed(k)))
      /\ Resume(k, here + 1) /\ phase' = phase /\ Same
  BY <1>5 DEF Check, Look
<1>8. SeenSame'
  BY <1>6, <1>7 DEF Sight, SeenSame
<1>9. here' = here + 1
  BY <1>7 DEF Resume
<1>10. Running'
  BY <1>1, <1>3, <1>4, <1>7, <1>9, GoesAnew
<1> QED BY <1>7, <1>8, <1>10 DEF Same, Frozen

\* A branch is taken where the processor takes it; inside the block the run goes on there.
LEMMA BranchRuns ==
  ASSUME BlockOK, Running, phase = "run", LeaveByBranch
  PROVE  ((phase' = "run" /\ Running') \/ phase' = "done") /\ SeenSame' /\ Frozen
<1>1. PICK N : RunsOn(N)
  BY DEF Running
<1>2. Now.op = "leave" /\ here <= Len(em.code)
  BY DEF LeaveByBranch, Runs
<1> DEFINE k == Now.of
           t == insns[k].to
<1>3. /\ StepsTo(Now, N[here + 1], guest, host) /\ k \in Nat /\ host \in Hosts
      /\ here \in 1 .. Len(em.code)
  BY <1>1, <1>2, RunsAt
<1>4. /\ Executes(k, guest) /\ insns[k].does = "b"
      /\ Exact(guest, host, Now.pay, Price(k, guest) + 1)
  BY <1>2, <1>3 DEF StepsTo
<1>5. NextRun = k /\ Passed(k) = Price(k, guest) /\ Price(k, guest) \in Nat
      /\ guest.as \in Processors
  BY <1>3, <1>4, NextRunIs, OnTheWay DEF Executes
<1>6. Executed(k) = Price(k, guest) + 1
  <2>1. Extra(k) = 0
    BY <1>4 DEF Extra
  <2> QED BY <1>5, <2>1 DEF Executed
<1>7. host.as = guest.as /\ Paid = Executed(k)
  BY <1>4, <1>6 DEF Exact, Paid
<1>8. k \in InBlock /\ Now.to = t
  BY <1>1, <1>2, <1>3 DEF RunsOn, Aims, Now
<1>9. /\ seen' = Sight(View(t, host.as, Paid), View(t, guest.as, Executed(k))) /\ Same
      /\ IF Internal(t) THEN Resume(t, em.begins[t]) /\ phase' = phase ELSE phase' = "done"
  BY <1>5, <1>8 DEF LeaveByBranch, Look, Stop
<1>10. SeenSame'
  BY <1>7, <1>9 DEF Sight, SeenSame
<1>11. CASE ~Internal(t)
  BY <1>9, <1>10, <1>11 DEF Same, Frozen
<1>12. CASE Internal(t)
  <2>1. t \in InBlock /\ (t = 1 \/ t \in labels)
    BY <1>4, <1>8, <1>12, TargetMarked DEF Internal, IsBranch
  <2>2. Begun(em.begins, N, End(em.code)) /\ Len(em.begins) = Len(insns)
    BY <1>1 DEF RunsOn, Sound
  <2>3. em.begins[t] \in 1 .. End(em.code) /\ Implies(EntryAt(t), N[em.begins[t]])
    BY <2>1, <2>2 DEF Begun, InBlock
  <2>4. Knows(Unknown, NoFlags, guest.as)
    BY NoFlagsTyped DEF Knows
  <2>5. t \in 1 .. Len(insns) + 1
    BY <2>1, InsnsTyped
  <2>6. Holds(EntryAt(t), Restarted(guest, t), Cleared(host))
    BY <1>3, <1>5, <1>7, <2>4, <2>5, Restarts DEF EntryAt
  <2>7. here' = em.begins[t] /\ Resume(t, em.begins[t]) /\ phase' = phase
    BY <1>9, <1>12 DEF Resume
  <2>8. Holds(N[here'], Restarted(guest, t), Cleared(host))
    BY <2>3, <2>6, <2>7 DEF Implies
  <2>9. Running'
    BY <1>1, <1>9, <2>3, <2>7, <2>8, GoesAnew
  <2> QED BY <1>9, <1>10, <2>7, <2>9 DEF Same, Frozen
<1> QED BY <1>11, <1>12

\* So is a return.
LEMMA ReturnRuns ==
  ASSUME BlockOK, Running, LeaveByReturn
  PROVE  phase' = "done" /\ SeenSame' /\ Frozen
<1>1. PICK N : RunsOn(N)
  BY DEF Running
<1>2. Now.op = "return" /\ here <= Len(em.code)
  BY DEF LeaveByReturn, Runs
<1> DEFINE k == Now.of
<1>3. StepsTo(Now, N[here + 1], guest, host) /\ k \in Nat
  BY <1>1, <1>2, RunsAt
<1>4. /\ Executes(k, guest) /\ insns[k].does = "bx"
      /\ Exact(guest, host, Now.pay, Price(k, guest) + 1)
  BY <1>2, <1>3 DEF StepsTo
<1>5. NextRun = k /\ Passed(k) = Price(k, guest) /\ Price(k, guest) \in Nat
  BY <1>3, <1>4, NextRunIs, OnTheWay DEF Executes
<1>6. Executed(k) = Price(k, guest) + 1
  <2>1. Extra(k) = 0
    BY <1>4 DEF Extra
  <2> QED BY <1>5, <2>1 DEF Executed
<1>7. host.as = guest.as /\ Paid = Executed(k)
  BY <1>4, <1>6 DEF Exact, Paid
<1>8. /\ seen' = Sight(View(k, host.as, Paid), View(k, guest.as, Executed(k)))
      /\ phase' = "done" /\ Same
  BY <1>5 DEF LeaveByReturn, Look, Stop
<1> QED BY <1>7, <1>8 DEF Sight, SeenSame, Same, Frozen

\* The tail leaves for where the processor is.
LEMMA TailRuns ==
  ASSUME BlockOK, Running, RunOut
  PROVE  phase' = "done" /\ SeenSame' /\ Frozen
<1>1. PICK N : RunsOn(N)
  BY DEF Running
<1>2. Now.op = "tail" /\ here <= Len(em.code)
  BY DEF RunOut, Runs
<1> DEFINE k == Now.of
<1>3. StepsTo(Now, N[here + 1], guest, host) /\ k \in Nat
  BY <1>1, <1>2, RunsAt
<1>4. ComesTo(k, guest) /\ Exact(guest, host, Now.pay, Price(k, guest))
  BY <1>2, <1>3 DEF StepsTo
<1>5. Reached(k) = k /\ Passed(k) = Price(k, guest)
  BY <1>3, <1>4, NextRunIs
<1>6. host.as = guest.as /\ Paid = Passed(k)
  BY <1>4, <1>5 DEF Exact, Paid
<1>7. /\ seen' = Sight(View(k, host.as, Paid), View(k, guest.as, Passed(k)))
      /\ phase' = "done" /\ Same
  BY <1>5 DEF RunOut, Look, Stop
<1> QED BY <1>6, <1>7 DEF Sight, SeenSame, Same, Frozen

\* Only a block that ends on a conditional exit is run past its end.
LEMMA FallRuns ==
  ASSUME Running, FallOff
  PROVE  /\ EndsOnConditionalExit /\ phase' = "done" /\ Frozen
         /\ seen' = [seen EXCEPT !.lost = TRUE]
<1>1. PICK N : RunsOn(N)
  BY DEF Running
<1>2. here > Len(em.code) /\ Same /\ phase' = "done" /\ seen' = [seen EXCEPT !.lost = TRUE]
  BY DEF FallOff, Stop
<1>3. em.code \in Seq(Ops) /\ Len(em.code) \in Nat
  <2>1. em \in Emitters
    BY <1>1 DEF RunsOn, Sound
  <2> QED BY <2>1, LenProperties DEF Emitters
<1>4. here = End(em.code)
  BY <1>1, <1>2, <1>3 DEF RunsOn, End
<1>5. ~Implies(N[End(em.code)], Nowhere)
  <2> SUFFICES ASSUME Implies(N[End(em.code)], Nowhere) PROVE FALSE
    OBVIOUS
  <2>1. Holds(Nowhere, guest, host)
    BY <1>1, <1>4 DEF RunsOn, Implies
  <2>2. ComesTo(0, guest)
    BY <2>1, HoldsIs DEF Nowhere
  <2> QED BY <2>2 DEF ComesTo, Guests
<1>6. EndsOnConditionalExit
  BY <1>1, <1>5 DEF RunsOn, Sound
<1> QED BY <1>2, <1>6 DEF Same, Frozen
-----------------------------------------------------------------------------
(* Blocks, one after the other. *)

Emitting == \E N, k : k \in 1 .. Len(insns) + 1 /\ Between(em, N, k)

\* One instruction more is translated.
LEMMA EmitGoes ==
  ASSUME BlockOK, Emitting, Emit
  PROVE  Emitting' /\ em' \in Emitters /\ UNCHANGED <<phase, here, guest, host, seen>>
<1>1. PICK N, k : k \in 1 .. Len(insns) + 1 /\ Between(em, N, k)
  BY DEF Emitting
<1>2. Len(em.begins) = k - 1 /\ Len(insns) \in Nat
  BY <1>1, LenProperties DEF Between, Past, BlockOK
<1>3. /\ k - 1 < Len(insns) /\ em' = TranslateInsn(em, k - 1 + 1)
      /\ Frozen /\ UNCHANGED <<phase, here, guest, host, seen>>
  BY <1>2 DEF Emit, scanVars, Frozen
<1>4. k \in InBlock /\ k - 1 + 1 = k /\ k + 1 \in 1 .. Len(insns) + 1
  BY <1>1, <1>2, <1>3 DEF InBlock
<1>5. PICK M : Between(em', M, k + 1)
  <2>1. \E M : Between(TranslateInsn(em, k), M, k + 1)
    BY <1>1, <1>4, TranslateInsnOK
  <2>2. em' = TranslateInsn(em, k)
    BY <1>3, <1>4
  <2> QED BY <2>1, <2>2
<1>6. Between(em, M, k + 1)' /\ (k + 1 \in 1 .. Len(insns) + 1)'
  BY <1>3, <1>4, <1>5, BetweenStays DEF Frozen
<1>7. Emitting'
  BY <1>6 DEF Emitting
<1>8. em' \in Emitters
  BY <1>5 DEF Between, Past, CodeOK
<1> QED BY <1>3, <1>7, <1>8

\* The block is finished, and its code runs.
LEMMA FinishRuns ==
  ASSUME BlockOK, Emitting, Finish
  PROVE  Running' /\ phase' = "run" /\ seen' = seen /\ here' = 1
<1>1. PICK N, k : k \in 1 .. Len(insns) + 1 /\ Between(em, N, k)
  BY DEF Emitting
<1> DEFINE n == Len(insns)
           d == SlotsPatched(Tailed(Checkpoint(Close(em), n + 1)))
<1>2. n \in Nat /\ k = n + 1 /\ n >= 1
  <2>1. Len(em.begins) = k - 1 /\ n \in Nat /\ n >= 1
    BY <1>1, LenProperties DEF Between, Past, BlockOK
  <2>2. Len(em.begins) = n
    BY DEF Finish
  <2> QED BY <1>1, <2>1, <2>2
<1>3. PICK M : Sound(d, M) /\ Aims(d.code)
  <2>1. Past(em, N, n + 1)
    BY <1>1, <1>2 DEF Between
  <2> QED BY <2>1, FinishedOK
<1>4. /\ em' = d /\ phase' = "run" /\ here' = 1 /\ seen' = seen /\ Frozen
  BY DEF Finish, Frozen
<1> HIDE DEF d
<1>5. PICK p \in Processors : guest' = Ran(p) /\ host' = [as |-> p, cycles |-> 0]
  BY DEF Finish
<1>6. Holds(EntryAt(1), Ran(p), [as |-> p, cycles |-> 0])
  <2> DEFINE g == Ran(p)
             h == [as |-> p, cycles |-> 0]
  <2>1. h \in Hosts /\ h.as = p /\ g.as = p /\ g.as \in Processors
    BY DEF Hosts, Ran
  <2>2. Restarted(g, 1) = g /\ Cleared(h) = h
    BY DEF Restarted, Ran, Cleared
  <2>3. Knows(Unknown, NoFlags, g.as)
    BY NoFlagsTyped DEF Knows
  <2>4. 1 \in 1 .. Len(insns) + 1
    BY <1>2
  <2> HIDE DEF g, h
  <2>5. Holds(EntryAt(1), Restarted(g, 1), Cleared(h))
    BY <2>1, <2>3, <2>4, Restarts DEF EntryAt
  <2> QED BY <2>2, <2>5 DEF g, h
<1>7. Implies(EntryAt(1), M[1]) /\ 1 \in 1 .. End(d.code)
  <2>1. Begun(d.begins, M, End(d.code)) /\ Len(d.begins) = n
    BY <1>3 DEF Sound
  <2>2. 1 \in 1 .. Len(d.begins) /\ Len(d.begins) >= 1
    BY <1>2, <2>1
  <2>3. d.begins[1] = 1
    BY <2>1, <2>2 DEF Begun
  <2>4. d.begins[1] \in 1 .. End(d.code) /\ Implies(EntryAt(1), M[d.begins[1]])
    BY <2>1, <2>2 DEF Begun
  <2> QED BY <2>3, <2>4
<1>8. Holds(M[1], guest', host')
  BY <1>5, <1>6, <1>7 DEF Implies
<1>9. Sound(em, M)' /\ Aims(em.code)' /\ Holds(M[here], guest, host)'
  BY <1>3, <1>4, <1>8, SoundStays, HoldsStays
<1>10. (here \in 1 .. End(em.code))'
  BY <1>4, <1>7 DEF End
<1>11. RunsOn(M)'
  BY <1>9, <1>10 DEF RunsOn
<1> QED BY <1>4, <1>11 DEF Running

\* What the scan leaves of a block besides what ScanInv says.
Listed ==
  /\ phase # "scan" => Len(insns) >= 1
  /\ \A k \in InBlock : status[k].makes \subseteq Makes(insns[k])
  /\ Len(exits) = Cardinality(Branches(Len(insns)))
  /\ \A k \in InBlock : IsBranch(insns[k]) => exits[Cardinality(Branches(k))] = insns[k].to
  /\ labels \cap InBlock = IF Scanning THEN {} ELSE Targets

\* That is all the emitter needs.
LEMMA BlockListed ==
  ASSUME ScanInv, Listed, ~Scanning, pos = 1
  PROVE  BlockOK
<1>1. phase # "scan" /\ insns \in Seq(Program) /\ Len(status) = Len(insns)
  BY DEF Scanning, ScanInv, ScanTypeOK
<1>2. \A k \in InBlock : k >= pos
  BY LenProperties DEF InBlock
<1>3. \A k \in InBlock : Makes(insns[k]) \cap LiveFrom(k + 1) \subseteq status[k].makes
  BY <1>2 DEF ScanInv, Walked
<1> QED BY <1>1, <1>3 DEF Listed, BlockOK

\* An instruction more is scanned.
LEMMA ScanListed ==
  ASSUME ScanInv, Listed, NEW i \in Program, Scan(i)
  PROVE  Listed'
<1>0. PICK n \in Nat : n = Len(insns)
  BY LenProperties DEF ScanInv, ScanTypeOK
<1> DEFINE m == Cardinality(Branches(n))
<1>1. /\ insns \in Seq(Program) /\ status \in Seq(StatusType) /\ exits \in Seq(Nat)
      /\ Len(status) = n /\ n \in Nat /\ pos = n + 1 /\ phase = "scan" /\ i \in Instruction
  BY <1>0, ScanAssumption DEF ScanInv, ScanTypeOK, Placed, Scan, ScanAssumption
<1>2. /\ insns' = Append(insns, i) /\ status' = Append(status, Status(i))
      /\ exits' = (IF IsBranch(i) THEN Append(exits, i.to) ELSE exits)
      /\ labels' = labels \ {n + 1} /\ phase' \in {"mark", "scan"}
  BY <1>1 DEF Scan, Unmarked
<1>3. /\ Len(insns') = n + 1 /\ insns'[n + 1] = i /\ \A k \in 1 .. n : insns'[k] = insns[k]
      /\ status'[n + 1] = Status(i) /\ \A k \in 1 .. n : status'[k] = status[k]
  <2>1. /\ Len(insns') = n + 1 /\ insns'[n + 1] = i
        /\ \A k \in 1 .. n : insns'[k] = insns[k]
    BY <1>0, <1>1, <1>2, AppendProperties
  <2>2. Status(i) \in StatusType
    BY <1>1, StatusTyped
  <2>3. status'[n + 1] = Status(i) /\ \A k \in 1 .. n : status'[k] = status[k]
    BY <1>1, <1>2, <2>2, AppendProperties
  <2> QED BY <2>1, <2>3
<1>4. InBlock = 1 .. n /\ InBlock' = 1 .. n + 1
  BY <1>0, <1>3 DEF InBlock
<1>5. \A k \in 1 .. n + 1 : k = n + 1 \/ k \in 1 .. n
  BY <1>1
<1>6. \A k \in 1 .. n : Branches(k)' = Branches(k)
  BY <1>1, <1>3 DEF Branches
<1>7. Branches(n + 1)' = IF IsBranch(i) THEN Branches(n) \cup {n + 1} ELSE Branches(n)
  BY <1>1, <1>3 DEF Branches
<1>8. IsFiniteSet(Branches(n)) /\ n + 1 \notin Branches(n) /\ m \in Nat
  <2>1. IsFiniteSet(1 .. n) /\ Branches(n) \subseteq 1 .. n
    BY <1>1, FS_Interval DEF Branches
  <2> QED BY <1>1, <2>1, FS_Subset, FS_CardinalityType
<1>9. Cardinality(Branches(n) \cup {n + 1}) = m + 1
  BY <1>8, FS_AddElement
<1>10. Len(exits) = m /\ \A k \in 1 .. n :
         /\ status[k].makes \subseteq Makes(insns[k])
         /\ IsBranch(insns[k]) => exits[Cardinality(Branches(k))] = insns[k].to
  BY <1>0, <1>4 DEF Listed
<1>11. Cardinality(Branches(n + 1)') = IF IsBranch(i) THEN m + 1 ELSE m
  BY <1>7, <1>9
<1>12. Len(exits') = Cardinality(Branches(n + 1)')
  <2>1. i.to \in Nat
    BY <1>1 DEF Instruction
  <2>2. Len(exits') = IF IsBranch(i) THEN m + 1 ELSE m
    BY <1>1, <1>2, <1>10, <2>1, AppendProperties
  <2> QED BY <1>11, <2>2
<1>13. ASSUME NEW k \in 1 .. n + 1
       PROVE  status'[k].makes \subseteq Makes(insns'[k])
  BY <1>3, <1>5, <1>10 DEF Status
<1>14. ASSUME NEW k \in 1 .. n + 1, IsBranch(insns'[k])
       PROVE  exits'[Cardinality(Branches(k)')] = insns'[k].to
  <2>1. CASE k = n + 1
    <3>1. IsBranch(i) /\ Cardinality(Branches(n + 1)') = m + 1
      BY <1>3, <1>11, <1>14, <2>1
    <3>2. exits'[m + 1] = i.to
      BY <1>1, <1>2, <1>10, <3>1, AppendProperties
    <3> QED BY <1>3, <2>1, <3>1, <3>2
  <2>2. CASE k \in 1 .. n
    <3> DEFINE c == Cardinality(Branches(k))
    <3>1. Cardinality(Branches(k)') = c /\ exits[c] = insns[k].to /\ insns'[k] = insns[k]
      BY <1>3, <1>6, <1>10, <1>14, <2>2
    <3>2. c \in 1 .. m
      <4>1. k \in Branches(k) /\ Branches(k) \subseteq Branches(n)
        BY <1>1, <1>14, <2>2, <3>1 DEF Branches
      <4>2. IsFiniteSet(Branches(k)) /\ c \in Nat /\ c <= m
        BY <1>8, <4>1, FS_Subset, FS_CardinalityType
      <4>3. c # 0
        BY <4>1, <4>2, FS_EmptySet
      <4> QED BY <1>8, <4>2, <4>3
    <3> HIDE DEF c
    <3>3. exits'[c] = exits[c]
      BY <1>1, <1>2, <1>10, <3>2, AppendProperties
    <3> QED BY <3>1, <3>3
  <2> QED BY <1>5, <2>1, <2>2
<1>15. labels' \cap (1 .. n + 1) = {}
  BY <1>1, <1>2, <1>4, <1>5 DEF Listed, Scanning
<1>16. /\ phase' # "scan" => Len(insns') >= 1
       /\ Scanning'
  BY <1>1, <1>2, <1>3 DEF Scanning
<1>17. Branches(Len(insns))' = Branches(n + 1)'
  BY <1>3
<1> QED BY <1>4, <1>12, <1>13, <1>14, <1>15, <1>16, <1>17 DEF Listed

\* The passes over the block change no more than they say.
LEMMA MarkListed ==
  ASSUME ScanInv, Listed, Mark
  PROVE  Listed'
<1>1. /\ UNCHANGED <<insns, exits>> /\ labels' = labels \cup Targets
      /\ status' = [k \in InBlock |-> Marked(k)] /\ phase = "mark" /\ phase' = "eliminate"
  BY DEF Mark
<1>2. InBlock' = InBlock /\ Targets' = Targets /\ \A k : Branches(k)' = Branches(k)
  BY <1>1 DEF InBlock, Targets, Branches
<1>3. Targets \subseteq InBlock
  BY LenProperties DEF Targets, InBlock, ScanInv, ScanTypeOK
<1>4. \A k \in InBlock : status'[k].makes = status[k].makes
  <2> SUFFICES ASSUME NEW k \in InBlock PROVE Marked(k).makes = status[k].makes
    BY <1>1
  <2>1. k \in 1 .. Len(status) /\ status \in Seq(StatusType)
    BY DEF InBlock, ScanInv, ScanTypeOK
  <2>2. status[k] \in StatusType
    BY <2>1, ElementOfSeq
  <2> QED BY <2>2 DEF Marked, StatusType
<1>5. labels \cap InBlock = {}
  BY <1>1 DEF Listed, Scanning
<1>6. labels' \cap InBlock = Targets /\ ~Scanning'
  BY <1>1, <1>3, <1>5 DEF Scanning
<1> QED BY <1>1, <1>2, <1>4, <1>6 DEF Listed

\* A flag nobody needs is dropped: the block is listed as before.
LEMMA EliminateListed ==
  ASSUME ScanInv, Listed, Eliminate
  PROVE  Listed'
<1>1. /\ UNCHANGED <<insns, exits, labels, phase>> /\ phase = "eliminate"
      /\ status' = [status EXCEPT ![pos - 1].makes = @ \cap needed]
  BY DEF Eliminate
<1>2. InBlock' = InBlock /\ Targets' = Targets /\ \A k : Branches(k)' = Branches(k)
  BY <1>1 DEF InBlock, Targets, Branches
<1>3. \A k \in InBlock : status'[k].makes \subseteq status[k].makes
  <2> SUFFICES ASSUME NEW k \in InBlock PROVE status'[k].makes \subseteq status[k].makes
    OBVIOUS
  <2>1. k \in 1 .. Len(status) /\ status \in Seq(StatusType)
    BY DEF InBlock, ScanInv, ScanTypeOK
  <2>2. status[k] \in StatusType /\ k \in DOMAIN status
    BY <2>1, ElementOfSeq, LenProperties
  <2>3. status'[k] = IF k = pos - 1 THEN [status[k] EXCEPT !.makes = @ \cap needed]
                     ELSE status[k]
    BY <1>1, <2>2
  <2> QED BY <2>2, <2>3 DEF StatusType
<1>4. Scanning' = Scanning
  BY <1>1 DEF Scanning
<1> QED BY <1>1, <1>2, <1>3, <1>4 DEF Listed

\* Nothing of it changes while the block is emitted and its code runs.
LEMMA FrozenListed ==
  ASSUME Listed, Frozen,
         \/ phase' = phase
         \/ phase \notin {"scan", "mark"} /\ phase' \notin {"scan", "mark"}
  PROVE  Listed'
<1>1. UNCHANGED <<insns, status, exits, labels>>
  BY DEF Frozen
<1>2. InBlock' = InBlock /\ Targets' = Targets /\ \A k : Branches(k)' = Branches(k)
  BY <1>1 DEF InBlock, Targets, Branches
<1>3. (Scanning' <=> Scanning) /\ (phase' # "scan" => phase # "scan")
  BY DEF Scanning
<1> QED BY <1>1, <1>2, <1>3 DEF Listed
-----------------------------------------------------------------------------
(* The translator is right. *)

CodeTypes == em \in Emitters /\ here \in Nat \ {0} /\ guest \in Guests /\ host \in Hosts
\* Where the translator stands.
Standing ==
  /\ phase \in {"scan", "mark", "eliminate"} => em = Start
  /\ phase = "emit" => Emitting
  /\ phase = "run" => Running
Shown ==
  /\ \E c, g : \E b \in BOOLEAN : seen = [code |-> c, guest |-> g, lost |-> b]
  /\ phase # "done" => ~seen.lost
  /\ BlockInStep
CodeInv == ScanInv /\ Listed /\ CodeTypes /\ Standing /\ Shown

\* Before the first block nothing is known.
LEMMA NothingSeen ==
  LET p == [r |-> 0, z |-> FALSE, c |-> FALSE] IN
  Ran(p) \in Guests /\ [as |-> p, cycles |-> 0] \in Hosts /\ Start \in Emitters
<1> DEFINE p == [r |-> 0, z |-> FALSE, c |-> FALSE]
<1>1. p \in Processors
  BY DEF Processors
<1> HIDE DEF p
<1>2. Ran(p) \in Guests /\ [as |-> p, cycles |-> 0] \in Hosts
  BY <1>1 DEF Ran, Guests, Hosts
<1> QED BY <1>2, StartTyped DEF p

\* The invariant holds when the translator starts.
LEMMA CodeInit == TranslatorInit => CodeInv
<1> SUFFICES ASSUME TranslatorInit PROVE CodeInv
  OBVIOUS
<1>1. /\ ScanInv /\ insns = <<>> /\ exits = <<>> /\ phase = "scan"
  BY ScanInitInv DEF TranslatorInit, ScanInit
<1>2. Listed
  <2>1. Len(insns) = 0 /\ Len(exits) = 0 /\ InBlock = {} /\ Branches(0) = {}
    BY <1>1 DEF InBlock, Branches
  <2>2. Cardinality(Branches(0)) = 0
    BY <2>1, FS_EmptySet
  <2> QED BY <1>1, <2>1, <2>2 DEF Listed, Scanning
<1>3. CodeTypes
  BY NothingSeen DEF TranslatorInit, CodeTypes, Ran
<1>4. Standing
  BY <1>1 DEF Standing, TranslatorInit
<1>5. Shown
  BY <1>1 DEF Shown, TranslatorInit, Sight, BlockInStep
<1> QED BY <1>1, <1>2, <1>3, <1>4, <1>5 DEF CodeInv

\* What was seen stays as right as it is until the block ends.
LEMMA ShownStays ==
  ASSUME Shown, phase # "done", phase' # "done", seen' = seen
  PROVE  Shown'
BY DEF Shown, BlockInStep
\* It is right if both are the same.
LEMMA ShownSame ==
  ASSUME SeenSame', NEW c, NEW g, seen' = Sight(c, g)
  PROVE  Shown'
BY DEF Shown, BlockInStep, SeenSame, Sight

\* A processor whose code runs, or ran, is a processor.
LEMMA RunningTyped == Running => CodeTypes
<1> SUFFICES ASSUME Running PROVE CodeTypes
  OBVIOUS
<1>1. PICK N : RunsOn(N)
  BY DEF Running
<1>2. em \in Emitters /\ guest \in Guests /\ host \in Hosts
  BY <1>1 DEF RunsOn, Sound, Holds, ComesTo
<1>3. Len(em.code) \in Nat
  BY <1>2, LenProperties DEF Emitters
<1> QED BY <1>1, <1>2, <1>3 DEF CodeTypes, RunsOn, End

\* The passes over a block leave the emitter alone; it starts when they end.
LEMMA PassesKeep ==
  ASSUME CodeInv, ScanNext, UNCHANGED codeVars
  PROVE  CodeInv'
<1>1. ScanInv'
  BY ScanNextKeeps DEF CodeInv
<1>2. CodeTypes' /\ UNCHANGED <<em, seen>>
  BY DEF CodeInv, CodeTypes, codeVars
<1>3. phase \in {"scan", "mark", "eliminate"} /\ em = Start
      /\ phase' \in {"scan", "mark", "eliminate", "emit"}
  BY DEF CodeInv, Standing, ScanNext, Scan, Mark, Eliminate, Eliminated
<1>4. Shown'
  BY <1>2, <1>3, ShownStays DEF CodeInv
<1>5. CASE Eliminated
  <2>1. phase = "eliminate" /\ pos = 1 /\ phase' = "emit" /\ Frozen
    BY <1>5 DEF Eliminated, Frozen
  <2>2. BlockOK
    BY <2>1, BlockListed DEF CodeInv, Scanning
  <2>3. PICK N : Between(Start, N, 1)
    BY <2>2, StartsOK
  <2>4. Between(em, N, 1)'
    BY <1>2, <1>3, <2>1, <2>3, BetweenStays
  <2>5. (1 \in 1 .. Len(insns) + 1)'
    BY <2>1, LenProperties DEF Frozen, CodeInv, ScanInv, ScanTypeOK
  <2>6. Emitting'
    BY <2>4, <2>5 DEF Emitting
  <2>7. Listed'
    BY <2>1, FrozenListed DEF CodeInv
  <2>8. Standing'
    BY <2>1, <2>6 DEF Standing
  <2> QED BY <1>1, <1>2, <1>4, <2>7, <2>8 DEF CodeInv
<1>6. CASE (\E i \in Program : Scan(i)) \/ Mark \/ Eliminate
  <2>1. phase' \in {"scan", "mark", "eliminate"}
    BY <1>6 DEF Scan, Mark, Eliminate
  <2>2. Listed'
    BY <1>6, ScanListed, MarkListed, EliminateListed DEF CodeInv
  <2>3. Standing'
    BY <1>2, <1>3, <2>1 DEF Standing
  <2> QED BY <1>1, <1>2, <1>4, <2>2, <2>3 DEF CodeInv
<1> QED BY <1>5, <1>6 DEF ScanNext

\* Where the emitter is, or the code runs, the block is what the scan made it.
LEMMA BlockThere ==
  ASSUME CodeInv, phase \in {"emit", "run", "done"}
  PROVE  BlockOK
BY BlockListed DEF CodeInv, ScanInv, Placed, Scanning

\* An operation that runs on.
LEMMA RunKeeps ==
  ASSUME CodeInv, ScanInv', phase = "run", phase' = "run", Frozen, Running', Shown'
  PROVE  CodeInv'
<1>1. Listed'
  BY FrozenListed DEF CodeInv
<1>2. Running' => CodeTypes'
  BY RunningTyped, PTL
<1>3. Standing'
  BY DEF Standing
<1> QED BY <1>1, <1>2, <1>3 DEF CodeInv

\* One that leaves the block.
LEMMA DoneKeeps ==
  ASSUME CodeInv, ScanInv', phase = "run", phase' = "done", Frozen, Stop, em' = em, Shown'
  PROVE  CodeInv'
<1>1. Listed'
  BY FrozenListed DEF CodeInv
<1>2. CodeTypes'
  BY DEF CodeInv, CodeTypes, Stop
<1>3. Standing'
  BY DEF Standing
<1> QED BY <1>1, <1>2, <1>3 DEF CodeInv

\* No step of the translator or of the code breaks the invariant.
LEMMA CodeNextKeeps ==
  CodeInv /\ [TranslatorNext]_<<scanVars, codeVars>> => CodeInv'
<1> SUFFICES ASSUME CodeInv, [TranslatorNext]_<<scanVars, codeVars>> PROVE CodeInv'
  OBVIOUS
<1>1. ScanInv'
  BY TranslatorNextKeeps DEF CodeInv
<1>2. phase \in {"emit", "run", "done"} => BlockOK
  BY BlockThere
<1>3. phase = "run" => Running /\ ~seen.lost
  BY DEF CodeInv, Standing, Shown
<1>4. CASE ScanNext /\ UNCHANGED codeVars
  BY <1>4, PassesKeep
<1>5. CASE Emit
  <2>1. phase = "emit" /\ Emitting
    BY <1>5 DEF Emit, CodeInv, Standing
  <2>2. /\ Emitting' /\ em' \in Emitters /\ UNCHANGED <<phase, here, guest, host, seen>>
    BY <1>2, <1>5, <2>1, EmitGoes
  <2>3. Frozen
    BY <1>5 DEF Emit, scanVars, Frozen
  <2>4. Listed'
    BY <2>2, <2>3, FrozenListed DEF CodeInv
  <2>5. CodeTypes' /\ Standing'
    BY <2>1, <2>2 DEF CodeInv, CodeTypes, Standing
  <2>6. Shown'
    BY <2>1, <2>2, ShownStays DEF CodeInv
  <2> QED BY <1>1, <2>4, <2>5, <2>6 DEF CodeInv
<1>6. CASE Finish
  <2>1. phase = "emit" /\ Emitting /\ Frozen
    BY <1>6 DEF Finish, CodeInv, Standing, Frozen
  <2>2. Running' /\ phase' = "run" /\ seen' = seen
    BY <1>2, <1>6, <2>1, FinishRuns
  <2>3. Listed'
    BY <2>1, <2>2, FrozenListed DEF CodeInv
  <2>4. CodeTypes'
    BY <2>2, RunningTyped, PTL
  <2>5. Standing'
    BY <2>2 DEF Standing
  <2>6. Shown'
    BY <2>1, <2>2, ShownStays DEF CodeInv
  <2> QED BY <1>1, <2>3, <2>4, <2>5, <2>6 DEF CodeInv
<1>7. CASE Pay \/ Test
  <2>1. phase = "run"
    BY <1>7 DEF Pay, Test, Runs
  <2>2. Running' /\ UNCHANGED <<phase, seen>> /\ Frozen
    BY <1>3, <1>7, <2>1, PayRuns, TestRuns
  <2>3. Shown'
    BY <2>1, <2>2, ShownStays DEF CodeInv
  <2> QED BY <1>1, <2>1, <2>2, <2>3, RunKeeps
<1>8. CASE Execute \/ StoreWord \/ Check
  <2>1. phase = "run"
    BY <1>8 DEF Execute, StoreWord, Check, Runs
  <2>2. Running' /\ phase' = phase /\ SeenSame' /\ Frozen
    BY <1>2, <1>3, <1>8, <2>1, ExecuteRuns, StoreRuns, CheckRuns
  <2>3. \E c, g : seen' = Sight(c, g)
    BY <1>8 DEF Execute, StoreWord, Check, Look
  <2>4. Shown'
    BY <2>2, <2>3, ShownSame
  <2> QED BY <1>1, <2>1, <2>2, <2>4, RunKeeps
<1>9. CASE LeaveByBranch
  <2>1. phase = "run"
    BY <1>9 DEF LeaveByBranch, Runs
  <2>2. ((phase' = "run" /\ Running') \/ phase' = "done") /\ SeenSame' /\ Frozen
    BY <1>2, <1>3, <1>9, <2>1, BranchRuns
  <2>3. \E c, g : seen' = Sight(c, g)
    BY <1>9 DEF LeaveByBranch, Look
  <2>4. Shown'
    BY <2>2, <2>3, ShownSame
  <2>5. CASE phase' = "run"
    BY <1>1, <2>1, <2>2, <2>4, <2>5, RunKeeps
  <2>6. CASE phase' = "done"
    <3>1. Stop /\ em' = em
      BY <1>9, <2>1, <2>6 DEF LeaveByBranch, Same
    <3> QED BY <1>1, <2>1, <2>2, <2>4, <2>6, <3>1, DoneKeeps
  <2> QED BY <2>2, <2>5, <2>6
<1>10. CASE LeaveByReturn \/ RunOut
  <2>1. phase = "run" /\ Stop /\ em' = em
    BY <1>10 DEF LeaveByReturn, RunOut, Runs, Same
  <2>2. phase' = "done" /\ SeenSame' /\ Frozen
    BY <1>2, <1>3, <1>10, <2>1, ReturnRuns, TailRuns
  <2>3. \E c, g : seen' = Sight(c, g)
    BY <1>10 DEF LeaveByReturn, RunOut, Look
  <2>4. Shown'
    BY <2>2, <2>3, ShownSame
  <2> QED BY <1>1, <2>1, <2>2, <2>4, DoneKeeps
<1>11. CASE FallOff
  <2>1. phase = "run" /\ Stop /\ em' = em
    BY <1>11 DEF FallOff, Same
  <2>2. /\ EndsOnConditionalExit /\ phase' = "done" /\ Frozen
        /\ seen' = [seen EXCEPT !.lost = TRUE]
    BY <1>3, <1>11, <2>1, FallRuns
  <2>3. EndsOnConditionalExit'
    BY <2>2, LiveStays DEF EndsOnConditionalExit, ClosesBlock, Internal, Frozen
  <2>4. Shown'
    <3>1. PICK c, g, b : seen = [code |-> c, guest |-> g, lost |-> b]
      BY DEF CodeInv, Shown
    <3>2. seen' = [code |-> c, guest |-> g, lost |-> TRUE]
      BY <2>2, <3>1
    <3> QED BY <2>2, <2>3, <3>2 DEF Shown, BlockInStep
  <2> QED BY <1>1, <2>1, <2>2, <2>4, DoneKeeps
<1>12. CASE NextBlock
  <2>1. /\ insns' = <<>> /\ exits' = <<>> /\ phase' = "scan" /\ em' = Start /\ here' = 1
        /\ seen' = Sight(0, 0)
    BY <1>12 DEF NextBlock
  <2>2. Listed'
    <3>1. Len(insns') = 0 /\ Len(exits') = 0 /\ InBlock' = {}
      BY <2>1 DEF InBlock
    <3>2. Branches(Len(insns))' = {}
      BY <3>1 DEF Branches
    <3>3. Cardinality(Branches(Len(insns))') = 0
      BY <3>2, FS_EmptySet
    <3> QED BY <2>1, <3>1, <3>3 DEF Listed, Scanning
  <2>3. CodeTypes'
    <3>1. guest' = Ran([r |-> 0, z |-> FALSE, c |-> FALSE])
          /\ host' = [as |-> [r |-> 0, z |-> FALSE, c |-> FALSE], cycles |-> 0]
      BY <1>12 DEF NextBlock, Ran
    <3> QED BY <2>1, <3>1, NothingSeen DEF CodeTypes
  <2>4. Standing'
    BY <2>1 DEF Standing
  <2>5. Shown'
    BY <2>1 DEF Shown, Sight, BlockInStep
  <2> QED BY <1>1, <2>2, <2>3, <2>4, <2>5 DEF CodeInv
<1>13. CASE UNCHANGED <<scanVars, codeVars>>
  <2>1. Frozen /\ UNCHANGED <<phase, em, here, guest, host, seen>>
    BY <1>13 DEF scanVars, codeVars, Frozen
  <2>2. Listed' /\ CodeTypes'
    BY <2>1, FrozenListed DEF CodeInv, CodeTypes
  <2>3. Emitting => Emitting'
    BY <2>1, BetweenStays DEF Emitting, Frozen
  <2>4. Running => Running'
    <3> SUFFICES ASSUME NEW N, RunsOn(N) PROVE RunsOn(N)'
      BY DEF Running
    <3>1. Sound(em, N)' /\ Aims(em.code)' /\ Holds(N[here], guest, host)'
      BY <2>1, SoundStays, HoldsStays DEF RunsOn
    <3> QED BY <2>1, <3>1 DEF RunsOn, End
  <2>5. Standing'
    BY <2>1, <2>3, <2>4 DEF CodeInv, Standing
  <2>6. EndsOnConditionalExit' <=> EndsOnConditionalExit
    BY <2>1, LiveStays DEF EndsOnConditionalExit, ClosesBlock, Internal, Frozen
  <2>7. Shown'
    BY <2>1, <2>6 DEF CodeInv, Shown, BlockInStep
  <2> QED BY <1>1, <2>2, <2>5, <2>7 DEF CodeInv
<1> QED
  BY <1>4, <1>5, <1>6, <1>7, <1>8, <1>9, <1>10, <1>11, <1>12, <1>13 DEF TranslatorNext

\* The invariant holds of every block.
LEMMA CodeInvariant == TranslatorSpec => []CodeInv
BY CodeInit, CodeNextKeeps, PTL DEF TranslatorSpec

\* What the scan, the emitter and both processors hold has its type.
THEOREM TranslatorTyped == TranslatorSpec => []TranslatorTypeOK
<1>1. CodeInv => TranslatorTypeOK
  <2> SUFFICES ASSUME CodeInv PROVE TranslatorTypeOK
    OBVIOUS
  <2>1. /\ ScanTypeOK /\ em \in Emitters /\ guest \in Guests /\ host \in Hosts
        /\ here \in Nat \ {0}
    BY DEF CodeInv, CodeTypes, ScanInv
  <2>2. /\ em.count \in Nat /\ em.prepaid \in Nat /\ em.deferred \in Nat
        /\ em.const \in {0, 1, Unknown} /\ em.known \in Knowledge
    BY <2>1 DEF Emitters
  <2>3. DOMAIN em.known \subseteq Flags
    BY <2>2 DEF Knowledge
  <2> QED BY <2>1, <2>2, <2>3 DEF TranslatorTypeOK, Guests, Hosts
<1> QED BY <1>1, CodeInvariant, PTL

\* The code of a block does what the processor does that takes the instructions one by one,
\* and is in step with it wherever the block may be left (translate_block_arm).
THEOREM CodeInStep == TranslatorSpec => []BlockInStep
<1>1. CodeInv => BlockInStep
  BY DEF CodeInv, Shown
<1> QED BY <1>1, CodeInvariant, PTL
=============================================================================
