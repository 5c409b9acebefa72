----------------------------- MODULE Translator -----------------------------
(* The translation of a block of ARM code to RISC-V (translate_block_arm and  *)
(* the emitters of riscv_emit.h), and the run of the code beside a processor  *)
(* that executes the instructions one by one.  Code is a sequence of          *)
(* operations that charge cycles: those of an instruction are put off,        *)
(* prepaid, or charged where they must be seen.  The guest has one register,  *)
(* "r" (0 or 1), and the flags; CMP compares it with 1, ADC puts the carry in *)
(* it, TST tests it, LSL shifts by it and drops the result.                   *)
EXTENDS BlockScan, FiniteSets

VARIABLES
  em,     \* what translate_block_arm holds while it emits
  here,     \* the operation that runs
  guest,  \* the processor that executes one instruction at a time
  host,   \* the processor as the code has it
  seen    \* what was last seen of each
codeVars == <<em, here, guest, host, seen>>

Unknown == 2
Always == [on |-> "al", marks |-> {}]
\* block_data[].condition: an exit or a boundary (0x10) and a writer of flags (0x20).
ConditionUngated(k) ==
  [on |-> insns[k].on,
   marks |-> (IF IsExit(insns[k]) THEN {"exit"} ELSE {})
             \cup (IF Writes(insns[k]) # {} THEN {"sets"} ELSE {})]
Condition(k) ==
  [on |-> insns[k].on,
   marks |-> (IF IsExit(insns[k]) \/ IsBoundary(insns[k]) THEN {"exit"} ELSE {})
             \cup (IF Writes(insns[k]) # {} THEN {"sets"} ELSE {})]
Passes(on, flags) ==
  CASE on = "eq" -> flags["z"] [] on = "ne" -> ~flags["z"] [] on = "cs" -> flags["c"]
    [] OTHER -> TRUE
NoFlags == [f \in {} |-> FALSE]

Start ==
  [code |-> <<>>, begins |-> <<>>, count |-> 0, prepaid |-> 0, deferred |-> 0,
   last |-> Always, as |-> Always, hole |-> 0, skip |-> FALSE, const |-> Unknown,
   known |-> NoFlags, slot |-> 1, source |-> <<>>, closed |-> FALSE]

Operation(op, k, pay) ==
  [op |-> op, of |-> k, pay |-> pay, on |-> "al", to |-> 0, keep |-> {}]
Out(e, op) == [e EXCEPT !.code = Append(@, op)]
Charge(e, n) == IF n = 0 THEN e ELSE Out(e, Operation("charge", 0, n))

\* The end of a conditional run: the loads of its body are charged inside it, then the
\* branch over the body is patched.
CloseUnpaid(e) ==
  IF e.last.on = "al" THEN e ELSE [e EXCEPT !.code[e.hole].to = Len(e.code) + 1]
Close(e) ==
  IF e.last.on = "al" THEN e
  ELSE LET paid == Charge(e, e.deferred)
       IN [paid EXCEPT !.code[e.hole].to = Len(paid.code) + 1, !.deferred = 0]

\* generate_cycle_update: nothing, unless there are cycles to charge.
Checkpoint(e, k) ==
  IF e.count = 0 THEN e
  ELSE [Out(e, Operation("check", k, e.count)) EXCEPT !.count = 0]

\* riscv_arm_base_cycles: one for the fetch, unless the head of the run has paid it.
Fetched(e) ==
  LET begun == [e EXCEPT !.begins = Append(@, Len(e.code) + 1)]
  IN IF e.prepaid > 0 THEN [begun EXCEPT !.prepaid = @ - 1]
     ELSE [begun EXCEPT !.count = @ + 1]

\* riscv_arm_condition_known_check: a condition whose flags are known is settled now.
Settled(e, k) ==
  LET on == insns[k].on
      decided == on # "al" /\ ReadsOn(on) \subseteq DOMAIN e.known
  IN IF decided
     THEN [Close(e) EXCEPT !.last = Always, !.as = Always, !.skip = ~Passes(on, e.known)]
     ELSE [e EXCEPT !.as = Condition(k), !.skip = FALSE]

\* The instructions after k that run under the gate opened at k, whose fetches it prepays.
SameRun(e, k) ==
  IF e.as.marks # {} THEN {}
  ELSE {j \in k + 1..Len(insns) :
          \A m \in k + 1..j : m \notin labels /\ Condition(m) = e.as}
Opened(e, k) ==
  LET more == Cardinality(SameRun(e, k))
      gated == Out(e, [Operation("gate", k, e.count + more) EXCEPT !.on = e.as.on])
  IN [gated EXCEPT !.hole = Len(gated.code), !.count = 0, !.prepaid = @ + more]
Headed(e, k) ==
  IF e.skip \/ (e.as = e.last /\ e.as.marks = {}) THEN e
  ELSE LET c == [Close(e) EXCEPT !.last = e.as]
       IN IF e.as.on = "al" THEN c ELSE Opened(c, k)

\* A skipped branch makes no patch site but takes its slot.
Skipped(e, k) ==
  IF IsBranch(insns[k]) THEN [e EXCEPT !.slot = @ + 1, !.source = Append(@, 0)] ELSE e

Body(e, k, pay) ==
  [Out(e, [Operation("body", k, pay) EXCEPT !.keep = status[k].makes]) EXCEPT !.count = 0]
Forgotten(e) == [e EXCEPT !.const = Unknown, !.known = NoFlags]

\* What is known of the flags after a test of a known register.
Tested(e, k) ==
  IF e.as.on # "al" \/ e.const = Unknown THEN NoFlags
  ELSE IF insns[k].does = "cmp" THEN [f \in Flags |-> e.const = 1]
  ELSE [f \in {"z"} |-> e.const = 0]

\* Data processing leaves its cycles to the next operation that charges some, unless it
\* ends the block.
DataProc(e, k) ==
  LET op == insns[k].does
      sure == e.as.on = "al"
      done == IF k = Len(insns) THEN Body(e, k, e.count)
              ELSE [Body(e, k, 0) EXCEPT !.count = e.count]
  IN CASE op = "mov0" -> [done EXCEPT !.const = IF sure THEN 0 ELSE Unknown]
       [] op = "mov1" -> [done EXCEPT !.const = IF sure THEN 1 ELSE Unknown]
       [] op = "adc" -> [done EXCEPT !.const = Unknown]
       [] op = "lsl" -> [done EXCEPT !.known = NoFlags]
       [] OTHER -> [done EXCEPT !.known = Tested(e, k)]

EmitLoad(e, k) ==
  LET done == [Body(e, k, 0) EXCEPT !.count = e.count, !.const = Unknown]
  IN IF e.as.on = "al" THEN [done EXCEPT !.count = @ + 2]
     ELSE [done EXCEPT !.deferred = @ + 2]
EmitMultiply(e, k) == Body(e, k, e.count + 2)
EmitStore(e, k) == [Out(e, Operation("store", k, e.count + 1)) EXCEPT !.count = 0]

\* A branch takes the next slot of block_exits; one out of the block that is its last
\* instruction closes the block (riscv_mark_block_no_fallthrough).
ClosesBlock(k) == k = Len(insns) /\ ~Internal(insns[k].to)
EmitBranch(e, k) ==
  LET gone == Out(Forgotten(e), Operation("leave", k, e.count))
  IN [gone EXCEPT !.count = 0, !.slot = @ + 1, !.source = Append(@, Len(gone.code)),
                  !.closed = @ \/ ClosesBlock(k)]
EmitReturn(e, k) == [Out(Forgotten(e), Operation("return", k, e.count)) EXCEPT !.count = 0]

Translated(e, k) ==
  LET op == insns[k].does
  IN CASE e.skip -> Skipped(e, k)
       [] ~e.skip /\ op = "ldr" -> EmitLoad(e, k)
       [] ~e.skip /\ op = "mul" -> EmitMultiply(e, k)
       [] ~e.skip /\ op = "str" -> EmitStore(e, k)
       [] ~e.skip /\ op = "b" -> EmitBranch(e, k)
       [] ~e.skip /\ op = "bx" -> EmitReturn(e, k)
       [] OTHER -> DataProc(e, k)

\* Before a place that is branched to, the paths are joined and the scheduler has its say.
JoinedBefore(e, k) ==
  IF k > Len(insns) \/ k \notin labels THEN e
  ELSE Checkpoint(Forgotten([Close(e) EXCEPT !.last = Always]), k)

TranslateInsn(e, k) == JoinedBefore(Translated(Headed(Settled(Fetched(e), k), k), k), k + 1)

Emit ==
  /\ phase = "emit" /\ Len(em.begins) < Len(insns)
  /\ em' = TranslateInsn(em, Len(em.begins) + 1)
  /\ UNCHANGED <<scanVars, here, guest, host, seen>>

\* riscv_emit_block_finalize: the tail that leaves for the place after the block, unless
\* the code ends in one already or is closed and no store needs it.
Stores(code) == \E j \in 1..Len(code) : code[j].op = "store"
Tailed(e) ==
  LET code == e.code
  IN IF \/ code[Len(code)].op = "return"
        \/ e.closed /\ ~Stores(code)
     THEN e ELSE Out(e, Operation("tail", Len(insns) + 1, 0))
\* Every patch site gets the target of its slot.
SlotsPatched(e) ==
  [e EXCEPT !.code = [j \in 1..Len(e.code) |->
     IF \E s \in 1..Len(e.source) : e.source[s] = j
     THEN [e.code[j] EXCEPT !.to = exits[CHOOSE s \in 1..Len(e.source) : e.source[s] = j]]
     ELSE e.code[j]]]

Processors == [r : {0, 1}, z : BOOLEAN, c : BOOLEAN]
View(k, p, n) == [pc |-> k, as |-> p, cycles |-> n]
Sight(code, processor) == [code |-> code, guest |-> processor, lost |-> FALSE]
Ran(p) == [pc |-> 1, as |-> p, cycles |-> 0]

Finish ==
  /\ phase = "emit" /\ Len(em.begins) = Len(insns)
  /\ em' = SlotsPatched(Tailed(Checkpoint(Close(em), Len(insns) + 1)))
  /\ phase' = "run" /\ here' = 1
  /\ \E p \in Processors : guest' = Ran(p) /\ host' = [as |-> p, cycles |-> 0]
  /\ UNCHANGED <<gate, insns, status, exits, labels, pos, needed, seen>>
-----------------------------------------------------------------------------
(* The processor that executes one instruction at a time, at the recompiler's *)
(* prices: each instruction it comes to costs a fetch, one that is executed   *)
(* also what its access or its multiplication takes.                          *)
Comes(k) == k > Len(insns) \/ Passes(insns[k].on, guest.as)
NextRun ==
  CHOOSE k \in guest.pc..Len(insns) + 1 :
    Comes(k) /\ \A j \in guest.pc..k - 1 : ~Comes(j)
\* Where it is when the code says it is at k: there, or at what it executes before.
Reached(k) == IF guest.pc <= k /\ k <= NextRun THEN k ELSE NextRun
Extra(k) ==
  CASE insns[k].does \in {"ldr", "mul"} -> 2 [] insns[k].does = "str" -> 1 [] OTHER -> 0
Passed(k) == guest.cycles + k - guest.pc
Executed(k) == Passed(k) + 1 + Extra(k)

\* The processor p after an instruction; v is the word a load reads.
Effect(i, p, v) ==
  CASE i.does = "mov0" -> [p EXCEPT !.r = 0]
    [] i.does = "mov1" -> [p EXCEPT !.r = 1]
    [] i.does = "ldr" -> [p EXCEPT !.r = v]
    [] i.does = "adc" -> [p EXCEPT !.r = IF p.c THEN 1 ELSE 0]
    [] i.does = "cmp" -> [p EXCEPT !.z = p.r = 1, !.c = p.r = 1]
    [] i.does = "tst" -> [p EXCEPT !.z = p.r = 0]
    [] i.does = "lsl" -> [p EXCEPT !.z = p.r = 0, !.c = p.c /\ p.r = 0]
    [] OTHER -> p

\* The code makes the flags it keeps; an arithmetic instruction that makes some leaves
\* anything in those it does not keep.
Spoils(i, keep) == IF i.does = "cmp" /\ keep # {} THEN Flags \ keep ELSE {}
Outcomes(op, v) ==
  LET p == host.as
      q == Effect(insns[op.of], p, v)
      spoilt == Spoils(insns[op.of], op.keep)
      Flag(f) == IF f \in spoilt THEN BOOLEAN ELSE IF f \in op.keep THEN {q[f]} ELSE {p[f]}
  IN {[r |-> q.r, z |-> z, c |-> c] : z \in Flag("z"), c \in Flag("c")}

Now == em.code[here]
Runs(op) == phase = "run" /\ here <= Len(em.code) /\ Now.op = op
Paid == host.cycles + Now.pay
Same == UNCHANGED <<gate, insns, status, exits, labels, pos, needed, em>>

Pay ==
  /\ Runs("charge")
  /\ host' = [host EXCEPT !.cycles = Paid] /\ here' = here + 1
  /\ UNCHANGED <<phase, guest, seen>> /\ Same

Test ==
  /\ Runs("gate")
  /\ host' = [host EXCEPT !.cycles = Paid]
  /\ here' = (IF Passes(Now.on, host.as) THEN here + 1 ELSE Now.to)
  /\ UNCHANGED <<phase, guest, seen>> /\ Same

Execute ==
  /\ Runs("body")
  /\ \E v \in {0, 1} :
       /\ guest' = [pc |-> Now.of + 1, as |-> Effect(insns[Now.of], guest.as, v),
                    cycles |-> Executed(Now.of)]
       /\ \E p \in Outcomes(Now, v) : host' = [as |-> p, cycles |-> Paid]
  /\ seen' = Sight(Now.of, NextRun)
  /\ here' = here + 1
  /\ UNCHANGED phase /\ Same

\* Where the world outside may look: place, register, flags and cycles of both.
Look(codeAt, guestAt, cycles) ==
  seen' = Sight(View(codeAt, host.as, Paid), View(guestAt, guest.as, cycles))
Resume(k, next) ==
  /\ guest' = [Ran(guest.as) EXCEPT !.pc = k]
  /\ host' = [host EXCEPT !.cycles = 0] /\ here' = next
Stop == phase' = "done" /\ UNCHANGED <<here, guest, host>>

\* A store may raise an alert, which leaves through the tail.
HasTail == em.code[Len(em.code)].op \in {"tail", "return"}
StoreWord ==
  LET k == Now.of IN
  /\ Runs("store")
  /\ Look(IF HasTail THEN k + 1 ELSE 0, IF NextRun = k THEN k + 1 ELSE NextRun, Executed(k))
  /\ Resume(k + 1, here + 1)
  /\ UNCHANGED phase /\ Same

Check ==
  /\ Runs("check")
  /\ Look(Now.of, Reached(Now.of), Passed(Now.of))
  /\ Resume(Now.of, here + 1)
  /\ UNCHANGED phase /\ Same

LeaveByBranch ==
  LET k == Now.of IN
  /\ Runs("leave")
  /\ Look(Now.to, IF NextRun = k THEN insns[k].to ELSE NextRun, Executed(k))
  /\ IF Internal(Now.to)
       THEN Resume(Now.to, em.begins[Now.to]) /\ UNCHANGED phase
       ELSE Stop
  /\ Same

LeaveByReturn ==
  LET k == Now.of IN
  /\ Runs("return")
  /\ Look(k, NextRun, Executed(k))
  /\ Stop /\ Same

RunOut ==
  /\ Runs("tail")
  /\ Look(Now.of, Reached(Now.of), Passed(Now.of))
  /\ Stop /\ Same

\* Past the last operation lies whatever the cache holds there.
FallOff ==
  /\ phase = "run" /\ here > Len(em.code)
  /\ seen' = [seen EXCEPT !.lost = TRUE]
  /\ Stop /\ Same

\* The next block: block_data keeps the marks that no scan has cleared.
NextBlock ==
  /\ phase = "done"
  /\ phase' = "scan" /\ gate' \in Gates /\ labels' \in Leftovers
  /\ insns' = <<>> /\ status' = <<>> /\ exits' = <<>> /\ pos' = 1 /\ needed' = Flags
  /\ em' = Start /\ here' = 1
  /\ guest' = Ran([r |-> 0, z |-> FALSE, c |-> FALSE])
  /\ host' = [as |-> guest'.as, cycles |-> 0]
  /\ seen' = Sight(0, 0)

TranslatorInit ==
  /\ ScanInit
  /\ em = Start /\ here = 1
  /\ guest = Ran([r |-> 0, z |-> FALSE, c |-> FALSE])
  /\ host = [as |-> guest.as, cycles |-> 0]
  /\ seen = Sight(0, 0)
TranslatorNext ==
  \/ ScanNext /\ UNCHANGED codeVars
  \/ Emit \/ Finish
  \/ Pay \/ Test \/ Execute \/ StoreWord \/ Check
  \/ LeaveByBranch \/ LeaveByReturn \/ RunOut \/ FallOff
  \/ NextBlock
TranslatorSpec == TranslatorInit /\ [][TranslatorNext]_<<scanVars, codeVars>>
-----------------------------------------------------------------------------
TranslatorTypeOK ==
  /\ ScanTypeOK
  /\ here \in Nat \ {0} /\ em.count \in Nat /\ em.prepaid \in Nat /\ em.deferred \in Nat
  /\ em.const \in {0, 1, Unknown} /\ DOMAIN em.known \subseteq Flags
  /\ guest.as \in Processors /\ host.as \in Processors
  /\ guest.cycles \in Nat /\ host.cycles \in Nat

\* A block that ends in a conditional exit has no way on when the exit is not taken.
EndsOnConditionalExit ==
  LET i == insns[Len(insns)]
  IN i.on # "al" /\ (i.does = "bx" \/ (IsBranch(i) /\ ClosesBlock(Len(insns))))

\* What the code executes is what a processor executes that takes the instructions one by
\* one, and wherever the block may be left - a branch, a store, a checkpoint, its end -
\* place, register, flags and cycles are that processor's.  (translate_block_arm.  The code
\* runs past its end only where a block ends on a conditional exit.)
BlockInStep ==
  IF seen.lost THEN EndsOnConditionalExit ELSE seen.code = seen.guest
=============================================================================
