----------------------------- MODULE BlockScan -----------------------------
(* The passes over a block of ARM code that come before its translation:      *)
(* cpu_threaded.c finds where the block ends (scan_block), marks the places   *)
(* its own branches lead to, and walks it backwards to find the flags that    *)
(* nobody reads (arm_dead_flag_eliminate, RISC-V only).                       *)
(* A flag is "z" or "c"; an instruction is what it does, its condition and,   *)
(* for a branch, the place it leads to, counted from the block's start.       *)
EXTENDS Integers, Sequences

CONSTANTS
  Program,    \* the instructions that may come next
  Longest,    \* HOST_MAX_BLOCK_SIZE
  ExitSlots,  \* MAX_EXITS
  Gates,      \* translation_gate_target_pc as a place of the block; 0: none
  Leftovers   \* the marks earlier blocks may have left in block_data

Flags == {"z", "c"}
Conditions == {"al", "eq", "ne", "cs"}
Kinds == {"mov0", "mov1", "adc", "cmp", "tst", "lsl", "ldr", "mul", "str", "b", "bx"}
Instruction == [does : Kinds, on : Conditions, to : Nat]

ASSUME ScanAssumption ==
  /\ Program \subseteq Instruction
  /\ Longest \in Nat \ {0} /\ ExitSlots \in Nat \ {0}
  /\ Gates \subseteq Nat
  /\ Leftovers \subseteq SUBSET Nat

\* The flags a condition reads, and those an instruction reads, writes and may write:
\* a logical operation without a shift keeps the carry, one shifted by a register
\* writes it unless the amount is zero.
ReadsOn(on) == IF on = "al" THEN {} ELSE IF on = "cs" THEN {"c"} ELSE {"z"}
Uses(i) == IF i.does \in {"adc", "tst", "lsl"} THEN {"c"} ELSE {}
Writes(i) ==
  CASE i.does = "cmp" -> Flags [] i.does \in {"tst", "lsl"} -> {"z"} [] OTHER -> {}
MayMake(i) == IF i.does = "lsl" THEN {"c"} ELSE {}

\* Where the block may be left: branches, and stores, whose helper can raise an alert.
IsBranch(i) == i.does = "b"
IsExit(i) == i.does \in {"b", "bx"}
IsBoundary(i) == i.does = "str"

\* block_data[].flag_data: the flags to make, those surely overwritten, those read.
Makes(i) == Writes(i) \cup MayMake(i)
SureAlways(i) == Writes(i)
Sure(i) == IF i.on = "al" THEN Writes(i) ELSE {}
NeedsInside(i) == ReadsOn(i.on) \cup Uses(i) \cup (IF IsExit(i) THEN Flags ELSE {})
Needs(i) ==
  ReadsOn(i.on) \cup Uses(i) \cup (IF IsExit(i) \/ IsBoundary(i) THEN Flags ELSE {})
Status(i) == [makes |-> Makes(i), sure |-> Sure(i), needs |-> Needs(i)]
StatusType == [makes : SUBSET Flags, sure : SUBSET Flags, needs : SUBSET Flags]

VARIABLES
  phase,    \* "scan", "mark", "eliminate", "emit"; then "run" and "done"
  gate,     \* the gate of this block
  insns,    \* the instructions scanned
  status,   \* block_data[].flag_data of each
  exits,    \* block_exits[].branch_target
  labels,   \* the places whose block_data[].update_cycles is set
  pos,      \* block_data_position, counted from 1
  needed    \* needed_mask
scanVars == <<phase, gate, insns, status, exits, labels, pos, needed>>

InBlock == 1..Len(insns)
Internal(t) == t \in InBlock

ScanInit ==
  /\ phase = "scan" /\ gate \in Gates /\ labels \in Leftovers
  /\ insns = <<>> /\ status = <<>> /\ exits = <<>>
  /\ pos = 1 /\ needed = Flags

\* An unconditional exit ends the block unless an exit recorded before, the latest left
\* out, leads to the place after it.
ClosesAll(i, found) ==
  i.on = "al" /\ \A k \in 1..Len(found) - 1 : found[k] # pos + 1
StopsHere(i, found) ==
  \/ IsExit(i) /\ (ClosesAll(i, found) \/ Len(found) = ExitSlots)
  \/ pos + 1 = gate
Unmarked(k) == labels \ {k}

Scan(i) ==
  /\ phase = "scan"
  /\ insns' = Append(insns, i)
  /\ status' = Append(status, Status(i))
  /\ exits' = (IF IsBranch(i) THEN Append(exits, i.to) ELSE exits)
  /\ labels' = Unmarked(pos)
  /\ IF StopsHere(i, exits')
       THEN phase' = "mark" /\ UNCHANGED pos
       ELSE pos' = pos + 1 /\ phase' = (IF pos = Longest THEN "mark" ELSE "scan")
  /\ UNCHANGED <<gate, needed>>

\* A branch target inside the block becomes a checkpoint, where the scheduler may look
\* at the flags.
Targets == {exits[k] : k \in 1..Len(exits)} \cap 2..Len(insns)
MarkedNot(k) == status[k]
Marked(k) == IF k \in Targets THEN [status[k] EXCEPT !.needs = Flags] ELSE status[k]
Mark ==
  /\ phase = "mark"
  /\ labels' = labels \cup Targets
  /\ status' = [k \in InBlock |-> Marked(k)]
  /\ phase' = "eliminate" /\ needed' = Flags
  /\ UNCHANGED <<gate, insns, exits, pos>>

NeededSwapped(s) == (needed \cup s.needs) \ s.sure
NeededBefore(s) == (needed \ s.sure) \cup s.needs
Eliminate ==
  /\ phase = "eliminate" /\ pos > 1
  /\ pos' = pos - 1
  /\ status' = [status EXCEPT ![pos - 1].makes = @ \cap needed]
  /\ needed' = NeededBefore(status[pos - 1])
  /\ UNCHANGED <<phase, gate, insns, exits, labels>>
Eliminated ==
  /\ phase = "eliminate" /\ pos = 1
  /\ phase' = "emit"
  /\ UNCHANGED <<gate, insns, status, exits, labels, pos, needed>>

ScanNext == (\E i \in Program : Scan(i)) \/ Mark \/ Eliminate \/ Eliminated
ScanSpec == ScanInit /\ [][ScanNext]_scanVars
-----------------------------------------------------------------------------
ScanTypeOK ==
  /\ phase \in {"scan", "mark", "eliminate", "emit", "run", "done"}
  /\ gate \in Gates
  /\ insns \in Seq(Program) /\ status \in Seq(StatusType) /\ Len(status) = Len(insns)
  /\ exits \in Seq(Nat) /\ labels \subseteq Nat
  /\ pos \in Nat \ {0} /\ needed \subseteq Flags

\* What sees a flag at place k: its instruction, the world outside where the block may
\* be left, and the scheduler at a checkpoint.  At the block's end everything is seen.
SeenAt(k) ==
  IF k > Len(insns) THEN Flags
  ELSE ReadsOn(insns[k].on) \cup Uses(insns[k])
       \cup (IF IsExit(insns[k]) \/ IsBoundary(insns[k]) \/ k \in Targets
             THEN Flags ELSE {})
Overwrites(k, f) == insns[k].on = "al" /\ f \in Writes(insns[k])
LiveFrom(k) ==
  {f \in Flags : \E j \in k..Len(insns) + 1 :
     f \in SeenAt(j) /\ \A m \in k..j - 1 : ~Overwrites(m, f)}

\* A flag that something reads before it is surely overwritten is made by every
\* instruction that may write it (arm_dead_flag_eliminate drops dead flags only).
KeepsWhatIsRead ==
  phase = "emit" =>
    \A k \in InBlock : Makes(insns[k]) \cap LiveFrom(k + 1) \subseteq status[k].makes
=============================================================================
