----------------------------- MODULE BlocksProofs -----------------------------
(* Blocks of translated code.  Of their translation (Translator): no flag     *)
(* that something reads is dropped, for every program, length of block,       *)
(* number of exits, gate and marks left over.  Of the way from one to the     *)
(* next (Dispatch): native code is the translation of where the game is, for  *)
(* every program and size of the caches.                                      *)
EXTENDS Translator, Dispatch, SequenceTheorems, WellFoundedInduction, TLAPS

Scanning == phase \in {"scan", "mark"}

\* Where the walk stands: after the last instruction, or on it, and before it at the end.
Placed ==
  /\ pos \in 1..Len(insns) + 1
  /\ phase = "scan" => pos = Len(insns) + 1
  /\ phase \in {"emit", "run", "done"} => pos = 1

\* What is noted of an instruction: its own flags, all of them needed where a branch leads.
Noted ==
  \A k \in InBlock :
    /\ status[k].sure = Sure(insns[k])
    /\ status[k].needs = IF ~Scanning /\ k \in Targets THEN Flags ELSE Needs(insns[k])

\* An instruction the walk has not come to makes all it can, one behind it what is read.
Untouched ==
  \A k \in InBlock : Scanning \/ k < pos => status[k].makes = Makes(insns[k])
Walked ==
  ~Scanning =>
    \A k \in InBlock :
      k >= pos => Makes(insns[k]) \cap LiveFrom(k + 1) \subseteq status[k].makes
Awaited == phase = "eliminate" => LiveFrom(pos) \subseteq needed

ScanInv == ScanTypeOK /\ Placed /\ Noted /\ Untouched /\ Walked /\ Awaited
-----------------------------------------------------------------------------
\* The flags of an instruction are flags, and what is noted of one is well typed.
LEMMA StatusTyped ==
  ASSUME NEW i \in Instruction
  PROVE  /\ Makes(i) \subseteq Flags /\ Sure(i) \subseteq Flags /\ Needs(i) \subseteq Flags
         /\ Status(i) \in StatusType
         /\ Status(i).makes = Makes(i) /\ Status(i).sure = Sure(i)
         /\ Status(i).needs = Needs(i)
<1>1. ReadsOn(i.on) \subseteq Flags /\ Uses(i) \subseteq Flags
  BY DEF ReadsOn, Uses, Flags
<1>2. Writes(i) \subseteq Flags /\ MayMake(i) \subseteq Flags
  BY DEF Writes, MayMake, Flags
<1>3. Makes(i) \subseteq Flags /\ Sure(i) \subseteq Flags /\ Needs(i) \subseteq Flags
  BY <1>1, <1>2 DEF Makes, Sure, Needs
<1> QED
  BY <1>3 DEF Status, StatusType

\* Before an instruction is live what it reads, and what is live after it unless the
\* instruction overwrites it.
LEMMA LiveBefore ==
  ASSUME ScanTypeOK, NEW k \in InBlock
  PROVE  LiveFrom(k) \subseteq SeenAt(k) \cup {f \in LiveFrom(k + 1) : ~Overwrites(k, f)}
<1> SUFFICES ASSUME NEW f \in LiveFrom(k), f \notin SeenAt(k)
             PROVE  f \in LiveFrom(k + 1) /\ ~Overwrites(k, f)
  OBVIOUS
<1>1. k \in Nat /\ Len(insns) \in Nat
  BY LenProperties DEF ScanTypeOK, InBlock
<1>2. PICK j \in k..Len(insns) + 1 :
        f \in SeenAt(j) /\ \A m \in k..j - 1 : ~Overwrites(m, f)
  BY DEF LiveFrom
<1>3. j \in k + 1..Len(insns) + 1
  BY <1>1, <1>2
<1>4. k \in k..j - 1 /\ k + 1..j - 1 \subseteq k..j - 1
  BY <1>1, <1>3
<1>5. f \in Flags
  BY DEF LiveFrom
<1> QED
  BY <1>2, <1>3, <1>4, <1>5 DEF LiveFrom

\* Only flags are live.
LEMMA LiveFlags == \A k : LiveFrom(k) \subseteq Flags
BY DEF LiveFrom

\* A block begins with nothing scanned.
LEMMA ScanInitInv == ScanInit => ScanInv
<1> SUFFICES ASSUME ScanInit PROVE ScanInv
  OBVIOUS
<1>1. Len(insns) = 0 /\ Len(status) = 0 /\ InBlock = {}
  BY DEF ScanInit, InBlock
<1>2. ScanTypeOK
  BY ScanAssumption, EmptySeq DEF ScanInit, ScanAssumption, ScanTypeOK
<1> QED
  BY <1>1, <1>2 DEF ScanInit, ScanInv, Placed, Noted, Untouched, Walked, Awaited, Scanning
-----------------------------------------------------------------------------
\* An instruction scanned is noted as it is.
LEMMA ScanKeeps ==
  ASSUME ScanInv, NEW i \in Program, Scan(i)
  PROVE  ScanInv'
<1> USE DEF InBlock
<1>1. ScanTypeOK /\ phase = "scan" /\ pos = Len(insns) + 1 /\ Len(insns) \in Nat
      /\ Len(status) = Len(insns)
  BY LenProperties DEF ScanInv, Placed, Scan, ScanTypeOK
<1>2. i \in Instruction /\ i.to \in Nat
  BY ScanAssumption DEF ScanAssumption, Instruction
<1>3. /\ insns' \in Seq(Program) /\ Len(insns') = pos /\ insns'[pos] = i
      /\ \A k \in 1..Len(insns) : insns'[k] = insns[k]
  BY <1>1, AppendProperties DEF Scan, ScanTypeOK
<1>4. /\ status' \in Seq(StatusType) /\ Len(status') = pos /\ status'[pos] = Status(i)
      /\ \A k \in 1..Len(insns) : status'[k] = status[k]
  BY <1>1, <1>2, StatusTyped, AppendProperties DEF Scan, ScanTypeOK
<1>5. exits' \in Seq(Nat)
  BY <1>1, <1>2, AppendProperties DEF Scan, ScanTypeOK
<1>6. phase' \in {"scan", "mark"} /\ pos' \in {pos, pos + 1}
      /\ (phase' = "scan" => pos' = pos + 1)
  BY <1>1 DEF Scan
<1>7. ScanTypeOK'
  <2>1. gate' = gate /\ needed' = needed /\ labels' \subseteq labels
    BY DEF Scan, Unmarked
  <2> QED
    BY <1>1, <1>3, <1>4, <1>5, <1>6, <2>1 DEF ScanTypeOK
<1>8. Placed'
  BY <1>1, <1>3, <1>6 DEF Placed
<1>9. Noted' /\ Untouched'
  <2> SUFFICES ASSUME NEW k \in 1..pos
               PROVE  /\ status'[k].sure = Sure(insns'[k])
                      /\ status'[k].needs = Needs(insns'[k])
                      /\ status'[k].makes = Makes(insns'[k])
    BY <1>3, <1>6 DEF Noted, Untouched, Scanning
  <2>1. CASE k = pos
    BY <2>1, <1>2, <1>3, <1>4, StatusTyped
  <2>2. CASE k # pos
    <3>1. k \in 1..Len(insns)
      BY <2>2, <1>1
    <3> QED
      BY <3>1, <1>1, <1>3, <1>4 DEF ScanInv, Noted, Untouched, Scanning
  <2> QED
    BY <2>1, <2>2
<1>10. Walked' /\ Awaited'
  BY <1>6 DEF Walked, Awaited, Scanning
<1> QED
  BY <1>7, <1>8, <1>9, <1>10 DEF ScanInv

\* Marking the targets asks for all flags there.
LEMMA MarkKeeps ==
  ASSUME ScanInv, Mark
  PROVE  ScanInv'
<1> USE DEF InBlock
<1>1. ScanTypeOK /\ phase = "mark" /\ phase' = "eliminate" /\ Len(insns) \in Nat
      /\ Len(status) = Len(insns) /\ needed' = Flags
      /\ UNCHANGED <<gate, insns, exits, pos, Targets>>
  BY LenProperties DEF ScanInv, ScanTypeOK, Mark, Targets
<1>2. \A k \in InBlock :
        /\ Marked(k) \in StatusType
        /\ Marked(k).makes = status[k].makes /\ Marked(k).sure = status[k].sure
        /\ Marked(k).needs = IF k \in Targets THEN Flags ELSE status[k].needs
  <2> SUFFICES ASSUME NEW k \in InBlock
               PROVE  /\ Marked(k) \in StatusType
                      /\ Marked(k).makes = status[k].makes /\ Marked(k).sure = status[k].sure
                      /\ Marked(k).needs = IF k \in Targets THEN Flags ELSE status[k].needs
    OBVIOUS
  <2>1. status[k] \in StatusType
    BY <1>1, ElementOfSeq DEF ScanTypeOK
  <2> QED
    BY <2>1 DEF Marked, StatusType
<1>3. /\ status' \in Seq(StatusType) /\ Len(status') = Len(insns)
      /\ \A k \in InBlock : status'[k] = Marked(k)
  BY <1>1, <1>2 DEF Mark
<1>4. ScanTypeOK'
  <2>1. Targets \subseteq Nat
    BY <1>1 DEF Targets
  <2>2. labels' = labels \cup Targets
    BY DEF Mark
  <2> QED
    BY <1>1, <1>3, <2>1, <2>2 DEF ScanTypeOK
<1>5. Placed'
  BY <1>1 DEF ScanInv, Placed
<1>6. Noted' /\ Untouched'
  BY <1>1, <1>2, <1>3 DEF ScanInv, Noted, Untouched, Scanning
<1>7. Walked'
  BY <1>1, <1>2, <1>3 DEF ScanInv, Untouched, Walked, Scanning
<1>8. Awaited'
  BY <1>1 DEF Awaited, LiveFrom
<1> QED
  BY <1>4, <1>5, <1>6, <1>7, <1>8 DEF ScanInv

\* A step of the walk keeps what is read after the instruction, and finds what is read
\* before it.
LEMMA EliminateKeeps ==
  ASSUME ScanInv, Eliminate
  PROVE  ScanInv'
<1> DEFINE k == pos - 1
<1> USE DEF InBlock
<1>1. /\ ScanTypeOK /\ phase = "eliminate" /\ phase' = "eliminate"
      /\ Len(insns) \in Nat /\ Len(status) = Len(insns)
      /\ k \in InBlock /\ pos = k + 1 /\ pos' = k
      /\ UNCHANGED <<gate, insns, exits, labels>>
  BY LenProperties DEF ScanInv, ScanTypeOK, Placed, Eliminate
<1>2. status[k] \in StatusType /\ insns[k] \in Instruction
  BY <1>1, ElementOfSeq, ScanAssumption DEF ScanTypeOK, ScanAssumption
<1>3. /\ status[k].makes = Makes(insns[k]) /\ status[k].sure = Sure(insns[k])
      /\ status[k].needs = IF k \in Targets THEN Flags ELSE Needs(insns[k])
  BY <1>1 DEF ScanInv, Noted, Untouched, Scanning
<1>4. LiveFrom(k + 1) \subseteq needed
  BY <1>1 DEF ScanInv, Awaited
<1> DEFINE new == [status[k] EXCEPT !.makes = @ \cap needed]
<1>5. /\ new \in StatusType /\ new.makes = status[k].makes \cap needed
      /\ new.sure = status[k].sure /\ new.needs = status[k].needs
  BY <1>2 DEF StatusType
<1>6. status' = [status EXCEPT ![k] = new]
  BY <1>1 DEF Eliminate
<1>7. /\ status' \in Seq(StatusType) /\ Len(status') = Len(insns)
      /\ status'[k] = new /\ \A j \in InBlock : j # k => status'[j] = status[j]
  <2> HIDE DEF new, k
  <2> QED
    BY <1>1, <1>5, <1>6, ExceptSeq DEF ScanTypeOK
<1>8. UNCHANGED Targets /\ \A j : LiveFrom(j)' = LiveFrom(j)
  BY <1>1 DEF Targets, LiveFrom, SeenAt, Overwrites
<1> HIDE DEF new, k
<1>9. ScanTypeOK'
  <2>1. needed' \subseteq Flags
    <3>1. needed' = (needed \ status[pos - 1].sure) \cup status[pos - 1].needs
      BY DEF Eliminate, NeededBefore
    <3> QED
      BY <1>1, <1>2, <3>1 DEF StatusType, ScanTypeOK, k
  <2> QED
    BY <1>1, <1>7, <2>1 DEF ScanTypeOK
<1>10. Placed'
  BY <1>1 DEF Placed
<1>11. Noted'
  <2> SUFFICES ASSUME NEW j \in InBlock
               PROVE  /\ status'[j].sure = Sure(insns[j])
                      /\ status'[j].needs = IF j \in Targets THEN Flags ELSE Needs(insns[j])
    BY <1>1, <1>8 DEF Noted, Scanning
  <2>1. status'[j].sure = status[j].sure /\ status'[j].needs = status[j].needs
    BY <1>5, <1>7
  <2> QED
    BY <1>1, <2>1 DEF ScanInv, Noted, Scanning
<1>12. Untouched'
  BY <1>1, <1>7, SMTT(30) DEF ScanInv, Untouched, Scanning
<1>13. Walked'
  <2> SUFFICES ASSUME NEW j \in InBlock, j >= k
               PROVE  Makes(insns[j]) \cap LiveFrom(j + 1) \subseteq status'[j].makes
    BY <1>1, <1>8 DEF Walked, Scanning
  <2>1. CASE j = k
    BY <2>1, <1>3, <1>4, <1>5, <1>7
  <2>2. CASE j # k
    <3>1. j >= pos /\ status'[j] = status[j]
      BY <2>2, <1>1, <1>7
    <3> QED
      BY <3>1, <1>1 DEF ScanInv, Walked, Scanning
  <2> QED
    BY <2>1, <2>2
<1>14. Awaited'
  <2>1. needed' = (needed \ Sure(insns[k])) \cup status[k].needs
    BY <1>1, <1>3 DEF Eliminate, NeededBefore, k
  <2>2. SeenAt(k) \subseteq status[k].needs
    <3>1. ~(k > Len(insns))
      BY <1>1
    <3>2. SeenAt(k) = ReadsOn(insns[k].on) \cup Uses(insns[k])
             \cup (IF IsExit(insns[k]) \/ IsBoundary(insns[k]) \/ k \in Targets
                   THEN Flags ELSE {})
      BY <3>1 DEF SeenAt
    <3>3. ReadsOn(insns[k].on) \subseteq Flags /\ Uses(insns[k]) \subseteq Flags
      BY DEF ReadsOn, Uses, Flags
    <3> QED
      BY <1>3, <3>2, <3>3 DEF Needs
  <2>3. \A f \in LiveFrom(k + 1) : ~Overwrites(k, f) => f \notin Sure(insns[k])
    BY DEF Overwrites, Sure
  <2>4. LiveFrom(k) \subseteq needed'
    BY <1>1, <1>4, <2>1, <2>2, <2>3, LiveBefore
  <2> QED
    BY <1>1, <1>8, <2>4 DEF Awaited
<1> QED
  BY <1>9, <1>10, <1>11, <1>12, <1>13, <1>14 DEF ScanInv

\* From the end of the walk on, nothing of the scan changes.
LEMMA FrameKeeps ==
  ASSUME ScanInv,
         UNCHANGED <<gate, insns, status, exits, labels, pos, needed>>,
         \/ phase' = phase
         \/ phase = "eliminate" /\ pos = 1 /\ phase' = "emit"
         \/ phase \in {"emit", "run", "done"} /\ phase' \in {"emit", "run", "done"}
  PROVE  ScanInv'
<1>1. UNCHANGED <<InBlock, Targets>> /\ \A j : LiveFrom(j)' = LiveFrom(j)
  BY DEF InBlock, Targets, LiveFrom, SeenAt, Overwrites
<1>2. ScanTypeOK'
  BY DEF ScanInv, ScanTypeOK
<1>3. Scanning' = Scanning
  BY DEF Scanning
<1>4. Placed'
  BY DEF ScanInv, Placed
<1>5. Noted' /\ Untouched' /\ Walked'
  BY <1>1, <1>3 DEF ScanInv, Noted, Untouched, Walked
<1>6. Awaited'
  BY <1>1 DEF ScanInv, Awaited
<1> QED
  BY <1>2, <1>4, <1>5, <1>6 DEF ScanInv

\* No step of the scan breaks the invariant.
LEMMA ScanNextKeeps == ScanInv /\ [ScanNext]_scanVars => ScanInv'
<1> SUFFICES ASSUME ScanInv, [ScanNext]_scanVars
             PROVE  ScanInv'
  OBVIOUS
<1>1. CASE \E i \in Program : Scan(i)
  BY <1>1, ScanKeeps
<1>2. CASE Mark
  BY <1>2, MarkKeeps
<1>3. CASE Eliminate
  BY <1>3, EliminateKeeps
<1>4. CASE Eliminated
  BY <1>4, FrameKeeps DEF Eliminated
<1>5. CASE UNCHANGED scanVars
  BY <1>5, FrameKeeps DEF scanVars
<1> QED
  BY <1>1, <1>2, <1>3, <1>4, <1>5 DEF ScanNext

\* At the end of the walk the invariant says that what is read is made.
LEMMA ScanInvKeeps == ScanInv => KeepsWhatIsRead
<1> SUFFICES ASSUME ScanInv, phase = "emit", NEW k \in InBlock
             PROVE  Makes(insns[k]) \cap LiveFrom(k + 1) \subseteq status[k].makes
  BY DEF KeepsWhatIsRead
<1>1. pos = 1 /\ k >= pos /\ ~Scanning
  BY LenProperties DEF ScanInv, ScanTypeOK, Placed, InBlock, Scanning
<1> QED
  BY <1>1 DEF ScanInv, Walked

\* The walk over a block drops no flag that something reads (arm_dead_flag_eliminate).
THEOREM DropsDeadFlagsOnly == ScanSpec => []KeepsWhatIsRead
<1> QED
  BY ScanInitInv, ScanNextKeeps, ScanInvKeeps, PTL DEF ScanSpec
-----------------------------------------------------------------------------
\* The emitter and the code it makes leave the scan alone, until the next block.
LEMMA TranslatorNextKeeps ==
  ScanInv /\ [TranslatorNext]_<<scanVars, codeVars>> => ScanInv'
<1> SUFFICES ASSUME ScanInv, [TranslatorNext]_<<scanVars, codeVars>>
             PROVE  ScanInv'
  OBVIOUS
<1>1. CASE ScanNext
  BY <1>1, ScanNextKeeps
<1>2. CASE Emit \/ UNCHANGED <<scanVars, codeVars>>
  BY <1>2, FrameKeeps DEF Emit, scanVars
<1>3. CASE Finish
  BY <1>3, FrameKeeps DEF Finish
<1>4. CASE Pay \/ Test \/ Execute \/ StoreWord \/ Check
  BY <1>4, FrameKeeps DEF Pay, Test, Execute, StoreWord, Check, Same
<1>5. CASE LeaveByBranch \/ LeaveByReturn \/ RunOut \/ FallOff
  <2>1. phase = "run" /\ phase' \in {"run", "done"} /\ Same
    BY <1>5, Zenon DEF LeaveByBranch, LeaveByReturn, RunOut, FallOff, Runs, Stop
  <2> QED
    BY <2>1, FrameKeeps DEF Same
<1>6. CASE NextBlock
  <2>1. /\ phase' = "scan" /\ gate' \in Gates /\ labels' \in Leftovers
        /\ insns' = <<>> /\ status' = <<>> /\ exits' = <<>> /\ pos' = 1 /\ needed' = Flags
    BY <1>6 DEF NextBlock
  <2>2. Len(insns') = 0 /\ Len(status') = 0 /\ InBlock' = {}
    BY <2>1 DEF InBlock
  <2>3. ScanTypeOK'
    BY <2>1, <2>2, ScanAssumption, EmptySeq DEF ScanAssumption, ScanTypeOK
  <2>4. Placed' /\ Noted' /\ Untouched' /\ Walked' /\ Awaited'
    BY <2>1, <2>2 DEF Placed, Noted, Untouched, Walked, Awaited, Scanning
  <2> QED
    BY <2>3, <2>4 DEF ScanInv
<1> QED
  BY <1>1, <1>2, <1>3, <1>4, <1>5, <1>6 DEF TranslatorNext

\* The same of the translator with the code it makes running, block after block.
THEOREM TranslatorDropsDeadFlagsOnly == TranslatorSpec => []KeepsWhatIsRead
<1>1. TranslatorInit => ScanInv
  BY ScanInitInv DEF TranslatorInit
<1> QED
  BY <1>1, TranslatorNextKeeps, ScanInvKeeps, PTL DEF TranslatorSpec
-----------------------------------------------------------------------------
(* Where translated code goes next *)

Entries == [in : {"none", "rom", "ram"}, at : Nat]
Blocks == [key : Keys \cup {NoKey}, next : Nat, text : Nat, link : Entries]
CacheStates ==
  [hash : [Buckets -> Nat], rom : [RomPlaces -> Blocks], romPtr : Nat, watermark : Nat,
   swi : Entries, find : [RamKeys -> Entries], ram : [RamPlaces -> Blocks], ramPtr : Nat,
   gen : Nat, slots : [Slots -> [key : Keys \cup {NoKey}, entry : Entries, gen : Nat]]]

\* The branch of block o is not patched, or leads to the block its exit names, one of R.
BranchOK(cells, o, R) ==
  cells[o].link = None
    \/ \E p \in R : cells[o].link = InRom(p) /\ cells[p].key = ExitOf(cells[o].key)

\* R are the blocks of the ROM's cache that something may lead to, L those in a chain, and
\* W those below the watermark: flushes leave W, and what they lead to is in W.
Chains(c, L) ==
  /\ \A o \in RomPlaces :
       c.rom[o].next = 0 \/ (c.rom[o].next \in RomPlaces /\ o < c.rom[o].next)
  /\ \A o \in L : c.rom[o].next = 0 \/ c.rom[o].next \in L
  /\ \A b \in Buckets : c.hash[b] = 0 \/ c.hash[b] \in L
RomOK(c, R, L, W) ==
  /\ Watermark <= c.watermark /\ c.watermark <= c.romPtr /\ c.romPtr <= RomLimit
  /\ R \subseteq 1 .. (c.romPtr - 1) /\ W \subseteq 1 .. (c.watermark - 1)
  /\ W \subseteq R /\ L \subseteq R
  /\ \A o \in R : c.rom[o].key \in RomKeys /\ BranchOK(c.rom, o, R)
  /\ \A o \in W : BranchOK(c.rom, o, W)

\* The block a key of the RAM leads to is its own; its branch, if any, is to the SWI.
RamOK(c, W) ==
  /\ c.ramPtr <= RamLimit
  /\ \A k \in RamKeys : c.find[k] = None \/ \E p \in RamPlaces :
       /\ c.find[k] = InRam(p) /\ p < c.ramPtr /\ c.ram[p].key = k
       /\ c.ram[p].link = None
            \/ (c.ram[p].link = InRom(Watermark) /\ Watermark \in W /\ ExitOf(k) = Swi)

\* Entry e leads to a block of key k.
Leads(c, R, e, k) ==
  \/ \E p \in R : e = InRom(p) /\ c.rom[p].key = k
  \/ k \in RamKeys /\ e # None /\ e = c.find[k]

\* An entry of the dispatch cache that counts leads to the block of its key.
OldSlots(c) == \A s \in Slots : c.slots[s].entry = None \/ c.slots[s].gen <= c.gen
SlotsOK(c, R) ==
  \A s \in Slots : c.slots[s].entry # None /\ c.slots[s].gen = c.gen =>
    Leads(c, R, c.slots[s].entry, c.slots[s].key)

\* While the reset translates the target of SWI ("boot") it comes first in the cache.
SwiOK(c, R, W, m) ==
  /\ c.swi = None \/ c.swi = InRom(Watermark)
  /\ m = "run" /\ c.swi # None => Watermark \in W
  /\ m = "run" /\ Watermark \in W => c.rom[Watermark].key = Swi
  /\ m = "boot" => /\ W = {} /\ c.watermark = Watermark
                   /\ R = {} => c.romPtr = Watermark
                   /\ R # {} => Watermark \in R /\ c.rom[Watermark].key = Swi

CachesOK(c, R, L, W, m) ==
  /\ m \in {"run", "boot"}
  /\ c \in CacheStates /\ c.gen \in 1 .. (Generations - 1)
  /\ RomOK(c, R, L, W) /\ Chains(c, L) /\ RamOK(c, W) /\ OldSlots(c) /\ SlotsOK(c, R)
  /\ SwiOK(c, R, W, m)

\* The tags lead to translations of what the RAM holds.
TextOK(c, t) == \A k \in RamKeys : c.find[k] # None => c.ram[c.find[k].at].text = t[k]

\* The game's state with the caches: what runs, at entry e, is the block of key k.
Fits(c, t, u, e, k, a) ==
  /\ t \in [RamKeys -> {0, 1}] /\ k \in Keys
  /\ u \in {"out", "native", "slow"} /\ a \in BOOLEAN
  /\ u = "out" => ~a
  /\ ~a => TextOK(c, t)
  /\ \E R, L, W : CachesOK(c, R, L, W, "run") /\ (u = "native" => Leads(c, R, e, k))
DispatchInv == Fits(caches, text, run, at, pc, alert)
-----------------------------------------------------------------------------
\* What an entry is: none, a place of the ROM's cache or one of the RAM's.
LEMMA Entry ==
  /\ None \in Entries
  /\ \A p \in Nat : /\ InRom(p) \in Entries /\ InRom(p) # None /\ InRam(p) \in Entries
                    /\ InRam(p) # None /\ InRom(p).at = p /\ InRam(p).at = p
                    /\ InRom(p).in = "rom" /\ InRam(p).in = "ram"
  /\ \A p, q \in Nat : InRom(p) # InRam(q) /\ (InRom(p) = InRom(q) => p = q)
BY DEF None, Entries, InRom, InRam

\* The next generation is a new one, until they come round.
LEMMA NextGen ==
  ASSUME NEW g \in 0 .. (Generations - 1)
  PROVE  (g + 1) % Generations = IF g + 1 = Generations THEN 0 ELSE g + 1
<1>1. Generations \in Nat /\ Generations > 1
  BY DispatchAssumption
<1>2. CASE g + 1 = Generations
  <2>1. Generations % Generations = 0
    BY <1>1
  <2> QED BY <1>2, <2>1
<1>3. CASE g + 1 < Generations
  BY <1>1, <1>3
<1> QED BY <1>1, <1>2, <1>3

\* What a flush leaves in the dispatch cache does not count.
LEMMA Invalidated ==
  ASSUME NEW c \in CacheStates, c.gen \in 0 .. (Generations - 1), OldSlots(c)
  PROVE  LET d == Invalidate(c) IN
         /\ d \in CacheStates /\ d.gen \in 1 .. (Generations - 1)
         /\ d.hash = c.hash /\ d.rom = c.rom /\ d.romPtr = c.romPtr
         /\ d.watermark = c.watermark /\ d.swi = c.swi
         /\ d.find = c.find /\ d.ram = c.ram /\ d.ramPtr = c.ramPtr
         /\ OldSlots(d) /\ \A s \in Slots : d.slots[s].entry = None \/ d.slots[s].gen # d.gen
<1>1. Generations \in Nat /\ Generations > 1
  BY DispatchAssumption
<1> DEFINE cleared == [s \in Slots |-> [c.slots[s] EXCEPT !.entry = None]]
<1>2. c.slots \in [Slots -> [key : Keys \cup {NoKey}, entry : Entries, gen : Nat]]
  BY DEF CacheStates
<1>3. ASSUME NEW s \in Slots
      PROVE  /\ cleared[s] \in [key : Keys \cup {NoKey}, entry : Entries, gen : Nat]
             /\ cleared[s].entry = None
  BY <1>2, Entry
<1>4. cleared \in [Slots -> [key : Keys \cup {NoKey}, entry : Entries, gen : Nat]]
  BY <1>3
<1>5. CASE c.gen + 1 = Generations
  <2> PICK d : d = [c EXCEPT !.gen = 1, !.slots = cleared]
    OBVIOUS
  <2>1. Invalidate(c) = d
    BY <1>5, NextGen DEF Invalidate
  <2> HIDE DEF cleared
  <2>2. /\ d \in CacheStates /\ d.gen = 1 /\ d.slots = cleared
        /\ d.hash = c.hash /\ d.rom = c.rom /\ d.romPtr = c.romPtr
        /\ d.watermark = c.watermark /\ d.swi = c.swi
        /\ d.find = c.find /\ d.ram = c.ram /\ d.ramPtr = c.ramPtr
    BY <1>4 DEF CacheStates
  <2> QED BY <1>1, <1>3, <2>1, <2>2 DEF OldSlots
<1>6. CASE c.gen + 1 # Generations
  <2> PICK d : d = [c EXCEPT !.gen = c.gen + 1]
    OBVIOUS
  <2>1. Invalidate(c) = d
    BY <1>1, <1>6, NextGen DEF Invalidate
  <2>2. /\ d \in CacheStates /\ d.gen = c.gen + 1 /\ d.slots = c.slots
        /\ d.hash = c.hash /\ d.rom = c.rom /\ d.romPtr = c.romPtr
        /\ d.watermark = c.watermark /\ d.swi = c.swi
        /\ d.find = c.find /\ d.ram = c.ram /\ d.ramPtr = c.ramPtr
    BY DEF CacheStates
  <2>3. ASSUME NEW s \in Slots
        PROVE  d.slots[s].entry = None \/ (d.slots[s].gen <= d.gen /\ d.slots[s].gen # d.gen)
    BY <1>2, <2>2 DEF OldSlots, CacheStates
  <2> QED BY <1>1, <1>6, <2>1, <2>2, <2>3 DEF OldSlots
<1> QED BY <1>5, <1>6

\* A dispatch cache none of whose entries count is right, whatever became of the blocks.
LEMMA NoneCounts ==
  ASSUME NEW d, NEW R,
         \A s \in Slots : d.slots[s].entry = None \/ d.slots[s].gen # d.gen
  PROVE  SlotsOK(d, R)
BY DEF SlotsOK

\* A flush of the ROM's cache leaves the blocks below the watermark, and the caches right.
LEMMA FlushRomOK ==
  ASSUME NEW c, NEW R, NEW L, NEW W, NEW m, CachesOK(c, R, L, W, m)
  PROVE  /\ CachesOK(FlushRom(c), W, {}, W, m)
         /\ FlushRom(c).find = c.find /\ FlushRom(c).ram = c.ram
         /\ FlushRom(c).watermark = c.watermark /\ FlushRom(c).swi = c.swi
<1> PICK e : e = [c EXCEPT !.romPtr = c.watermark, !.hash = [b \in Buckets |-> 0]]
  OBVIOUS
<1>1. /\ e \in CacheStates /\ e.gen = c.gen /\ e.slots = c.slots
      /\ e.hash = [b \in Buckets |-> 0] /\ e.rom = c.rom /\ e.romPtr = c.watermark
      /\ e.watermark = c.watermark /\ e.swi = c.swi
      /\ e.find = c.find /\ e.ram = c.ram /\ e.ramPtr = c.ramPtr
  BY DEF CachesOK, CacheStates
<1>2. e.gen \in 0 .. (Generations - 1) /\ OldSlots(e)
  BY <1>1, DispatchAssumption DEF CachesOK, OldSlots
<1> PICK d : d = Invalidate(e)
  OBVIOUS
<1>3. /\ d \in CacheStates /\ d.gen \in 1 .. (Generations - 1)
      /\ d.hash = e.hash /\ d.rom = e.rom /\ d.romPtr = e.romPtr
      /\ d.watermark = e.watermark /\ d.swi = e.swi
      /\ d.find = e.find /\ d.ram = e.ram /\ d.ramPtr = e.ramPtr
      /\ OldSlots(d) /\ \A s \in Slots : d.slots[s].entry = None \/ d.slots[s].gen # d.gen
  BY <1>1, <1>2, Invalidated
<1>4. FlushRom(c) = d
  BY DEF FlushRom
<1>5. SlotsOK(d, W)
  BY <1>3, NoneCounts
<1>6. RomOK(d, W, {}, W)
  <2>1. c.watermark \in Nat /\ c.romPtr \in Nat /\ RomLimit \in Nat /\ RomOK(c, R, L, W)
    BY DispatchAssumption DEF CachesOK, CacheStates
  <2>2. d.romPtr = c.watermark /\ d.watermark = c.watermark /\ d.rom = c.rom
    BY <1>1, <1>3
  <2>3. Watermark <= d.watermark /\ d.watermark <= d.romPtr /\ d.romPtr <= RomLimit
    BY <2>1, <2>2, DispatchAssumption DEF RomOK
  <2>4. \A o \in W : d.rom[o].key \in RomKeys /\ BranchOK(d.rom, o, W)
    BY <2>1, <2>2 DEF RomOK
  <2> QED BY <2>1, <2>2, <2>3, <2>4 DEF RomOK
<1>7. Chains(d, {})
  BY <1>1, <1>3 DEF Chains, CachesOK
<1>8. RamOK(d, W)
  BY <1>1, <1>3 DEF CachesOK, RamOK
<1>9. SwiOK(d, W, W, m)
  BY <1>1, <1>3 DEF CachesOK, SwiOK
<1> QED BY <1>1, <1>3, <1>4, <1>5, <1>6, <1>7, <1>8, <1>9 DEF CachesOK

\* A flush of the RAM's cache leaves no tag, and the caches right.
LEMMA FlushRamOK ==
  ASSUME NEW c, NEW R, NEW L, NEW W, NEW m, CachesOK(c, R, L, W, m)
  PROVE  /\ CachesOK(FlushRam(c), R, L, W, m)
         /\ \A k \in RamKeys : FlushRam(c).find[k] = None
         /\ FlushRam(c).swi = c.swi
<1> PICK e : e = [c EXCEPT !.ramPtr = 0, !.find = [k \in RamKeys |-> None]]
  OBVIOUS
<1>1. /\ e \in CacheStates /\ e.gen = c.gen /\ e.slots = c.slots
      /\ e.hash = c.hash /\ e.rom = c.rom /\ e.romPtr = c.romPtr
      /\ e.watermark = c.watermark /\ e.swi = c.swi
      /\ e.find = [k \in RamKeys |-> None] /\ e.ram = c.ram /\ e.ramPtr = 0
  BY Entry DEF CachesOK, CacheStates
<1>2. e.gen \in 0 .. (Generations - 1) /\ OldSlots(e)
  BY <1>1, DispatchAssumption DEF CachesOK, OldSlots
<1> PICK d : d = Invalidate(e)
  OBVIOUS
<1>3. /\ d \in CacheStates /\ d.gen \in 1 .. (Generations - 1)
      /\ d.hash = e.hash /\ d.rom = e.rom /\ d.romPtr = e.romPtr
      /\ d.watermark = e.watermark /\ d.swi = e.swi
      /\ d.find = e.find /\ d.ram = e.ram /\ d.ramPtr = e.ramPtr
      /\ OldSlots(d) /\ \A s \in Slots : d.slots[s].entry = None \/ d.slots[s].gen # d.gen
  BY <1>1, <1>2, Invalidated
<1>4. FlushRam(c) = d
  BY DEF FlushRam
<1>5. SlotsOK(d, R)
  BY <1>3, NoneCounts
<1>6. RomOK(d, R, L, W)
  BY <1>1, <1>3 DEF RomOK, CachesOK
<1>7. Chains(d, L)
  BY <1>1, <1>3 DEF Chains, CachesOK
<1>8. RamOK(d, W)
  BY <1>1, <1>3, DispatchAssumption DEF CachesOK, RamOK
<1>9. SwiOK(d, R, W, m)
  BY <1>1, <1>3 DEF CachesOK, SwiOK
<1> QED BY <1>1, <1>3, <1>4, <1>5, <1>6, <1>7, <1>8, <1>9 DEF CachesOK
-----------------------------------------------------------------------------
(* The walk along a chain *)

\* A set of numbers has a least one.
LEMMA LeastOf ==
  ASSUME NEW S, S \subseteq Nat, S # {}
  PROVE  \E q \in S : \A r \in S : q <= r
<1>1. \E q \in S : \A r \in S : ~(<<r, q>> \in OpToRel(<, Nat))
  BY NatLessThanWellFounded, WFMin
<1>2. \A r, q \in S : <<r, q>> \in OpToRel(<, Nat) <=> r < q
  BY DEF OpToRel
<1>3. \E q \in S : \A r \in S : ~(r < q)
  BY <1>1, <1>2, Zenon
<1> QED BY <1>3

\* Where a walk from offset o of the chain ends, n giving what it finds further on.
Ends(c, k, n, o) ==
  IF o = 0 \/ c.rom[o].key = k \/ c.rom[o].next = 0 THEN o ELSE n[c.rom[o].next]

\* The walk is well defined: a block leads to one further on.
LEMMA WalkDefined ==
  ASSUME NEW c, NEW L, NEW k, Chains(c, L)
  PROVE  \E f : f = [o \in 0 .. RomLimit |-> Ends(c, k, f, o)]
<1> DEFINE T(n) == {0} \cup ((RomLimit + 1 - n) .. RomLimit)
           On(g, n) == g = [o \in T(n) |-> Ends(c, k, g, o)]
           Fails == {n \in 0 .. RomLimit : \A g : ~On(g, n)}
<1>1. RomLimit \in Nat
  BY DispatchAssumption
<1>2. \A o \in 1 .. RomLimit :
        c.rom[o].next = 0 \/ (c.rom[o].next \in 1 .. RomLimit /\ o < c.rom[o].next)
  BY DEF Chains, RomPlaces
<1>3. On([o \in T(0) |-> 0], 0)
  BY <1>1 DEF Ends
<1>4. ASSUME NEW n \in 1 .. RomLimit, NEW g, On(g, n - 1)
      PROVE  \E h : On(h, n)
  <2> DEFINE h == [o \in T(n) |-> Ends(c, k, g, o)]
  <2>1. ASSUME NEW o \in T(n)
        PROVE  Ends(c, k, g, o) = Ends(c, k, h, o)
    <3>1. CASE o = 0 \/ c.rom[o].key = k \/ c.rom[o].next = 0
      BY <3>1 DEF Ends
    <3>2. CASE ~(o = 0 \/ c.rom[o].key = k \/ c.rom[o].next = 0)
      <4> PICK q : q = c.rom[o].next
        OBVIOUS
      <4>1. o \in 1 .. RomLimit /\ q \in 1 .. RomLimit /\ o < q
        BY <1>1, <1>2, <3>2
      <4>2. q \in T(n - 1) /\ q \in T(n)
        BY <1>1, <4>1
      <4> HIDE DEF T
      <4>3. g[q] = Ends(c, k, g, q) /\ h[q] = Ends(c, k, g, q)
        BY <1>4, <4>2
      <4> QED BY <3>2, <4>3 DEF Ends
    <3> QED BY <3>1, <3>2
  <2> HIDE DEF T
  <2>2. h = [o \in T(n) |-> Ends(c, k, h, o)]
    BY <2>1
  <2> QED BY <2>2
<1>5. Fails = {}
  <2> SUFFICES ASSUME Fails # {} PROVE FALSE
    OBVIOUS
  <2> HIDE DEF On
  <2>1. PICK n \in Fails : \A r \in Fails : n <= r
    <3>1. Fails \subseteq Nat
      BY <1>1
    <3> HIDE DEF Fails
    <3> QED BY <3>1, LeastOf
  <2>2. n # 0
    BY <1>3, <2>1
  <2>3. n - 1 \in 0 .. RomLimit /\ n \in 1 .. RomLimit /\ ~(n <= n - 1)
    BY <1>1, <2>1, <2>2
  <2>4. \E g : On(g, n - 1)
    BY <2>1, <2>3
  <2> QED BY <1>4, <2>1, <2>3, <2>4
<1>6. RomLimit \in 0 .. RomLimit /\ T(RomLimit) = 0 .. RomLimit
  BY <1>1
<1>7. \E f : On(f, RomLimit)
  BY <1>5, <1>6
<1> QED BY <1>6, <1>7

\* A walk along the chain of key k ends on a block of k, or on the last of the chain.
LEMMA WalkEnds ==
  ASSUME NEW c, NEW L, NEW k, L \subseteq RomPlaces, Chains(c, L), Bucket(k) \in Buckets
  PROVE  \/ Walk(c, k) = 0 /\ c.hash[Bucket(k)] = 0
         \/ /\ Walk(c, k) \in L
            /\ c.rom[Walk(c, k)].key = k \/ c.rom[Walk(c, k)].next = 0
<1> DEFINE F == CHOOSE f : f = [o \in 0 .. RomLimit |->
               IF o = 0 \/ c.rom[o].key = k \/ c.rom[o].next = 0 THEN o ELSE f[c.rom[o].next]]
<1>1. Walk(c, k) = F[c.hash[Bucket(k)]]
  BY DEF Walk
<1>2. F = [o \in 0 .. RomLimit |-> Ends(c, k, F, o)]
  <2>1. \E f : f = [o \in 0 .. RomLimit |->
               IF o = 0 \/ c.rom[o].key = k \/ c.rom[o].next = 0 THEN o ELSE f[c.rom[o].next]]
    <3> PICK f : f = [o \in 0 .. RomLimit |-> Ends(c, k, f, o)]
      BY WalkDefined
    <3>1. [o \in 0 .. RomLimit |-> Ends(c, k, f, o)] = [o \in 0 .. RomLimit |->
               IF o = 0 \/ c.rom[o].key = k \/ c.rom[o].next = 0 THEN o ELSE f[c.rom[o].next]]
      BY DEF Ends
    <3> QED BY <3>1
  <2>2. F = [o \in 0 .. RomLimit |->
               IF o = 0 \/ c.rom[o].key = k \/ c.rom[o].next = 0 THEN o ELSE F[c.rom[o].next]]
    BY <2>1
  <2> HIDE DEF F
  <2> QED BY <2>2 DEF Ends
<1> HIDE DEF F
<1>3. RomLimit \in Nat /\ \A o \in 0 .. RomLimit : F[o] = Ends(c, k, F, o)
  BY <1>2, DispatchAssumption
<1> DEFINE Right(o) == F[o] \in L /\ (c.rom[F[o]].key = k \/ c.rom[F[o]].next = 0)
           Wrong == {n \in Nat : n <= RomLimit /\ RomLimit - n \in L /\ ~Right(RomLimit - n)}
<1>4. \A o \in L : Right(o)
  <2> SUFFICES ASSUME NEW o \in L, ~Right(o) PROVE FALSE
    OBVIOUS
  <2> HIDE DEF Right
  <2>1. RomLimit - o \in Nat /\ RomLimit - (RomLimit - o) = o /\ RomLimit - o <= RomLimit
    BY <1>3 DEF RomPlaces
  <2>2. RomLimit - o \in Wrong
    BY <2>1
  <2>3. PICK n \in Wrong : \A r \in Wrong : n <= r
    BY <2>2, LeastOf
  <2> PICK p : p = RomLimit - n
    OBVIOUS
  <2>4. p \in L /\ p \in 1 .. RomLimit /\ ~Right(p) /\ n = RomLimit - p
    BY <1>3, <2>3 DEF RomPlaces
  <2>5. F[p] = Ends(c, k, F, p)
    BY <1>3, <2>4
  <2>6. CASE c.rom[p].key = k \/ c.rom[p].next = 0
    BY <2>4, <2>5, <2>6 DEF Ends, Right
  <2>7. CASE ~(c.rom[p].key = k \/ c.rom[p].next = 0)
    <3> PICK q : q = c.rom[p].next
      OBVIOUS
    <3>1. q \in L /\ q \in 1 .. RomLimit /\ p < q /\ F[p] = F[q]
      BY <1>3, <2>4, <2>5, <2>7 DEF Chains, Ends, RomPlaces
    <3>2. ~Right(q)
      BY <2>4, <3>1 DEF Right
    <3>3. RomLimit - q \in Nat /\ RomLimit - (RomLimit - q) = q /\ RomLimit - q <= RomLimit
          /\ ~(n <= RomLimit - q)
      BY <1>3, <2>4, <3>1
    <3>4. RomLimit - q \in Wrong
      BY <3>1, <3>2, <3>3
    <3> QED BY <2>3, <3>3, <3>4
  <2> QED BY <2>6, <2>7
<1>5. CASE c.hash[Bucket(k)] = 0
  BY <1>1, <1>3, <1>5 DEF Ends
<1>6. CASE c.hash[Bucket(k)] \in L
  BY <1>1, <1>4, <1>6
<1> QED BY <1>5, <1>6 DEF Chains
-----------------------------------------------------------------------------
(* A block is made *)

\* A branch leads where it did while the blocks keep their keys.
LEMMA SameBranch ==
  ASSUME NEW a, NEW b, NEW R, NEW S, NEW o \in R, BranchOK(a, o, R),
         \A p \in R : p \in S /\ b[p].key = a[p].key, b[o].link = a[o].link
  PROVE  BranchOK(b, o, S)
BY DEF BranchOK

\* What leads somewhere leads there still when blocks are added.
LEMMA SameLeads ==
  ASSUME NEW c, NEW d, NEW R, NEW S, NEW e, NEW k, Leads(c, R, e, k),
         \A p \in R : p \in S /\ d.rom[p].key = c.rom[p].key, d.find = c.find
  PROVE  Leads(d, S, e, k)
BY DEF Leads

\* What is said of the tags, and of an entry, depends on the blocks and the tags alone.
LEMMA SameText ==
  ASSUME NEW c, NEW d, NEW t, TextOK(c, t), d.find = c.find, d.ram = c.ram
  PROVE  TextOK(d, t)
BY DEF TextOK

\* Whether a chain leads to a block depends on the table and the blocks alone.
LEMMA SameLead ==
  ASSUME NEW c, NEW d, NEW R, NEW e, NEW k, Leads(c, R, e, k), d.rom = c.rom, d.find = c.find
  PROVE  Leads(d, R, e, k)
BY DEF Leads

\* The dispatch cache stays right while blocks keep their keys and the tags stay.
LEMMA SameSlots ==
  ASSUME NEW c, NEW d, NEW R, NEW S, SlotsOK(c, R), OldSlots(c),
         \A p \in R : p \in S /\ d.rom[p].key = c.rom[p].key, d.find = c.find,
         d.slots = c.slots, d.gen = c.gen
  PROVE  SlotsOK(d, S) /\ OldSlots(d)
<1>1. OldSlots(d)
  BY DEF OldSlots
<1>2. ASSUME NEW s \in Slots, d.slots[s].entry # None /\ d.slots[s].gen = d.gen
      PROVE  Leads(d, S, d.slots[s].entry, d.slots[s].key)
  <2>1. Leads(c, R, c.slots[s].entry, c.slots[s].key)
    BY <1>2 DEF SlotsOK
  <2> QED BY <2>1, SameLeads
<1> QED BY <1>1, <1>2 DEF SlotsOK

\* A new block has the key it is made for and the text the RAM holds there.
LEMMA NewBlockTyped ==
  ASSUME NEW c \in CacheStates, NEW k \in Keys, NEW t \in [RamKeys -> {0, 1}]
  PROVE  /\ NewBlock(c, k, t) \in Blocks /\ NewBlock(c, k, t).key = k
         /\ NewBlock(c, k, t).next = 0
         /\ NewBlock(c, k, t).link = (IF ExitOf(k) = Swi THEN c.swi ELSE None)
         /\ k \in RamKeys => NewBlock(c, k, t).text = t[k]
BY Entry DEF NewBlock, Blocks, CacheStates

\* What a new block destroyed is no block.
LEMMA NoBlockTyped == NoBlock \in Blocks /\ NoBlock.next = 0
BY Entry DEF NoBlock, Blocks

\* The caches with an entry of the hash table changed ...
LEMMA WithHash ==
  ASSUME NEW c \in CacheStates, NEW b \in Buckets, NEW o \in Nat,
         NEW e, e = [c EXCEPT !.hash[b] = o]
  PROVE  /\ e \in CacheStates /\ e.rom = c.rom /\ e.romPtr = c.romPtr
         /\ e.hash = [c.hash EXCEPT ![b] = o]
         /\ e.watermark = c.watermark /\ e.swi = c.swi /\ e.find = c.find /\ e.ram = c.ram
         /\ e.ramPtr = c.ramPtr /\ e.gen = c.gen /\ e.slots = c.slots
<1> PICK h : h = [c.hash EXCEPT ![b] = o]
  OBVIOUS
<1>1. h \in [Buckets -> Nat]
  BY DEF CacheStates
<1>2. e = [c EXCEPT !.hash = h]
  OBVIOUS
<1>3. /\ e \in CacheStates /\ e.rom = c.rom /\ e.romPtr = c.romPtr /\ e.hash = h
      /\ e.watermark = c.watermark /\ e.swi = c.swi /\ e.find = c.find /\ e.ram = c.ram
      /\ e.ramPtr = c.ramPtr /\ e.gen = c.gen /\ e.slots = c.slots
  BY <1>1, <1>2 DEF CacheStates
<1> QED BY <1>3

\* ... with a block that another follows in its chain ...
LEMMA WithNext ==
  ASSUME NEW c \in CacheStates, NEW w \in RomPlaces, NEW o \in Nat,
         NEW e, e = [c EXCEPT !.rom[w].next = o]
  PROVE  /\ e \in CacheStates /\ e.hash = c.hash /\ e.romPtr = c.romPtr
         /\ e.watermark = c.watermark /\ e.swi = c.swi /\ e.find = c.find /\ e.ram = c.ram
         /\ e.ramPtr = c.ramPtr /\ e.gen = c.gen /\ e.slots = c.slots
         /\ \A p \in RomPlaces : /\ e.rom[p].key = c.rom[p].key /\ e.rom[p].link = c.rom[p].link
                                /\ e.rom[p].next = IF p = w THEN o ELSE c.rom[p].next
<1>1. c.rom \in [RomPlaces -> Blocks]
  BY DEF CacheStates
<1> PICK b : b = [c.rom[w] EXCEPT !.next = o]
  OBVIOUS
<1>2. b \in Blocks /\ b.next = o /\ b.key = c.rom[w].key /\ b.link = c.rom[w].link
  BY <1>1 DEF Blocks
<1> PICK x : x = [c.rom EXCEPT ![w] = b]
  OBVIOUS
<1>3. x \in [RomPlaces -> Blocks] /\ \A p \in RomPlaces : x[p] = IF p = w THEN b ELSE c.rom[p]
  BY <1>1, <1>2
<1>4. e = [c EXCEPT !.rom = x]
  OBVIOUS
<1>5. /\ e \in CacheStates /\ e.rom = x /\ e.romPtr = c.romPtr /\ e.hash = c.hash
      /\ e.watermark = c.watermark /\ e.swi = c.swi /\ e.find = c.find /\ e.ram = c.ram
      /\ e.ramPtr = c.ramPtr /\ e.gen = c.gen /\ e.slots = c.slots
  BY <1>3, <1>4 DEF CacheStates
<1> QED BY <1>2, <1>3, <1>5

\* The branch of block w patched.
SetLink(c, w, l) == [c EXCEPT !.rom[w].link = l]

\* ... and with a branch patched.
LEMMA WithLink ==
  ASSUME NEW c \in CacheStates, NEW w \in RomPlaces, NEW l \in Entries
  PROVE  LET e == SetLink(c, w, l) IN
         /\ e \in CacheStates /\ e.hash = c.hash /\ e.romPtr = c.romPtr
         /\ e.watermark = c.watermark /\ e.swi = c.swi /\ e.find = c.find /\ e.ram = c.ram
         /\ e.ramPtr = c.ramPtr /\ e.gen = c.gen /\ e.slots = c.slots
         /\ \A p \in RomPlaces : /\ e.rom[p].key = c.rom[p].key /\ e.rom[p].next = c.rom[p].next
                                /\ e.rom[p].link = IF p = w THEN l ELSE c.rom[p].link
<1>1. c.rom \in [RomPlaces -> Blocks]
  BY DEF CacheStates
<1> PICK b : b = [c.rom[w] EXCEPT !.link = l]
  OBVIOUS
<1>2. b \in Blocks /\ b.next = c.rom[w].next /\ b.key = c.rom[w].key /\ b.link = l
  BY <1>1 DEF Blocks
<1> PICK x : x = [c.rom EXCEPT ![w] = b]
  OBVIOUS
<1>3. x \in [RomPlaces -> Blocks] /\ \A p \in RomPlaces : x[p] = IF p = w THEN b ELSE c.rom[p]
  BY <1>1, <1>2
<1> PICK e : e = SetLink(c, w, l)
  OBVIOUS
<1>4. e = [c EXCEPT !.rom = x]
  BY DEF SetLink
<1>5. /\ e \in CacheStates /\ e.rom = x /\ e.romPtr = c.romPtr /\ e.hash = c.hash
      /\ e.watermark = c.watermark /\ e.swi = c.swi /\ e.find = c.find /\ e.ram = c.ram
      /\ e.ramPtr = c.ramPtr /\ e.gen = c.gen /\ e.slots = c.slots
  BY <1>3, <1>4 DEF CacheStates
<1> QED BY <1>2, <1>3, <1>5

\* The caches with a block of key k at the end.
Added(c, k, t) ==
  Chained([c EXCEPT !.rom = Put(c.rom, c.romPtr, Cost(k), NewBlock(c, k, t)),
                    !.romPtr = c.romPtr + Cost(k)], c.romPtr, k)

\* Caches d are c with a block of key k more.
Grown(c, d, k, R, L, W, m) ==
  /\ CachesOK(d, R \cup {c.romPtr}, L \cup {c.romPtr}, W, m)
  /\ c.romPtr \in Nat \ {0} /\ d.rom[c.romPtr].key = k /\ d.swi = c.swi
  /\ \A p \in R : d.rom[p].key = c.rom[p].key
  /\ d.find = c.find /\ d.ram = c.ram

\* A block more at the end of the ROM's cache leaves the caches right.
LEMMA AddedOK ==
  ASSUME NEW c, NEW R, NEW L, NEW W, NEW m, CachesOK(c, R, L, W, m),
         NEW k \in RomKeys, NEW t \in [RamKeys -> {0, 1}],
         c.romPtr + Cost(k) <= RomLimit, m = "boot" /\ R = {} => k = Swi
  PROVE  Grown(c, Added(c, k, t), k, R, L, W, m)
<1> PICK o : o = c.romPtr
  OBVIOUS
<1> DEFINE cells == Put(c.rom, o, Cost(k), NewBlock(c, k, t))
           n == o + Cost(k)
           e == [c EXCEPT !.rom = cells, !.romPtr = n]
           d == Chained(e, o, k)
           w == Walk(e, k)
<1>1. /\ c \in CacheStates /\ c.rom \in [RomPlaces -> Blocks] /\ c.romPtr \in Nat
      /\ c.watermark \in Nat /\ c.hash \in [Buckets -> Nat]
      /\ RomLimit \in Nat /\ Cost(k) \in Nat \ {0} /\ k \in Keys
      /\ Bucket(k) \in Buckets /\ Watermark \in Nat \ {0}
  BY DispatchAssumption DEF CachesOK, CacheStates, Keys
<1>2. o \in Nat \ {0} /\ o \in RomPlaces /\ \A p \in R : p < o /\ p \in RomPlaces
  BY <1>1 DEF CachesOK, RomOK, RomPlaces
<1>3. /\ cells \in [RomPlaces -> Blocks] /\ cells[o] = NewBlock(c, k, t)
      /\ \A p \in R : cells[p] = c.rom[p]
      /\ \A p \in RomPlaces : cells[p].next = 0 \/ cells[p].next = c.rom[p].next
  <2>1. cells = [p \in RomPlaces |-> IF p = o THEN NewBlock(c, k, t)
                     ELSE IF o < p /\ p < o + Cost(k) THEN NoBlock ELSE c.rom[p]]
    BY <1>1 DEF Put
  <2>2. NewBlock(c, k, t) \in Blocks /\ NewBlock(c, k, t).next = 0
    BY <1>1, NewBlockTyped
  <2>3. ASSUME NEW p \in R PROVE ~(o < p) /\ p # o
    BY <1>1, <1>2, <2>2 DEF RomPlaces
  <2> HIDE DEF cells
  <2> QED BY <1>1, <1>2, <2>1, <2>2, <2>3, NoBlockTyped
<1> HIDE DEF cells
<1> n \in Nat /\ o < n /\ n <= RomLimit
  BY <1>1, <1>2
<1> HIDE DEF n
<1>4. /\ e \in CacheStates /\ e.rom = cells /\ e.romPtr = n /\ e.hash = c.hash
      /\ e.watermark = c.watermark /\ e.swi = c.swi /\ e.find = c.find /\ e.ram = c.ram
      /\ e.ramPtr = c.ramPtr /\ e.gen = c.gen /\ e.slots = c.slots
  <2> PICK f : f = e
    OBVIOUS
  <2>1. f = [c EXCEPT !.rom = cells, !.romPtr = n]
    OBVIOUS
  <2> HIDE DEF e
  <2>2. n \in Nat /\ c \in CacheStates /\ cells \in [RomPlaces -> Blocks]
    BY <1>1, <1>3
  <2>3. /\ f \in CacheStates /\ f.rom = cells /\ f.romPtr = n /\ f.hash = c.hash
        /\ f.watermark = c.watermark /\ f.swi = c.swi /\ f.find = c.find /\ f.ram = c.ram
        /\ f.ramPtr = c.ramPtr /\ f.gen = c.gen /\ f.slots = c.slots
    BY <2>1, <2>2 DEF CacheStates
  <2> QED BY <2>3
<1> HIDE DEF e
<1>5. Chains(e, L) /\ L \subseteq RomPlaces /\ L \subseteq R
  <2>1. Chains(c, L) /\ L \subseteq R
    BY DEF CachesOK, RomOK
  <2> QED BY <1>2, <1>3, <1>4, <2>1 DEF Chains
<1>6. \/ w = 0 /\ e.hash[Bucket(k)] = 0
      \/ w \in L /\ (e.rom[w].key = k \/ e.rom[w].next = 0)
  BY <1>1, <1>5, WalkEnds
<1> HIDE DEF w
<1>7. /\ d \in CacheStates /\ d.romPtr = n
      /\ d.watermark = c.watermark /\ d.swi = c.swi /\ d.find = c.find /\ d.ram = c.ram
      /\ d.ramPtr = c.ramPtr /\ d.gen = c.gen /\ d.slots = c.slots
      /\ \A p \in RomPlaces : /\ d.rom[p].key = cells[p].key /\ d.rom[p].link = cells[p].link
                             /\ d.rom[p].next = IF p = w THEN o ELSE cells[p].next
      /\ \A b \in Buckets : d.hash[b] = IF w = 0 /\ b = Bucket(k) THEN o ELSE c.hash[b]
  <2>1. d = IF w = 0 THEN [e EXCEPT !.hash[Bucket(k)] = o] ELSE [e EXCEPT !.rom[w].next = o]
    BY DEF Chained, w
  <2>2. CASE w = 0
    <3>1. 0 \notin RomPlaces
      BY DEF RomPlaces
    <3> PICK f : f = [e EXCEPT !.hash[Bucket(k)] = o]
      OBVIOUS
    <3>2. /\ f \in CacheStates /\ f.rom = e.rom /\ f.romPtr = e.romPtr
          /\ f.hash = [e.hash EXCEPT ![Bucket(k)] = o]
          /\ f.watermark = e.watermark /\ f.swi = e.swi /\ f.find = e.find /\ f.ram = e.ram
          /\ f.ramPtr = e.ramPtr /\ f.gen = e.gen /\ f.slots = e.slots
      BY <1>1, <1>2, <1>4, WithHash
    <3>3. \A b \in Buckets : f.hash[b] = IF b = Bucket(k) THEN o ELSE c.hash[b]
      BY <1>1, <1>4, <3>2
    <3>4. d = f
      BY <2>1, <2>2
    <3> HIDE DEF d
    <3> QED BY <1>4, <2>2, <3>1, <3>2, <3>3, <3>4
  <2>3. CASE w # 0
    <3>1. w \in RomPlaces
      BY <1>5, <1>6, <2>3
    <3> PICK f : f = [e EXCEPT !.rom[w].next = o]
      OBVIOUS
    <3>2. /\ f \in CacheStates /\ f.hash = e.hash /\ f.romPtr = e.romPtr
          /\ f.watermark = e.watermark /\ f.swi = e.swi /\ f.find = e.find /\ f.ram = e.ram
          /\ f.ramPtr = e.ramPtr /\ f.gen = e.gen /\ f.slots = e.slots
          /\ \A p \in RomPlaces :
               /\ f.rom[p].key = e.rom[p].key /\ f.rom[p].link = e.rom[p].link
               /\ f.rom[p].next = IF p = w THEN o ELSE e.rom[p].next
      BY <1>2, <1>4, <3>1, WithNext
    <3>3. d = f
      BY <2>1, <2>3
    <3> HIDE DEF d
    <3> QED BY <1>4, <2>3, <3>2, <3>3
  <2> QED BY <2>2, <2>3
<1> HIDE DEF d
<1>8. /\ d.rom[o].key = k /\ d.rom[o].link = (IF ExitOf(k) = Swi THEN c.swi ELSE None)
      /\ d.rom[o].next = 0
      /\ \A p \in R : d.rom[p].key = c.rom[p].key /\ d.rom[p].link = c.rom[p].link
  <2>1. w # o
    BY <1>2, <1>5, <1>6
  <2> QED BY <1>1, <1>2, <1>3, <1>7, <2>1, NewBlockTyped
<1>9. Chains(d, L \cup {o})
  <2>1. \A p \in RomPlaces :
           d.rom[p].next = 0 \/ (d.rom[p].next \in RomPlaces /\ p < d.rom[p].next)
    BY <1>2, <1>3, <1>4, <1>5, <1>6, <1>7 DEF Chains
  <2>2. \A p \in L \cup {o} : d.rom[p].next = 0 \/ d.rom[p].next \in L \cup {o}
    BY <1>2, <1>3, <1>4, <1>5, <1>7, <1>8 DEF Chains
  <2>3. \A b \in Buckets : d.hash[b] = 0 \/ d.hash[b] \in L \cup {o}
    BY <1>4, <1>5, <1>7 DEF Chains
  <2> QED BY <2>1, <2>2, <2>3 DEF Chains
<1>10. RomOK(d, R \cup {o}, L \cup {o}, W)
  <2>1. RomOK(c, R, L, W) /\ SwiOK(c, R, W, m)
    BY DEF CachesOK
  <2>2. BranchOK(d.rom, o, R \cup {o})
    <3>1. CASE d.rom[o].link = None
      BY <3>1 DEF BranchOK
    <3>2. CASE d.rom[o].link # None
      <4>1. ExitOf(k) = Swi /\ d.rom[o].link = InRom(Watermark)
        BY <1>8, <2>1, <3>2 DEF SwiOK
      <4>2. Watermark \in R \cup {o} /\ d.rom[Watermark].key = Swi
        <5>1. m \in {"run", "boot"}
          BY DEF CachesOK
        <5>2. CASE m = "run"
          BY <1>8, <2>1, <3>2, <4>1, <5>2 DEF SwiOK, RomOK
        <5>3. CASE m = "boot" /\ R # {}
          BY <1>8, <2>1, <5>3 DEF SwiOK
        <5>4. CASE m = "boot" /\ R = {}
          BY <1>8, <2>1, <5>4 DEF SwiOK
        <5> QED BY <5>1, <5>2, <5>3, <5>4
      <4> QED BY <1>8, <4>1, <4>2 DEF BranchOK
    <3> QED BY <3>1, <3>2
  <2>3. ASSUME NEW p \in R PROVE d.rom[p].key \in RomKeys /\ BranchOK(d.rom, p, R \cup {o})
    <3>1. c.rom[p].key \in RomKeys /\ BranchOK(c.rom, p, R)
      BY <2>1 DEF RomOK
    <3>2. R \subseteq R \cup {o}
      OBVIOUS
    <3>3. BranchOK(d.rom, p, R \cup {o})
      BY <1>8, <3>1, <3>2, SameBranch
    <3> QED BY <1>8, <3>1, <3>3
  <2>4. ASSUME NEW p \in W PROVE BranchOK(d.rom, p, W)
    <3>1. p \in R /\ BranchOK(c.rom, p, W) /\ \A q \in W : q \in R
      BY <2>1 DEF RomOK
    <3>2. d.rom[p].link = c.rom[p].link /\ \A q \in W : q \in W /\ d.rom[q].key = c.rom[q].key
      BY <1>8, <3>1
    <3> QED BY <3>1, <3>2, SameBranch
  <2>5. Watermark <= d.watermark /\ d.watermark <= d.romPtr /\ d.romPtr <= RomLimit
    BY <1>1, <1>2, <1>7, <2>1 DEF RomOK
  <2>6. R \cup {o} \subseteq 1 .. (n - 1)
    <3>1. \A p \in R : p \in Nat \ {0} /\ p < o
      BY <1>2 DEF RomPlaces
    <3> QED BY <1>1, <1>2, <3>1
  <2> QED BY <1>7, <1>8, <2>1, <2>2, <2>3, <2>4, <2>5, <2>6 DEF RomOK
<1>11. RamOK(d, W)
  BY <1>7 DEF CachesOK, RamOK
<1>12. SlotsOK(d, R \cup {o}) /\ OldSlots(d)
  BY <1>7, <1>8, SameSlots DEF CachesOK
<1>13. SwiOK(d, R \cup {o}, W, m)
  <2>1. SwiOK(c, R, W, m) /\ RomOK(c, R, L, W)
    BY DEF CachesOK
  <2>2. /\ m = "run" /\ c.swi # None => Watermark \in W
        /\ m = "run" /\ Watermark \in W => d.rom[Watermark].key = Swi
    BY <1>8, <2>1 DEF SwiOK, RomOK
  <2>3. m = "boot" => Watermark \in R \cup {o} /\ d.rom[Watermark].key = Swi
    BY <1>8, <2>1 DEF SwiOK
  <2> QED BY <1>7, <2>1, <2>2, <2>3 DEF SwiOK
<1>14. CachesOK(d, R \cup {o}, L \cup {o}, W, m)
  BY <1>7, <1>9, <1>10, <1>11, <1>12, <1>13 DEF CachesOK
<1>15. Added(c, k, t) = d
  BY DEF Added, e, d, n, cells
<1> QED BY <1>2, <1>7, <1>8, <1>14, <1>15 DEF Grown
-----------------------------------------------------------------------------
(* A translation under way *)

\* The translation that was asked for block k of caches a goes on with block s.key: R, L
\* and W are as above for the caches it has now.
Translating(s, k, a, R, L, W, m) ==
  /\ s \in [c : CacheStates, key : RomKeys \cup {NoKey}, from : Nat, entry : Entries]
  /\ CachesOK(s.c, R, L, W, m)
  /\ s.c.find = a.find /\ s.c.ram = a.ram /\ s.c.swi = a.swi
  /\ s.entry # None => \E p \in R : s.entry = InRom(p) /\ s.c.rom[p].key = k
  /\ s.key # NoKey /\ s.from = 0 => s.key = k
  /\ s.key # NoKey /\ s.from # 0 =>
       s.from \in R \ W /\ ExitOf(s.c.rom[s.from].key) = s.key
  /\ m = "boot" =>
       /\ k = Swi
       /\ s.key # NoKey => IF s.from = 0 THEN R = {}
                           ELSE R # {} /\ s.entry = InRom(Watermark)
       /\ s.key = NoKey => IF s.entry = None THEN R = {} ELSE s.entry = InRom(Watermark)

\* A branch may be patched to lead to the block its exit names.
LEMMA LinkOK ==
  ASSUME NEW c, NEW R, NEW L, NEW W, NEW m, CachesOK(c, R, L, W, m),
         NEW o \in R \ W, NEW p \in R, c.rom[p].key = ExitOf(c.rom[o].key)
  PROVE  LET d == SetLink(c, o, InRom(p)) IN
         /\ CachesOK(d, R, L, W, m)
         /\ d.find = c.find /\ d.ram = c.ram /\ d.swi = c.swi
         /\ \A q \in R : d.rom[q].key = c.rom[q].key
<1> PICK d : d = SetLink(c, o, InRom(p))
  OBVIOUS
<1>1. /\ c \in CacheStates /\ RomOK(c, R, L, W) /\ Chains(c, L) /\ SwiOK(c, R, W, m)
      /\ RamOK(c, W) /\ OldSlots(c) /\ SlotsOK(c, R)
  BY DEF CachesOK
<1>2. R \subseteq RomPlaces /\ L \subseteq RomPlaces /\ o \in RomPlaces /\ InRom(p) \in Entries
      /\ W \subseteq R
  <2>1. R \subseteq RomPlaces
    BY <1>1, DispatchAssumption DEF RomOK, RomPlaces, CacheStates
  <2>2. p \in Nat
    BY <2>1 DEF RomPlaces
  <2> QED BY <1>1, <2>1, <2>2, Entry DEF RomOK
<1>3. /\ d \in CacheStates /\ d.hash = c.hash /\ d.romPtr = c.romPtr
      /\ d.watermark = c.watermark /\ d.swi = c.swi /\ d.find = c.find /\ d.ram = c.ram
      /\ d.ramPtr = c.ramPtr /\ d.gen = c.gen /\ d.slots = c.slots
      /\ \A q \in RomPlaces : /\ d.rom[q].key = c.rom[q].key /\ d.rom[q].next = c.rom[q].next
                             /\ d.rom[q].link = IF q = o THEN InRom(p) ELSE c.rom[q].link
  BY <1>1, <1>2, WithLink
<1>4. \A q \in R : d.rom[q].key = c.rom[q].key
  BY <1>2, <1>3
<1>5. RomOK(d, R, L, W)
  <2>1. ASSUME NEW q \in R PROVE d.rom[q].key \in RomKeys /\ BranchOK(d.rom, q, R)
    <3>1. c.rom[q].key \in RomKeys /\ BranchOK(c.rom, q, R)
      BY <1>1 DEF RomOK
    <3>2. CASE q = o
      BY <1>2, <1>3, <1>4, <3>1, <3>2 DEF BranchOK
    <3>3. CASE q # o
      <4>1. BranchOK(d.rom, q, R)
        <5>1. d.rom[q].link = c.rom[q].link
          BY <1>2, <1>3, <3>3
        <5> QED BY <1>4, <3>1, <5>1, SameBranch
      <4> QED BY <1>4, <3>1, <4>1
    <3> QED BY <3>2, <3>3
  <2>2. ASSUME NEW q \in W PROVE BranchOK(d.rom, q, W)
    <3>1. BranchOK(c.rom, q, W) /\ q # o
      BY <1>1 DEF RomOK
    <3>2. d.rom[q].link = c.rom[q].link /\ \A x \in W : d.rom[x].key = c.rom[x].key
      BY <1>2, <1>3, <3>1
    <3> QED BY <3>1, <3>2, SameBranch
  <2> QED BY <1>1, <1>3, <2>1, <2>2 DEF RomOK
<1>6. Chains(d, L)
  BY <1>1, <1>2, <1>3 DEF Chains
<1>7. RamOK(d, W)
  BY <1>1, <1>3 DEF RamOK
<1>8. SlotsOK(d, R) /\ OldSlots(d)
  <2>1. d.find = c.find /\ d.slots = c.slots /\ d.gen = c.gen /\ SlotsOK(c, R) /\ OldSlots(c)
    BY <1>1, <1>3
  <2>2. \A q \in R : q \in R /\ d.rom[q].key = c.rom[q].key
    BY <1>4
  <2> QED BY <2>1, <2>2, SameSlots
<1>9. SwiOK(d, R, W, m)
  BY <1>1, <1>2, <1>3, <1>4 DEF SwiOK
<1> QED BY <1>3, <1>4, <1>5, <1>6, <1>7, <1>8, <1>9 DEF CachesOK

\* A step of a translation keeps it so.
LEMMA SoughtOK ==
  ASSUME NEW s, NEW k, NEW a, NEW R, NEW L, NEW W, NEW m, Translating(s, k, a, R, L, W, m),
         NEW t \in [RamKeys -> {0, 1}]
  PROVE  \E S, M : Translating(Sought(s, t), k, a, S, M, W, m)
<1> PICK c, j, f, e : c = s.c /\ j = s.key /\ f = s.from /\ e = s.entry
  OBVIOUS
<1> PICK o, w : o = c.romPtr /\ w = Walk(c, j)
  OBVIOUS
<1>1. /\ c \in CacheStates /\ j \in RomKeys \cup {NoKey} /\ f \in Nat /\ e \in Entries
      /\ s = [c |-> c, key |-> j, from |-> f, entry |-> e]
      /\ CachesOK(c, R, L, W, m)
      /\ c.find = a.find /\ c.ram = a.ram /\ c.swi = a.swi
      /\ e # None => \E p \in R : e = InRom(p) /\ c.rom[p].key = k
      /\ j # NoKey /\ f = 0 => j = k
      /\ j # NoKey /\ f # 0 => f \in R \ W /\ ExitOf(c.rom[f].key) = j
  BY DEF Translating
<1>2. m = "boot" =>
       /\ k = Swi
       /\ j # NoKey => IF f = 0 THEN R = {} ELSE R # {} /\ e = InRom(Watermark)
       /\ j = NoKey => IF e = None THEN R = {} ELSE e = InRom(Watermark)
  BY DEF Translating
<1>3. /\ R \subseteq RomPlaces /\ L \subseteq R /\ W \subseteq R
      /\ Chains(c, L) /\ SwiOK(c, R, W, m) /\ RomOK(c, R, L, W)
  <2>1. /\ Chains(c, L) /\ SwiOK(c, R, W, m) /\ RomOK(c, R, L, W)
        /\ c.romPtr \in Nat /\ RomLimit \in Nat
    BY <1>1, DispatchAssumption DEF CachesOK, CacheStates
  <2>2. R \subseteq RomPlaces /\ L \subseteq R /\ W \subseteq R
    BY <2>1 DEF RomOK, RomPlaces
  <2> QED BY <2>1, <2>2
<1> DEFINE d == Added(c, j, t)
           next == IF ExitOf(j) = Swi THEN NoKey ELSE ExitOf(j)
<1>4. Sought(s, t) =
        IF j = NoKey THEN s
        ELSE IF w # 0 /\ c.rom[w].key = j
        THEN [LeadTo(s, InRom(w)) EXCEPT !.key = NoKey]
        ELSE IF o + Cost(j) > RomLimit
        THEN [s EXCEPT !.c = FlushRom(c), !.key = NoKey, !.entry = None]
        ELSE [LeadTo([s EXCEPT !.c = d], InRom(o)) EXCEPT !.from = o, !.key = next]
  BY DEF Sought, Added
<1> HIDE DEF d, next
<1>5. CASE j = NoKey
  BY <1>4, <1>5
<1>6. CASE j # NoKey /\ w # 0 /\ c.rom[w].key = j
  <2>1. w \in L /\ w \in R /\ w \in Nat /\ InRom(w) \in Entries
    <3>1. Bucket(j) \in Buckets /\ L \subseteq RomPlaces
      BY <1>1, <1>3, <1>6, DispatchAssumption
    <3>2. w \in L
      BY <1>3, <1>6, <3>1, WalkEnds
    <3> QED BY <1>3, <3>2, Entry DEF RomPlaces
  <2>2. CASE f = 0
    <3> PICK r : r = [c |-> c, key |-> NoKey, from |-> f, entry |-> InRom(w)]
      OBVIOUS
    <3>1. Sought(s, t) = r
      BY <1>1, <1>4, <1>6, <2>2 DEF LeadTo
    <3>2. m # "boot" /\ j = k
      BY <1>1, <1>2, <1>6, <2>1, <2>2
    <3>3. r.c = c /\ r.key = NoKey /\ r.entry = InRom(w)
          /\ r \in [c : CacheStates, key : RomKeys \cup {NoKey}, from : Nat, entry : Entries]
      BY <1>1, <2>1
    <3>4. Translating(r, k, a, R, L, W, m)
      BY <1>1, <1>6, <2>1, <3>2, <3>3 DEF Translating
    <3> QED BY <3>1, <3>4
  <2>3. CASE f # 0
    <3> PICK b : b = SetLink(c, f, InRom(w))
      OBVIOUS
    <3> PICK r : r = [c |-> b, key |-> NoKey, from |-> f, entry |-> e]
      OBVIOUS
    <3>1. Sought(s, t) = r
      BY <1>1, <1>4, <1>6, <2>3 DEF LeadTo, SetLink
    <3>2. f \in R \ W /\ c.rom[w].key = ExitOf(c.rom[f].key) /\ f \in RomPlaces
      BY <1>1, <1>3, <1>6, <2>3
    <3>3. b \in CacheStates
      BY <1>1, <2>1, <3>2, WithLink
    <3>4. /\ CachesOK(b, R, L, W, m) /\ b.find = a.find /\ b.ram = a.ram /\ b.swi = a.swi
          /\ \A q \in R : b.rom[q].key = c.rom[q].key
      BY <1>1, <2>1, <3>2, LinkOK
    <3>5. r.c = b /\ r.key = NoKey /\ r.entry = e
          /\ r \in [c : CacheStates, key : RomKeys \cup {NoKey}, from : Nat, entry : Entries]
      BY <1>1, <3>3
    <3>6. e # None => \E p \in R : e = InRom(p) /\ b.rom[p].key = k
      BY <1>1, <3>4
    <3>7. m = "boot" => k = Swi /\ e = InRom(Watermark)
      BY <1>2, <1>6, <2>3
    <3>8. InRom(Watermark) # None
      BY Entry, DispatchAssumption
    <3>9. Translating(r, k, a, R, L, W, m)
      BY <3>4, <3>5, <3>6, <3>7, <3>8 DEF Translating
    <3> QED BY <3>1, <3>9
  <2> QED BY <2>2, <2>3
<1>7. CASE j # NoKey /\ ~(w # 0 /\ c.rom[w].key = j) /\ o + Cost(j) > RomLimit
  <2> PICK b : b = FlushRom(c)
    OBVIOUS
  <2> PICK r : r = [c |-> b, key |-> NoKey, from |-> f, entry |-> None]
    OBVIOUS
  <2>1. Sought(s, t) = r
    BY <1>1, <1>4, <1>7
  <2>2. /\ CachesOK(b, W, {}, W, m) /\ b.find = a.find /\ b.ram = a.ram /\ b.swi = a.swi
    BY <1>1, FlushRomOK
  <2>3. b \in CacheStates
    BY <2>2 DEF CachesOK
  <2>4. r.c = b /\ r.key = NoKey /\ r.entry = None
        /\ r \in [c : CacheStates, key : RomKeys \cup {NoKey}, from : Nat, entry : Entries]
    BY <1>1, <2>3, Entry
  <2>5. m = "boot" => k = Swi /\ W = {}
    BY <1>2, <1>3 DEF SwiOK
  <2>6. Translating(r, k, a, W, {}, W, m)
    BY <2>2, <2>4, <2>5 DEF Translating
  <2> QED BY <2>1, <2>6
<1>8. CASE j # NoKey /\ ~(w # 0 /\ c.rom[w].key = j) /\ ~(o + Cost(j) > RomLimit)
  <2>1. m = "boot" /\ R = {} => j = Swi
    BY <1>1, <1>2, <1>8
  <2>2. o + Cost(j) <= RomLimit /\ j \in RomKeys
    <3>1. c.romPtr \in Nat /\ Cost(j) \in Nat /\ RomLimit \in Nat /\ j \in RomKeys
      BY <1>1, <1>8, DispatchAssumption DEF CacheStates, Keys
    <3> QED BY <1>8, <3>1
  <2>3. /\ CachesOK(d, R \cup {o}, L \cup {o}, W, m)
        /\ o \in Nat \ {0} /\ d.rom[o].key = j /\ d.swi = c.swi
        /\ \A p \in R : d.rom[p].key = c.rom[p].key
        /\ d.find = c.find /\ d.ram = c.ram
    <3>1. CachesOK(c, R, L, W, m) /\ o = c.romPtr
      BY <1>1
    <3>2. c.romPtr + Cost(j) <= RomLimit
      BY <2>2
    <3>3. Grown(c, Added(c, j, t), j, R, L, W, m)
      BY <2>1, <2>2, <3>1, <3>2, AddedOK
    <3> QED BY <3>3 DEF Grown, d
  <2>4. d \in CacheStates
    BY <2>3 DEF CachesOK
  <2>5. next \in RomKeys \cup {NoKey} /\ (next # NoKey => next = ExitOf(j))
    BY <2>2, DispatchAssumption DEF next
  <2>6. o \notin W
    BY <1>1, <1>3, <2>3 DEF RomOK, CacheStates
  <2>7. InRom(o) \in Entries /\ InRom(o) # None /\ InRom(Watermark) # None
    BY <2>3, Entry, DispatchAssumption
  <2>8. CASE f = 0
    <3> PICK r : r = [c |-> d, key |-> next, from |-> o, entry |-> InRom(o)]
      OBVIOUS
    <3>1. Sought(s, t) = r
      BY <1>1, <1>4, <1>8, <2>8 DEF LeadTo
    <3>2. r.c = d /\ r.key = next /\ r.from = o /\ r.entry = InRom(o)
          /\ r \in [c : CacheStates, key : RomKeys \cup {NoKey}, from : Nat, entry : Entries]
      BY <2>3, <2>4, <2>5, <2>7
    <3>3. j = k /\ \E p \in R \cup {o} : InRom(o) = InRom(p) /\ d.rom[p].key = k
      BY <1>1, <1>8, <2>3, <2>8
    <3>4. m = "boot" => k = Swi /\ o = Watermark
      BY <1>2, <1>3, <1>8, <2>8 DEF SwiOK
    <3>5. Translating(r, k, a, R \cup {o}, L \cup {o}, W, m)
      BY <1>1, <2>3, <2>5, <2>6, <2>7, <3>2, <3>3, <3>4 DEF Translating
    <3> QED BY <3>1, <3>5
  <2>9. CASE f # 0
    <3> PICK b : b = SetLink(d, f, InRom(o))
      OBVIOUS
    <3> PICK r : r = [c |-> b, key |-> next, from |-> o, entry |-> e]
      OBVIOUS
    <3>1. Sought(s, t) = r
      BY <1>1, <1>4, <1>8, <2>9 DEF LeadTo, SetLink
    <3> DEFINE S == R \cup {o}
    <3>2. f \in R /\ f \in S \ W /\ o \in S /\ d.rom[o].key = ExitOf(d.rom[f].key)
          /\ f \in RomPlaces
      BY <1>1, <1>3, <1>8, <2>3, <2>9
    <3>3. b \in CacheStates
      BY <2>4, <2>7, <3>2, WithLink
    <3> HIDE DEF S
    <3>4. /\ CachesOK(b, S, L \cup {o}, W, m) /\ b.find = a.find /\ b.ram = a.ram
          /\ b.swi = a.swi /\ \A q \in S : b.rom[q].key = d.rom[q].key
      <4>1. CachesOK(d, S, L \cup {o}, W, m)
        BY <2>3 DEF S
      <4>2. /\ CachesOK(b, S, L \cup {o}, W, m)
            /\ b.find = d.find /\ b.ram = d.ram /\ b.swi = d.swi
            /\ \A q \in S : b.rom[q].key = d.rom[q].key
        BY <3>2, <4>1, LinkOK
      <4> QED BY <1>1, <2>3, <4>2
    <3>5. r.c = b /\ r.key = next /\ r.from = o /\ r.entry = e
          /\ r \in [c : CacheStates, key : RomKeys \cup {NoKey}, from : Nat, entry : Entries]
      BY <1>1, <2>3, <2>5, <3>3
    <3>6. e # None => \E p \in S : e = InRom(p) /\ b.rom[p].key = k
      BY <1>1, <2>3, <3>4 DEF S
    <3>7. m = "boot" => k = Swi /\ e = InRom(Watermark)
      BY <1>2, <1>8, <2>9
    <3>8. b.rom[o].key = j
      BY <2>3, <3>2, <3>4
    <3>9. Translating(r, k, a, S, L \cup {o}, W, m)
      BY <2>3, <2>5, <2>6, <2>7, <3>2, <3>4, <3>5, <3>6, <3>7, <3>8 DEF Translating
    <3> QED BY <3>1, <3>9
  <2> QED BY <2>8, <2>9
<1> QED BY <1>5, <1>6, <1>7, <1>8
-----------------------------------------------------------------------------
(* Lookups *)

\* What a lookup of key k in caches c returns while the RAM holds t: caches as they should
\* be, and an entry that leads to the key, if one.
Answered(r, c, k, t, S, M, W, m) ==
  /\ CachesOK(r[1], S, M, W, m) /\ r[1].swi = c.swi
  /\ TextOK(c, t) => TextOK(r[1], t)
  /\ r[2] # None => Leads(r[1], S, r[2], k)
  /\ m = "boot" => IF r[2] = None THEN S = {} ELSE r[2] = InRom(Watermark)

\* The state of a translation after a number of steps.
First(c, k) == [c |-> c, key |-> k, from |-> 0, entry |-> None]
After(g, c, k, t, n) == IF n = 0 THEN First(c, k) ELSE Sought(g[n - 1], t)

Steps(g, c, k, t, N) == [n \in 0 .. N |-> After(g, c, k, t, n)]

\* The steps of a translation are well defined.
LEMMA StepsDefined ==
  ASSUME NEW c, NEW k, NEW t, NEW N \in Nat
  PROVE  \E f : f = Steps(f, c, k, t, N)
<1> DEFINE On(g, i) == g = [n \in 0 .. i |-> After(g, c, k, t, n)]
           Fails == {i \in 0 .. N : \A g : ~On(g, i)}
<1>1. On([n \in 0 .. 0 |-> First(c, k)], 0)
  BY DEF After
<1>2. ASSUME NEW i \in 1 .. N, NEW g, On(g, i - 1)
      PROVE  \E h : On(h, i)
  <2> DEFINE h == [n \in 0 .. i |-> After(g, c, k, t, n)]
  <2>1. ASSUME NEW n \in 0 .. i
        PROVE  After(g, c, k, t, n) = After(h, c, k, t, n)
    <3>1. CASE n = 0
      BY <3>1 DEF After
    <3>2. CASE n # 0
      <4>1. n - 1 \in 0 .. (i - 1) /\ n - 1 \in 0 .. i
        BY <3>2
      <4>2. g[n - 1] = After(g, c, k, t, n - 1) /\ h[n - 1] = After(g, c, k, t, n - 1)
        BY <1>2, <4>1
      <4> HIDE DEF h
      <4> QED BY <3>2, <4>2 DEF After
    <3> QED BY <3>1, <3>2
  <2>2. h = [n \in 0 .. i |-> After(h, c, k, t, n)]
    BY <2>1
  <2> QED BY <2>2
<1>3. Fails = {}
  <2> SUFFICES ASSUME Fails # {} PROVE FALSE
    OBVIOUS
  <2>1. Fails \subseteq Nat
    OBVIOUS
  <2>2. PICK n \in Fails : \A r \in Fails : n <= r
    <3> HIDE DEF Fails
    <3> QED BY <2>1, LeastOf
  <2> HIDE DEF On
  <2>3. n # 0
    BY <1>1, <2>2
  <2>4. n - 1 \in 0 .. N /\ n \in 1 .. N /\ ~(n <= n - 1)
    BY <2>2, <2>3
  <2>5. \E g : On(g, n - 1)
    BY <2>2, <2>4
  <2> QED BY <1>2, <2>2, <2>4, <2>5
<1>4. \E f : On(f, N)
  <2>1. N \in 0 .. N
    OBVIOUS
  <2> HIDE DEF On
  <2> QED BY <1>3, <2>1
<1> QED BY <1>4 DEF Steps

\* A translation in the ROM's cache finds or makes a block of the key, or flushes.
LEMMA TryRomOK ==
  ASSUME NEW c, NEW R, NEW L, NEW W, NEW m, CachesOK(c, R, L, W, m), NEW k \in RomKeys,
         NEW t \in [RamKeys -> {0, 1}], m = "boot" => k = Swi /\ R = {}
  PROVE  \E S, M : Answered(TryRom(c, k, t), c, k, t, S, M, W, m)
<1> DEFINE N == RomLimit + 1
           F == CHOOSE f : f = [n \in 0 .. N |->
                  IF n = 0 THEN [c |-> c, key |-> k, from |-> 0, entry |-> None]
                  ELSE Sought(f[n - 1], t)]
<1>1. TryRom(c, k, t) = <<F[N].c, F[N].entry>>
  BY DEF TryRom
<1>2. F = [n \in 0 .. N |-> After(F, c, k, t, n)]
  <2>1. \E f : f = [n \in 0 .. N |->
                  IF n = 0 THEN [c |-> c, key |-> k, from |-> 0, entry |-> None]
                  ELSE Sought(f[n - 1], t)]
    <3>1. N \in Nat
      BY DispatchAssumption
    <3> HIDE DEF N
    <3> PICK f : f = Steps(f, c, k, t, N)
      BY <3>1, StepsDefined
    <3>2. Steps(f, c, k, t, N) = [n \in 0 .. N |->
                  IF n = 0 THEN [c |-> c, key |-> k, from |-> 0, entry |-> None]
                  ELSE Sought(f[n - 1], t)]
      BY DEF Steps, After, First
    <3> QED BY <3>2
  <2>2. F = [n \in 0 .. N |->
                  IF n = 0 THEN [c |-> c, key |-> k, from |-> 0, entry |-> None]
                  ELSE Sought(F[n - 1], t)]
    BY <2>1
  <2> HIDE DEF F
  <2> QED BY <2>2 DEF After, First
<1> HIDE DEF F
<1>3. N \in Nat /\ \A n \in 0 .. N : F[n] = After(F, c, k, t, n)
  BY <1>2, DispatchAssumption, SMTT(30)
<1> HIDE DEF N
<1>4. Translating(First(c, k), k, c, R, L, W, m)
  <2> PICK s : s = First(c, k)
    OBVIOUS
  <2>1. c \in CacheStates
    BY DEF CachesOK
  <2>2. /\ s \in [c : CacheStates, key : RomKeys \cup {NoKey}, from : Nat, entry : Entries]
        /\ s.c = c /\ s.key = k /\ s.from = 0 /\ s.entry = None
    BY <2>1, Entry DEF First
  <2> HIDE DEF First
  <2>3. Translating(s, k, c, R, L, W, m)
    BY <2>2 DEF Translating
  <2> QED BY <2>3
<1> DEFINE Right(n) == \E S, M : Translating(F[n], k, c, S, M, W, m)
           Wrong == {n \in 0 .. N : ~Right(n)}
<1>5. Right(0)
  <2>1. F[0] = First(c, k)
    BY <1>3 DEF After
  <2> QED BY <1>4, <2>1
<1>6. ASSUME NEW n \in 1 .. N, Right(n - 1) PROVE Right(n)
  <2>1. F[n] = Sought(F[n - 1], t)
    BY <1>3 DEF After
  <2> PICK s : s = F[n - 1]
    OBVIOUS
  <2> PICK S, M : Translating(s, k, c, S, M, W, m)
    BY <1>6
  <2>2. \E S2, M2 : Translating(Sought(s, t), k, c, S2, M2, W, m)
    BY SoughtOK
  <2> QED BY <2>1, <2>2
<1>7. Wrong = {}
  <2> SUFFICES ASSUME Wrong # {} PROVE FALSE
    OBVIOUS
  <2>1. Wrong \subseteq Nat
    BY <1>3
  <2>2. PICK n \in Wrong : \A i \in Wrong : n <= i
    <3> HIDE DEF Wrong
    <3> QED BY <2>1, LeastOf
  <2> HIDE DEF Right
  <2>3. n \in 1 .. N /\ n - 1 \in 0 .. N /\ ~(n <= n - 1)
    BY <1>3, <1>5, <2>2
  <2>4. Right(n - 1)
    BY <2>2, <2>3
  <2> QED BY <1>6, <2>2, <2>3, <2>4
<1> PICK s : s = F[N]
  OBVIOUS
<1> PICK S, M : Translating(s, k, c, S, M, W, m)
  <2> HIDE DEF Right
  <2>1. Right(N)
    BY <1>3, <1>7
  <2> QED BY <2>1 DEF Right
<1> PICK r : r = <<s.c, s.entry>>
  OBVIOUS
<1>8. TryRom(c, k, t) = r /\ r[1] = s.c /\ r[2] = s.entry
  BY <1>1
<1>9. /\ CachesOK(r[1], S, M, W, m) /\ r[1].swi = c.swi
      /\ r[2] # None => Leads(r[1], S, r[2], k)
  BY <1>8 DEF Translating, Leads
<1>10. TextOK(c, t) => TextOK(r[1], t)
  <2>1. r[1].find = c.find /\ r[1].ram = c.ram
    BY <1>8 DEF Translating
  <2> QED BY <2>1, SameText
<1>11. m = "boot" => IF r[2] = None THEN S = {} ELSE r[2] = InRom(Watermark)
  <2>1. InRom(Watermark) # None
    BY Entry, DispatchAssumption
  <2> QED BY <1>8, <2>1 DEF Translating
<1>12. Answered(r, c, k, t, S, M, W, m)
  BY <1>9, <1>10, <1>11 DEF Answered
<1> QED BY <1>8, <1>12


\* So does one in the RAM's cache, from what the RAM holds.
LEMMA TryRamOK ==
  ASSUME NEW c, NEW R, NEW L, NEW W, CachesOK(c, R, L, W, "run"), NEW k \in RamKeys,
         NEW t \in [RamKeys -> {0, 1}]
  PROVE  Answered(TryRam(c, k, t), c, k, t, R, L, W, "run")
<1> PICK r, o : r = TryRam(c, k, t) /\ o = c.ramPtr
  OBVIOUS
<1>1. /\ c \in CacheStates /\ RomOK(c, R, L, W) /\ Chains(c, L) /\ SwiOK(c, R, W, "run")
      /\ RamOK(c, W) /\ OldSlots(c) /\ SlotsOK(c, R)
      /\ c.find \in [RamKeys -> Entries] /\ c.ram \in [RamPlaces -> Blocks] /\ o \in Nat
  BY DEF CachesOK, CacheStates
<1>2. CASE c.find[k] # None
  <2>1. TryRam(c, k, t) = <<c, c.find[k]>>
    BY <1>2 DEF TryRam
  <2> QED BY <1>1, <1>2, <2>1 DEF Answered, Leads
<1>3. CASE c.find[k] = None /\ o + Cost(k) > RamLimit
  <2> PICK b : b = FlushRam(c)
    OBVIOUS
  <2>1. TryRam(c, k, t) = <<b, None>>
    BY <1>3 DEF TryRam
  <2>2. CachesOK(b, R, L, W, "run") /\ b.swi = c.swi /\ \A j \in RamKeys : b.find[j] = None
    BY FlushRamOK
  <2> QED BY <2>1, <2>2 DEF Answered, TextOK
<1>4. CASE c.find[k] = None /\ ~(o + Cost(k) > RamLimit)
  <2> DEFINE x == Put(c.ram, o, Cost(k), NewBlock(c, k, t))
             y == [c.find EXCEPT ![k] = InRam(o)]
             n == o + Cost(k)
             d == [c EXCEPT !.ram = x, !.find = y, !.ramPtr = n]
  <2>1. TryRam(c, k, t) = <<d, InRam(o)>>
    BY <1>4 DEF TryRam
  <2>2. k \in Keys /\ Cost(k) \in Nat \ {0} /\ RamLimit \in Nat
    BY DispatchAssumption DEF Keys
  <2>3. o \in RamPlaces /\ n \in Nat /\ o < n /\ n <= RamLimit
    BY <1>1, <1>4, <2>2 DEF RamPlaces
  <2>4. /\ x \in [RamPlaces -> Blocks] /\ x[o] = NewBlock(c, k, t)
        /\ \A p \in RamPlaces : p < o => x[p] = c.ram[p]
    <3>1. x = [p \in RamPlaces |-> IF p = o THEN NewBlock(c, k, t)
                     ELSE IF o < p /\ p < o + Cost(k) THEN NoBlock ELSE c.ram[p]]
      BY <1>1 DEF Put
    <3>2. NewBlock(c, k, t) \in Blocks
      BY <1>1, <2>2, NewBlockTyped
    <3>3. ASSUME NEW p \in RamPlaces, p < o PROVE ~(o < p) /\ p # o
      BY <1>1, <3>3 DEF RamPlaces
    <3> HIDE DEF x
    <3> QED BY <1>1, <2>3, <3>1, <3>2, <3>3, NoBlockTyped
  <2>5. /\ InRam(o) \in Entries /\ InRam(o) # None /\ InRam(o).at = o
        /\ y \in [RamKeys -> Entries] /\ y[k] = InRam(o)
        /\ \A j \in RamKeys : j # k => y[j] = c.find[j]
    BY <1>1, Entry
  <2> HIDE DEF x, y, n
  <2>6. /\ d \in CacheStates /\ d.rom = c.rom /\ d.romPtr = c.romPtr /\ d.hash = c.hash
        /\ d.watermark = c.watermark /\ d.swi = c.swi /\ d.find = y /\ d.ram = x
        /\ d.ramPtr = n /\ d.gen = c.gen /\ d.slots = c.slots
    BY <1>1, <2>3, <2>4, <2>5 DEF CacheStates
  <2> HIDE DEF d
  <2>7. RamOK(d, W)
    <3>1. ASSUME NEW j \in RamKeys, j # k
          PROVE  d.find[j] = None \/ \E p \in RamPlaces :
             /\ d.find[j] = InRam(p) /\ p < d.ramPtr /\ d.ram[p].key = j
             /\ d.ram[p].link = None
                  \/ (d.ram[p].link = InRom(Watermark) /\ Watermark \in W /\ ExitOf(j) = Swi)
      <4>1. CASE c.find[j] = None
        BY <2>5, <2>6, <3>1, <4>1
      <4>2. CASE c.find[j] # None
        <5>1. PICK p \in RamPlaces :
             /\ c.find[j] = InRam(p) /\ p < o /\ c.ram[p].key = j
             /\ c.ram[p].link = None
                  \/ (c.ram[p].link = InRom(Watermark) /\ Watermark \in W /\ ExitOf(j) = Swi)
          BY <1>1, <4>2 DEF RamOK
        <5>2. x[p] = c.ram[p] /\ p < n
          BY <1>1, <2>3, <2>4, <5>1 DEF RamPlaces
        <5> QED BY <2>5, <2>6, <3>1, <5>1, <5>2
      <4> QED BY <4>1, <4>2
    <3>2. /\ d.find[k] = InRam(o) /\ o < d.ramPtr /\ d.ram[o].key = k
          /\ d.ram[o].link = None
               \/ (d.ram[o].link = InRom(Watermark) /\ Watermark \in W /\ ExitOf(k) = Swi)
      <4>1. /\ d.ram[o].key = k
            /\ d.ram[o].link = IF ExitOf(k) = Swi THEN c.swi ELSE None
        BY <1>1, <2>2, <2>4, <2>6, NewBlockTyped
      <4> QED BY <1>1, <2>3, <2>5, <2>6, <4>1 DEF SwiOK
    <3> QED BY <2>3, <2>6, <3>1, <3>2 DEF RamOK
  <2>8. RomOK(d, R, L, W) /\ Chains(d, L) /\ SwiOK(d, R, W, "run") /\ OldSlots(d)
    BY <1>1, <2>6 DEF RomOK, Chains, SwiOK, OldSlots
  <2>9. SlotsOK(d, R)
    <3>1. ASSUME NEW e, NEW j, Leads(c, R, e, j) PROVE Leads(d, R, e, j)
      BY <1>4, <2>5, <2>6, <3>1 DEF Leads
    <3> QED BY <1>1, <2>6, <3>1 DEF SlotsOK
  <2>10. CachesOK(d, R, L, W, "run")
    BY <2>6, <2>7, <2>8, <2>9 DEF CachesOK
  <2>11. TextOK(c, t) => TextOK(d, t)
    <3>1. ASSUME TextOK(c, t), NEW j \in RamKeys, j # k, c.find[j] # None
          PROVE  d.ram[d.find[j].at].text = t[j]
      <4>1. PICK p \in RamPlaces : c.find[j] = InRam(p) /\ p < o
        BY <1>1, <3>1 DEF RamOK
      <4>2. d.find[j].at = p /\ c.find[j].at = p
        BY <2>5, <2>6, <3>1, <4>1, Entry DEF RamPlaces
      <4>3. d.ram[p] = c.ram[p] /\ c.ram[p].text = t[j]
        BY <2>4, <2>6, <3>1, <4>1, <4>2 DEF TextOK
      <4> QED BY <4>2, <4>3
    <3>2. d.ram[d.find[k].at].text = t[k]
      BY <1>1, <2>2, <2>4, <2>5, <2>6, NewBlockTyped
    <3>3. \A j \in RamKeys : j # k => d.find[j] = c.find[j]
      BY <2>5, <2>6
    <3> QED BY <3>1, <3>2, <3>3 DEF TextOK
  <2>12. Leads(d, R, InRam(o), k)
    BY <2>5, <2>6 DEF Leads
  <2> QED BY <2>1, <2>6, <2>10, <2>11, <2>12 DEF Answered
<1> QED BY <1>2, <1>3, <1>4

\* So does one try of a lookup, whatever the key.
LEMMA LookUpOnceOK ==
  ASSUME NEW c, NEW R, NEW L, NEW W, NEW m, CachesOK(c, R, L, W, m), NEW k \in Keys,
         NEW t \in [RamKeys -> {0, 1}], m = "boot" => k = Swi /\ R = {}
  PROVE  \E S, M : Answered(LookUpOnce(c, k, t), c, k, t, S, M, W, m)
<1>1. CASE k \in RomKeys
  <2>1. \E S, M : Answered(TryRom(c, k, t), c, k, t, S, M, W, m)
    BY <1>1, TryRomOK
  <2> QED BY <1>1, <2>1 DEF LookUpOnce
<1>2. CASE k \notin RomKeys
  <2>1. m = "run"
    BY <1>2, DispatchAssumption DEF CachesOK
  <2>2. CASE k \in RamKeys
    <3>1. Answered(TryRam(c, k, t), c, k, t, R, L, W, "run")
      BY <2>1, <2>2, TryRamOK
    <3> QED BY <1>2, <2>1, <2>2, <3>1 DEF LookUpOnce
  <2>3. CASE k \notin RamKeys
    <3> PICK r : r = <<c, None>>
      OBVIOUS
    <3>1. LookUpOnce(c, k, t) = r /\ r[1] = c /\ r[2] = None
      BY <1>2, <2>3 DEF LookUpOnce
    <3>2. Answered(r, c, k, t, R, L, W, m)
      BY <2>1, <3>1 DEF Answered
    <3> QED BY <3>1, <3>2
  <2> QED BY <2>2, <2>3
<1> QED BY <1>1, <1>2

\* What the tries of a lookup have found.
Try(g, c, k, t, n) ==
  IF n = 0 THEN <<c, None>>
  ELSE IF g[n - 1][2] # None THEN g[n - 1] ELSE LookUpOnce(g[n - 1][1], k, t)
Trials(g, c, k, t, N) == [n \in 0 .. N |-> Try(g, c, k, t, n)]

\* The tries of a lookup are well defined.
LEMMA TrialsDefined ==
  ASSUME NEW c, NEW k, NEW t, NEW N \in Nat
  PROVE  \E f : f = Trials(f, c, k, t, N)
<1> DEFINE On(g, i) == g = [n \in 0 .. i |-> Try(g, c, k, t, n)]
           Fails == {i \in 0 .. N : \A g : ~On(g, i)}
<1>1. On([n \in 0 .. 0 |-> <<c, None>>], 0)
  BY DEF Try
<1>2. ASSUME NEW i \in 1 .. N, NEW g, On(g, i - 1)
      PROVE  \E h : On(h, i)
  <2> DEFINE h == [n \in 0 .. i |-> Try(g, c, k, t, n)]
  <2>1. ASSUME NEW n \in 0 .. i
        PROVE  Try(g, c, k, t, n) = Try(h, c, k, t, n)
    <3>1. CASE n = 0
      BY <3>1 DEF Try
    <3>2. CASE n # 0
      <4>1. n - 1 \in 0 .. (i - 1) /\ n - 1 \in 0 .. i
        BY <3>2
      <4>2. g[n - 1] = Try(g, c, k, t, n - 1) /\ h[n - 1] = Try(g, c, k, t, n - 1)
        BY <1>2, <4>1
      <4> HIDE DEF h
      <4> QED BY <3>2, <4>2 DEF Try
    <3> QED BY <3>1, <3>2
  <2>2. h = [n \in 0 .. i |-> Try(h, c, k, t, n)]
    BY <2>1
  <2> QED BY <2>2
<1>3. Fails = {}
  <2> SUFFICES ASSUME Fails # {} PROVE FALSE
    OBVIOUS
  <2>1. Fails \subseteq Nat
    OBVIOUS
  <2>2. PICK n \in Fails : \A r \in Fails : n <= r
    <3> HIDE DEF Fails
    <3> QED BY <2>1, LeastOf
  <2> HIDE DEF On
  <2>3. n # 0
    BY <1>1, <2>2
  <2>4. n - 1 \in 0 .. N /\ n \in 1 .. N /\ ~(n <= n - 1)
    BY <2>2, <2>3
  <2>5. \E g : On(g, n - 1)
    BY <2>2, <2>4
  <2> QED BY <1>2, <2>2, <2>4, <2>5
<1>4. \E f : On(f, N)
  <2>1. N \in 0 .. N
    OBVIOUS
  <2> HIDE DEF On
  <2> QED BY <1>3, <2>1
<1> QED BY <1>4 DEF Trials

\* A lookup finds a block of the key, or none, and leaves the caches right.
LEMMA BlockOfOK ==
  ASSUME NEW c, NEW R, NEW L, NEW W, NEW m, CachesOK(c, R, L, W, m), NEW k \in Keys,
         NEW t \in [RamKeys -> {0, 1}], m = "boot" => k = Swi /\ R = {}
  PROVE  \E S, M : Answered(BlockOf(c, k, t), c, k, t, S, M, W, m)
<1> DEFINE F == CHOOSE f : f = [n \in 0 .. Tries |->
                  IF n = 0 THEN <<c, None>>
                  ELSE IF f[n - 1][2] # None THEN f[n - 1] ELSE LookUpOnce(f[n - 1][1], k, t)]
<1>1. BlockOf(c, k, t) = F[Tries]
  BY DEF BlockOf
<1>2. F = [n \in 0 .. Tries |-> Try(F, c, k, t, n)]
  <2>1. \E f : f = [n \in 0 .. Tries |->
                  IF n = 0 THEN <<c, None>>
                  ELSE IF f[n - 1][2] # None THEN f[n - 1] ELSE LookUpOnce(f[n - 1][1], k, t)]
    <3>1. Tries \in Nat
      BY DispatchAssumption
    <3> PICK f : f = Trials(f, c, k, t, Tries)
      BY <3>1, TrialsDefined
    <3>2. Trials(f, c, k, t, Tries) = [n \in 0 .. Tries |->
                  IF n = 0 THEN <<c, None>>
                  ELSE IF f[n - 1][2] # None THEN f[n - 1] ELSE LookUpOnce(f[n - 1][1], k, t)]
      BY DEF Trials, Try
    <3> QED BY <3>2
  <2>2. F = [n \in 0 .. Tries |->
                  IF n = 0 THEN <<c, None>>
                  ELSE IF F[n - 1][2] # None THEN F[n - 1] ELSE LookUpOnce(F[n - 1][1], k, t)]
    BY <2>1
  <2> HIDE DEF F
  <2> QED BY <2>2 DEF Try
<1> HIDE DEF F
<1>3. Tries \in Nat /\ \A n \in 0 .. Tries : F[n] = Try(F, c, k, t, n)
  BY <1>2, DispatchAssumption
<1> DEFINE Right(n) == \E S, M : Answered(F[n], c, k, t, S, M, W, m)
           Wrong == {n \in 0 .. Tries : ~Right(n)}
<1>4. Right(0)
  <2> PICK r : r = <<c, None>>
    OBVIOUS
  <2>1. F[0] = r /\ r[1] = c /\ r[2] = None
    BY <1>3 DEF Try
  <2>2. Answered(r, c, k, t, R, L, W, m)
    BY <2>1 DEF Answered
  <2> QED BY <2>1, <2>2
<1>5. ASSUME NEW n \in 1 .. Tries, Right(n - 1) PROVE Right(n)
  <2> PICK r : r = F[n - 1]
    OBVIOUS
  <2>1. F[n] = IF r[2] # None THEN r ELSE LookUpOnce(r[1], k, t)
    BY <1>3 DEF Try
  <2> PICK S, M : Answered(r, c, k, t, S, M, W, m)
    BY <1>5
  <2>2. CASE r[2] # None
    BY <2>1, <2>2
  <2>3. CASE r[2] = None
    <3> PICK q, b : q = LookUpOnce(r[1], k, t) /\ b = r[1]
      OBVIOUS
    <3>1. /\ CachesOK(b, S, M, W, m) /\ b.swi = c.swi
          /\ TextOK(c, t) => TextOK(b, t)
          /\ m = "boot" => k = Swi /\ S = {}
      BY <2>3 DEF Answered
    <3>2. PICK S2, M2 : Answered(LookUpOnce(b, k, t), b, k, t, S2, M2, W, m)
      BY <3>1, LookUpOnceOK
    <3>3. Answered(q, b, k, t, S2, M2, W, m)
      BY <3>2
    <3>4. Answered(q, c, k, t, S2, M2, W, m)
      BY <3>1, <3>3 DEF Answered
    <3> QED BY <2>1, <2>3, <3>4
  <2> QED BY <2>2, <2>3
<1>6. Wrong = {}
  <2> SUFFICES ASSUME Wrong # {} PROVE FALSE
    OBVIOUS
  <2>1. Wrong \subseteq Nat
    BY <1>3
  <2>2. PICK n \in Wrong : \A i \in Wrong : n <= i
    <3> HIDE DEF Wrong
    <3> QED BY <2>1, LeastOf
  <2> HIDE DEF Right
  <2>3. n \in 1 .. Tries /\ n - 1 \in 0 .. Tries /\ ~(n <= n - 1)
    BY <1>3, <1>4, <2>2
  <2>4. Right(n - 1)
    BY <2>2, <2>3
  <2> QED BY <1>5, <2>2, <2>3, <2>4
<1>7. Right(Tries)
  <2> HIDE DEF Right
  <2> QED BY <1>3, <1>6
<1> QED BY <1>1, <1>7
-----------------------------------------------------------------------------
(* The reset, and the dispatch cache *)

\* What a reset begins with, and what it makes of the translation of Swi.
Clear(c) == [c EXCEPT !.hash = [b \in Buckets |-> 0], !.romPtr = Watermark,
                      !.find = [k \in RamKeys |-> None], !.ramPtr = 0]
Low(c) == [c EXCEPT !.watermark = Watermark]
Fixed(b, e) == [b EXCEPT !.swi = e, !.watermark = b.romPtr]

\* A reset leaves the caches empty, whatever they held.
LEMMA ClearedOK ==
  ASSUME NEW c \in CacheStates, c.gen \in 0 .. (Generations - 1), OldSlots(c),
         NEW L, Chains(c, L), c.swi = None \/ c.swi = InRom(Watermark)
  PROVE  /\ CachesOK(Invalidate(Low(Cleaned(c))), {}, {}, {}, "boot")
         /\ \A k \in RamKeys : Invalidate(Low(Cleaned(c))).find[k] = None
<1>1. Generations \in Nat /\ Watermark \in 1 .. RomLimit /\ RomLimit \in Nat /\ RamLimit \in Nat
  BY DispatchAssumption
<1> PICK e : e = Clear(c)
  OBVIOUS
<1>2. /\ e \in CacheStates /\ e.gen = c.gen /\ e.slots = c.slots
      /\ e.hash = [b \in Buckets |-> 0] /\ e.rom = c.rom /\ e.romPtr = Watermark
      /\ e.swi = c.swi /\ e.find = [k \in RamKeys |-> None] /\ e.ram = c.ram /\ e.ramPtr = 0
  <2> DEFINE h == [b \in Buckets |-> 0]
             n == [k \in RamKeys |-> None]
  <2>1. h \in [Buckets -> Nat] /\ n \in [RamKeys -> Entries]
    BY Entry
  <2>2. e = [c EXCEPT !.hash = h, !.romPtr = Watermark, !.find = n, !.ramPtr = 0]
    BY DEF Clear
  <2>3. Watermark \in Nat
    BY <1>1
  <2> HIDE DEF h, n
  <2> PICK f : f = [c EXCEPT !.hash = h, !.romPtr = Watermark]
    OBVIOUS
  <2>4. /\ f \in CacheStates /\ f.gen = c.gen /\ f.slots = c.slots
        /\ f.hash = h /\ f.rom = c.rom /\ f.romPtr = Watermark
        /\ f.swi = c.swi /\ f.ram = c.ram
    BY <2>1, <2>3 DEF CacheStates
  <2> PICK g : g = [f EXCEPT !.find = n, !.ramPtr = 0]
    OBVIOUS
  <2>5. g = e
    BY <2>2
  <2>6. f \in CacheStates
    BY <2>4
  <2>7. /\ g \in CacheStates /\ g.gen = f.gen /\ g.slots = f.slots
        /\ g.hash = f.hash /\ g.rom = f.rom /\ g.romPtr = f.romPtr
        /\ g.swi = f.swi /\ g.find = n /\ g.ram = f.ram /\ g.ramPtr = 0
    BY <2>1, <2>6 DEF CacheStates
  <2> QED BY <2>4, <2>5, <2>7 DEF h, n
<1>3. OldSlots(e) /\ e.gen \in 0 .. (Generations - 1)
  BY <1>2 DEF OldSlots
<1> PICK f : f = Invalidate(e)
  OBVIOUS
<1>4. /\ f \in CacheStates /\ f.gen \in 1 .. (Generations - 1)
      /\ f.hash = e.hash /\ f.rom = e.rom /\ f.romPtr = e.romPtr /\ f.swi = e.swi
      /\ f.find = e.find /\ f.ram = e.ram /\ f.ramPtr = e.ramPtr /\ OldSlots(f)
  BY <1>2, <1>3, Invalidated
<1>5. Cleaned(c) = f
  BY DEF Cleaned, Clear
<1> PICK g : g = Low(f)
  OBVIOUS
<1>6. /\ g \in CacheStates /\ g.gen = f.gen /\ g.slots = f.slots
      /\ g.hash = e.hash /\ g.rom = e.rom /\ g.romPtr = Watermark /\ g.watermark = Watermark
      /\ g.swi = c.swi /\ g.find = e.find /\ g.ram = e.ram /\ g.ramPtr = 0
  BY <1>1, <1>2, <1>4 DEF Low, CacheStates
<1>7. OldSlots(g) /\ g.gen \in 0 .. (Generations - 1)
  BY <1>1, <1>4, <1>6 DEF OldSlots
<1> PICK d : d = Invalidate(g)
  OBVIOUS
<1>8. /\ d \in CacheStates /\ d.gen \in 1 .. (Generations - 1)
      /\ d.hash = g.hash /\ d.rom = g.rom /\ d.romPtr = g.romPtr
      /\ d.watermark = g.watermark /\ d.swi = g.swi
      /\ d.find = g.find /\ d.ram = g.ram /\ d.ramPtr = g.ramPtr
      /\ OldSlots(d) /\ \A s \in Slots : d.slots[s].entry = None \/ d.slots[s].gen # d.gen
  BY <1>6, <1>7, Invalidated
<1>9. SlotsOK(d, {})
  BY <1>8, NoneCounts
<1>10. RomOK(d, {}, {}, {})
  BY <1>1, <1>6, <1>8 DEF RomOK
<1>11. Chains(d, {})
  BY <1>2, <1>6, <1>8 DEF Chains
<1>12. RamOK(d, {}) /\ \A k \in RamKeys : d.find[k] = None
  BY <1>1, <1>2, <1>6, <1>8 DEF RamOK
<1>13. SwiOK(d, {}, {}, "boot")
  BY <1>6, <1>8 DEF SwiOK
<1> QED BY <1>5, <1>8, <1>9, <1>10, <1>11, <1>12, <1>13 DEF CachesOK

\* The caches are right once the way to the BIOS is fixed.
LEMMA FixedOK ==
  ASSUME NEW b, NEW S, NEW M, CachesOK(b, S, M, {}, "boot"), NEW e \in Entries,
         e # None => Leads(b, S, e, Swi), (e = None /\ S = {}) \/ e = InRom(Watermark),
         NEW t, TextOK(b, t)
  PROVE  CachesOK(Fixed(b, e), S, M, S, "run") /\ TextOK(Fixed(b, e), t)
<1> PICK f : f = Fixed(b, e)
  OBVIOUS
<1>1. /\ b \in CacheStates /\ b.gen \in 1 .. (Generations - 1)
      /\ RomOK(b, S, M, {}) /\ Chains(b, M) /\ RamOK(b, {}) /\ OldSlots(b) /\ SlotsOK(b, S)
  BY DEF CachesOK
<1>2. /\ f \in CacheStates /\ f.gen = b.gen /\ f.slots = b.slots /\ f.hash = b.hash
      /\ f.rom = b.rom /\ f.romPtr = b.romPtr /\ f.watermark = b.romPtr /\ f.swi = e
      /\ f.find = b.find /\ f.ram = b.ram /\ f.ramPtr = b.ramPtr
  BY <1>1 DEF Fixed, CacheStates
<1>3. RomOK(f, S, M, S)
  <2>1. b.romPtr \in Nat /\ b.watermark \in Nat /\ Watermark \in Nat
    BY <1>1, DispatchAssumption DEF CacheStates
  <2> QED BY <1>1, <1>2, <2>1 DEF RomOK
<1>4. Chains(f, M)
  BY <1>1, <1>2 DEF Chains
<1>5. RamOK(f, S)
  BY <1>1, <1>2 DEF RamOK
<1>6. SlotsOK(f, S) /\ OldSlots(f)
  <2>1. \A p \in S : p \in S /\ f.rom[p].key = b.rom[p].key
    BY <1>2
  <2> QED BY <1>1, <1>2, <2>1, SameSlots
<1>7. SwiOK(f, S, S, "run")
  <2>1. ASSUME e # None PROVE Watermark \in S /\ b.rom[Watermark].key = Swi
    <3>1. PICK p \in S : e = InRom(p) /\ b.rom[p].key = Swi
      BY <2>1, DispatchAssumption DEF Leads
    <3>2. p \in Nat /\ Watermark \in Nat
      BY <1>1, DispatchAssumption DEF RomOK
    <3>3. p = Watermark
      BY <2>1, <3>1, <3>2, Entry
    <3> QED BY <3>1, <3>3
  <2>2. Watermark \in S => e # None
    BY Entry, DispatchAssumption
  <2>3. /\ f.swi = None \/ f.swi = InRom(Watermark)
        /\ f.swi # None => Watermark \in S
        /\ Watermark \in S => f.rom[Watermark].key = Swi
    BY <1>2, <2>1, <2>2
  <2>4. "run" # "boot"
    OBVIOUS
  <2> QED BY <2>3, <2>4, Zenon DEF SwiOK
<1>8. TextOK(f, t)
  BY <1>2, SameText
<1> QED BY <1>1, <1>2, <1>3, <1>4, <1>5, <1>6, <1>7, <1>8 DEF CachesOK

\* What the reset translated stays: the way to the BIOS leads there from then on.
LEMMA BootedOK ==
  ASSUME NEW c \in CacheStates, c.gen \in 0 .. (Generations - 1), OldSlots(c),
         NEW L, Chains(c, L), c.swi = None \/ c.swi = InRom(Watermark),
         NEW t \in [RamKeys -> {0, 1}]
  PROVE  \E S, M : CachesOK(Booted(c, t), S, M, S, "run") /\ TextOK(Booted(c, t), t)
<1> PICK d : d = Invalidate(Low(Cleaned(c)))
  OBVIOUS
<1>1. CachesOK(d, {}, {}, {}, "boot") /\ TextOK(d, t)
  BY ClearedOK DEF TextOK
<1>2. Swi \in Keys /\ Swi \in RomKeys /\ Swi \notin RamKeys
  BY DispatchAssumption DEF Keys
<1>3. PICK S, M : Answered(BlockOf(d, Swi, t), d, Swi, t, S, M, {}, "boot")
  BY <1>1, <1>2, BlockOfOK
<1> PICK r : r = BlockOf(d, Swi, t)
  OBVIOUS
<1> PICK b, e : b = r[1] /\ e = r[2]
  OBVIOUS
<1>4. Booted(c, t) = Fixed(b, e)
  BY DEF Booted, Low, Fixed
<1>5. /\ CachesOK(b, S, M, {}, "boot") /\ TextOK(b, t)
      /\ e # None => Leads(b, S, e, Swi)
      /\ (e = None /\ S = {}) \/ e = InRom(Watermark)
  BY <1>1, <1>3 DEF Answered
<1>6. e \in Entries
  BY <1>5, Entry, DispatchAssumption
<1>7. CachesOK(Fixed(b, e), S, M, S, "run") /\ TextOK(Fixed(b, e), t)
  BY <1>5, <1>6, FixedOK
<1> QED BY <1>4, <1>7

\* The entry of key k is kept in its slot.
Stored(b, e, k) == [b EXCEPT !.slots[Slot(k)] = [key |-> k, entry |-> e, gen |-> b.gen]]

\* What is kept leads to the block of its key.
LEMMA StoredOK ==
  ASSUME NEW b, NEW R, NEW L, NEW W, CachesOK(b, R, L, W, "run"), NEW e, NEW k \in Keys,
         Leads(b, R, e, k)
  PROVE  /\ CachesOK(Stored(b, e, k), R, L, W, "run")
         /\ Stored(b, e, k).rom = b.rom /\ Stored(b, e, k).find = b.find
         /\ Stored(b, e, k).ram = b.ram
<1>1. /\ b \in CacheStates /\ b.gen \in 1 .. (Generations - 1) /\ b.gen \in Nat
      /\ RomOK(b, R, L, W) /\ Chains(b, L) /\ RamOK(b, W) /\ OldSlots(b) /\ SlotsOK(b, R)
      /\ SwiOK(b, R, W, "run")
  BY DEF CachesOK, CacheStates
<1>2. e \in Entries
  BY <1>1, Entry DEF Leads, RomOK, CacheStates
<1> DEFINE x == [key |-> k, entry |-> e, gen |-> b.gen]
           y == [b.slots EXCEPT ![Slot(k)] = x]
           d == [b EXCEPT !.slots = y]
<1>3. Stored(b, e, k) = d
  BY DEF Stored
<1>4. Slot(k) \in Slots
  BY DispatchAssumption
<1>5. /\ x \in [key : Keys \cup {NoKey}, entry : Entries, gen : Nat]
      /\ x.key = k /\ x.entry = e /\ x.gen = b.gen
  BY <1>1, <1>2
<1> HIDE DEF x
<1>6. /\ y \in [Slots -> [key : Keys \cup {NoKey}, entry : Entries, gen : Nat]]
      /\ \A s \in Slots : y[s] = IF s = Slot(k) THEN x ELSE b.slots[s]
  BY <1>1, <1>4, <1>5 DEF CacheStates
<1> HIDE DEF y
<1>7. /\ d \in CacheStates /\ d.gen = b.gen /\ d.slots = y /\ d.hash = b.hash
      /\ d.rom = b.rom /\ d.romPtr = b.romPtr /\ d.watermark = b.watermark /\ d.swi = b.swi
      /\ d.find = b.find /\ d.ram = b.ram /\ d.ramPtr = b.ramPtr
  BY <1>1, <1>6 DEF CacheStates
<1> HIDE DEF d
<1>8. RomOK(d, R, L, W) /\ Chains(d, L) /\ RamOK(d, W) /\ SwiOK(d, R, W, "run")
  BY <1>1, <1>7 DEF RomOK, Chains, RamOK, SwiOK
<1>9. OldSlots(d)
  BY <1>1, <1>5, <1>6, <1>7 DEF OldSlots
<1>10. SlotsOK(d, R)
  <2>1. Leads(d, R, e, k)
    BY <1>7 DEF Leads
  <2>2. ASSUME NEW s \in Slots, s # Slot(k), d.slots[s].entry # None, d.slots[s].gen = d.gen
        PROVE  Leads(d, R, d.slots[s].entry, d.slots[s].key)
    <3>1. d.slots[s] = b.slots[s]
      BY <1>6, <1>7, <2>2
    <3>2. Leads(b, R, b.slots[s].entry, b.slots[s].key)
      BY <1>1, <1>7, <2>2, <3>1 DEF SlotsOK
    <3> QED BY <1>7, <3>1, <3>2 DEF Leads
  <2> QED BY <1>5, <1>6, <1>7, <2>1, <2>2 DEF SlotsOK
<1> QED BY <1>1, <1>3, <1>7, <1>8, <1>9, <1>10 DEF CachesOK
-----------------------------------------------------------------------------
(* The steps *)


\* What the interpreter leaves is what no tag leads to.
LEMMA InterpretOK ==
  ASSUME NEW c, NEW R, NEW L, NEW W, CachesOK(c, R, L, W, "run"),
         NEW t \in [RamKeys -> {0, 1}], TextOK(c, t), ~LateWrites, Interpret(c, t),
         alert' = FALSE
  PROVE  Fits(caches', text', run', at', pc', alert')
<1>1. /\ caches' = c /\ run' = "out" /\ pc' \in Keys /\ text' \in [RamKeys -> {0, 1}]
      /\ \A k \in RamKeys : text'[k] # t[k] => c.find[k] = None
  BY DEF Interpret, MayWrite
<1>2. TextOK(caches', text')
  BY <1>1 DEF TextOK
<1> QED BY <1>1, <1>2 DEF Fits

\* Native code goes on at a block of the key, from what the RAM holds.
LEMMA GoOnOK ==
  ASSUME NEW r, NEW k \in Keys, NEW t \in [RamKeys -> {0, 1}], NEW R, NEW L, NEW W,
         CachesOK(r[1], R, L, W, "run"), TextOK(r[1], t),
         r[2] # None => Leads(r[1], R, r[2], k),
         ~LateWrites, GoOn(r, k, t), alert' = FALSE
  PROVE  Fits(caches', text', run', at', pc', alert')
<1>1. CASE Interpret(r[1], t)
  BY <1>1, InterpretOK
<1>2. CASE /\ r[2] # None
           /\ caches' = r[1] /\ run' = "native" /\ at' = r[2] /\ pc' = k /\ text' = t
  BY <1>2 DEF Fits
<1> QED BY <1>1, <1>2 DEF GoOn

\* A lookup, with what it keeps or without.
LEMMA LookUpOK ==
  ASSUME NEW c, NEW R, NEW L, NEW W, CachesOK(c, R, L, W, "run"), NEW k \in Keys,
         NEW t \in [RamKeys -> {0, 1}], TextOK(c, t), ~LateWrites, alert' = FALSE,
         GoOn(BlockOf(c, k, t), k, t) \/ GoOn(Kept(BlockOf(c, k, t), k), k, t)
  PROVE  Fits(caches', text', run', at', pc', alert')
<1> PICK r : r = BlockOf(c, k, t)
  OBVIOUS
<1>1. PICK S, M : Answered(BlockOf(c, k, t), c, k, t, S, M, W, "run")
  BY BlockOfOK
<1>2. /\ CachesOK(r[1], S, M, W, "run") /\ TextOK(r[1], t)
      /\ r[2] # None => Leads(r[1], S, r[2], k)
  BY <1>1 DEF Answered
<1>3. CASE GoOn(r, k, t)
  BY <1>2, <1>3, GoOnOK
<1>4. CASE GoOn(Kept(r, k), k, t) /\ r[2] = None
  BY <1>2, <1>3, <1>4, GoOnOK DEF Kept
<1>5. CASE GoOn(Kept(r, k), k, t) /\ r[2] # None
  <2> PICK b, e : b = r[1] /\ e = r[2]
    OBVIOUS
  <2> PICK d : d = Stored(b, e, k)
    OBVIOUS
  <2> PICK q : q = <<d, e>>
    OBVIOUS
  <2>1. CachesOK(b, S, M, W, "run") /\ Leads(b, S, e, k) /\ TextOK(b, t)
    BY <1>2, <1>5
  <2>2. CachesOK(d, S, M, W, "run") /\ d.rom = b.rom /\ d.find = b.find /\ d.ram = b.ram
    BY <2>1, StoredOK
  <2>3. TextOK(d, t) /\ Leads(d, S, e, k)
    BY <2>1, <2>2, SameText, SameLead
  <2>4. Kept(r, k) = q /\ q[1] = d /\ q[2] = e
    BY <1>5 DEF Kept, Stored
  <2>5. GoOn(q, k, t)
    BY <1>5, <2>4
  <2> QED BY <2>2, <2>3, <2>4, <2>5, GoOnOK
<1> QED BY <1>3, <1>4, <1>5

\* The reset makes the invariant true.
LEMMA DispatchStarts ==
  DispatchInit => DispatchInv
<1> SUFFICES ASSUME DispatchInit PROVE Fits(caches, text, run, at, pc, alert)
  BY DEF DispatchInv
<1> PICK c : c = Zeroed
  OBVIOUS
<1>1. /\ c \in CacheStates /\ c.gen = 0 /\ c.swi = None
      /\ c.rom = [o \in RomPlaces |-> NoBlock] /\ c.hash = [b \in Buckets |-> 0]
      /\ c.slots = [s \in Slots |-> [key |-> NoKey, entry |-> None, gen |-> 0]]
  BY Entry, NoBlockTyped DEF Zeroed, CacheStates
<1>2. c.gen \in 0 .. (Generations - 1)
  BY <1>1, DispatchAssumption
<1>3. OldSlots(c) /\ Chains(c, {})
  BY <1>1 DEF OldSlots, Chains, NoBlock
<1>4. text \in [RamKeys -> {0, 1}]
  BY DEF DispatchInit
<1>5. \E S, M : CachesOK(Booted(c, text), S, M, S, "run") /\ TextOK(Booted(c, text), text)
  BY <1>1, <1>2, <1>3, <1>4, BootedOK
<1>6. Swi \in Keys
  BY DispatchAssumption DEF Keys
<1> QED BY <1>4, <1>5, <1>6 DEF DispatchInit, Fits

\* Every step keeps the invariant: native code is entered,
LEMMA EnterKeeps ==
  ASSUME DispatchInv, ~LateWrites, Enter
  PROVE  Fits(caches', text', run', at', pc', alert')
<1>1. PICK R, L, W : CachesOK(caches, R, L, W, "run")
  BY DEF DispatchInv, Fits
<1> PICK c, k, t : c = caches /\ k = pc /\ t = text
  OBVIOUS
<1>2. /\ k \in Keys /\ t \in [RamKeys -> {0, 1}] /\ TextOK(c, t)
      /\ alert' = FALSE /\ GoOn(BlockOf(c, k, t), k, t)
  BY DEF DispatchInv, Fits, Enter
<1> QED BY <1>1, <1>2, LookUpOK

\* a store changes what the RAM holds,
LEMMA WriteKeeps ==
  ASSUME DispatchInv, NEW k \in RamKeys, Write(k)
  PROVE  Fits(caches', text', run', at', pc', alert')
<1>1. /\ run = "native" /\ text' = [text EXCEPT ![k] = 1 - @]
      /\ alert' = (caches.find[k] # None)
      /\ caches' = caches /\ pc' = pc /\ run' = run /\ at' = at
  BY DEF Write
<1>2. /\ text \in [RamKeys -> {0, 1}] /\ TextOK(caches, text) /\ pc \in Keys
      /\ \E R, L, W : CachesOK(caches, R, L, W, "run") /\ Leads(caches, R, at, pc)
  BY <1>1 DEF DispatchInv, Fits, Write
<1>3. 1 - text[k] \in {0, 1}
  BY <1>2
<1>4. text' \in [RamKeys -> {0, 1}] /\ \A j \in RamKeys : j # k => text'[j] = text[j]
  BY <1>1, <1>2, <1>3
<1>5. ~alert' => TextOK(caches', text')
  BY <1>1, <1>2, <1>4 DEF TextOK
<1>6. alert' \in BOOLEAN
  BY <1>1
<1> QED BY <1>1, <1>2, <1>4, <1>5, <1>6 DEF Fits

\* a patched branch is taken,
LEMMA ChainKeeps ==
  ASSUME DispatchInv, Chain
  PROVE  Fits(caches', text', run', at', pc', alert')
<1> PICK c, e, k : c = caches /\ e = at /\ k = pc
  OBVIOUS
<1>1. PICK R, L, W : CachesOK(c, R, L, W, "run") /\ Leads(c, R, e, k)
  BY DEF DispatchInv, Fits, Chain
<1>2. /\ RomOK(c, R, L, W) /\ RamOK(c, W) /\ SwiOK(c, R, W, "run")
  BY <1>1 DEF CachesOK
<1>3. /\ caches' = c /\ text' = text /\ run' = "native" /\ alert' = FALSE
      /\ text \in [RamKeys -> {0, 1}] /\ TextOK(c, text)
      /\ BlockAt(e).link # None /\ at' = BlockAt(e).link /\ pc' = ExitOf(BlockAt(e).key)
  BY DEF DispatchInv, Fits, Chain
<1>4. \E q \in R : at' = InRom(q) /\ c.rom[q].key = pc' /\ pc' \in RomKeys
  <2>1. CASE \E p \in R : e = InRom(p) /\ c.rom[p].key = k
    <3>1. PICK p \in R : e = InRom(p)
      BY <2>1
    <3>2. BlockAt(e) = c.rom[p]
      BY <3>1 DEF BlockAt, InRom
    <3>3. PICK q \in R : c.rom[p].link = InRom(q) /\ c.rom[q].key = ExitOf(c.rom[p].key)
      BY <1>2, <1>3, <3>2 DEF RomOK, BranchOK
    <3>4. c.rom[q].key \in RomKeys
      BY <1>2 DEF RomOK
    <3> QED BY <1>3, <3>2, <3>3, <3>4
  <2>2. CASE k \in RamKeys /\ e # None /\ e = c.find[k]
    <3>1. PICK p \in RamPlaces :
             /\ e = InRam(p) /\ c.ram[p].key = k
             /\ c.ram[p].link = None
                  \/ (c.ram[p].link = InRom(Watermark) /\ Watermark \in W /\ ExitOf(k) = Swi)
      BY <1>2, <2>2 DEF RamOK
    <3>2. BlockAt(e) = c.ram[p]
      BY <3>1 DEF BlockAt, InRam
    <3>3. /\ at' = InRom(Watermark) /\ Watermark \in W /\ pc' = Swi
      BY <1>3, <3>1, <3>2
    <3>4. Watermark \in R /\ c.rom[Watermark].key = Swi /\ Swi \in RomKeys
      BY <1>2, <3>3, DispatchAssumption DEF RomOK, SwiOK
    <3> QED BY <3>3, <3>4
  <2> QED BY <1>1, <2>1, <2>2 DEF Leads
<1>5. Leads(c, R, at', pc') /\ pc' \in Keys
  BY <1>4 DEF Leads, Keys
<1> QED BY <1>1, <1>3, <1>5 DEF Fits

\* a block is left for the slow path,
LEMMA LeaveKeeps ==
  ASSUME DispatchInv, NEW k \in Keys, Leave(k)
  PROVE  Fits(caches', text', run', at', pc', alert')
BY DEF DispatchInv, Fits, Leave

\* a branch to a computed address asks the dispatch cache,
LEMMA BranchKeeps ==
  ASSUME DispatchInv, ~LateWrites, NEW k \in Keys, Branch(k)
  PROVE  Fits(caches', text', run', at', pc', alert')
<1> PICK c, t : c = caches /\ t = text
  OBVIOUS
<1>1. PICK R, L, W : CachesOK(c, R, L, W, "run")
  BY DEF DispatchInv, Fits
<1>2. t \in [RamKeys -> {0, 1}] /\ TextOK(c, t) /\ alert' = FALSE
  BY DEF DispatchInv, Fits, Branch
<1>3. CASE Hit(c, k)
  <2> PICK e : e = c.slots[Slot(k)].entry
    OBVIOUS
  <2> PICK r : r = <<c, e>>
    OBVIOUS
  <2>1. r[1] = c /\ r[2] = e /\ GoOn(r, k, t)
    BY <1>3 DEF Branch
  <2>2. Leads(c, R, e, k)
    <3>1. Slot(k) \in Slots /\ SlotsOK(c, R)
      BY <1>1, DispatchAssumption DEF CachesOK
    <3> QED BY <1>3, <3>1 DEF SlotsOK, Hit
  <2> QED BY <1>1, <1>2, <2>1, <2>2, GoOnOK
<1>4. CASE ~Hit(c, k)
  <2>1. GoOn(Kept(BlockOf(c, k, t), k), k, t)
    BY <1>4 DEF Branch
  <2> QED BY <1>1, <1>2, <2>1, LookUpOK
<1> QED BY <1>3, <1>4

\* the code that follows a block is looked up,
LEMMA FallKeeps ==
  ASSUME DispatchInv, ~LateWrites, NEW k \in Keys, Fall(k)
  PROVE  Fits(caches', text', run', at', pc', alert')
<1>1. PICK R, L, W : CachesOK(caches, R, L, W, "run")
  BY DEF DispatchInv, Fits
<1> PICK c, t : c = caches /\ t = text
  OBVIOUS
<1>2. /\ t \in [RamKeys -> {0, 1}] /\ TextOK(c, t)
      /\ alert' = FALSE /\ GoOn(BlockOf(c, k, t), k, t)
  BY DEF DispatchInv, Fits, Fall
<1> QED BY <1>1, <1>2, LookUpOK

\* the slow path serves an alert and looks up the next block,
LEMMA ControlKeeps ==
  ASSUME DispatchInv, ~LateWrites, Control
  PROVE  Fits(caches', text', run', at', pc', alert')
<1> PICK c : c = IF alert THEN FlushRam(caches) ELSE caches
  OBVIOUS
<1>1. PICK R, L, W : CachesOK(caches, R, L, W, "run")
  BY DEF DispatchInv, Fits
<1>2. CachesOK(c, R, L, W, "run") /\ TextOK(c, text)
  <2>1. CASE alert
    <3>1. CachesOK(FlushRam(caches), R, L, W, "run")
          /\ \A k \in RamKeys : FlushRam(caches).find[k] = None
      BY <1>1, FlushRamOK
    <3> QED BY <2>1, <3>1 DEF TextOK
  <2>2. CASE ~alert
    BY <1>1, <2>2 DEF DispatchInv, Fits
  <2> QED BY <2>1, <2>2
<1>3. PICK t \in [RamKeys -> {0, 1}], k \in {pc, Irq} :
       /\ MayWrite(c, text, t)
       /\ \/ /\ caches' = c /\ run' = "out" /\ at' = None /\ pc' = k /\ text' = t
          \/ LET r == BlockOf(c, k, t) IN GoOn(r, k, t) \/ GoOn(Kept(r, k), k, t)
  BY DEF Control
<1>4. alert' = FALSE /\ k \in Keys /\ TextOK(c, t)
  <2>1. Irq \in Keys /\ pc \in Keys
    BY DispatchAssumption DEF Keys, DispatchInv, Fits
  <2>2. TextOK(c, t)
    BY <1>2, <1>3 DEF TextOK, MayWrite
  <2> QED BY <1>3, <2>1, <2>2 DEF Control
<1>5. CASE caches' = c /\ run' = "out" /\ at' = None /\ pc' = k /\ text' = t
  BY <1>2, <1>3, <1>4, <1>5 DEF Fits
<1>6. CASE GoOn(BlockOf(c, k, t), k, t) \/ GoOn(Kept(BlockOf(c, k, t), k), k, t)
  BY <1>2, <1>3, <1>4, <1>6, LookUpOK
<1> QED BY <1>3, <1>5, <1>6

\* everything is flushed,
LEMMA FlushAllKeeps ==
  ASSUME DispatchInv, FlushAll
  PROVE  Fits(caches', text', run', at', pc', alert')
<1>1. PICK R, L, W : CachesOK(caches, R, L, W, "run")
  BY DEF DispatchInv, Fits
<1> PICK c : c = FlushRom(caches)
  OBVIOUS
<1>2. CachesOK(c, W, {}, W, "run")
  BY <1>1, FlushRomOK
<1> PICK d : d = FlushRam(c)
  OBVIOUS
<1>3. CachesOK(d, W, {}, W, "run") /\ \A k \in RamKeys : d.find[k] = None
  BY <1>2, FlushRamOK
<1>4. /\ caches' = d /\ pc' \in Keys /\ text' \in [RamKeys -> {0, 1}]
      /\ run' = "out" /\ alert' = FALSE
  BY DEF FlushAll, DispatchInv, Fits
<1>5. TextOK(d, text')
  BY <1>3 DEF TextOK
<1> QED BY <1>3, <1>4, <1>5 DEF Fits

\* the machine is reset.
LEMMA RebootKeeps ==
  ASSUME DispatchInv, Reboot
  PROVE  Fits(caches', text', run', at', pc', alert')
<1> PICK c, t : c = caches /\ t = text'
  OBVIOUS
<1>1. PICK R, L, W : CachesOK(c, R, L, W, "run")
  BY DEF DispatchInv, Fits
<1>2. /\ t \in [RamKeys -> {0, 1}] /\ caches' = Booted(c, t)
      /\ pc' = Swi /\ alert' = FALSE /\ run' = "out"
  BY DEF Reboot
<1>3. /\ c \in CacheStates /\ OldSlots(c) /\ Chains(c, L)
      /\ c.swi = None \/ c.swi = InRom(Watermark)
      /\ c.gen \in 0 .. (Generations - 1)
  BY <1>1, DispatchAssumption DEF CachesOK, SwiOK
<1>4. \E S, M : CachesOK(Booted(c, t), S, M, S, "run") /\ TextOK(Booted(c, t), t)
  BY <1>2, <1>3, BootedOK
<1>5. Swi \in Keys
  BY DispatchAssumption DEF Keys
<1> QED BY <1>2, <1>4, <1>5 DEF Fits

\* Together: a step keeps the invariant.
LEMMA DispatchKeeps ==
  ASSUME DispatchInv, ~LateWrites, DispatchNext
  PROVE  Fits(caches', text', run', at', pc', alert')
BY EnterKeeps, ChainKeeps, ControlKeeps, FlushAllKeeps, RebootKeeps, WriteKeeps,
   LeaveKeeps, BranchKeeps, FallKeeps DEF DispatchNext

\* What runs is the translation of what the game's location holds.
LEMMA RunsRightHolds ==
  DispatchInv => RunsRight
<1> SUFFICES ASSUME DispatchInv, run = "native", ~alert
             PROVE  /\ BlockAt(at).key = pc
                    /\ pc \in RamKeys => BlockAt(at).text = text[pc]
  BY DEF RunsRight
<1>1. PICK R, L, W : CachesOK(caches, R, L, W, "run") /\ Leads(caches, R, at, pc)
  BY DEF DispatchInv, Fits
<1>2. RomOK(caches, R, L, W) /\ RamOK(caches, W) /\ TextOK(caches, text)
  BY <1>1 DEF CachesOK, DispatchInv, Fits
<1>3. CASE \E p \in R : at = InRom(p) /\ caches.rom[p].key = pc
  <2>1. PICK p \in R : at = InRom(p) /\ caches.rom[p].key = pc
    BY <1>3
  <2>2. BlockAt(at) = caches.rom[p]
    BY <2>1 DEF BlockAt, InRom
  <2>3. pc \notin RamKeys
    BY <1>2, <2>1, DispatchAssumption DEF RomOK
  <2> QED BY <2>1, <2>2, <2>3
<1>4. CASE pc \in RamKeys /\ at # None /\ at = caches.find[pc]
  <2>1. PICK p \in RamPlaces : at = InRam(p) /\ caches.ram[p].key = pc
    BY <1>2, <1>4 DEF RamOK
  <2>2. BlockAt(at) = caches.ram[p] /\ at.at = p
    BY <2>1 DEF BlockAt, InRam
  <2> QED BY <1>2, <1>4, <2>1, <2>2 DEF TextOK
<1> QED BY <1>1, <1>3, <1>4 DEF Leads

\* Native code runs the translation of the location the game is at, in its instruction set,
\* and of what the location holds, for every program, size of the caches, hash, number of
\* generations and of tries, while nothing writes over translated code but code that looks
\* at the alert it gets (riscv_lookup_block, block_lookup_translate, the flushes).
THEOREM RunsRightCode ==
  ASSUME ~LateWrites
  PROVE  DispatchSpec => [](DispatchTypeOK /\ RunsRight)
<1>1. DispatchInit => DispatchInv
  BY DispatchStarts
<1>2. DispatchInv /\ [DispatchNext]_dispatchVars => DispatchInv'
  <2> SUFFICES ASSUME DispatchInv, [DispatchNext]_dispatchVars PROVE DispatchInv'
    OBVIOUS
  <2>1. CASE DispatchNext
    BY <2>1, DispatchKeeps DEF DispatchInv
  <2>2. CASE UNCHANGED dispatchVars
    BY <2>2 DEF dispatchVars, DispatchInv
  <2> QED BY <2>1, <2>2
<1>3. DispatchInv => DispatchTypeOK
  BY DEF DispatchInv, Fits, DispatchTypeOK, CachesOK, RomOK
<1>4. DispatchInv => RunsRight
  BY RunsRightHolds
<1> QED BY <1>1, <1>2, <1>3, <1>4, PTL DEF DispatchSpec
=============================================================================
