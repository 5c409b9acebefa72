------------------------------ MODULE Dispatch ------------------------------
(* Where translated code goes next: src/cpu_threaded.c with the RISC-V back   *)
(* end's run time (src/riscv/riscv_runtime.c).  Blocks of the BIOS and the    *)
(* ROM are found through hash chains that run through the cache itself, those *)
(* of the RAM through tags (see JitCache).  A branch to a computed address    *)
(* asks a small dispatch cache first, whose entries count only in the         *)
(* generation they were made in.  A store over code leaves an alert, which is *)
(* served when the block is left.                                             *)
(*                                                                            *)
(* A key is a location with the instruction set (pc | thumb).  A block has    *)
(* at most one direct exit; a block is placed as a whole or not at all.       *)
EXTENDS Integers

CONSTANTS
  RomKeys, RamKeys, \* code in the BIOS and the ROM, and in the RAM
  WildKeys,         \* code elsewhere, which is never translated
  Swi, Irq,         \* 0x8 and 0x18, where a SWI and an interrupt lead
  ExitOf(_),        \* the key a block branches to directly, or NoKey
  Cost(_),          \* the size of a block, with its header
  Buckets, Bucket(_),
  Slots, Slot(_),   \* index of the dispatch cache
  Generations,      \* 2^32
  Watermark,        \* RISCV_INITIAL_ROM_WATERMARK
  RomLimit, RamLimit,
  Tries,            \* tries of block_lookup_address_arm      (4)
  LateWrites        \* whether the interpreter and the DMAs of update_gba write over code

Keys == RomKeys \cup RamKeys \cup WildKeys
NoKey == "none"
None == [in |-> "none", at |-> 0]
InRom(o) == [in |-> "rom", at |-> o]
InRam(o) == [in |-> "ram", at |-> o]
RomPlaces == 1 .. RomLimit
RamPlaces == 0 .. RamLimit
NoBlock == [key |-> NoKey, next |-> 0, text |-> 0, link |-> None]

\* A direct branch stays within its memory, but for a SWI; a chain starts at an offset
\* other than 0.
ASSUME DispatchAssumption ==
  /\ {Swi, Irq} \subseteq RomKeys /\ RomKeys \cap RamKeys = {}
  /\ RomLimit \in Nat /\ RamLimit \in Nat /\ Watermark \in 1 .. RomLimit
  /\ Tries \in Nat \ {0}
  /\ \A k \in RomKeys : ExitOf(k) \in RomKeys \cup {NoKey} /\ Bucket(k) \in Buckets
  /\ \A k \in RamKeys : ExitOf(k) \in {Swi, NoKey}
  /\ \A k \in Keys : Cost(k) \in Nat \ {0} /\ Slot(k) \in Slots
  /\ Generations \in Nat \ {0, 1} /\ LateWrites \in BOOLEAN

VARIABLES
  caches, \* the caches: hash, rom, romPtr, watermark, swi; find, ram, ramPtr; gen, slots
  text,   \* what the RAM holds at each of its keys: one of two versions of the code
  pc,     \* REG_PC with the T bit: the key to run, or the one that runs
  run,    \* "out" of execute_arm_translate, "native" code, or "slow": riscv_jit_control_slow
  at,     \* the block that runs, while the code is native
  alert   \* CPU_ALERT_SMC in riscv_cpu_alert

dispatchVars == <<caches, text, pc, run, at, alert>>

--------------------------------------------------------------------------
(* Flushes *)

\* riscv_invalidate_indirect_lookup_cache.
\* Mutant: entries of the generations before the wrap are kept.
InvalidateNotCleared(c) ==
  LET g == (c.gen + 1) % Generations IN [c EXCEPT !.gen = IF g = 0 THEN 1 ELSE g]
Invalidate(c) ==
  LET g == (c.gen + 1) % Generations
      cleared == [s \in Slots |-> [c.slots[s] EXCEPT !.entry = None]]
  IN IF g = 0 THEN [c EXCEPT !.gen = 1, !.slots = cleared] ELSE [c EXCEPT !.gen = g]

FlushRom(c) ==
  Invalidate([c EXCEPT !.romPtr = c.watermark, !.hash = [b \in Buckets |-> 0]])

\* Mutant: the dispatch cache is forgotten.
FlushRamOnly(c) == [c EXCEPT !.ramPtr = 0, !.find = [k \in RamKeys |-> None]]
FlushRam(c) == Invalidate([c EXCEPT !.ramPtr = 0, !.find = [k \in RamKeys |-> None]])

--------------------------------------------------------------------------
(* block_lookup_translate: the block of key k in caches c while the RAM holds *)
(* t, and the caches with it: <<caches, entry>>, the entry None when a flush  *)
(* ended the translation.                                                     *)

\* The block of k in its chain, or else the last one, or 0.
Walk(c, k) ==
  LET from[o \in 0 .. RomLimit] ==
        IF o = 0 \/ c.rom[o].key = k \/ c.rom[o].next = 0 THEN o ELSE from[c.rom[o].next]
  IN from[c.hash[Bucket(k)]]

\* A new block goes to the end of its chain.
Chained(c, o, k) ==
  LET last == Walk(c, k)
  IN IF last = 0 THEN [c EXCEPT !.hash[Bucket(k)] = o] ELSE [c EXCEPT !.rom[last].next = o]

\* Writing a block destroys what lay there.
Put(cells, o, size, block) ==
  [p \in DOMAIN cells |-> IF p = o THEN block
                          ELSE IF o < p /\ p < o + size THEN NoBlock ELSE cells[p]]

\* A SWI is patched to lead to the block made at the reset, which makes none itself.
NewBlock(c, k, t) ==
  [key |-> k, next |-> 0, text |-> IF k \in RamKeys THEN t[k] ELSE 0,
   link |-> IF ExitOf(k) = Swi THEN c.swi ELSE None]

\* A translation in the ROM's cache under way: the key it looks for, NoKey at its end; the
\* block whose branch leads there, 0 for none; the entry of the first block.  The exit of
\* a block is translated after it, and the branch patched; a flush ends the translation.
LeadTo(s, e) ==
  IF s.from = 0 THEN [s EXCEPT !.entry = e] ELSE [s EXCEPT !.c.rom[s.from].link = e]

Sought(s, t) ==
  LET c == s.c
      k == s.key
      o == c.romPtr
      found == Walk(c, k)
      placed == [c EXCEPT !.rom = Put(@, o, Cost(k), NewBlock(c, k, t)),
                          !.romPtr = o + Cost(k)]
  IN IF k = NoKey THEN s
     ELSE IF found # 0 /\ c.rom[found].key = k
     THEN [LeadTo(s, InRom(found)) EXCEPT !.key = NoKey]
     ELSE IF o + Cost(k) > RomLimit
     THEN [s EXCEPT !.c = FlushRom(c), !.key = NoKey, !.entry = None]
     ELSE [LeadTo([s EXCEPT !.c = Chained(placed, o, k)], InRom(o)) EXCEPT
             !.from = o, !.key = IF ExitOf(k) = Swi THEN NoKey ELSE ExitOf(k)]

\* Every block takes some room, so that RomLimit of them end it.
TryRom(c, k, t) ==
  LET after[n \in 0 .. RomLimit + 1] ==
        IF n = 0 THEN [c |-> c, key |-> k, from |-> 0, entry |-> None]
        ELSE Sought(after[n - 1], t)
      s == after[RomLimit + 1]
  IN <<s.c, s.entry>>

TryRam(c, k, t) ==
  LET o == c.ramPtr IN
  IF c.find[k] # None THEN <<c, c.find[k]>>
  ELSE IF o + Cost(k) > RamLimit THEN <<FlushRam(c), None>>
  ELSE <<[c EXCEPT !.ram = Put(@, o, Cost(k), NewBlock(c, k, t)),
                   !.find[k] = InRam(o), !.ramPtr = o + Cost(k)], InRam(o)>>

LookUpOnce(c, k, t) ==
  IF k \in RomKeys THEN TryRom(c, k, t)
  ELSE IF k \in RamKeys THEN TryRam(c, k, t) ELSE <<c, None>>

\* block_lookup_address_arm, block_lookup_address_thumb: after a flush, again.
BlockOf(c, k, t) ==
  LET try[n \in 0 .. Tries] ==
        IF n = 0 THEN <<c, None>>
        ELSE LET r == try[n - 1] IN IF r[2] # None THEN r ELSE LookUpOnce(r[1], k, t)
  IN try[Tries]

--------------------------------------------------------------------------
(* cpu_backend_reset: init_dynarec_caches, init_emitter and init_bios_hooks,  *)
(* which translates the target of SWI below the watermark, to stay for good.  *)
Cleaned(c) ==
  Invalidate([c EXCEPT !.hash = [b \in Buckets |-> 0], !.romPtr = Watermark,
                       !.find = [k \in RamKeys |-> None], !.ramPtr = 0])
Booted(c, t) ==
  LET r == BlockOf(Invalidate([Cleaned(c) EXCEPT !.watermark = Watermark]), Swi, t)
  IN [r[1] EXCEPT !.swi = r[2], !.watermark = r[1].romPtr]

Zeroed ==
  [hash |-> [b \in Buckets |-> 0], rom |-> [o \in RomPlaces |-> NoBlock], romPtr |-> 0,
   watermark |-> 0, swi |-> None,
   find |-> [k \in RamKeys |-> None], ram |-> [o \in RamPlaces |-> NoBlock], ramPtr |-> 0,
   gen |-> 0, slots |-> [s \in Slots |-> [key |-> NoKey, entry |-> None, gen |-> 0]]]

DispatchInit ==
  /\ text \in [RamKeys -> {0, 1}]
  /\ caches = Booted(Zeroed, text)
  /\ pc = Swi /\ run = "out" /\ at = None /\ alert = FALSE

--------------------------------------------------------------------------
(* Running *)

BlockAt(e) ==
  IF e.in = "rom" THEN caches.rom[e.at] ELSE IF e.in = "ram" THEN caches.ram[e.at] ELSE NoBlock

\* What writes without looking at the alert it is given may change the RAM from t to u.
MayWrite(c, t, u) == LateWrites \/ \A k \in RamKeys : u[k] # t[k] => c.find[k] = None

\* The interpreter runs on to the end of the frame.
Interpret(c, t) ==
  /\ caches' = c /\ run' = "out" /\ at' = None
  /\ pc' \in Keys
  /\ text' \in [RamKeys -> {0, 1}] /\ MayWrite(c, t, text')

\* Native code goes on at the entry found, the interpreter if there is none.
GoOn(r, k, t) ==
  \/ /\ r[2] # None
     /\ caches' = r[1] /\ run' = "native" /\ at' = r[2] /\ pc' = k /\ text' = t
  \/ r[2] = None /\ Interpret(r[1], t)

\* execute_arm_translate_internal
Enter ==
  /\ run = "out"
  /\ alert' = FALSE
  /\ GoOn(BlockOf(caches, pc, text), pc, text)

\* A store looks at the tag of the location, and the block is left at once.
Write(k) ==
  /\ run = "native" /\ ~alert
  /\ text' = [text EXCEPT ![k] = 1 - @]
  /\ alert' = (caches.find[k] # None)
  /\ UNCHANGED <<caches, pc, run, at>>

\* A patched branch.
Chain ==
  /\ run = "native" /\ ~alert /\ BlockAt(at).link # None
  /\ at' = BlockAt(at).link /\ pc' = ExitOf(BlockAt(at).key)
  /\ UNCHANGED <<caches, text, run, alert>>

\* riscv_lookup_block keeps what it found for an indirect branch.
Kept(r, k) ==
  IF r[2] = None THEN r
  ELSE <<[r[1] EXCEPT !.slots[Slot(k)] = [key |-> k, entry |-> r[2], gen |-> r[1].gen]], r[2]>>

\* Mutant: the key of the entry is not compared.
HitByGeneration(c, k) == c.slots[Slot(k)].gen = c.gen /\ c.slots[Slot(k)].entry # None
Hit(c, k) ==
  /\ c.slots[Slot(k)].gen = c.gen /\ c.slots[Slot(k)].key = k
  /\ c.slots[Slot(k)].entry # None

\* riscv_jit_indirect_lookup_tail: an alert, a sleep or the end of the slice come first.
Leave(k) ==
  /\ run = "native"
  /\ run' = "slow" /\ pc' = k /\ at' = None
  /\ UNCHANGED <<caches, text, alert>>
Branch(k) ==
  /\ run = "native" /\ ~alert
  /\ IF Hit(caches, k)
     THEN GoOn(<<caches, caches.slots[Slot(k)].entry>>, k, text)
     ELSE GoOn(Kept(BlockOf(caches, k, text), k), k, text)
  /\ UNCHANGED alert

\* riscv_jit_fallthrough_tail: the code that follows the block, which is not kept.
Fall(k) ==
  /\ run = "native" /\ ~alert
  /\ GoOn(BlockOf(caches, k, text), k, text)
  /\ UNCHANGED alert

\* riscv_jit_control_slow, riscv_jit_cycle_slow: the alert is served, update_gba may end
\* the frame, transfer by DMA and interrupt, and the next block is looked up.
Control ==
  /\ run = "slow"
  /\ alert' = FALSE
  /\ LET c == IF alert THEN FlushRam(caches) ELSE caches IN
     \E t \in [RamKeys -> {0, 1}], k \in {pc, Irq} :
       /\ MayWrite(c, text, t)
       /\ \/ /\ caches' = c /\ run' = "out" /\ at' = None /\ pc' = k /\ text' = t
          \/ LET r == BlockOf(c, k, t) IN GoOn(r, k, t) \/ GoOn(Kept(r, k), k, t)

\* flush_dynarec_caches: a save state was loaded, a cheat installed, the option changed.
FlushAll ==
  /\ run = "out"
  /\ caches' = FlushRam(FlushRom(caches))
  /\ pc' \in Keys /\ text' \in [RamKeys -> {0, 1}]
  /\ UNCHANGED <<run, at, alert>>

Reboot ==
  /\ run = "out"
  /\ text' \in [RamKeys -> {0, 1}]
  /\ caches' = Booted(caches, text')
  /\ pc' = Swi /\ alert' = FALSE
  /\ UNCHANGED <<run, at>>

DispatchNext ==
  \/ Enter \/ Chain \/ Control \/ FlushAll \/ Reboot
  \/ \E k \in RamKeys : Write(k)
  \/ \E k \in Keys : Leave(k) \/ Branch(k) \/ Fall(k)

DispatchSpec == DispatchInit /\ [][DispatchNext]_dispatchVars
--------------------------------------------------------------------------
(* Properties *)

\* The variables keep their types.
DispatchTypeOK ==
  /\ text \in [RamKeys -> {0, 1}] /\ pc \in Keys
  /\ run \in {"out", "native", "slow"} /\ alert \in BOOLEAN
  /\ caches.gen \in 1 .. (Generations - 1)
  /\ caches.watermark <= caches.romPtr /\ caches.romPtr <= RomLimit

\* Native code runs the translation of the location the game is at, in its instruction
\* set, and of what the location holds: "Check every touched shadow byte and return
\* CPU_ALERT_SMC before stale translated code can execute" (RV32_JIT_ROADMAP.md:608).
\* It is so after any flushes, with any chains, when the generations come round, and
\* for the way to the BIOS, which flushes leave in place.
RunsRight ==
  run = "native" /\ ~alert =>
    /\ BlockAt(at).key = pc
    /\ pc \in RamKeys => BlockAt(at).text = text[pc]
=============================================================================
