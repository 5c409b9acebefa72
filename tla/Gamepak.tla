------------------------------ MODULE Gamepak ------------------------------
(* The paging of the game's ROM in src/gba_memory.c: 32 KB pages are loaded   *)
(* into a limited number of buffers as they are touched, and mapped into the  *)
(* read windows at 0x8000000, 0xA000000 and 0xC000000.  The buffers form a    *)
(* queue; code that the interpreter runs makes its page sticky for a frame.   *)
(*                                                                            *)
(* The loops of the code (one round of the eviction, one page of the first    *)
(* load) are steps.  Page 0 also shows the cartridge's GPIO pins.             *)
EXTENDS Integers, FiniteSets

CONSTANTS
  Window,      \* pages of a 32 MB window                              (1024)
  NumEntries,  \* pages the buffers hold                               (32 per MB)
  Sizes,       \* sizes, in pages, of the games that are loaded
  CodePlaces,  \* places of the ROM the game runs code from
  OtherBits,   \* sticky bits that code outside the ROM sets
  GpioOn,      \* the game has a clock or a rumble motor
  MaxPins,     \* values of the GPIO registers, 0 when they are not readable
  MaxLoads,    \* bound: games loaded
  CodePerFrame \* bound: sticky bits code sets in a frame

Entries == 0 .. (NumEntries - 1)
Places == 0 .. (3 * Window - 1)
Pages == 0 .. (Window - 1)
Pins == 0 .. MaxPins
Null == -1
RomWord == -1

ASSUME GamepakAssumption ==
  /\ Window \in Nat \ {0} /\ NumEntries \in Nat /\ NumEntries > 1
  /\ Sizes \subseteq 1 .. Window
  /\ CodePlaces \subseteq Places /\ 0 \in CodePlaces
  /\ OtherBits \subseteq Pages
  /\ GpioOn \in BOOLEAN /\ MaxPins \in Nat
  /\ MaxLoads \in Nat /\ CodePerFrame \in Nat

VARIABLES
  mode,    \* "empty", "idle" between frames, "running", "evicting" for a page
  use,     \* what the page is for: "load", "data", "code", "frame"
  want,    \* the page that is to be loaded
  size,    \* gamepak_size >> 15
  game,    \* history: number of the game loaded
  next,    \* gamepak_blk_queue[].next_lru
  phy,     \* gamepak_blk_queue[].phy_rom
  head,    \* gamepak_lru_head
  tail,    \* gamepak_lru_tail
  map,     \* memory_map_read from 0x8000000 on: an entry of the buffers, or NULL
  buf,     \* gamepak_buffers: the page an entry holds, and its GPIO words
  sticky,  \* gamepak_sticky_bit
  pc,      \* pc_region, a place of the ROM or Null for other memory
  block,   \* pc_address_block, while pc is in the ROM
  pins,    \* gpio_regs
  synced   \* history: the pins were written since they were last reset

queueVars == <<next, phy, head, tail>>
vars == <<mode, use, want, size, game, queueVars, map, buf, sticky, pc, block, pins, synced>>

PageOf(place) == place % Window

\* The first window reads past the ROM as open bus; code is not run from mirrors.
Readable(place) == PageOf(place) < size

\* map_rom_entry: page idx at every multiple of the ROM's size, also beyond the
\* window when the size does not divide it.
Mapped(idx, n) ==
  {p \in Places :
     \E k \in 0 .. (Window - 1) :
       \/ k * n < Window /\ p \in {idx + k * n, Window + idx + k * n}
       \/ 2 * (k * n) < Window /\ p = 2 * Window + idx + k * n}

Init ==
  /\ mode = "empty" /\ use = "load" /\ want = 0 /\ size = 1 /\ game = 0
  /\ next = [e \in Entries |-> e + 1]
  /\ phy = [e \in Entries |-> Null]
  /\ head = 0 /\ tail = NumEntries - 1
  /\ map = [p \in Places |-> Null]
  /\ buf = [e \in Entries |-> [game |-> 0, page |-> 0, word |-> RomWord]]
  /\ sticky = {} /\ pc = 0 /\ block = 0 /\ pins = 0 /\ synced = FALSE

--------------------------------------------------------------------------
(* evict_gamepak_page *)

\* Mutant: the tail is not linked to the entry that moves behind it.
RotateUnlinked ==
  /\ head' = next[head]
  /\ tail' = head
  /\ UNCHANGED next
Rotate ==
  /\ head' = next[head]
  /\ next' = [next EXCEPT ![tail] = head]
  /\ tail' = head

\* Mutant: pages of running code are evicted like others.
NeverSticky(e) == FALSE
Sticky(e) == phy[e] >= 0 /\ phy[e] \in sticky

\* Mutant: the page that goes stays mapped.
StaysMapped(place) == map[place]
AfterEviction(place) ==
  IF phy[head] >= 0 /\ place \in Mapped(phy[head], size) THEN Null ELSE map[place]

\* One round of the loop that finds a sticky page.
SkipSticky ==
  /\ mode = "evicting"
  /\ Sticky(head)
  /\ Rotate
  /\ UNCHANGED <<mode, use, want, size, game, phy, map, buf, sticky, pc, block, pins, synced>>

\* The last round: the entry is free, and page want is mapped to buffer b.
Install(b) ==
  /\ mode = "evicting"
  /\ ~Sticky(head)
  /\ Rotate
  /\ phy' = [phy EXCEPT ![head] = want]
  /\ map' = [p \in Places |-> IF p \in Mapped(want, size) THEN b ELSE AfterEviction(p)]

--------------------------------------------------------------------------
(* load_gamepak_raw: the buffers are filled in order, the queue's next entry  *)
(* is recorded as holding each page.                                          *)

FirstPages(n) == IF n < NumEntries THEN n ELSE NumEntries

LoadGame(n) ==
  /\ mode \in {"empty", "idle"} /\ game < MaxLoads
  /\ mode' = "evicting" /\ use' = "load" /\ want' = 0 /\ size' = n /\ game' = game + 1
  /\ map' = [p \in Places |-> IF 2 * p < 5 * Window THEN Null ELSE map[p]]
  /\ buf' = [e \in Entries |->
               IF e < FirstPages(n) THEN [game |-> game + 1, page |-> e, word |-> RomWord]
               ELSE buf[e]]
  /\ pc' = 0 /\ pins' = 0 /\ synced' = FALSE
  /\ UNCHANGED <<queueVars, sticky, block>>

FillFirst ==
  /\ use = "load"
  /\ Install(want)
  /\ IF want + 1 < FirstPages(size)
     THEN want' = want + 1 /\ UNCHANGED mode
     ELSE mode' = "idle" /\ UNCHANGED want
  /\ UNCHANGED <<use, size, game, buf, sticky, pc, block, pins, synced>>

--------------------------------------------------------------------------
(* load_gamepak_page *)

\* update_gpio_romregs, when page 0 is mapped.
\* Mutant: the pins are not shown again in a page that was reloaded.
GpioForgotten(page) == RomWord
GpioWord(page) == IF page = 0 /\ GpioOn THEN pins ELSE RomWord

LoadPage ==
  /\ use # "load"
  /\ Install(head)
  /\ buf' = [buf EXCEPT ![head] = [game |-> game, page |-> want, word |-> GpioWord(want)]]
  /\ mode' = "running"
  /\ block' = IF use = "data" THEN block ELSE head
  /\ sticky' = IF use = "frame" THEN {PageOf(pc)} ELSE sticky
  /\ UNCHANGED <<use, want, size, game, pc, pins, synced>>

Fault(place, why) == mode' = "evicting" /\ want' = PageOf(place) /\ use' = why

\* read_memory and DMA: a page that is not mapped is loaded.
Read(place) ==
  /\ mode = "running"
  /\ Readable(place) /\ map[place] = Null
  /\ Fault(place, "data")
  /\ UNCHANGED <<size, game, queueVars, map, buf, sticky, pc, block, pins, synced>>

\* check_pc_region: the interpreter comes to another page.
Run(place) ==
  /\ mode = "running" /\ place # pc
  /\ Readable(place)
  /\ Cardinality(sticky \cup {PageOf(place)}) <= CodePerFrame
  /\ pc' = place
  /\ sticky' = sticky \cup {PageOf(place)}
  /\ \/ map[place] # Null /\ block' = map[place] /\ UNCHANGED <<mode, want, use>>
     \/ map[place] = Null /\ Fault(place, "code") /\ UNCHANGED block
  /\ UNCHANGED <<size, game, queueVars, map, buf, pins, synced>>

\* Code outside the ROM sets the sticky bit its address happens to have.
RunElsewhere(bit) ==
  /\ mode = "running" /\ pc # Null
  /\ Cardinality(sticky \cup {bit}) <= CodePerFrame
  /\ pc' = Null /\ sticky' = sticky \cup {bit}
  /\ UNCHANGED <<mode, use, want, size, game, queueVars, map, buf, block, pins, synced>>

EndFrame ==
  /\ mode = "running"
  /\ mode' = "idle"
  /\ UNCHANGED <<use, want, size, game, queueVars, map, buf, sticky, pc, block, pins, synced>>

\* cpu_backend_execute: sticky bits are cleared, and the page of the pc is looked up.
\* Mutant: they are kept.
StickyKept == sticky
StickyCleared == {}

BeginFrame ==
  /\ mode = "idle"
  /\ \/ /\ pc = Null
        /\ \E bit \in OtherBits : sticky' = StickyCleared \cup {bit}
        /\ mode' = "running" /\ UNCHANGED <<want, use, block>>
     \/ /\ pc # Null /\ map[pc] # Null
        /\ sticky' = StickyCleared \cup {PageOf(pc)}
        /\ mode' = "running" /\ block' = map[pc] /\ UNCHANGED <<want, use>>
     \/ /\ pc # Null /\ map[pc] = Null
        /\ sticky' = StickyCleared
        /\ Fault(pc, "frame") /\ UNCHANGED block
  /\ UNCHANGED <<size, game, queueVars, map, buf, pc, pins, synced>>

--------------------------------------------------------------------------
(* GPIO *)

\* write_gpio, which shows the pins in page 0 if it is mapped.
WriteGpio(v) ==
  /\ GpioOn /\ mode = "running"
  /\ pins' = v /\ synced' = TRUE
  /\ buf' = IF map[0] = Null THEN buf ELSE [buf EXCEPT ![map[0]].word = v]
  /\ UNCHANGED <<mode, use, want, size, game, queueVars, map, sticky, pc, block>>

\* retro_reset, or the load of a saved state: the pins change, the page does not.
Restore(v, place) ==
  /\ mode = "idle" /\ Readable(place)
  /\ GpioOn
  /\ pins' = v /\ pc' = place /\ synced' = FALSE
  /\ UNCHANGED <<mode, use, want, size, game, queueVars, map, buf, sticky, block>>

Paging == SkipSticky \/ FillFirst \/ LoadPage

Next ==
  \/ \E n \in Sizes : LoadGame(n)
  \/ Paging
  \/ \E p \in Places : Read(p)
  \/ \E p \in CodePlaces : Run(p)
  \/ \E bit \in OtherBits : RunElsewhere(bit)
  \/ BeginFrame \/ EndFrame
  \/ \E v \in Pins : WriteGpio(v) \/ \E p \in CodePlaces : Restore(v, p)

Spec == Init /\ [][Next]_vars

\* The loads are plain loops of a single thread: they go on.
FairSpec == Spec /\ WF_vars(Paging)

--------------------------------------------------------------------------
(* Properties *)

\* The variables keep their types; the queue's head is an entry.
TypeOK ==
  /\ mode \in {"empty", "idle", "running", "evicting"}
  /\ use \in {"load", "data", "code", "frame"}
  /\ want \in Pages /\ size \in 1 .. Window /\ game \in Nat
  /\ next \in [Entries -> 0 .. NumEntries] /\ head \in Entries /\ tail \in Entries
  /\ phy \in [Entries -> Pages \cup {Null}]
  /\ map \in [Places -> Entries \cup {Null}]
  /\ buf \in [Entries -> [game : Nat, page : Nat, word : Pins \cup {RomWord}]]
  /\ sticky \subseteq Pages
  /\ pc \in CodePlaces \cup {Null} /\ block \in Entries
  /\ pins \in Pins /\ synced \in BOOLEAN

Holds(e, page) == buf[e].game = game /\ buf[e].page = page

\* What the game reads at an address of the ROM is the ROM's page there, through
\* any window and whatever was evicted and reloaded before.
ReadsRight ==
  mode = "running" =>
    \A p \in Places : Readable(p) /\ map[p] # Null => Holds(map[p], PageOf(p))

\* The interpreter's code block holds the page of its pc: data accesses of the
\* same frame never evict the page the code runs from.
CodeInStep == mode = "running" /\ pc # Null => Holds(block, PageOf(pc))

\* What the game wrote to the GPIO registers is what it reads back from page 0,
\* even when the page was evicted in between.
GpioReadsBack ==
  mode = "running" /\ synced /\ map[0] # Null => buf[map[0]].word = pins

\* What a game reads of its ROM is the ROM's, or the GPIO's where that is mapped, through
\* evictions and mirrors (load_gamepak_page and map_rom_entry in gba_memory.c), and its
\* code is read from the page it runs in.
PagesRight == ReadsRight /\ GpioReadsBack /\ CodeInStep

\* gamepak_blk_queue records "the loaded blocks and what they map to": what an
\* entry is recorded to hold is what its buffer holds.
EntriesTrue == mode = "running" => \A e \in Entries : phy[e] # Null => Holds(e, phy[e])

\* Every page fault ends: the eviction finds a page that is not sticky.
AccessEnds == mode = "evicting" ~> mode # "evicting"
=============================================================================
