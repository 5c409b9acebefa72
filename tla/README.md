# A verification project for gpSP-reload

gpSP-reload is a Game Boy Advance emulator: an interpreter and several
recompilers, the GBA's devices, a libretro core, and firmware for three
microcontroller boards.  This directory holds TLA+ models of the parts of it
whose difficulty lies in order, interleaving, failure or bookkeeping, the TLC
runs that check them on small instances, and proofs, checked by TLAPS, that carry
the most important results to every size.  `PROJECT.json` says which lines of the
source each definition stands for.

Contents: 1 the system, 2 the modules, 3 what is proved, 4 disagreements
found, 5 what is not modelled, 6 the plan.

## 1. The system

| part | state | operations | hard because |
|---|---|---|---|
| scheduler (`main.c`) | `execute_cycles`, `video_count`, timers, DMA sleep, `REG_IF` | `update_gba`, `update_timers` | events are found out late, after slices that overrun |
| interpreter (`cpu.cc`) | registers, CPSR, halt state | `execute_arm`, interrupts | when it leaves its loop decides when anything else happens |
| serial port (`serial.c`) | SIOCNT, a transfer's countdown | `write_siocnt`, `update_serial` | a transfer ends in a later slice |
| wireless adapter (`rfu.c`) | mode, slots, client session, queues | SPI commands, packets, a frame tick | peers act on old news; packets of former sessions arrive |
| cable protocols (`serial_proto.c`) | phase, packets and silence counters per peer | packets, ticks, words of the game | peers vanish, packets come between two words of a frame |
| ROM pages (`gba_memory.c`) | buffers, LRU queue, memory map, sticky bits | fault, eviction, load | three windows and mirrors point at one buffer; code runs from it |
| backup, RTC, GPIO (`gba_memory.c`) | flash/EEPROM command states, serial clock bits | game writes | protocols that may be abandoned half-way; the kind of memory is guessed |
| DMA (`gba_memory.c`) | channels | register writes, hblank, vblank, FIFO | writes its own registers; spans regions |
| recompiler cache (`cpu_threaded.c`) | RAM tags, offset table, code, limits | lookup, nested translation, store, flush | cached code must follow the RAM; several partial clean-ups |
| recompiler back ends (`x86`, `arm`, `mips`, `riscv`, `esp32s3`) | emitted code, dispatch caches | emission | a data translation; caches of the caches |
| renderer (`video.cc`) | none across lines | `update_scanline` | data |
| sound (`sound.c`) | FIFOs and channels | timer ticks, DMA bursts, sampling | a ring that cannot tell full from empty |
| savestates (`savestate.c` and each part) | a document of the machine | save, check, load | checked first, read field by field afterwards |
| cheats, input | code lists, turbo counters | parse, run | partial failure |
| libretro core (`libretro/libretro.c`) | options, frameskip | `retro_run` and its callbacks | one caller, one thread |
| run-time ROM loader (`esp32s31/gamepak_runtime*.c`) | page plan, PSRAM pool, flash partition | scan, plan, load, verify, map | power loss, a changed card, write errors |
| display (`esp32s31/korvo1_lcd.c`) | render buffer, snapshot, overlays | present, strip interrupt | an interrupt between any two steps |
| scaler (`esp32s31/korvo1_scaler.c`) | two work buffers, the mode chosen | scale, benchmark, completion interrupt | time-outs against late completions |
| USB pads (`esp32s31/korvo1_usb_*.c`) | device, transfers, interface | plug, open, report, unplug | two tasks and a driver's callbacks; an opening may fail at any call |
| touch, menu, consoles | device state | polling | input and output |

How they meet: `retro_run` calls the processor for a frame; the processor calls
the memory, which calls DMA, backup devices and the serial port; after each slice
the processor calls `update_gba`, which advances timers, the serial port and the
LCD, raises interrupts and gives the next slice.  Packets of the netplay callbacks
enter the wireless adapter between frames.  A load of a ROM page or a save state
changes what the processor's cached pointers, and its translated code, stand for.
On the boards the frontend is the firmware: its task draws and copies frames while
the panel's interrupt reads them.

The emulator itself is one thread.  Concurrency is between emulators (packets), between
the firmware's task and interrupts, and between the program and power or the card.
In the rest the difficulty is sequential: late accounting, caches, failures half-way.

## 2. The modules

Each component has a module `X`; the theorems are in the modules `...Proofs` of section 3.
Definitions marked *Mutant* are plausible bugs; putting one in the place of the
definition it follows makes the property it is listed with in `PROJECT.json` fail, so
no property holds vacuously.

| instance | modules | runs |
|---|---|---|
| `MCScheduler` | Scheduler | `sched_lcd`, `sched_live`, `sched_slice` |
| `MCRfu` | Rfu | `rfu_slots`, `rfu_live`, `rfu_foreign_data` |
| `MCCaches` | JitCache (`MCJitCache`), Dispatch (`MCDispatch`), Translator with its BlockScan (`MCTranslator`) | `jit_full`; `jit_first` of the first alone |
| `MCDevices` | Gamepak, Backup, Rtc, Dma, SoundFifo, Cable, AdvWars, Savestate | `devices` |
| `MCFirmware` | RomLoader, Scaler, LcdBounce, Gamepads | `firmware` |
| `MCGamepak`, and Savestate itself | | `gamepak_reload`, `load_state` |

What a module needs of its neighbour (the serial countdown, the packets of a peer, an
interrupt, the game with its library) is inside it.  `MCDevices`, `MCFirmware` and `MCCaches` put modules
side by side that share no state in the models: the variable `part` says which of them
a behaviour is of, `Only` lets it step and holds the others in an initial state, and
the properties of each are those of its own module.  This joins runs; it adds no interleaving,
because there is none to add: the emulator is one thread that is inside one device at a time, and
the firmware's tasks do not touch each other's variables.  The caches of the recompiler and its translator
are layers of one call; each module has what it needs of the others inside it.

`CHECK_DEADLOCK FALSE` stands in the runs whose models end at a bound: all requests
made, all pads plugged, all frames drawn.

### Scheduler: `main.c`, with the loop of `cpu.cc`

State: the slice (`rem` = `cycles_remaining`, `exec` = `execute_cycles`), the LCD,
timers, the transfer, halt and sleep, IF, IE, the I flag.  An action is an
instruction of the game by its effect on these (`StartTimer` is `trigger_timer`,
`StartDma` an immediate `trigger_dma`, ...), one iteration of `update_gba`
(`Update`), or the hand-over of a frame (`NextFrame`).  Alerts are modelled: after a
write of IE or IME with an interrupt pending one more instruction runs before
the slice is tested.  `drawn`, `spent`, `owed` are history.

- `sched_lcd`: frames of three lines, instructions shorter and longer than an hblank, one
  timer, a transfer, an immediate DMA, all interrupts of the LCD.  `VideoPending`: no
  overrun skips an LCD event, the purpose of the clamp at -64.  `FrameWhole`: the vblank
  flag, VCOUNT and the lines drawn agree.  `SleptInFull`: a DMA's cycles are slept whatever
  part of the slice preceded it.
- `sched_live`: two timers, one cascaded, and a processor that may halt for good.
  Frames go on; timers fire; a halted processor that waits for vblank wakes.
- `sched_slice` ends in a violation, see section 4.

Bounds.  Cycles are small numbers in the ratios that matter: an hblank longer than the
tolerated overrun (272 > 64), a line longer than an hblank, an instruction cost below and
above each.  Two visible lines, one blank: first, middle and wrap.  `MaxStarts` counts
timer starts; a run without it has the same transitions repeated.  `WriteIE` may only
follow so long an overrun (`Overrun`), and two ARM/Thumb switches do not follow each
other: the code has no such limit, and a loop of nothing but switches would never end a
slice (hazard at `cpu.cc:2121`).  Fairness: weak, of instructions, updates and
frames: the interpreter is one loop that never waits.

### Rfu: `rfu.c`

One adapter per netplay node.  State per node: comstate (`on`), `rfu_state`, the host's
slots, the client's session, broadcasts heard, the transmit buffer; and a FIFO channel for
each pair of nodes.  Actions: a command of the game (`rfu_process_command`: reset,
host start and stop, connect, connection complete, send, wait, receive, disconnect), a
frame (`rfu_frame_update`), and one per packet type (`rfu_net_receive`).  The SPI dialogue
that carries a command is not in the model: `Handshake` stands for the login that
leads out of reset.

- `rfu_slots`: a host, two clients, two slots, one of the clients may host as well.
  Safety: a client has one place (`OnePlaceEach`), whose data is in a slot
  (`SlotDataFromItsClient`), who may touch it (`SlotTouchedByItsClient`).
- `rfu_live`: a host and a client that may reset at any time.  `GhostSlotFreed`: a slot
  whose client is gone becomes free; `DeadSessionForgotten`; `RequestAnswered`.
- `rfu_foreign_data` ends in a violation, see section 4.

Bounds.  `MaxCmds` commands in all, which allows connect, leave, connect again and a
rival in between; `MaxNet` packets in a channel before its sender waits: one is
enough to have a packet of an earlier session overtaken by a command, and more only repeat
it.  A queue of one packet can be full and empty.  Time-outs count from 2.
The four device ids are interchangeable: `Symmetric`.  `new_devid` draws random 16-bit
ids without comparing; that two draws differ is an assumption (`NewDevid`).
Channels keep their order and lose nothing: packets are sent with
`RETRO_NETPACKET_RELIABLE`.  Fairness: weak, of frames, of the login and of delivery
(`retro_run` is called per frame; netplay delivers).  Of the games none is assumed but for the
login: `DeadSessionForgotten` needs a game that has reset its adapter to log in again, because an
adapter in reset ages no session (`rfu.c:680`).  A game that leaves its adapter in reset cannot read
the list either.

### Gamepak: ROM paging in `gba_memory.c`

`next`, `phy`, `head`, `tail` are `gamepak_blk_queue`; `map` is `memory_map_read` from
0x08000000 on; `buf` says which page of which game a buffer holds; `sticky` is
`gamepak_sticky_bit`; `block` is the interpreter's pointer to its code page.  The
loops are steps: one round of `evict_gamepak_page` (`SkipSticky`, or the last round in
`Install`), one page of `load_gamepak_raw` (`FillFirst`).  Faults come from a read, from
code that crosses into a page, and from the first lookup of a frame.

- `devices`: a game of four pages in three buffers, or of two; code in two pages;
  a mirror; GPIO registers in page 0.  `PagesRight`: what is read is right (`ReadsRight`), the
  code page stays (`CodeInStep`), GPIO reads back (`GpioReadsBack`).  `AccessEnds`: every
  eviction ends.
- `gamepak_reload` ends in a violation, see section 4.

Bounds.  Three buffers and two code pages per frame (`CodePerFrame`): sticky pages can
fill all buffers but one.  A frame that made every buffer sticky would make the eviction
loop endless; the real buffers number at least 32 for each MB, so this takes a frame
that runs code in every buffered page.  The windows hold a whole number of mirrors: see
section 4 for a ROM whose size does not divide the window.  Fairness: weak, of the paging
steps, which are plain loops.

### CartMemory: what a game expects

The abstract specification of the memory in a cartridge, whatever leads to it: cells, one
request at a time, a write done in all of its cells and in no other, a read that returns
what the cells hold, and a request broken off that has no effect.  `Backup` and `Rtc` are each
shown to implement it, by `INSTANCE CartMemory WITH` a refinement mapping.

### Backup: flash, SRAM and EEPROM in `gba_memory.c`

`flash` and `eeprom` are the modes and counters of `write_backup` and `write_eeprom`,
`backup` is `gamepak_backup`, `type` is what the emulator takes the chip for so far.  The
alternatives of `WriteBackup` (`Unlock1` ... `PlainWrite`) are the branches of
`write_backup`; `WriteEeprom` and `ReadEeprom` take one bit, and a DMA is their fold
over its bits (`SerialTransfer`), after `DmaSize` guessed the chip's size from its length.
The fold goes eight bits at a time and binds the chip in between, because TLC would
otherwise nest one evaluation per bit and may run out of stack.  The game is
a library that asks for one thing at a time, with the cycles the chips' manuals give, and
may be reset between any two of them.

- `devices`: `IsMemory`, the refinement of `CartMemory`: a program, sector or chip erase, bank
  switch, identification, or an EEPROM block takes effect in its cells alone, although the
  first accesses are taken for SRAM, and what a reset cuts off is lost without trace.

Bounds: three requests and one reset: one to settle the type, one to be cut off, one to suffer from
it.  Addresses in two sectors beside the command addresses; blocks 0, 1 and one with high and
low bits.  Assumed of the game: SRAM games do not write 0xAA at 0x5555 (they would be taken
for flash for good), and the first EEPROM access is a whole request by DMA.

### Rtc: the clock on the GPIO pins, in `gba_memory.c`

`gpio` and `rtc` are the registers of `write_gpio` and the state of `write_rtc`.  `Cycle` is one
register write of the game's library; the library selects the chip, sends a command, and
writes a byte or takes bits; `GiveUp` ends an exchange at any cycle, with or without a reset of
the emulator.

- `devices`: `ClockIsMemory`: the clock is a `CartMemory` of three cells, status, date and
  time, whose values are given by `Decimals` independently of the code's BCD; no bits counted in an
  exchange that was cut off shift the next.  `init_memory` leaves `rtc_bit_count` and
  `rtc_command` alone; that this does no harm, because the chip is deselected before it is used
  again, is part of what the run shows.

Bounds: two exchanges, one cut off; a time with a year in the next century, month 12 and all
digits apart.

### Dma: the channels in `gba_memory.c`

`dma` is `dma_transfer_type`, `enabled` bit 15 of its control register.  A transfer is one
step: `Pieces` cuts it at a boundary as `dma_transfer` does, `Copy` runs the loop written for the
regions the first unit of the piece lies in, and `moved` keeps for each unit the regions the
loop took it for.

- `devices`: `MovesRight`: the units moved are those a transfer without cuts would move, each once,
  with the loops of the regions it lies in (`CutRight`), and a repeated transfer goes on where it
  stopped or from the reloaded destination (`GoesOn`).

Bounds: regions of 32 bytes, transfers of up to four units that start below, at and beyond a
boundary, all directions, both widths.  `Regular` names what is left out: transfers that cross a
boundary on both sides at once, of which the code copies nothing (a TODO at
`gba_memory.c:2256`), and that cross one downwards, where the unit at the boundary goes with
the wrong piece.

### SoundFifo: a direct sound channel, `sound.c`

`fifo`, `base`, `top` are the ring, with the serial number of a sample in each place;
`SoundTimer` is a tick that plays one, moves the base and has the DMA bring a burst when at
most half the ring is taken.  `newest`, `steady`, `fault` are history.

- `devices`: `SamplesKept`: no burst overwrites samples still to be played, and after a round
  of feeding without interference all samples are played once and in order, whatever silence,
  underrun, reset, stop or new start came before.

Bounds: a ring of eight, two bursts, three rounds; the ratios are those of the code.  A
channel without repeat stays attached to the ring after its burst, in the code and in the model.

### Cable: Serial-Poke, `serial_proto.c`

One console, master or slave, with the other's packets coming between any two of its steps, and
silence until it is forgotten.  `Turn` is a word of the own game through
`serialpoke_master_send` or `serialpoke_update`; a frame is a checksum and the data words, its
own words collected for a packet, the peer's taken from the queued packet.  `StartOver` is a game
that begins to shake hands again.

- `devices`: `PeersShown` (in `OthersShown`): the queue of a peer whose packet is being shown is never empty, and a
  whole frame shows one packet, word for word, or silence; packets in order, each once, none left out
  without a reason.  `SentWhole`: a packet sent has the words of one frame of the game, also
  when the session started over in the middle of another.

Bounds: two consoles, frames of two words, a queue of one packet, silence of one frame, one restart.
A peer forgotten in the middle of a frame tears that frame: it shows the first words and then
silence, and `torn` excepts it.  The instance has one peer, the module up to three.

### AdvWars: the cable by Advance Wars, `serial_proto.c`

Two consoles with their games and the network between them.  `aw[i]` is `serstate.aw` of console
`i`: its own entry (`state`, `pstate`, `data`) and that of the other, whose `queue` holds packets
and groups of keys, each after its length.  `PlayWord` and `PlayKey` are the two readers of that
queue (`process_awpeer`, `process_awpeer_val`).  `AwGameTurn` is a word of a game, as the master's
`AwMasterSend` or the slave's `AwSlaveUpdate`; `SyncWord`, `KeyWord` and `PacketWord` are the three states'
branches, which the master takes one of and a slave may take two of.  `AwReceive` is a message.

- `devices`: `Replayed` (in `OthersShown`): what a console showed its game of the other, what it
  still has queued and what is under way are together all that the other's game finished, each word
  once and in order, but for packets dropped whole; through every change of state of the two.  One
  word is excepted, as in the code: a 0 of a packet that is read while keys are exchanged, which
  is taken from the queue and never shown (section 4).  No other word and no other order may go wrong there.

Bounds: two packets or groups in all, one message under way (a slave's turn may add two), a queue with room
for one packet.  One of the words of a packet, whichever, is 0; the others differ from all filler, so that
`played` can tell them from it.  Of a message the command is kept for packets alone, and `lastcmd`, which only colours
empty words, is left out.  Assumed of the game: it goes from the synchronisation to keys when it was
shown the other's word, with a word without keys (the master swallows it, a slave does not), and
leaves no packet half-written.  A group of a single key is dropped by the receiver (`cnt >= 2`).
`played` counts a word when it is written to SIOMULTI: on the turn in which the
synchronisation is left nothing is written, and the game may read the former word again.

### Savestate: `savestate.c` and the parts' own sections

The document and the machine by field: an integer, bytes or an array of each section, where one field
stands for all alike.  `BeginLoad` is the check of a document, `ReadField` one step of
the readers, in their order, `Derive` what is made anew afterwards.

- `devices`: `SavedIsRestored`: a whole document is never refused or left half read, and what is
  loaded from it is all of the moment it was saved.
- `load_state` ends in a violation, see section 4.

Bounds: documents with up to two fields missing or of another size.

### RomLoader: `esp32s31/gamepak_runtime.c` and `gamepak_runtime_plan.c`

The loader scans a game, finds equal pages, plans their places, reads each page
again, stores it in PSRAM or in flash (compare, erase, write, verify), and maps the
partition.  Power may be lost and a step may fail anywhere; the card may be exchanged.
A hash is a function of the content that may collide; a page's content is one value.

- `firmware`: what a completed load maps is what it read, and equal pages and only those
  share a slot (`LoadedRight`), the flash is written only where the
  plan needs it and it differs (`FlashChangedForReason`), every load ends (`LoadEnds`).

Bounds: four games (fits, spills, does not fit), one slot of PSRAM, two of flash, two
losses of power, one change of the card.  Which cards may be exchanged for which matters, and the
theorems of section 3 say how.  A page is read again against its own hash alone: when a page and
the duplicate it was compared with are read from two cards whose contents at this place differ and
collide, the duplicate is shown with the other's content, and `MappedRight` fails (`<<"a", "a">>`
exchanged for `<<"b", "b">>` between the loads of the two pages).  And a card exchanged and put back
during the scan may leave a page without its duplicate, and `DedupExact` fails by a slot too
many.  The first takes an exchange and a 32-bit collision, the second costs memory; they are named
here, not listed as defects.  Fairness: weak, of the loader's steps, a task without waits.

### Scaler: `esp32s31/korvo1_scaler.c`

A call scales a frame by the processor, by the pixel accelerator, or strip by strip through two
work buffers (`Claim`, `Fill`, `Queue`, `Mark`, then `Drain`), while `CopyDone`, the DMA's
interrupt, comes at any moment; a wait may time out and leave its slot pending.  The first frame runs
the benchmark (`Judge`, `Choose`), after which the unused means are released.

- `firmware`: `ShownWhole`: a frame the scaler reports as shown is in the frame buffer whole.

Bounds: five strips through two slots, four frames.  Assumed of the driver:
`esp_async_memcpy_uninstall` cuts off copies under way; otherwise `Release` would free buffers
the hardware still reads.

### Gamepads: `esp32s31/korvo1_usb_xinput.c` and `korvo1_usb_gamepad.c`

The XInput task alternates between its own work (`Close`, `Look`, and the calls of
`open_xinput_device`, a step each) and the host's callbacks (`HandleMessage`, `InputDone`,
`OutputDone`).  Beside it the gamepad task opens HID interfaces step by step and the
driver's `HidGone` may come between any two.  Pads are plugged in and pulled out at any time,
calls may fail with the pad still there.  `held` is the host's account of what the client has.

- `firmware`: `ClosedIsClean`: without a pad the client holds nothing and presses no button, with
  one it holds all; `HidSettles`: the gamepad task ends with one open interface shown as connected,
  or none; `LetGo`: an unplugged pad is let go of for good by both.

Bounds: two pads, two reports or errors, one refusal.  Fairness: weak, of each task and of the
driver, which wait for events and then run.  Assumed of the host: a closed handle cannot be started,
and transfers come back before the notice that the device is gone is acted on.  The exception
`torn`: when the submission of the input fails while the transfer of the lights is on
its way, the code drops its handles and the device stays open.

### LcdBounce: `esp32s31/korvo1_lcd.c`

The task draws rows, prepares the FPS overlay in steps, copies the frame to the
snapshot; the interrupt `FillStrip` takes a strip from the render buffer while the
snapshot is being copied, else from the snapshot.  One core, so the interrupt is one step.

- `firmware`: all rows of a strip are of one finished frame, the overlay is whole, and
  no strip is of an older frame than the one before it.

Bounds: two strips of two rows, three frames, so that a strip, a copy and a
drawing can overlap in every way.  The bound is only TLC's: section 3.

### JitCache: `cpu_threaded.c`

The cache of code translated from RAM.  `tag` is the shadow of the RAM (data, code,
or a block's number), `off` the table that grows from the cache's end, `cache` the block
at each offset with a copy of the instructions it was translated from and the targets its
exits were patched with; `lo`, `hi` are `iwram_code_min` and `_max`.  `LookUp` is one call of
`block_lookup_translate_arm`: with `translate_block_arm` it has three outcomes, no room at the
start (`NoRoom`), too long (`Overrun`), or a block (`Translate`), whose external exits are
then looked up in turn.  The recursion of the code is the variable `stack`, a step for
each exit.  `Store` is a store or a DMA with its check of the shadow, `Reload`
is `flush_dynarec_caches`.  One region, one instruction set, an instruction per location;
stores that do not check the shadow at all (`smc_check_store_aligned`) are left out.
Where a store changes the code that runs, the lookup that follows is any `Jump`.

- `jit_full`: every program of three instructions (straight, return, branch back,
  conditional branch forward), in a cache that cannot hold all three blocks.  `CodeFresh`: a
  lookup finds the translation of what the RAM holds, exits included.  `LookupsRight`: every
  location a block was made from is tagged, no two blocks share a tag (`TagsRight`), and the
  four tries suffice (`NoBadJump`).  `NoOverrun`: code stays below the table.
- `jit_first` ends in a violation, see section 4.

Bounds.  The cache's size is chosen so that code reachable by direct branches always fits,
and all code never does; for code that branches together beyond the cache's size
`NoBadJump` cannot hold.  The three locations lie next to each other and not at offset
0: see section 4 for what happens otherwise.  One change of the RAM, at any time;
stale code stays in the cache until it is written over.

### Dispatch: `cpu_threaded.c`, `riscv/riscv_runtime.c`

Where translated code goes next.  `caches` holds what survives a call: the ROM cache (`hash`,
the blocks with the chains that run through them, `romPtr`, `watermark`, the block `swi` below
it), the RAM cache (`find` stands for the tags JitCache models) and the dispatch cache of the
RISC-V back end (`slots`, `gen`).  `TryRom` is one try of `block_lookup_translate` with its nested
translations; it returns the caches with the entry, or with `None` after a flush.  The code calls
it within one step, so it is an operator: `Sought` translates one block and goes on to its exit, and
a recursive function repeats it until a block is found, one has no exit left, or the cache is flushed.
`Enter` is `execute_arm_translate_internal`; native code then stores (`Write`),
follows a patched branch (`Chain`), branches through the dispatch cache (`Branch`), runs on
(`Fall`) or goes to the slow path (`Leave`, `Control`), where alerts are served, `update_gba`
runs, and an interrupt may move the game.  A key without translation falls to the interpreter
(`Interpret`) for the rest of the frame.  Between frames there are flushes and resets.

- `jit_full` / `RunsRight`: while no alert waits, the block that runs is the translation of
  where the game is and of what the RAM holds there.  So the chains find their blocks, the way to
  the BIOS outlives every flush, no entry of the dispatch cache is taken after a flush, also
  when the generations come round, and no store is missed.

Bounds: four blocks of ROM and BIOS that do not fit together, three of them in one chain, one
branching to the next; one block of RAM with two versions; an entry of the dispatch cache
that all share; two generations, so that they wrap at every second flush.  No counter bounds
the behaviours.  `LateWrites = FALSE` keeps the interpreter and the DMAs of `update_gba` from
writing over translated code: the code does not serve the alert of such a write, see section 4.

### BlockScan and Translator: `cpu_threaded.c`, `riscv/riscv_emit.h`, `riscv/riscv_runtime.c`

`BlockScan` is the passes over a block of ARM code before it is translated: `Scan` is an iteration
of `scan_block`, `Mark` the loop that makes targets inside the block checkpoints, `Eliminate` an
iteration of `arm_dead_flag_eliminate`.  `status` is `block_data[].flag_data`, `labels`
`update_cycles`, which outlives the block (`Leftovers`).  `Translator` adds the loop of
`translate_block_arm`: `em` holds its local variables and the code so far, and `Emit` is one
instruction: the condition settled at compile time or not (`Settled`), the gate of a run of
instructions of one condition, which prepays their fetches (`Headed`), the body (`Translated`),
and the join of paths before a checkpoint.  Code is a sequence of operations that charge cycles;
which RISC-V instructions they become, and in which registers, is left out.  After `Finish` the
code runs, an operation a step, beside a processor that takes the instructions one by one
(`guest`), at the recompiler's prices, not at the interpreter's wait states.  The instruction set is
what the passes tell apart: moves of a constant, a load, a test of all flags, one
that keeps the carry, a shift that may write it, a reader of the carry, a multiplication and a load
with cycles of their own, a store, a branch, a return; each with a condition.

- `jit_full` / `KeepsWhatIsRead`: no flag is dropped that something reads.  `BlockInStep`:
  the code takes the path of the processor, and wherever the world may look at it (a store's
  alert, a checkpoint of the scheduler, a branch, the end) place, register, flags and
  cycles agree.  It may run past its end only where a block ends on a conditional exit: section 4.

Bounds: every block of up to four instructions of a book of twelve, from every
state of register and flags, with and without a gate after the second, old marks at each place but the
first.  Four suffice for a constant, its test, a branch known not to be taken and a branch that must
not take its slot; for a run of three with a mark inside; and for a loop.  Two exits, so that
the limit is met.

## 3. What is proved

TLAPS checks the following for every value of the constants that satisfies the named
assumptions, which say little more than that sizes are positive.

**RfuProofs** (all the safety properties of `rfu_slots`).  None is inductive: that a
packet speaks for a slot is decided by the device id alone, so one must know that an id
belongs to one host, slot and client.  `IInv` adds the history `issued` and says that
ids are unique, that slots, clients and packets under way carry ids issued to them,
that a hosting adapter is on, and that free slots have no data.  There is a lemma for
each action, by conjunct.  `SlotTouchedByItsClient` is an action property: a step that changes an
occupied slot comes from `CLIENT_SEND`, `CLIENT_ACK` or `DISCONNECT`, whose id was issued for the
sender.

**SchedulerProofs** (all the safety properties of `sched_lcd`).  `LcdInv` says that the
LCD's next event is ahead, that the slice ends no later, and how many lines are drawn
at each VCOUNT.  `SchedulerAssumption` has `Overrun < HBlank <= HDraw`: with the clamp, it is
the reason why no event is skipped.  For `SleptInFull` one needs `NoneGained` (a slice
accounts for no more than was used) and `SleepInv` (what the processor still owes
is at most what sleeps).

**DisplayProofs** (all properties of the panel in `firmware`, and `ShownWhole`).

- LcdBounce, for frames and strips of any size.  `Buffers` says what each buffer holds at each step of
  the task, and `LastStrip` that the strip last shown is no later than the frame displayed now.  The rows
  of a frame are assumed to be a multiple of those of a strip.
- Scaler, for any number of strips and frames.  `ShownWhole` is not inductive: a copy whose wait timed out
  may complete frames later.  `Accounted` says that a slot under way is pending, except in the moment
  between queueing and marking, and has no semaphore given; `OwnSlot` that a strip always goes through the
  same slot, so that a late copy cannot overtake a newer one of its place; `RunRight` that what was queued
  so far is in its place or under way to it; `Confined` that copies are under way only in DMA mode or in
  the benchmark.  `Inductive` is the theorem of their conjunction, `TrueMeansWhole` follows.

**JitCacheProofs** (`NoOverrun`, `CodeFresh`, `TagsRight`).  `CacheInv`: kept code ends the threshold below the
table.  The limit is computed when a block is begun, later blocks add tags, and emitted
code is only compared after it is written; `JitCacheAssumption` therefore asks that the
threshold cover a prologue and an instruction, a closing gate, and a new tag.

`CodeFresh` and `TagsRight` follow from `FreshInv`, for a cache of any size and any program.  Of the blocks below
`ram_translation_ptr` it says that each has the instructions of the RAM, all of them tagged (`Translated`),
and that each exit leads to its target's block or is still to be linked by an entry of the stack
(`Linked`); of the tags given out, that they lie between `iwram_code_min` and `_max`, where a flush clears
them, and lead to their blocks (`TagInv`); of the stack, that each entry was begun for the exit its caller links
next (`Frames`).  A translation leaves nothing behind: `FlushFresh`.  The code does not keep this up in two
cases, and the theorems exclude them: code at offset 0 of the region (`First > 0`; the violation of `jit_first`),
and a translation that finds no room for its tag at a place no code was seen near (`RoomForTag`; the
second of the defects of JitCache in section 4).  `RoomForTag` is true of every state of `jit_full`'s instance, whose
three locations lie next to each other.

**BlocksProofs** (`KeepsWhatIsRead` and `RunsRight`).

- BlockScan, for every program and length of block; of the passes, and of
  the translator with its code running, block after block.  `ScanInv` says that behind the walk an
  instruction makes what is live after it (`Walked`), that before it nothing is lost yet (`Untouched`), and
  that `needed_mask` covers what is live where the walk stands (`Awaited`).  `LiveBefore` is the usual
  equation of live variables: live before an instruction is what it reads, or is live after and not
  overwritten.  `ScanAssumption` types the constants.
- Dispatch, for any code, exits, costs of blocks, sizes of the caches, buckets and generations.  That the block that
  runs is the right one rests on what every flush and every unfinished translation must leave: `DispatchInv`
  names, of the places of the ROM's cache, those that hold blocks (`R`), those the chains go through (`L`) and those below
  the watermark, which outlive every flush (`W`).  Every branch of a block in `R` leads to the block of its
  target, within `W` if the block is in `W`, else code that stays would lead to code that is gone (`RomOK`);
  chains end, since they only climb (`Chains`); a tag leads to the block of its key (`RamOK`), the right version of it
  while no alert waits (`TextOK`); an entry of the dispatch cache of this generation leads to its
  key's block, and none is of a later generation, so that the number may come round (`SlotsOK`, `OldSlots`);
  and the target of SWI is the first block, made at the reset (`SwiOK`).  `SoughtOK` shows that one translation
  keeps this, block by block; a descent on the tries then gives it of a lookup, and there is a
  lemma for each action.  `RunsRightCode` assumes `~LateWrites`, without which it is false: section 4.

**CodeProofs** (`BlockInStep`, the types of the translator), for every program, length of block, number of
exits, gate and marks left over.  This is a compiler's proof: one follows the translator, then the code.

- Before each operation stands a note: to which instruction the processor comes, how many
  cycles the code owes it (or has paid ahead of it), which condition holds, and what is known of register
  and flags.  `Holds` says when a processor and the code's own state are as a note says; they may
  differ in flags nobody reads any more (`Alike`), which is where `ScanInv` of BlocksProofs is needed.  `Flows` says
  that each operation leads from its note to the next or to where it jumps.
- While a block is emitted such notes exist (`Between`): before an instruction (`Ready`), behind it (`Past`), where
  paths are joined (`Joined`).  Each part of the translation keeps this: the gate of a run (`HeadedOK`), a run closed
  where the deferred cycles are charged (`CloseOK`), a body (`TranslatedOK`), a checkpoint (`CheckpointOK`), a mark where
  nothing may be known any more (`MetOK`), the end (`TailedOK`).  What is not known yet is the target of
  a branch forward: `Linked` says which exits the block has, and `SlotsPatchedOK` that they are patched to
  where their instruction begins, which the scan has marked (`TargetMarked`).
- While the code runs the processor beside it is as the note of the next operation says (`RunsOn`), with
  a lemma for each operation.  `CodeInv` joins this with the scan's invariant; `CodeInStep` and
  `TranslatorTyped` follow.

**FirmwareProofs** (`FirmwareTypes`, `ClosedIsClean`, `HidSettles`, `FlashChangedForReason`, and
`LoadedRight`).

- Gamepads, for any number of pads, reports and refusals.  `ClosedIsClean` speaks of the moments
  between openings and is not inductive: `PadInv` adds what is held at each call of an opening
  (`HeldAt`, `OpeningPad`), that a handle is of an attached pad or of one whose notice is still to come
  (`GonePad`, `Notices`), and for the HID task which of its steps may meet a driver that has let go
  (`HidSteps`).  `PadsInvariant` is the theorem of it; both properties follow.
- RomLoader, for any card, pool and partition.  `RomInv` says, for each step of a load, what of the
  plan stands: the hashes scanned (`Scanned`), canonical pages before their duplicates, every place taken
  by one canonical page at most (`Pointers`, `PlaceOwn`), and that what was loaded lies there
  with the scanned hash (`Loaded`, `ToFlash`).  From it follow the types and `FlashForReason`.
  What is mapped is a matter of the cards: `MappedIsRead` allows any exchange, error and loss of power
  and asks that hashes tell the cards' contents at one place apart (`TellsApart`);
  `LoadedOnce` allows any collision and concludes `LoadedRight` as long as no card was exchanged
  (`changes = 0`).  Without either it is false, see RomLoader in section 2.
- The four parts together: `StepOfParts` maps a step of `FirmwareSpec` to a step of one part and a
  stutter of the others, and `FirmwareTyped` joins their type invariants.

**DevicesProofs** (`PagesRight`, `MovesRight`, `SamplesKept`, `SavedIsRestored`, `SentWhole`, and
`PeersShown`).

- Gamepak, for any number of buffers and pages.  `PagingInv` holds for every sequence of games: every
  entry of the queue but its tail links to another one (`Links`; a rotation keeps the links because of
  it), and an eviction knows the page it is for.  `OneGame` is for the first game since `init_gamepak_buffer`: each entry records the page
  its buffer holds (`Recorded`), so that what an eviction unmaps is what is overwritten, in every mirror.  It fails for
  a second game, as the violation of `gamepak_reload` shows, so `PagesAreRight` has `game <= 1`; it also assumes
  `SizesDivide`, that the pages of a ROM divide the window, without which `ReadsRight` fails (section 4).
- SoundFifo, for a ring of any size and bursts of half of it (`FifoAssumption`).  `FifoInv` says which sample
  each place holds by its distance from the top (`Behind`, `Ordered`), and that while the DMA feeds the ring the
  distance of its base comes to that of the next sample within a round (`Fed`).
- Savestate, for every field of the machine.  `LoadInv` says at which field a reader stands and that the fields before it
  are the document's.
- Dma, for regions of any size, transfers of any length up to half a region, and any sequence of them.  A cut
  is right because of where the boundary lies (`Neighbours`, `CutUp`, `CutDown`): within a region and each of its
  neighbours every address is of the same kind (`Flat`), a transfer crosses one boundary at most, whole units lead
  up to it, and downwards, for `Regular` transfers, only the last unit lies behind the cut.  `SidesRight`
  then compares the two pieces with the units, of which those to the ROM or to nowhere are left out
  (`Landing`); `CutLeaves` follows the pointers, which a piece that copies nothing leaves where they are.
  `DmaInv` adds the types and that an active channel has something to move.
- Cable, for frames of any length, queues of any size and any of the four consoles.  `PeersShown` says what a
  whole frame showed; `CableInv` says it word by word.  What was shown so far is the beginning of
  the first queued packet or silence (`ShownSoFar`), and a frame that is left in the middle is never taken for
  a whole one (`ShownWhole`).  The queue is in order, after what was shown, and what is neither there nor
  shown is lost (`InOrder`), so that a packet taken from it skips none (`NoneSkipped`).  `Wrote` compares what
  the game wrote with its packet so far, which gives `SentWhole`.  `TurnKinds` first reduces a turn of the
  game, of a master or of a slave, to the four things it may be for a frame.

Only model-checked, and why:

- all liveness (`AccessEnds`, `LoadEnds`, `LetGo` and the rest): fairness, `ENABLED` and leads-to are
  out of the prover's reach;
- `LookupsRight` and `CacheTypes`, which name definitions of `MCCaches`.  Of the first the part `TagsRight` is
  proved; `NoBadJump`, the other, depends on how much code hangs together by branches, and is false where that
  is more than the cache holds.  Of the second the types of Translator, of Dispatch and, under the hypotheses of `CodeFresh`, of
  JitCache are proved, each of its own specification;
- `IsMemory` and `ClockIsMemory`, the refinements, and `DeviceTypes`: the EEPROM and the clock are folds over
  bits, and what a fold yields, its type included, needs induction over data;
- `Replayed`, and so `OthersShown` as a whole: the packets of Advance Wars are unpacked by a recursive
  function, and what it yields for any queue needs induction over data.

## 4. Disagreements of code and documentation

- `sched_slice` / `CyclesAccounted`: `trigger_timer` lowers `execute_cycles` while the
  interpreter keeps the budget of the slice, and `update_gba` then charges less than was run.
- `rfu_foreign_data` / `ClientDataFromHost`: a client queues `HOST_SEND` of any sender.  The
  same comparison is missing for the host's `DISCONNECT`.
- `gamepak_reload` / `EntriesTrue`: a second game is loaded into buffers 0, 1, ... while the
  entries are taken in the order the first game left; the queue no longer says what
  the buffers hold.
- `jit_first` / `CodeFresh`: a region whose only translated instruction is at offset 0 is
  not cleaned by a flush, and its old tag, valid still, finds old or foreign code.
- `load_state` / `ValidatedIsRead`: "Validate that the state file makes sense before
  unconditionally reading it" (`savestate.c:124`).  The checks of DMA channels and of sound
  channels run two nested loops on one variable, so all but the first section of each go
  unchecked; when one of them lacks a field, the load fails after the machine was half
  overwritten.
- Also seen in JitCache, outside the listed runs: when a block's translation stops at
  the start for lack of room, its tag has been set already; if the location lies beyond
  the range in which code was seen, the flush leaves the tag, and the second try
  returns a place where nothing was translated.  TLC shows it with
  `First = 1, Last = 6, MaxBlock = 1, Size = 22` and the other constants of `JitFull.cfg`.
  It needs the cache to be full to within the eight bytes of a tag.
- Also seen in Dispatch: `update_gba` drops the alert of the DMAs it starts at hblank and
  vblank (`main.c:184`, `:216`), so one that overwrites translated code flushes nothing, and the
  interpreter that the RISC-V run time falls back to (`riscv_runtime.c:4838`; code in VRAM, for
  one) tests its alerts for halts and interrupts only (`cpu.cc:3093`, `:3589`).  PLAN.md:230-232
  has the layer above flush on `CPU_ALERT_SMC`, RV32_JIT_ROADMAP.md:608 before stale code
  can run.  TLC shows `RunsRight` violated under `DispatchSpec` of `MCDispatch`
  with `LateWrites = TRUE` and the other constants of `JitFull.cfg`.
- Also seen in Translator: the emitters of B and BL mark a block as not falling through when a branch out
  of it is its last instruction (`riscv_emit.h:1038`, `:1064`), conditional or not, and a
  conditional BX leaves a terminal at the end.  A block that ends there, because of
  `MAX_EXITS`, a gate or its length, gets no tail (`riscv_runtime.c:11996-12003`), and when the exit is not
  taken the code runs on into whatever the cache holds next.  The frontend knows the case: "This
  can happen if the last instruction is *not* inconditional" (`cpu_threaded.c`, after the
  loop), and `riscv_runtime.c:12006`: "Any path that reaches this fallthrough tail therefore still
  needs the sequential block-end PC".  `BlockInStep` states the exception; without it TLC shows it
  violated by a block of two branches, with the constants of `JitFull.cfg`.
- Also seen in Translator: while emitting, `opcode` keeps its condition, so `arm_exit_point` takes a branch
  known not to be taken, whose offset has 6 or 7 in bits 23 to 16, for a division by SWI, and
  `arm_backend_skip_instruction` (`cpu_threaded.c:400`) does not take its slot: the next
  branch is patched with its target.  `Skipped` models every other branch.
- Also seen in Gamepak: `map_rom_entry` (`gba_memory.c:2283`) repeats a page each
  `n` pages until the 32 MB are passed, and for a ROM whose size does not divide them the last copies
  lie in the next window, over its first pages: a 12 MB game reads pages 256 and on through
  0x0A000000.  TLC shows `ReadsRight`, a part of `PagesRight`, violated with
  `Sizes = {3}`, `MaxLoads = 1` and the other constants of `GamepakReload.cfg`.
- Also seen in AdvWars: `process_awpeer_val` returns 0 for "no word", and its callers show filler then
  (`process_awpeer_val(i) ?: (mvalue & 0xFC00)`, `serial_proto.c:511`, `:522`, `:610`, `:623`).  Keys are never 0,
  but a word of a packet may be, and one is read there when the other console left the
  synchronisation, or the keys, and sent a packet: its 0 is taken from the queue ("Send pending or ongoing
  frames", `:439`) and not shown.  `Replayed` states the exception; without it TLC shows it violated, with a
  packet sent by a master that has left the synchronisation while the slave goes on from it to the keys.
- Also seen while modelling, and named at the models: the sizes of a document's arrays are not
  checked ("TODO: check sizes!"); a flash of two banks gives the identity of a small one until
  the first bank switch; a slave of the cable keeps the packets queued before a new session, which
  the master drops; a pad plugged in again before the old one is closed is never opened
  (`korvo1_usb_xinput.c:462`); after an error of its input transfer a pad's buttons stay as
  they were until it is unplugged; a second HID pad is ignored; a packet of Advance Wars of 255 or more words
  with its header does not fit the byte that counts its words (`serial_proto.c:422`, `:84`).

## 5. What is not modelled

The instruction sets, the selection of instructions in the recompilers, the renderer and the sound
synthesis are functions of data without a protocol; the repository tests them
differentially.  The menu, the debug console, the container parser, touch screen and card are
input and output.  Vendored code (libretro-common) and generated tables are left aside.

Of the parts that are modelled, the following is left out.

- A DMA that writes the registers of DMA (`gba_memory.c:1929`): transfers are one step here.
- Two instruction sets at one address of the RAM, and the dispatch caches of other back ends.
- Translation of Thumb blocks, blocks given up as unsupported, the target of idle loops, the
  hook of cheats, writes of the PSR; the mapping of registers; the other back ends' emitters.
- The SPI dialogue under the wireless commands, and the mode switch of the serial port.
- The file a backup memory is kept in, which the frontend writes;
  rumble and tilt; the PSG channels; the decoding of reports of the pads.
- Cheats, turbo keys and frameskip: one caller, no order but the program's own.

Most of the source is out of a model checker's reach for one reason: it is a table or a function
of data.  Of the lines of the implementation more than two thirds are emitters of five
instruction sets, the instruction decoders that drive them, colour tables, fonts and
vendored code; these have no state that outlives a call but the code they emit.  The map
is therefore a small share of all lines; what it aims at is the code that keeps state between
calls.

## 6. The plan

What is left, the most valuable first.

1. **Translator** for Thumb blocks, and its mapping of registers (which host register holds which guest's
   value, and which is dirty) across gates, helpers and joins.  The dispatch of
   the Xtensa back end, beside Dispatch.
2. The types of AdvWars and Rtc, which would leave of `DeviceTypes` only Backup's and the checksum of
   Cable's frames, a fold over the consoles.
3. **RfuSession**: an abstract specification of a wireless session (join, data in order,
   leave) and `Rfu` shown to implement it; **RfuLink**, the SPI command machine of
   `rfu_transfer`, composed with `serial.c`.
4. A DMA that starts a DMA, beside Dma.
5. **Cheats**, **Keypad**, frameskip.

Runs stay few: `devices` and `firmware` take a new module of theirs, and a run of its own
is for liveness with other bounds or for a disagreement.
