------------------------------- MODULE Backup -------------------------------
(***************************************************************************)
(* The backup memory of a cartridge (gba_memory.c): SRAM, flash of one or  *)
(* two banks, or an EEPROM behind a serial line.  The emulator guesses     *)
(* which one it is from the game's accesses.  Flash commands arrive as     *)
(* single writes, EEPROM requests as the bits of one DMA transfer.         *)
(***************************************************************************)
EXTENDS Integers, Sequences, SequencesExt

CONSTANTS
  Kinds,      \* the cartridges considered
  Addrs,      \* addresses of flash and SRAM that are used
  Bytes,      \* bytes the game writes
  Blocks,     \* blocks of the EEPROM that are used
  Patterns,   \* contents of a block of 64 bits
  MaxAsks,    \* bound: requests of the game
  MaxBreaks   \* bound: resets in the middle of a request

ASSUME BackupAssumption ==
  /\ Kinds \subseteq {"sram", "flash64", "flash128", "eeprom512", "eeprom8k"}
  /\ {0, \h2AAA, \h5555} \subseteq Addrs /\ Addrs \subseteq 0 .. \hFFFF
  /\ Bytes \subseteq 0 .. \hFF /\ Blocks \subseteq 0 .. 1023
  /\ Patterns \subseteq [1 .. 64 -> {0, 1}]

VARIABLES
  kind,    \* the memory the cartridge has
  type,    \* backup_type: the memory the emulator takes it for
  flash,   \* flash_mode, flash_command_position, flash_bank_cnt, flash_bank_num
  eeprom,  \* eeprom_mode, eeprom_counter, eeprom_address, eeprom_size
  backup,  \* gamepak_backup: <<bank, address>> or <<0, block>> to its content
  request, \* the game's request under way
  todo,    \* writes the request still needs
  bank,    \* the bank the game selected
  read,    \* what the last read returned
  asked, broken   \* history: requests so far, and those a reset cut off

chip == <<type, flash, eeprom, backup>>
gameVars == <<request, todo, bank, read, asked, broken>>
backupVars == <<kind, chip, gameVars>>

Idle == [kind |-> "idle"]
IsEeprom == kind \in {"eeprom512", "eeprom8k"}
Erased == \hFF

Cells ==
  IF IsEeprom THEN {0} \X Blocks
  ELSE (IF kind = "flash128" THEN {0, 1} ELSE {0}) \X Addrs

FlashReset(big) == [mode |-> "BASE", pos |-> 0, big |-> big, bank |-> 0]
EepromReset == [mode |-> "BASE", counter |-> 0, address |-> 0, size |-> 512]

BackupInit ==
  /\ kind \in Kinds
  /\ type = "UNKN"
  /\ flash = FlashReset(FALSE) /\ eeprom = EepromReset
  /\ backup = [c \in Cells |-> IF IsEeprom THEN [i \in 1 .. 64 |-> 1] ELSE Erased]
  /\ request = Idle /\ todo = <<>> /\ bank = 0 /\ read = <<>>
  /\ asked = 0 /\ broken = 0
--------------------------------------------------------------------------
(* write_backup, for a cartridge that is no EEPROM.                           *)

\* The first access tells only that there is something.
Detected == IF type = "UNKN" THEN "SRAM" ELSE type

Command(a) == a = \h5555 /\ flash.mode # "WRITE"
SecondCycle(a, v) == a = \h2AAA /\ v = \h55 /\ flash.pos = 1
DataCycle(a, v) == ~Command(a) /\ ~SecondCycle(a, v)

\* 0xAA at 0x5555 opens a command; it also tells that this is flash.
Unlock1(a, v) ==
  /\ Command(a) /\ flash.pos = 0 /\ v = \hAA
  /\ type' = "FLASH" /\ flash' = [flash EXCEPT !.pos = 1]
  /\ UNCHANGED backup

Unlock2(a, v) ==
  /\ ~Command(a) /\ SecondCycle(a, v)
  /\ type' = Detected /\ flash' = [flash EXCEPT !.pos = 2]
  /\ UNCHANGED backup

\* The mode a command leads to; commands out of place leave the mode.
ModeAfter(v) ==
  CASE v = \h90 /\ flash.mode = "BASE" -> "ID"
    [] v = \h80 /\ flash.mode = "BASE" -> "ERASE"
    [] v = \hF0 /\ flash.mode = "ID" -> "BASE"
    [] v = \hA0 /\ flash.mode = "BASE" -> "WRITE"
    [] v = \hB0 /\ flash.mode = "BASE" -> "BANKSWITCH"
    [] v = \h10 /\ flash.mode = "ERASE" -> "BASE"
    [] OTHER -> flash.mode

ThirdCycle(a, v) ==
  /\ Command(a) /\ flash.pos = 2
  /\ flash' = [flash EXCEPT !.mode = ModeAfter(v), !.pos = 0,
                            !.big = flash.big \/ v = \hB0]
  /\ backup' = IF v = \h10 /\ flash.mode = "ERASE" THEN [c \in Cells |-> Erased]
               ELSE IF Detected = "SRAM" THEN [backup EXCEPT ![<<0, a>>] = v] ELSE backup
  /\ type' = Detected

\* Mutant: the sector is erased in the first bank.
EraseFirstBank(a, v) ==
  /\ DataCycle(a, v) /\ flash.pos = 2 /\ flash.mode = "ERASE" /\ v = \h30
  /\ backup' = [c \in Cells |-> IF c[1] = 0 /\ c[2] \div \h1000 = a \div \h1000
                                THEN Erased ELSE backup[c]]
  /\ flash' = [flash EXCEPT !.mode = "BASE", !.pos = 0]
  /\ type' = Detected
EraseSector(a, v) ==
  /\ DataCycle(a, v) /\ flash.pos = 2 /\ flash.mode = "ERASE" /\ v = \h30
  /\ backup' = [c \in Cells |-> IF c[1] = flash.bank /\ c[2] \div \h1000 = a \div \h1000
                                THEN Erased ELSE backup[c]]
  /\ flash' = [flash EXCEPT !.mode = "BASE", !.pos = 0]
  /\ type' = Detected

SelectBank(a, v) ==
  /\ DataCycle(a, v) /\ flash.pos = 0 /\ flash.mode = "BANKSWITCH" /\ a = 0 /\ flash.big
  /\ flash' = [flash EXCEPT !.bank = v % 2, !.mode = "BASE"]
  /\ type' = Detected /\ UNCHANGED backup

Program(a, v) ==
  /\ DataCycle(a, v) /\ flash.pos = 0 /\ flash.mode = "WRITE"
  /\ backup' = [backup EXCEPT ![<<flash.bank, a>>] = v]
  /\ flash' = [flash EXCEPT !.mode = "BASE"]
  /\ type' = Detected

\* Whatever is no command is a byte for the SRAM, if it is one.
PlainWrite(a, v) ==
  /\ \/ Command(a) /\ flash.pos # 2 /\ ~(flash.pos = 0 /\ v = \hAA)
     \/ /\ DataCycle(a, v)
        /\ ~(flash.pos = 2 /\ flash.mode = "ERASE" /\ v = \h30)
        /\ ~(flash.pos = 0 /\ flash.mode = "BANKSWITCH" /\ a = 0 /\ flash.big)
        /\ ~(flash.pos = 0 /\ flash.mode = "WRITE")
  /\ type' = Detected
  /\ backup' = IF Detected = "SRAM" THEN [backup EXCEPT ![<<0, a>>] = v] ELSE backup
  /\ UNCHANGED flash

WriteBackup(a, v) ==
  /\ type # "EEPROM"
  /\ \/ Unlock1(a, v) \/ Unlock2(a, v) \/ ThirdCycle(a, v) \/ EraseSector(a, v)
     \/ SelectBank(a, v) \/ Program(a, v) \/ PlainWrite(a, v)
  /\ UNCHANGED eeprom

\* read_backup: the chip's identity in ID mode, or the byte.
Identity(a) ==
  CASE a = 0 -> IF flash.big THEN \hC2 ELSE \h32
    [] a = 1 -> IF flash.big THEN \h09 ELSE \h1B
    [] OTHER -> 0

ReadBackup(a) ==
  IF type = "EEPROM" THEN Erased
  ELSE IF Detected = "SRAM" THEN backup[<<0, a>>]
  ELSE IF flash.mode = "ID" THEN Identity(a)
  ELSE backup[<<flash.bank, a>>]
--------------------------------------------------------------------------
(* write_eeprom and read_eeprom: one bit of a DMA transfer each.              *)

AddressBits(size) == IF size = 512 THEN 6 ELSE 14

\* eeprom_address is a byte address in the code, 8 bytes to a block; here it counts blocks.
\* The address comes most significant bit first; the code collects it from bit 15
\* downwards and shifts out the bits the chip does not have.
AddressBit(s, b) ==
  LET e == s.eeprom
      n == e.counter + 1
      address == 2 * e.address + b
  IN IF n < AddressBits(e.size)
     THEN [s EXCEPT !.eeprom.counter = n, !.eeprom.address = address]
     ELSE [s EXCEPT !.eeprom = [e EXCEPT !.counter = 0, !.address = address,
                                  !.mode = IF e.mode = "ADDRESS" THEN "ADDRESS_FOOTER"
                                           ELSE "WRITE"],
                    !.backup = IF e.mode = "ADDRESS" THEN s.backup
                               ELSE [s.backup EXCEPT ![<<0, address>>] = [i \in 1 .. 64 |-> 0]]]

\* Two bits of command: 11 reads, 10 writes, anything else is dropped.
CommandBit(s, b) ==
  LET e == s.eeprom IN
  IF e.counter = 0
  THEN [s EXCEPT !.eeprom.counter = 1, !.eeprom.address = 2 * b]
  ELSE [s EXCEPT !.eeprom = [e EXCEPT !.counter = 0, !.address = 0,
          !.mode = IF e.address = 0 THEN "BASE" ELSE IF b = 1 THEN "ADDRESS"
                   ELSE "WRITE_ADDRESS"]]

DataBit(s, b) ==
  LET e == s.eeprom IN
  [s EXCEPT !.backup[<<0, e.address>>][e.counter + 1] = IF b = 1 THEN 1 ELSE @,
            !.eeprom.counter = (e.counter + 1) % 64,
            !.eeprom.mode = IF e.counter = 63 THEN "WRITE_FOOTER" ELSE @]

WriteEeprom(s, b) ==
  CASE s.eeprom.mode = "BASE" -> CommandBit(s, b)
    [] s.eeprom.mode \in {"ADDRESS", "WRITE_ADDRESS"} -> AddressBit(s, b)
    [] s.eeprom.mode = "WRITE" -> DataBit(s, b)
    [] s.eeprom.mode = "ADDRESS_FOOTER" ->
         [s EXCEPT !.eeprom.counter = 0, !.eeprom.mode = "READ_HEADER"]
    [] s.eeprom.mode = "WRITE_FOOTER" ->
         [s EXCEPT !.eeprom.counter = 0, !.eeprom.mode = "BASE"]
    [] OTHER -> s

\* A read takes one bit out and appends it to s.out.
ReadEeprom(s) ==
  LET e == s.eeprom IN
  CASE e.mode = "BASE" -> [s EXCEPT !.out = Append(@, 1)]
    [] e.mode = "READ_HEADER" ->
         [s EXCEPT !.out = Append(@, 0), !.eeprom.counter = (e.counter + 1) % 4,
                   !.eeprom.mode = IF e.counter = 3 THEN "READ" ELSE @]
    [] e.mode = "READ" ->
         [s EXCEPT !.out = Append(@, s.backup[<<0, e.address>>][e.counter + 1]),
                   !.eeprom.counter = (e.counter + 1) % 64,
                   !.eeprom.mode = IF e.counter = 63 THEN "BASE" ELSE @]
    [] OTHER -> [s EXCEPT !.out = Append(@, 0)]

\* trigger_dma guesses the size from the number of units, before the transfer runs.
DmaSize(n) == IF n % 32 = 17 THEN 8192 ELSE eeprom.size

\* A transfer, unit by unit, that writes to the chip start or reads from it; its elements
\* are the one chip that it leaves.  It goes byte by byte, and the chip between two bytes is an
\* element of a set as well: that gives TLC its value there, so that the evaluation of a
\* long transfer does not nest as deep as the transfer is long.
SerialTransfer(reads, start, units) ==
  LET Unit(c, bit) == IF reads THEN ReadEeprom(c) ELSE WriteEeprom(c, bit)
      bytes == (Len(units) + 7) \div 8
      Byte(k) == SubSeq(units, 8 * k - 7, Min({8 * k, Len(units)}))
      chips[k \in 0 .. bytes] ==
        IF k = 0 THEN {start} ELSE {FoldLeft(Unit, c, Byte(k)) : c \in chips[k - 1]}
  IN chips[bytes]

\* A DMA of bits to the EEPROM, and one of n bits from it.
DmaIn(bits) ==
  SerialTransfer(FALSE,
                 [eeprom |-> [eeprom EXCEPT !.size = DmaSize(Len(bits))], backup |-> backup], bits)

DmaOut(n) ==
  SerialTransfer(TRUE,
                 [eeprom |-> [eeprom EXCEPT !.size = DmaSize(n)], backup |-> backup, out |-> <<>>],
                 [i \in 1 .. n |-> i])
--------------------------------------------------------------------------
(* The game: it asks for one thing after the other, with the cycles its       *)
(* library writes for each.                                                   *)
Unlocked(rest) == <<<<\h5555, \hAA>>, <<\h2AAA, \h55>>>> \o rest

WriteOf(cells, v) == [kind |-> "write", cells |-> cells, value |-> v]
ReadOf(c) == [kind |-> "read", cells |-> {c}, value |-> 0]

\* Requests to a flash chip, with their cycles: program a byte, erase a sector or the
\* chip, select a bank, read the identity.
FlashAsks ==
  {<<WriteOf({<<bank, a>>}, v), Unlocked(<<<<\h5555, \hA0>>, <<a, v>>>>)>> :
     a \in Addrs, v \in Bytes}
  \cup
  {<<WriteOf({c \in Cells : c[1] = bank /\ c[2] \div \h1000 = a \div \h1000}, Erased),
     Unlocked(<<<<\h5555, \h80>>>>) \o Unlocked(<<<<(a \div \h1000) * \h1000, \h30>>>>)>> :
     a \in Addrs}
  \cup
  {<<WriteOf(Cells, Erased),
     Unlocked(<<<<\h5555, \h80>>>>) \o Unlocked(<<<<\h5555, \h10>>>>)>>}
  \cup
  {<<WriteOf({}, b), Unlocked(<<<<\h5555, \hB0>>, <<0, b>>>>)>> :
     b \in IF kind = "flash128" THEN {0, 1} ELSE {}}
  \cup
  {<<WriteOf({}, 0), Unlocked(<<<<\h5555, \h90>>>>) \o Unlocked(<<<<\h5555, \hF0>>>>)>>}

\* SRAM takes bytes as they are.  0xAA at 0x5555 would be taken for a flash command
\* and the memory for flash ever after: games with SRAM are assumed not to write it.
SramAsks ==
  {<<WriteOf({<<0, w[1]>>}, w[2]), <<w>>>> : w \in (Addrs \X Bytes) \ {<<\h5555, \hAA>>}}

\* n as bits, most significant first.
BitsOf(n, width) == [i \in 1 .. width |-> (n \div 2 ^ (width - i)) % 2]
ChipBits == IF kind = "eeprom512" THEN 6 ELSE 14

AskBytes ==
  /\ ~IsEeprom /\ request = Idle /\ asked < MaxAsks
  /\ \E q \in IF kind = "sram" THEN SramAsks ELSE FlashAsks :
       request' = q[1] /\ todo' = q[2]
  /\ asked' = asked + 1
  /\ UNCHANGED <<kind, chip, bank, read, broken>>

AskRead ==
  /\ request = Idle /\ asked < MaxAsks
  /\ \E a \in IF IsEeprom THEN Blocks ELSE Addrs :
       request' = ReadOf(<<IF IsEeprom THEN 0 ELSE bank, a>>)
  /\ asked' = asked + 1
  /\ UNCHANGED <<kind, chip, todo, bank, read, broken>>

AskBlock ==
  /\ IsEeprom /\ request = Idle /\ asked < MaxAsks
  /\ \E b \in Blocks, p \in Patterns : request' = WriteOf({<<0, b>>}, p)
  /\ asked' = asked + 1
  /\ UNCHANGED <<kind, chip, todo, bank, read, broken>>

\* One write of the processor; with the last one the request is done.
WriteCycle ==
  /\ todo # <<>>
  /\ WriteBackup(Head(todo)[1], Head(todo)[2])
  /\ todo' = Tail(todo)
  /\ IF Len(todo) > 1 THEN UNCHANGED <<request, bank>>
     ELSE /\ request' = Idle
          /\ bank' = IF request.cells = {} /\ Head(todo)[1] = 0 THEN request.value ELSE bank
  /\ UNCHANGED <<kind, read, asked, broken>>

ReadCycle ==
  /\ ~IsEeprom /\ request # Idle /\ request.kind = "read"
  /\ read' = [c \in request.cells |-> ReadBackup(c[2])]
  /\ type' = Detected
  /\ request' = Idle
  /\ UNCHANGED <<kind, flash, eeprom, backup, todo, bank, asked, broken>>

\* A write of a block is one DMA: command, address, data, end.
EepromWrite ==
  /\ IsEeprom /\ request # Idle /\ request.kind = "write"
  /\ \E c \in request.cells :
       \E s \in DmaIn(<<1, 0>> \o BitsOf(c[2], ChipBits) \o request.value \o <<0>>) :
         eeprom' = s.eeprom /\ backup' = s.backup
  /\ type' = "EEPROM" /\ request' = Idle
  /\ UNCHANGED <<kind, flash, todo, bank, read, asked, broken>>

\* A read is two: command, address, end; then four idle bits and the block.
EepromRequest ==
  /\ IsEeprom /\ request # Idle /\ request.kind = "read" /\ eeprom.mode = "BASE"
  /\ \E c \in request.cells :
       \E s \in DmaIn(<<1, 1>> \o BitsOf(c[2], ChipBits) \o <<0>>) :
         eeprom' = s.eeprom /\ backup' = s.backup
  /\ type' = "EEPROM"
  /\ UNCHANGED <<kind, flash, gameVars>>

EepromRead ==
  /\ IsEeprom /\ request # Idle /\ request.kind = "read" /\ eeprom.mode # "BASE"
  /\ \E s \in DmaOut(68) :
       /\ eeprom' = s.eeprom
       /\ read' = [c \in request.cells |-> SubSeq(s.out, 5, 68)]
  /\ request' = Idle
  /\ UNCHANGED <<kind, type, flash, backup, todo, bank, asked, broken>>

\* reset_gba in the middle of a request: init_memory puts the protocols back to their
\* start; the contents stay, and so does the size of the flash.
Reset ==
  /\ request # Idle /\ broken < MaxBreaks
  /\ type' = "UNKN" /\ flash' = FlashReset(flash.big) /\ eeprom' = EepromReset
  /\ request' = Idle /\ todo' = <<>> /\ bank' = 0
  /\ broken' = broken + 1
  /\ UNCHANGED <<kind, backup, read, asked>>

BackupNext ==
  \/ AskBytes \/ AskRead \/ AskBlock
  \/ WriteCycle \/ ReadCycle
  \/ EepromWrite \/ EepromRequest \/ EepromRead
  \/ Reset

BackupSpec == BackupInit /\ [][BackupNext]_backupVars
--------------------------------------------------------------------------
(* Properties *)

\* The variables keep their types.
BackupTypeOK ==
  /\ kind \in Kinds /\ type \in {"UNKN", "SRAM", "FLASH", "EEPROM"}
  /\ flash \in [mode : {"BASE", "ID", "ERASE", "WRITE", "BANKSWITCH"}, pos : 0 .. 2,
                big : BOOLEAN, bank : {0, 1}]
  /\ eeprom \in [mode : {"BASE", "READ", "READ_HEADER", "ADDRESS", "WRITE", "WRITE_ADDRESS",
                         "ADDRESS_FOOTER", "WRITE_FOOTER"},
                 counter : 0 .. 63, address : 0 .. 16383, size : {512, 8192}]
  /\ DOMAIN backup = Cells
  /\ bank \in {0, 1} /\ asked \in 0 .. MaxAsks /\ broken \in 0 .. MaxBreaks

\* Whichever memory the cartridge has, the guesses and the protocol add up to a
\* memory: each request of the game takes effect in its cells alone, reads return what
\* was written, and a reset in the middle loses the request and nothing else.
Memory == INSTANCE CartMemory WITH
  cell <- backup, ask <- request, answer <- read, breaks <- broken
IsMemory == Memory!MemSpec
=============================================================================
