--------------------------------- MODULE Rtc ---------------------------------
(***************************************************************************)
(* The real-time clock of a cartridge, on the pins of the GPIO registers   *)
(* (gba_memory.c): a serial protocol the game clocks bit by bit, and may   *)
(* break off at any bit.                                                   *)
(***************************************************************************)
EXTENDS Integers, Sequences, SequencesExt

CONSTANTS
  Clocks,     \* times of day: <<year, month, day, weekday, hour, minute, second>>
  Statuses,   \* bytes the game writes to the status register
  RtcAsks,    \* bound: exchanges
  RtcBreaks   \* bound: exchanges broken off

ASSUME RtcAssumption ==
  Statuses \subseteq 0 .. 255 /\ \A t \in Clocks : t \in [1 .. 7 -> 0 .. 255]

VARIABLES
  clock,     \* localtime: it stands still within a behaviour
  gpio,      \* gpio_regs: pins that are high, pins that are outputs, readable or not
  rtc,       \* rtc_state, rtc_command, rtc_bit_count, rtc_data, rtc_data_bits, rtc_status
  exchange,  \* the game's exchange under way
  cycles,    \* register writes it still needs
  taken,     \* bits it has sampled
  got,       \* what the last read returned
  begun, cut \* history: exchanges so far, and those broken off

gpioVars == <<gpio, rtc>>
rtcVars == <<clock, gpioVars, exchange, cycles, taken, got, begun, cut>>

NoExchange == [kind |-> "idle"]
Shut == [state |-> "DISABLED", command |-> 0, n |-> 0, data |-> <<>>, status |-> 64]
Silent == [pins |-> {}, out |-> {}, shown |-> FALSE]

RtcInit ==
  /\ clock \in Clocks
  /\ gpio = Silent /\ rtc = Shut
  /\ exchange = NoExchange /\ cycles = <<>> /\ taken = <<>> /\ got = <<>>
  /\ begun = 0 /\ cut = 0
--------------------------------------------------------------------------
(* write_rtc and write_gpio.                                                  *)

\* A byte as bits, least significant first: the order in which rtc_data goes out.
LowFirst(v) == [i \in 1 .. 8 |-> (v \div 2 ^ (i - 1)) % 2]
HighFirst(v) == Reverse(LowFirst(v))
ByteOf(bits) == FoldLeft(LAMBDA v, b : 2 * v + b, 0, bits)

Bcd(n) == 16 * ((n % 100) \div 10) + (n % 10)

\* The seven bytes of the time; the month counts from 0.
FullTime ==
  FlattenSeq([i \in 1 .. 7 |-> LowFirst(Bcd(IF i = 2 THEN clock[i] + 1 ELSE clock[i]))])
DayTime == FlattenSeq([i \in 1 .. 3 |-> LowFirst(Bcd(clock[4 + i]))])

\* What a complete command does: 0x60 and 0x62 take a byte, 0x63 gives the status,
\* 0x65 and 0x67 the time.
Obeyed(r, c) ==
  CASE c \in {\h60, \h62} -> [r EXCEPT !.state = "INPUT", !.data = <<>>]
    [] c = \h63 -> [r EXCEPT !.state = "OUTPUT", !.data = LowFirst(r.status)]
    [] c = \h65 -> [r EXCEPT !.state = "OUTPUT", !.data = FullTime]
    [] c = \h67 -> [r EXCEPT !.state = "OUTPUT", !.data = DayTime]
    [] OTHER -> r

Bit(pins) == IF "dat" \in pins THEN 1 ELSE 0

\* A rising clock: a bit of the command, of the byte written, or of the answer.
Clocked(r, pins) ==
  CASE r.state = "COMMAND" ->
         LET c == 2 * r.command + Bit(pins)
             s == [r EXCEPT !.command = c, !.n = (r.n + 1) % 8]
         IN IF r.n = 7 THEN Obeyed(s, c) ELSE s
    [] r.state = "INPUT" ->
         LET d == Append(r.data, Bit(pins))
         IN IF Len(d) < 8 THEN [r EXCEPT !.data = d]
            ELSE [r EXCEPT !.data = <<>>, !.status = ByteOf(d), !.state = "IDLE"]
    [] r.state = "OUTPUT" ->
         [r EXCEPT !.data = Tail(r.data), !.state = IF Len(r.data) = 1 THEN "IDLE" ELSE @]
    [] OTHER -> r

\* Mutant: the bits of a command cut off are counted to the next.
WriteRtcCounting(r, old, new) ==
  IF "css" \notin new THEN [r EXCEPT !.state = "IDLE", !.command = 0]
  ELSE LET s == IF "css" \in old THEN r ELSE [r EXCEPT !.state = "COMMAND"]
       IN IF "clk" \notin old /\ "clk" \in new THEN Clocked(s, new) ELSE s
\* Chip select low resets the protocol; its rise begins a command.
WriteRtc(r, old, new) ==
  IF "css" \notin new THEN [r EXCEPT !.state = "IDLE", !.command = 0, !.n = 0]
  ELSE LET s == IF "css" \in old THEN r ELSE [r EXCEPT !.state = "COMMAND"]
       IN IF "clk" \notin old /\ "clk" \in new THEN Clocked(s, new) ELSE s

\* An answered bit appears on the data pin, if the pin is an input.
PinsAfter(r, old, new) ==
  IF /\ "css" \in old \cap new /\ "clk" \in new \ old
     /\ r.state = "OUTPUT" /\ "dat" \notin gpio.out
  THEN (new \ {"dat"}) \cup (IF r.data[1] = 1 THEN {"dat"} ELSE {})
  ELSE new

WritePins(value) ==
  LET old == gpio.pins
      new == (gpio.pins \ gpio.out) \cup (value \cap gpio.out)
  IN IF new = old THEN UNCHANGED gpioVars
     ELSE /\ rtc' = WriteRtc(rtc, old, new)
          /\ gpio' = [gpio EXCEPT !.pins = PinsAfter(rtc, old, new)]

WriteDirection(value) == gpio' = [gpio EXCEPT !.out = value] /\ UNCHANGED rtc
WriteControl(on) == gpio' = [gpio EXCEPT !.shown = on] /\ UNCHANGED rtc
--------------------------------------------------------------------------
(* The game: its library opens the port, selects the chip, sends a command    *)
(* and then a byte, or takes as many bits as it expects.                      *)
DirWrite(value) == [op |-> "dir", value |-> value, sample |-> FALSE]
PinWrite(value) == [op |-> "pins", value |-> value, sample |-> FALSE]

Out == {"clk", "dat", "css"}
SendBit(b) ==
  LET dat == IF b = 1 THEN {"dat"} ELSE {}
  IN <<PinWrite({"css"} \cup dat), PinWrite({"css", "clk"} \cup dat)>>
TakeBit == <<PinWrite({"css"}), [op |-> "pins", value |-> {"css", "clk"}, sample |-> TRUE]>>

Opening ==
  <<[op |-> "control", value |-> {}, sample |-> FALSE], DirWrite(Out), PinWrite({"clk"}),
    PinWrite({"clk", "css"})>>
Send(bits) == FlattenSeq([i \in 1 .. Len(bits) |-> SendBit(bits[i])])
Take(n) == <<DirWrite({"clk", "css"})>> \o FlattenSeq([i \in 1 .. n |-> TakeBit])
Closing == <<PinWrite({"clk"})>>

WriteStatus(v) ==
  <<[kind |-> "write", cells |-> {"status"}, value |-> LowFirst(v)],
    Opening \o Send(HighFirst(\h62)) \o Send(HighFirst(v)) \o Closing>>
ReadCell(c, command, n) ==
  <<[kind |-> "read", cells |-> {c}, value |-> <<>>],
    Opening \o Send(HighFirst(command)) \o Take(n) \o Closing>>

Exchanges ==
  {WriteStatus(v) : v \in Statuses} \cup
  {ReadCell("status", \h63, 8), ReadCell("date", \h65, 56), ReadCell("time", \h67, 24)}

Begin ==
  /\ exchange = NoExchange /\ begun < RtcAsks
  /\ \E e \in Exchanges : exchange' = e[1] /\ cycles' = e[2]
  /\ begun' = begun + 1 /\ taken' = <<>>
  /\ UNCHANGED <<clock, gpioVars, got, cut>>

\* One register write, after which the game may sample the data pin.
Cycle ==
  /\ cycles # <<>>
  /\ LET w == Head(cycles) IN
       /\ \/ w.op = "dir" /\ WriteDirection(w.value)
          \/ w.op = "control" /\ WriteControl(TRUE)
          \/ w.op = "pins" /\ WritePins(w.value)
       /\ taken' = IF w.sample THEN Append(taken, IF gpio.shown THEN Bit(gpio'.pins) ELSE 0)
                   ELSE taken
  /\ cycles' = Tail(cycles)
  /\ IF Len(cycles) > 1 THEN UNCHANGED <<exchange, got>>
     ELSE /\ exchange' = NoExchange
          /\ got' = IF exchange.kind = "read" THEN [c \in exchange.cells |-> taken] ELSE got
  /\ UNCHANGED <<clock, begun, cut>>

\* A status written counts as asked for until its last bit is in.
Pending ==
  IF exchange # NoExchange /\ exchange.kind = "write" /\ Len(cycles) <= 1
  THEN NoExchange ELSE exchange

\* The game gives up, or is reset: init_memory clears the registers and the state, not
\* the bits of a command counted so far.
GiveUp ==
  /\ exchange # NoExchange /\ cut < RtcBreaks
  /\ \/ UNCHANGED gpioVars
     \/ gpio' = Silent /\ rtc' = [rtc EXCEPT !.state = "DISABLED"]
  /\ exchange' = NoExchange /\ cycles' = <<>> /\ taken' = <<>>
  /\ cut' = IF Pending = NoExchange THEN cut ELSE cut + 1
  /\ UNCHANGED <<clock, got, begun>>

RtcNext == Begin \/ Cycle \/ GiveUp

RtcSpec == RtcInit /\ [][RtcNext]_rtcVars
--------------------------------------------------------------------------
(* Properties *)

\* The variables keep their types.
RtcTypeOK ==
  /\ gpio \in [pins : SUBSET Out, out : SUBSET Out, shown : BOOLEAN]
  /\ rtc.state \in {"DISABLED", "IDLE", "COMMAND", "OUTPUT", "INPUT"}
  /\ rtc.n \in 0 .. 7 /\ rtc.status \in 0 .. 255 /\ rtc.command \in Nat
  /\ Len(rtc.data) \in 0 .. 56

\* What the game should find: the status as bits, and the time as decimal digits of four
\* bits, the lower digit first, with the month counted from 1 and the year in its century.
Digit(n) == [i \in 1 .. 4 |-> (n \div 2 ^ (i - 1)) % 2]
Decimals(numbers) ==
  FlattenSeq([i \in DOMAIN numbers |->
                Digit(numbers[i] % 10) \o Digit((numbers[i] \div 10) % 10)])
TimeCells ==
  [c \in Clocks |->
     [date |-> Decimals(<<c[1] % 100, c[2] + 1, c[3], c[4], c[5], c[6], c[7]>>),
      time |-> Decimals(<<c[5], c[6], c[7]>>)]]
StatusCell == [s \in 0 .. 255 |-> Digit(s % 16) \o Digit(s \div 16)]

\* The clock answers like a memory of three cells: a status that is read as it was
\* written (once a write's last bit is in, though the exchange goes on), and the time,
\* in BCD.  What an exchange broken off at any bit leaves behind never shifts the next.
Store == TimeCells[clock] @@ [status |-> StatusCell[rtc.status]]

Clock == INSTANCE CartMemory WITH
  Idle <- NoExchange, cell <- Store, ask <- Pending, answer <- got, breaks <- cut
ClockIsMemory == Clock!MemSpec
=============================================================================
